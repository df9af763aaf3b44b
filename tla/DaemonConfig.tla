---------------------------- MODULE DaemonConfig ----------------------------
(***************************************************************************)
(* What the daemon reads when it starts: the password file (server/        *)
(* security.c), which the passwd command writes, and the configuration     *)
(* file with the shortcuts (server/options.c), which the administrator     *)
(* writes.  A string that is compared is a sequence of bytes without the   *)
(* final zero; a real number stands in a file as its number of tenths.     *)
(***************************************************************************)
EXTENDS IniFile, Shortcuts

CONSTANTS
    ConfigFiles,          \* configurations the administrator may write
    Secrets, Plain,       \* passwords, and those he may write by hand
    SHORTCUTS_MAX_COUNT

ASSUME CountAssumption == SHORTCUTS_MAX_COUNT \in Nat \ {0}

\* crypt returns a string that begins with a dollar sign: a password written
\* by hand that does is taken for such a string.
Dollar == 36
Text   == Seq(1 .. 255) \ {<<>>}
ASSUME SecretsAssumption ==
    Secrets \subseteq Text /\ Plain \subseteq {s \in Text : s[1] # Dollar}

\* Whatever he writes is a file of lines, or there is none.
ASSUME ConfigFilesAssumption == ConfigFiles \subseteq Seq(FileLines) \cup {NoFile}

VARIABLES
    daemon,      \* "down", "password" or "config" read, "up"
    config,      \* lines of the configuration file
    settings,    \* the options and the shortcuts loaded from it
    grabbed,     \* combinations of modifiers and keycodes grabbed
    secretFile,  \* the password file: a string, or Absent
    expected,    \* expected_hash
    passwd,      \* the password a passwd command is writing, or <<>>
    lastSet,     \* history: the password the file was last given
    inForce      \* history: that password when the daemon read it

vars == <<daemon, config, settings, grabbed, secretFile, expected,
                passwd, lastSet, inForce>>

-----------------------------------------------------------------------------
\* Every parameter but the shortcuts is required.
Required(title, keys) ==
    [title |-> title, params |-> [i \in DOMAIN keys |-> Key(keys[i], TRUE)]]

daemon_sections ==
    <<Required("Server",  <<"Host", "Port">>),
      Required("Monitor", <<"MaxFPS", "WidthDivisor", "HeightDivisor">>),
      Required("Control", <<"MoveStep", "ScaleFactor">>),
      Required("Font",    <<"Pattern">>),
      Required("Defaults",
               <<"WindowTrackingEnabled", "WindowsScale", "DesktopScale",
                 "CursorCapturingEnabled", "ColorsInvertingEnabled">>),
      Required("Stats",   <<"Enabled", "File">>),
      [title |-> "Shortcuts", params |-> <<Key(AnyKey, FALSE)>>]>>

bounds == "Port"         :> <<PORT_MIN, PORT_MAX>> @@ "MaxFPS" :> <<1, 100>> @@
          "WidthDivisor" :> <<1, 5>>   @@ "HeightDivisor" :> <<1, 5>> @@
          "MoveStep"     :> <<0, 500>> @@ "ScaleFactor"   :> <<10, 50>> @@
          "WindowsScale" :> <<4, 50>>  @@ "DesktopScale"  :> <<4, 50>>
switches == {"WindowTrackingEnabled", "CursorCapturingEnabled",
             "ColorsInvertingEnabled", "Enabled"}

handlers ==
    {"MoveUp", "MoveDown", "MoveLeft", "MoveRight", "ResetPosition", "ZoomIn",
     "ZoomOut", "ResetScale", "ToggleWindowTracking", "AdjustWindowSize",
     "ToggleCursorCapturing", "ToggleColorsInverting"}

Valid(key, text) ==
    CASE key \in DOMAIN bounds -> parse_int(text, bounds[key][1], bounds[key][2]) # {}
      [] key \in switches      -> parse_bool(text)
      [] OTHER                 -> TRUE

Result(o, error) == [opts |-> o, error |-> error]

load_shortcut(o, key, words) ==
    LET hotkey == shortcuts_parse(words) IN
    CASE words = <<"None">> -> Result(o, "none")
      [] words # <<"None">> /\ Len(o.shortcuts) >= SHORTCUTS_MAX_COUNT - 1 ->
            Result(o, "overflow")
      [] words # <<"None">> /\ Len(o.shortcuts) < SHORTCUTS_MAX_COUNT - 1 ->
            IF key \notin handlers      THEN Result(o, "action")
            ELSE IF hotkey.error # "none" THEN Result(o, hotkey.error)
            ELSE Result([o EXCEPT !.shortcuts =
                            Append(@, [hotkey |-> hotkey, handler |-> key])],
                        "none")

\* A later line for the same key replaces the value.
Put(values, key, v) ==
    [k \in DOMAIN values \cup {key} |-> IF k = key THEN v ELSE values[k]]

load_setting(o, title, key, value) ==
    CASE title = "Shortcuts" -> load_shortcut(o, key, value)
      [] title # "Shortcuts" /\ Valid(key, value[1]) ->
            Result([o EXCEPT !.values = Put(@, key, value[1])], "none")
      [] title # "Shortcuts" /\ ~Valid(key, value[1]) -> Result(o, "value")

NoSettings == [values |-> <<>>, shortcuts |-> <<>>]

\* The daemon's getters are NULL: it saves nothing.
NoGetter(o, key) == <<>>
Ini == INSTANCE IniLoad WITH
    table <- daemon_sections, setter <- load_setting, getter <- NoGetter

options_config_load(lines) == Ini!ini_load(lines, NoSettings)

-----------------------------------------------------------------------------
Absent == <<-1>>

\* Another string for every password; the salt is left out.
crypt(p) == <<Dollar>> \o p

\* The byte at position i of a string, which a zero ends, and the bits of a
\* byte.
At(s, i) == IF i \in DOMAIN s THEN s[i] ELSE 0
Weights  == <<1, 2, 4, 8, 16, 32, 64, 128>>
Ones(b)  == {k \in 1 .. 8 : (b \div Weights[k]) % 2 = 1}
Common(a, b, i) == Ones(At(a, i)) \cap Ones(At(b, i))

\* Mutant of are_strings_equal_stable: what follows the loop is left out.
are_strings_equal_prefix(a, b) ==
    \E end \in 1 .. Len(a) + 1 :
        /\ \A i \in 1 .. end - 1 : Common(a, b, i) # {} /\ At(a, i) = At(b, i)
        /\ Common(a, b, end) = {}

\* The loop goes on as long as the bytes have a bit in common, and the strings
\* are equal if it found them so and ends at the end of both.
are_strings_equal_stable(a, b) ==
    \E end \in 1 .. Len(a) + 1 :
        /\ \A i \in 1 .. end - 1 : Common(a, b, i) # {} /\ At(a, i) = At(b, i)
        /\ Ones(At(a, end)) \cup Ones(At(b, end)) = {}

security_check_password(suggested) ==
    are_strings_equal_stable(
        IF At(expected, 1) = Dollar THEN crypt(suggested) ELSE suggested,
        expected)

-----------------------------------------------------------------------------
Init ==
    /\ daemon = "down" /\ config \in ConfigFiles
    /\ settings = NoSettings /\ grabbed = {}
    /\ expected = <<>> /\ passwd = <<>>
    /\ \/ secretFile = Absent /\ lastSet = <<>>
       \/ secretFile \in Plain /\ lastSet = secretFile
    /\ inForce = <<>>

\* remoteinkd passwd: the password has been typed twice, and is not empty.
\* fopen empties the file ...
Passwd ==
    /\ passwd = <<>>
    /\ passwd' \in Secrets
    /\ secretFile' = <<>>
    /\ UNCHANGED <<daemon, config, settings, grabbed, expected, lastSet, inForce>>

\* ... and fclose writes the hash, or not, if the disk is full or the command
\* is killed.
PasswdWrites ==
    /\ passwd # <<>> /\ passwd' = <<>>
    /\ secretFile' = crypt(passwd) /\ lastSet' = passwd
    /\ UNCHANGED <<daemon, config, settings, grabbed, expected, inForce>>

PasswdDies ==
    /\ passwd # <<>> /\ passwd' = <<>>
    /\ UNCHANGED <<daemon, config, settings, grabbed, secretFile, expected,
                   lastSet, inForce>>

\* Mutant of LoadPassword: an empty file is a password like another.
LoadPasswordEmpty ==
    /\ daemon = "down" /\ secretFile # Absent
    /\ daemon' = "password" /\ expected' = secretFile /\ inForce' = lastSet
    /\ UNCHANGED <<config, settings, grabbed, secretFile, passwd, lastSet>>

\* remoteinkd start: a file that is absent or empty ends it at once.
LoadPassword ==
    /\ daemon = "down" /\ secretFile \notin {Absent, <<>>}
    /\ daemon' = "password" /\ expected' = secretFile /\ inForce' = lastSet
    /\ UNCHANGED <<config, settings, grabbed, secretFile, passwd, lastSet>>

LoadConfig ==
    /\ daemon = "password"
    /\ LET load == options_config_load(config) IN
          /\ settings' = load.opts
          /\ daemon' = IF load.error = "none" THEN "config" ELSE "down"
    /\ UNCHANGED <<config, grabbed, secretFile, expected, passwd, lastSet, inForce>>

\* The shortcuts thread grabs every hotkey; one that another program has
\* grabbed ends the daemon.
GrabHotkeys ==
    /\ daemon = "config"
    /\ \/ /\ daemon' = "up"
          /\ grabbed' = UNION {grab_hotkey(settings.shortcuts[i].hotkey) :
                                    i \in DOMAIN settings.shortcuts}
       \/ daemon' = "down" /\ UNCHANGED grabbed
    /\ UNCHANGED <<config, settings, secretFile, expected, passwd, lastSet, inForce>>

\* The daemon's memory and grabs are gone with it.
Stop ==
    /\ daemon # "down" /\ daemon' = "down" /\ grabbed' = {}
    /\ settings' = NoSettings
    /\ UNCHANGED <<config, secretFile, expected, passwd, lastSet, inForce>>

\* What is written while nobody reads it matters only at the next start.
EditConfig ==
    /\ daemon = "down"
    /\ config' \in ConfigFiles
    /\ UNCHANGED <<daemon, settings, grabbed, secretFile, expected, passwd,
                   lastSet, inForce>>

Next ==
    \/ Passwd \/ PasswdWrites \/ PasswdDies \/ LoadPassword \/ LoadConfig
    \/ GrabHotkeys \/ Stop \/ EditConfig

Spec == Init /\ [][Next]_vars

-----------------------------------------------------------------------------
\* A daemon runs with a password that was once set in full, and admits
\* readers exactly if they send that one, however passwd commands,
\* their crashes and starts are interleaved.
Admission ==
    daemon = "up" =>
        /\ inForce # <<>>
        /\ \A p \in Secrets \cup {<<>>} :
                security_check_password(p) <=> p = inForce

\* The section line i stands in, and where in its section a key is given.
TitleAt(i) ==
    LET before == {j \in 1 .. i : config[j].kind = "section"} IN
    IF before = {} THEN "" ELSE config[Max(before)].title
Given(title, key) ==
    {i \in DOMAIN config : /\ config[i].kind = "param"
                           /\ config[i].key = key /\ TitleAt(i) = title}

\* A daemon that starts has a value for every setting: the last valid one its
\* file gives in the section the setting belongs to.
Configured ==
    daemon \in {"config", "up"} =>
        \A i \in DOMAIN daemon_sections :
            LET section == daemon_sections[i] IN
            \A k \in {p.key : p \in Range(section.params)} \ {AnyKey} :
                LET given == Given(section.title, k) IN
                /\ given # {}
                /\ settings.values[k] = config[Max(given)].value[1]
                /\ Valid(k, settings.values[k])

\* The shortcuts of the file, with the modifiers they name.
Asked ==
    {[handler |-> config[i].key,
      mods    |-> Range(Front(config[i].value)),
      codes   |-> Keycodes[Last(config[i].value)]] :
        i \in {j \in DOMAIN config :
                 /\ config[j].kind = "param" /\ TitleAt(j) = "Shortcuts"
                 /\ config[j].value # <<"None">>}}

\* If the file spells modifiers out: a key is taken from other programs
\* exactly with the modifiers of a shortcut and any of the locks (CapsLock,
\* NumLock ...), and its release then runs what the shortcuts with these or
\* fewer modifiers are for.
ShortcutsAsWritten ==
    (daemon = "up" /\ \A s \in Asked : s.mods \subseteq Modifiers) =>
        \A held \in SUBSET Modifiers, code \in UNION Range(Keycodes) :
            LET asks == {s \in Asked : code \in s.codes /\ s.mods \subseteq held}
                here == \E s \in asks : held \ s.mods \subseteq EXTRA_MODIFIERS
            IN  /\ <<held, code>> \in grabbed <=> here
                /\ here => Called(settings.shortcuts, held, code)
                            = {s.handler : s \in asks}
=============================================================================
