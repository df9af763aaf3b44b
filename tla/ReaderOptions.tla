--------------------------- MODULE ReaderOptions ----------------------------
(***************************************************************************)
(* The options of the reader application (client/options.c) and its        *)
(* configuration file, which every change made in its dialogs saves        *)
(* (client/main.c).  fopen empties the file, fprintf only fills a buffer   *)
(* and fclose writes it, its result ignored: if the application dies or    *)
(* the memory of the reader is full, the file stays empty.                 *)
(***************************************************************************)
EXTENDS IniFile

CONSTANTS
    Hosts, Passwords,   \* what the user may type
    DefaultHost, DefaultPassword, DefaultPort

ASSUME DefaultsAssumption ==
    /\ DefaultHost \in Hosts /\ DefaultPassword \in Passwords
    /\ DefaultPort \in Numbers \cap (PORT_MIN .. PORT_MAX)

VARIABLES
    appUp,      \* the application runs
    opts,       \* its options
    file,       \* lines of the configuration file
    saving,     \* the file is open for writing
    kept,       \* history: the options last written in full
    mishap      \* history: a save did not come to its end, or could not begin

readerVars == <<appUp, opts, file, saving, kept, mishap>>

Defaults == [host |-> DefaultHost, port |-> DefaultPort,
             password |-> DefaultPassword, orientation |-> 0,
             accepted |-> FALSE]

orientation_captions == <<"Portrait", "Landscape">>

\* No parameter is required.
reader_sections ==
    <<[title |-> "Server",    params |-> <<Key("Host", FALSE),
                                           Key("Port", FALSE)>>],
      [title |-> "Security",  params |-> <<Key("Password", FALSE)>>],
      [title |-> "Client",    params |-> <<Key("Orientation", FALSE)>>],
      [title |-> "Agreement", params |-> <<Key("Accepted", FALSE)>>]>>

Set(o, error) == [opts |-> o, error |-> error]

\* load_*
LoadOption(o, title, key, value) ==
    LET text == value[1]
        port == parse_int(text, PORT_MIN, PORT_MAX)
        turn == SelectInSeq(orientation_captions, LAMBDA c : c = text)
    IN  CASE key = "Host"     -> Set([o EXCEPT !.host = text], "none")
          [] key = "Password" -> Set([o EXCEPT !.password = text], "none")
          [] key = "Port" ->
                IF port = {} THEN Set(o, "value")
                ELSE Set([o EXCEPT !.port = CHOOSE n \in port : TRUE], "none")
          [] key = "Orientation" ->
                IF turn = 0 THEN Set(o, "value")
                ELSE Set([o EXCEPT !.orientation = turn - 1], "none")
          [] key = "Accepted" ->
                IF parse_bool(text)
                THEN Set([o EXCEPT !.accepted = text = "True"], "none")
                ELSE Set(o, "value")

\* Mutant of SavedOption: the orientation is saved as its number.
SavedOptionAsNumber(o, key) ==
    <<CASE key = "Host"        -> o.host
        [] key = "Password"    -> o.password
        [] key = "Port"        -> ToString(o.port)
        [] key = "Orientation" -> ToString(o.orientation)
        [] key = "Accepted"    -> IF o.accepted THEN "True" ELSE "False">>

\* save_*
SavedOption(o, key) ==
    <<CASE key = "Host"        -> o.host
        [] key = "Password"    -> o.password
        [] key = "Port"        -> ToString(o.port)
        [] key = "Orientation" -> orientation_captions[o.orientation + 1]
        [] key = "Accepted"    -> IF o.accepted THEN "True" ELSE "False">>

Ini == INSTANCE IniLoad WITH
    table <- reader_sections, setter <- LoadOption, getter <- SavedOption

Lines(o) == Ini!ini_save(o)

\* What a start of the application makes of a file; its error is ignored.
Loaded(f) == Ini!ini_load(f, Defaults).opts

-----------------------------------------------------------------------------
ReaderInit ==
    /\ appUp = FALSE /\ opts = Defaults /\ saving = FALSE
    /\ file = NoFile /\ kept = Defaults /\ mishap = FALSE

\* EVT_INIT
StartApp ==
    /\ ~appUp
    /\ appUp' = TRUE /\ opts' = Loaded(file)
    /\ UNCHANGED <<file, saving, kept, mishap>>

\* A dialog ends: the option is changed, and the file is opened for writing;
\* if it cannot be opened nothing is said.
Change(o) ==
    /\ appUp /\ ~saving
    /\ opts' = o
    /\ \/ file' = <<>> /\ saving' = TRUE /\ UNCHANGED mishap
       \/ mishap' = TRUE /\ UNCHANGED <<file, saving>>
    /\ UNCHANGED <<appUp, kept>>

\* fclose writes the buffer, or fails to.
CloseFile ==
    /\ saving /\ saving' = FALSE
    /\ \/ file' = Lines(opts) /\ kept' = opts /\ UNCHANGED mishap
       \/ mishap' = TRUE /\ UNCHANGED <<file, kept>>
    /\ UNCHANGED <<appUp, opts>>

EditHost     == \E h \in Hosts     : Change([opts EXCEPT !.host = h])
EditPassword == \E p \in Passwords : Change([opts EXCEPT !.password = p])

\* A wrong number changes nothing, and is saved all the same.
EditPort(n) ==
    Change(IF n \in PORT_MIN .. PORT_MAX THEN [opts EXCEPT !.port = n] ELSE opts)

SwitchOrientation == Change([opts EXCEPT !.orientation = 1 - @])
Accept            == Change([opts EXCEPT !.accepted = TRUE])

\* The user quits, or the application is killed, or the battery is empty.
Quit == appUp /\ ~saving /\ appUp' = FALSE
        /\ UNCHANGED <<opts, file, saving, kept, mishap>>
Die ==
    /\ appUp
    /\ appUp' = FALSE /\ saving' = FALSE /\ mishap' = (mishap \/ saving)
    /\ UNCHANGED <<opts, file, kept>>

-----------------------------------------------------------------------------
\* What a next start would load is what was last saved in full, or, after a
\* mishap, all the defaults (ini_parser.c:117); it is never a mixture.  And
\* as long as there was none, it is what the user has now.
AllOrNothing ==
    /\ Loaded(file) \in {Defaults, kept}
    /\ (appUp /\ ~saving /\ ~mishap) => Loaded(file) = opts
=============================================================================
