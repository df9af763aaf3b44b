--------------------------- MODULE MCDaemonConfig ---------------------------
(***************************************************************************)
(* Passwords of which one is the beginning of another, and one has no bit  *)
(* in common with them.  The configuration is the program's own with a few *)
(* shortcuts, or that with something wrong.                                *)
(***************************************************************************)
EXTENDS DaemonConfig

SomeSecrets == {<<1>>, <<1, 3>>, <<2>>}
SomePlain   == {<<1, 3>>}

SomeKeycodes == "KP_8" :> {80} @@ "Up" :> {111, 80}

MainLines ==
    <<Section("Server"), Param("Host", <<"0.0.0.0">>), Param("Port", <<"9312">>),
      Skipped, Section("Monitor"), Param("MaxFPS", <<"12">>),
      Param("WidthDivisor", <<"1">>), Param("HeightDivisor", <<"3">>),
      Section("Control"), Param("MoveStep", <<"10">>),
      Param("ScaleFactor", <<"12">>),
      Section("Font"), Param("Pattern", <<"FreeSans">>),
      Section("Defaults"), Param("WindowTrackingEnabled", <<"True">>),
      Param("WindowsScale", <<"10">>), Param("DesktopScale", <<"4">>),
      Param("CursorCapturingEnabled", <<"False">>),
      Param("ColorsInvertingEnabled", <<"False">>)>>
Stats == <<Section("Stats"), Param("Enabled", <<"False">>),
           Param("File", <<"/var/log">>)>>

Keys(lines) == <<Section("Shortcuts")>> \o lines \o MainLines \o Stats

Files ==
    {Keys(<<Param("MoveUp", <<"Ctrl", "Alt", "KP_8">>),
            Param("ZoomIn", <<"None">>), Param("ZoomOut", <<"Alt", "Up">>)>>),
     Keys(<<Param("MoveUp", <<"AltLang", "KP_8">>),
            Param("MoveDown", <<"ScrollLock", "Shift", "Up">>)>>)
        \o <<Section("Server"), Single, Param("Port", <<"500">>)>>,
     \* abbreviated and unknown modifiers, too many shortcuts
     Keys(<<Param("MoveUp", <<"C", "", "A", "Up">>)>>),
     Keys(<<Param("MoveUp", <<"Lock", "Up">>)>>),
     Keys(<<Param("MoveUp", <<"Up">>), Param("ZoomIn", <<"KP_8">>),
            Param("ZoomOut", <<"Alt", "KP_8">>)>>),
     \* a number off its bounds, an unknown action, key and section, a line
     \* without a section, one without a value, and the last section missing
     Keys(<<>>) \o <<Section("Monitor"), Param("MaxFPS", <<"500">>)>>,
     Keys(<<Param("Fly", <<"Up">>)>>), Keys(<<Param("ZoomIn", <<"Fly">>)>>),
     Keys(<<>>) \o <<Section("Fly")>>, <<Param("Port", <<"500">>)>> \o MainLines,
     Keys(<<>>) \o <<Section("Monitor"), Param("Port", <<"500">>)>>,
     MainLines \o <<Ambiguous>>, MainLines, NoFile}
=============================================================================
