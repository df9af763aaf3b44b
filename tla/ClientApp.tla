----------------------------- MODULE ClientApp ------------------------------
(***************************************************************************)
(* The reader application (client/main.c, client/client.c, client/ui.c):   *)
(* the main thread takes one event after another, and a client thread per  *)
(* connection connects, greets the daemon and runs client_mainloop.  The   *)
(* two share the stage, the controls of the start screen, the screen and   *)
(* the descriptor, and there is no lock: when a session ends the CLIENT    *)
(* thread rebuilds the start screen, and it lets the main thread take      *)
(* events before it has.                                                   *)
(***************************************************************************)
EXTENDS ReaderOptions, Handshake

CONSTANTS Slots      \* client threads alive at a time: a bound

ASSUME SlotsAssumption == "main" \notin Slots

VARIABLES
    at,         \* where each thread is
    stage,      \* "INTRO" or "MONITOR"
    controls,   \* "built", or "freed" while the arrays still point at them
    screen,     \* whose picture it shows, "intro" or "monitor"
    process,    \* client_process
    shut,       \* the socket in use has been shut down
    past        \* history: "hasty" once an event was taken while the start
                \* screen was being rebuilt; else "stale" once a control the
                \* arrays point at was used, or destroyed, after it had been
                \* destroyed; else "switched" once the Switch button was
                \* touched; else "clean"

Main    == "main"
Threads == Slots \cup {Main}
uiVars  == <<stage, controls, screen>>
appVars == <<at, uiVars, process, shut, past>>
vars    == <<readerVars, connVars, appVars>>

Connected == {"greet", "loop", "read", "exec", "confirm", "close"}
Network   == {"query", "socket", "connect"} \cup Connected
Rebuild   == {"intro", "destroy", "build", "paint"}

\* Where a save of the options is followed by what.
After == [savePaint |-> "paint", saveIntro |-> "intro", saveIdle |-> "idle",
          saveError |-> "repaint"]

\* Where a thread is when it has nothing to do, or is not there.
Rest(t)        == IF t = Main THEN "idle" ELSE "none"
Goto(t, place) == at' = [at EXCEPT ![t] = place]

\* A thread works with a socket, which is connected or not yet.
Opened == \E t \in Slots : at[t] \in Connected
Opening == \E t \in Slots : at[t] = "connect"

AppInit ==
    /\ at = [t \in Threads |-> Rest(t)]
    /\ stage = "INTRO" /\ controls = "built" /\ screen = "monitor"
    /\ process = FALSE /\ shut = FALSE /\ past = "clean"

Init == ReaderInit /\ HandshakeInit /\ AppInit

\* EVT_INIT
Launch == StartApp /\ UNCHANGED <<connVars, appVars>>

\* The process ends, with its threads, its memory and its descriptors.
Exit ==
    /\ at' = [t \in Threads |-> Rest(t)]
    /\ stage' = "INTRO" /\ controls' = "built" /\ screen' = "monitor"
    /\ process' = FALSE /\ shut' = FALSE /\ past' = "clean"
    /\ NoConnection

-----------------------------------------------------------------------------
(* show_intro, run by any thread t.                                        *)

\* What the history keeps of a use of the controls.
Touched == IF controls = "freed" /\ past # "hasty" THEN "stale" ELSE past

ShowIntro(t) ==
    /\ at[t] = "intro" /\ Goto(t, "destroy")
    /\ stage' = "INTRO"
    /\ UNCHANGED <<controls, screen, past>>

\* clear_labels destroys what the arrays point at ...
Destroy(t) ==
    /\ at[t] = "destroy" /\ Goto(t, "build")
    /\ controls' = "freed" /\ past' = Touched
    /\ UNCHANGED <<stage, screen>>

\* ... and the new controls take their places.
Build(t) ==
    /\ at[t] = "build" /\ Goto(t, "paint")
    /\ controls' = "built"
    /\ UNCHANGED <<stage, screen, past>>

\* ui_repaint
Paint(t) ==
    /\ at[t] = "paint" /\ Goto(t, Rest(t))
    /\ screen' = "intro" /\ past' = Touched
    /\ UNCHANGED <<stage, controls>>

ShowsIntro(t) ==
    /\ ShowIntro(t) \/ Destroy(t) \/ Build(t) \/ Paint(t)
    /\ UNCHANGED <<readerVars, connVars, process, shut>>

-----------------------------------------------------------------------------
(* The main thread.                                                        *)

Overlap == \E t \in Slots : at[t] \in Rebuild
Hasty   == IF Overlap THEN "hasty" ELSE past
Idle    == appUp /\ at[Main] = "idle"
OnIntro == Idle /\ stage = "INTRO" /\ opts.accepted

\* EVT_SHOW, when a dialog of the system is gone
Show ==
    /\ Idle /\ stage = "INTRO"
    /\ past' = Hasty /\ Goto(Main, "intro")
    /\ UNCHANGED <<readerVars, connVars, uiVars, process, shut>>

\* Until the agreement is accepted the dialog that show_intro has opened takes
\* all events.
Agree ==
    /\ Idle /\ stage = "INTRO" /\ screen = "intro" /\ ~opts.accepted
    /\ past' = Hasty
    /\ Accept /\ Goto(Main, "saveIdle")
    /\ UNCHANGED <<connVars, uiVars, process, shut>>

\* A key that moves the focus, or a touch.
UseControls ==
    /\ OnIntro
    /\ past' = (IF Overlap THEN "hasty" ELSE Touched) /\ screen' = "intro"
    /\ UNCHANGED <<readerVars, connVars, at, stage, controls, process, shut>>

\* The keyboard is closed.  A port number that is wrong is told, when the old
\* one is saved and the screen painted.
EditText ==
    /\ OnIntro
    /\ past' = Hasty
    /\ \/ (EditHost \/ EditPassword) /\ Goto(Main, "savePaint")
       \/ \E n \in Numbers :
            /\ EditPort(n)
            /\ Goto(Main, IF n \in PORT_MIN .. PORT_MAX THEN "savePaint"
                                                        ELSE "saveError")
    /\ UNCHANGED <<connVars, uiVars, process, shut>>

\* The Switch button, by the OK key or by a touch.  At a touch,
\* ui_button_pointer sets button->pressed after the handler has destroyed the
\* button.
Switch ==
    /\ OnIntro
    /\ past' \in {Hasty, IF Hasty = "clean" THEN "switched" ELSE Hasty}
    /\ SwitchOrientation /\ Goto(Main, "saveIntro")
    /\ UNCHANGED <<connVars, uiVars, process, shut>>

\* options_config_save comes to its end.
Saved ==
    /\ at[Main] \in DOMAIN After /\ Goto(Main, After[at[Main]])
    /\ \/ CloseFile
       \/ ~saving /\ UNCHANGED readerVars
    /\ UNCHANGED <<connVars, uiVars, process, shut, past>>

\* change_option_handler's ui_repaint, which show_error follows.
Repaint ==
    /\ at[Main] = "repaint" /\ Goto(Main, "intro")
    /\ screen' = "intro" /\ past' = Touched
    /\ UNCHANGED <<readerVars, connVars, stage, controls, process, shut>>

\* Mutant of Connect: the client thread is to set the stage when it connects.
ConnectLater ==
    /\ OnIntro
    /\ past' = Hasty
    /\ \E t \in Slots : at[t] = "none" /\ Goto(t, "query")
    /\ UNCHANGED <<readerVars, connVars, uiVars, process, shut>>

\* connect_handler and exec_connect; if there can be no thread, show_error.
Connect ==
    /\ OnIntro
    /\ past' = Hasty /\ stage' = "MONITOR"
    /\ \/ \E t \in Slots : at[t] = "none" /\ Goto(t, "query")
       \/ Goto(Main, "intro")
    /\ UNCHANGED <<readerVars, connVars, controls, screen, process, shut>>

\* Mutant of Stop: it shows the start screen.
StopShows ==
    /\ Idle /\ stage = "MONITOR"
    /\ process' = FALSE /\ shut' = Opened
    /\ Goto(Main, "intro")
    /\ UNCHANGED <<readerVars, connVars, uiVars, past>>

\* The Back key: client_shutdown.  What shutdown does to a socket that is not
\* connected yet is up to the system.
Stop ==
    /\ Idle /\ stage = "MONITOR"
    /\ process' = FALSE
    /\ \/ Opened /\ shut' = TRUE
       \/ Opening /\ shut' \in {shut, TRUE}
       \/ ~Opened /\ ~Opening /\ UNCHANGED shut
    /\ UNCHANGED <<readerVars, connVars, at, uiVars, past>>

\* CloseApp, or a rejected agreement; or a death of the process at any time.
QuitApp == Idle /\ stage = "INTRO" /\ Quit /\ Exit
Killed  == Die /\ Exit

MainThread ==
    \/ Launch \/ Show \/ Agree \/ UseControls \/ EditText \/ Switch \/ Saved
    \/ Repaint \/ Connect \/ Stop \/ QuitApp
    \/ ShowsIntro(Main)

-----------------------------------------------------------------------------
(* A client thread: client_connect.                                        *)

\* PANIC: the start screen follows, and the descriptor stays open, which
\* nobody will use.
Fail(t) == Goto(t, "intro") /\ NoConnection /\ shut' = FALSE

\* A write to a connection that has been cut fails, and its signal, which the
\* application does not handle, may end it.
Pipe(t) ==
    \/ Fail(t) /\ UNCHANGED <<readerVars, uiVars, process, past>>
    \/ Killed

\* query_network, whose dialog the user may leave open, and ClearScreen
Query(t) ==
    /\ at[t] = "query" /\ Goto(t, "socket")
    /\ screen' = "monitor"
    /\ UNCHANGED <<readerVars, connVars, stage, controls, process, shut, past>>

Socket(t) ==
    /\ at[t] = "socket"
    /\ Goto(t, "connect") \/ Goto(t, "intro")
    /\ UNCHANGED <<readerVars, connVars, uiVars, process, shut, past>>

\* gethostbyname and connect
Dial(t) ==
    /\ at[t] = "connect"
    /\ \/ Goto(t, "greet") /\ NewConnection /\ UNCHANGED shut
       \/ Fail(t)
    /\ UNCHANGED <<readerVars, uiVars, process, past>>

\* client_handshake: one of three writes.
Greet(t) ==
    /\ at[t] = "greet"
    /\ \/ /\ ~shut /\ written' = written + 1
          /\ Goto(t, IF written' = 3 THEN "loop" ELSE "greet")
          /\ UNCHANGED <<srv, field, mail, end, cause, spoilt>>
          /\ UNCHANGED <<readerVars, uiVars, process, shut, past>>
       \/ (shut \/ end # "open") /\ Pipe(t)

\* client_mainloop begins.
StartLoop(t) ==
    /\ at[t] = "loop" /\ Goto(t, "read")
    /\ process' = TRUE
    /\ UNCHANGED <<readerVars, connVars, uiVars, shut, past>>

\* read returns something: client_exec draws it, or shows the daemon's error
\* and makes the loop end; or the loop shall end anyway.
ReadMail(t) ==
    /\ at[t] = "read" /\ mail # "none"
    /\ Goto(t, IF process /\ mail = "frame" THEN "exec" ELSE "close")
    /\ process' = (process /\ mail = "frame")
    /\ UNCHANGED <<readerVars, connVars, uiVars, shut, past>>

\* Mutant of ReadEnd: only a stop ends the loop.
ReadEndStopped(t) ==
    /\ at[t] = "read" /\ mail = "none"
    /\ \/ /\ ~process \/ shut
          /\ Goto(t, "close")
          /\ UNCHANGED <<connVars, shut>>
       \/ process /\ ~shut /\ end = "reset" /\ Fail(t)
    /\ UNCHANGED <<readerVars, uiVars, process, past>>

\* read returns 0, or -1 after a reset.
ReadEnd(t) ==
    /\ at[t] = "read" /\ mail = "none"
    /\ \/ /\ shut \/ end = "closed" \/ (~process /\ end = "reset")
          /\ Goto(t, "close")
          /\ UNCHANGED <<connVars, shut>>
       \/ process /\ ~shut /\ end = "reset" /\ Fail(t)
    /\ UNCHANGED <<readerVars, uiVars, process, past>>

Draw(t) ==
    /\ at[t] = "exec" /\ Goto(t, "confirm")
    /\ screen' = "monitor"
    /\ UNCHANGED <<readerVars, connVars, stage, controls, process, shut, past>>

\* client_send_confirm, whose error counts only if the loop shall go on.
Confirm(t) ==
    /\ at[t] = "confirm"
    /\ \/ /\ ~shut \/ ~process
          /\ mail' = IF mail = "frame" THEN "none" ELSE mail
          /\ Goto(t, IF process THEN "read" ELSE "close")
          /\ UNCHANGED <<srv, field, written, end, cause, spoilt>>
          /\ UNCHANGED <<readerVars, uiVars, process, shut, past>>
       \/ process /\ (shut \/ end # "open") /\ Pipe(t)
       \/ ~process /\ (shut \/ end # "open") /\ Killed

\* close
Hang(t) ==
    /\ at[t] = "close" /\ Fail(t)
    /\ UNCHANGED <<readerVars, uiVars, process, past>>

Session(t) ==
    \/ Greet(t) \/ StartLoop(t) \/ ReadMail(t) \/ ReadEnd(t) \/ Draw(t)
    \/ Confirm(t) \/ Hang(t)
ClientThread(t) == Socket(t) \/ Dial(t) \/ Session(t) \/ ShowsIntro(t)

Next ==
    \/ MainThread \/ Killed
    \/ \E t \in Slots : Query(t) \/ ClientThread(t)
    \/ DaemonSide /\ UNCHANGED <<readerVars, appVars>>

\* Calls of the system return, except that a dialog may stay open; nobody has
\* to press a key.
Spec == Init /\ [][Next]_vars /\ \A t \in Slots : WF_vars(ClientThread(t))

-----------------------------------------------------------------------------
TypeOK ==
    /\ at \in [Threads ->
                 Network \cup Rebuild \cup DOMAIN After
                   \cup {"repaint", "none", "idle"}]
    /\ stage \in {"INTRO", "MONITOR"}
    /\ controls \in {"built", "freed"} /\ screen \in {"intro", "monitor"}
    /\ appUp \in BOOLEAN /\ saving \in BOOLEAN /\ process \in BOOLEAN
    /\ shut \in BOOLEAN /\ spoilt \in BOOLEAN
    /\ past \in {"clean", "switched", "stale", "hasty"}
    /\ srv \in {"none", "queued", "reads", "session", "refused"}
    /\ field \in DOMAIN Fields /\ written \in 0 .. 3
    /\ mail \in Errors \cup {"none", "frame"} /\ end \in {"open", "closed", "reset"}
    /\ cause \in {"version", "password", "none"}

\* Two client threads are never connecting or connected at a time, whatever
\* is pressed and however long the first takes to come back to the start
\* screen: the descriptor, the registers and the buffer have one user.
OneSession ==
    /\ \A s, t \in Slots : {at[s], at[t]} \subseteq Network => s = t
    /\ (\E t \in Slots : at[t] \in Network) => stage = "MONITOR"

\* If the user waits for the start screen to be there before using it, no
\* thread follows the arrays of controls to one that has been destroyed, to
\* draw it, to give it an event or to destroy it again; and the start screen is
\* never drawn over a session.  The one use of a destroyed control that no
\* patience prevents is not made through the arrays: a Switch that is touched
\* is written to by the ui_button_pointer that called its handler.
Careful ==
    past # "hasty" => /\ past \in {"clean", "switched"}
                      /\ Opened => screen = "monitor"

\* The reader is shown the daemon's reason for sending it away, and no other,
\* unless its fields came in parts, a reset destroyed the message or met a
\* write of its own, the daemon left of itself, or the user stopped.
Told ==
    [][\A t \in Slots :
          (/\ at[t] \in {"read", "confirm"} /\ at'[t] \in {"close", "intro"}
           /\ process /\ ~shut /\ ~spoilt)
             => mail = IF cause = "none" THEN "failure" ELSE cause]_vars

\* A session that the daemon has ended, or the user has shut down, comes back
\* to the start screen, unless a write to it kills the application.
ComesBack ==
    (Opened /\ (shut \/ end # "open")) ~> (stage = "INTRO" \/ ~appUp)
=============================================================================
