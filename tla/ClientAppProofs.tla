-------------------------- MODULE ClientAppProofs ---------------------------
(***************************************************************************)
(* For any number of client threads: two of them are never connecting or   *)
(* connected at a time, although nothing but the stage keeps them apart; a *)
(* reader that is sent away is told why; the start screen is used when     *)
(* it is there.  And the options it runs with are those its file had, or   *)
(* none, whatever became of a save.                                        *)
(***************************************************************************)
EXTENDS ClientApp, WellFoundedInduction, SequenceTheorems, TLAPS

Places ==
    Network \cup Rebuild \cup DOMAIN After \cup {"repaint", "none", "idle"}

\* A client thread that has not given the stage back yet.
Busy(t) == at[t] \in Network \cup {"intro"}

OneBusy == \A s, t \in Slots : Busy(s) /\ Busy(t) => s = t

\* While there is one, the main thread does not touch the start screen, not
\* even to come to an end with something it began before.
Steady == \A t \in Slots : Busy(t) => stage = "MONITOR" /\ at[Main] = "idle"

\* A thread that greets has a write before it.
Unwritten == \A t \in Slots : at[t] = "greet" => written \in 0 .. 2

AppInvariant == TypeOK /\ OneBusy /\ Steady /\ Unwritten

\* The places where the main thread saves options.
LEMMA SavePlaces ==
    /\ DOMAIN After = {"savePaint", "saveIntro", "saveIdle", "saveError"}
    /\ After["savePaint"] = "paint" /\ After["saveIntro"] = "intro"
    /\ After["saveIdle"] = "idle" /\ After["saveError"] = "repaint"
BY DEF After

\* A client thread that is busy may go anywhere, if the stage stays.
LEMMA BusyMoves ==
    ASSUME AppInvariant, NEW t \in Slots, Busy(t), NEW p \in Places,
           Goto(t, p), UNCHANGED stage
    PROVE  /\ at' \in [Threads -> Places] /\ stage' \in {"INTRO", "MONITOR"}
           /\ OneBusy' /\ Steady'
<1>1. at \in [Threads -> Places] /\ t \in Threads /\ t # Main
  BY SlotsAssumption DEF AppInvariant, TypeOK, Places, Threads, Main
<1>2. at' = [at EXCEPT ![t] = p]
  BY DEF Goto
<1>3. \A s \in Slots : Busy(s)' => s = t
  BY <1>1, <1>2 DEF AppInvariant, OneBusy, Busy, Threads
<1>4. stage' = "MONITOR" /\ at'[Main] = "idle"
  BY <1>1, <1>2 DEF AppInvariant, Steady, Threads
<1> QED BY <1>1, <1>2, <1>3, <1>4 DEF OneBusy, Steady

\* A thread that gives the stage back, or rebuilds the start screen, does not
\* become busy by that.
LEMMA IdleMoves ==
    ASSUME AppInvariant, NEW t \in Threads, NEW p \in Places, Goto(t, p),
           t = Main => ~ \E s \in Slots : Busy(s),
           t # Main => p \notin Network \cup {"intro"},
           UNCHANGED stage \/ (stage' \in {"INTRO", "MONITOR"} /\
                                 \A s \in Slots : Busy(s) => s = t)
    PROVE  /\ at' \in [Threads -> Places] /\ stage' \in {"INTRO", "MONITOR"}
           /\ OneBusy' /\ Steady'
<1>1. at \in [Threads -> Places] /\ at' = [at EXCEPT ![t] = p]
  BY DEF AppInvariant, TypeOK, Places, Goto
<1>2. Main \in Threads /\ Main \notin Slots /\ Slots \subseteq Threads
  BY SlotsAssumption DEF Threads, Main
<1>3. \A s \in Slots : Busy(s)' => Busy(s) /\ s # t
  BY <1>1, <1>2 DEF Busy
<1>4. \A s \in Slots : Busy(s)' => stage' = stage /\ at'[Main] = at[Main]
  BY <1>1, <1>2, <1>3
<1> QED BY <1>1, <1>3, <1>4 DEF AppInvariant, TypeOK, OneBusy, Steady

-----------------------------------------------------------------------------
\* The daemon reads three fields.
LEMMA ThreeFields == DOMAIN Fields = 1 .. 3 /\ Len(Fields) = 3
BY DEF Fields

\* A save of the options begins, or not, and the stage is left alone.
LEMMA SavesKeepType ==
    ASSUME AppInvariant,
           EditHost \/ EditPassword \/ (\E n \in Numbers : EditPort(n))
             \/ SwitchOrientation \/ Accept
    PROVE  appUp' \in BOOLEAN /\ saving' \in BOOLEAN
<1>1. ASSUME NEW o, Change(o)
      PROVE  appUp' \in BOOLEAN /\ saving' \in BOOLEAN
  BY <1>1 DEF Change, AppInvariant, TypeOK
<1> QED
  BY <1>1 DEF EditHost, EditPassword, EditPort, SwitchOrientation, Accept

\* An end of the process leaves what it was before the first start.
LEMMA ExitKeeps ==
    ASSUME AppInvariant, Exit, appUp' \in BOOLEAN, saving' \in BOOLEAN
    PROVE  AppInvariant'
<1>1. at' = [t \in Threads |-> Rest(t)]
  BY DEF Exit
<1>2. \A t \in Slots : t \in Threads /\ at'[t] = "none"
  BY <1>1, SlotsAssumption DEF Threads, Rest, Main
<1>3. at' \in [Threads -> {"none", "idle"}]
  BY <1>1 DEF Rest
<1>4. /\ stage' \in {"INTRO", "MONITOR"}
      /\ controls' \in {"built", "freed"} /\ screen' \in {"intro", "monitor"}
      /\ process' \in BOOLEAN /\ shut' \in BOOLEAN
      /\ past' \in {"clean", "switched", "stale", "hasty"}
  BY DEF Exit
<1>5. /\ srv' \in {"none", "queued", "reads", "session", "refused"}
      /\ mail' \in Errors \cup {"none", "frame"}
      /\ end' \in {"open", "closed", "reset"}
      /\ cause' \in {"version", "password", "none"} /\ spoilt' \in BOOLEAN
      /\ field' = 1 /\ written' = 0
  BY DEF Exit, NoConnection
<1>6. TypeOK'
  BY <1>3, <1>4, <1>5, ThreeFields DEF TypeOK
<1>7. OneBusy' /\ Steady' /\ Unwritten'
  BY <1>2 DEF OneBusy, Steady, Unwritten, Busy, Network, Connected
<1> QED BY <1>6, <1>7 DEF AppInvariant

\* The steps of the daemon do not concern the threads of the reader.
LEMMA DaemonKeeps ==
    ASSUME AppInvariant, DaemonSide, UNCHANGED <<readerVars, appVars>>
    PROVE  AppInvariant'
<1> USE DEF AppInvariant, TypeOK
<1>1. /\ srv' \in {"none", "queued", "reads", "session", "refused"}
      /\ spoilt' \in BOOLEAN /\ end' \in {"open", "closed", "reset"}
      /\ written' = written /\ cause' = cause
  BY DEF DaemonSide, AcceptReader, Read, ReadShort, CloseRefused, SendFrame,
         SendFailure, Leave, Refuse, Proceed, Close, Reset, ResetAndLose
<1>2. field' \in DOMAIN Fields
  <2>1. CASE Read
    <3>1. field' = field \/ (field # 3 /\ field' = field + 1)
      BY <2>1, ThreeFields DEF Read, Refuse, Proceed
    <3> QED BY <3>1, ThreeFields
  <2>2. CASE ~Read
    BY <2>2 DEF DaemonSide, AcceptReader, ReadShort, CloseRefused, SendFrame,
         SendFailure, Leave, Refuse, Close, Reset, ResetAndLose
  <2> QED BY <2>1, <2>2
<1>3. mail' \in Errors \cup {"none", "frame"}
  <2>1. CASE Read
    BY <2>1 DEF Read, Refuse, Proceed, Fields, Errors
  <2>2. CASE SendFailure
    BY <2>2 DEF SendFailure, Refuse, Errors
  <2>3. CASE AcceptReader \/ ReadShort \/ CloseRefused \/ SendFrame \/ Leave
    BY <2>3 DEF AcceptReader, ReadShort, CloseRefused, SendFrame, Leave,
                Close, Reset, ResetAndLose
  <2> QED BY <2>1, <2>2, <2>3 DEF DaemonSide
<1>4. TypeOK'
  BY <1>1, <1>2, <1>3 DEF readerVars, appVars, uiVars
<1>5. OneBusy' /\ Steady' /\ Unwritten'
  BY <1>1 DEF appVars, uiVars, OneBusy, Steady, Unwritten, Busy
<1> QED BY <1>4, <1>5

-----------------------------------------------------------------------------
\* What a step leaves of the invariant that does not touch the connection's
\* record, when the threads and the stage are known to be right.
LEMMA QuietKeeps ==
    ASSUME AppInvariant, UNCHANGED connVars,
           /\ at' \in [Threads -> Places] /\ stage' \in {"INTRO", "MONITOR"}
           /\ OneBusy' /\ Steady',
           \A t \in Slots : at'[t] = "greet" => at[t] = "greet",
           appUp' \in BOOLEAN, saving' \in BOOLEAN, process' \in BOOLEAN,
           shut' \in BOOLEAN, past' \in {"clean", "switched", "stale", "hasty"},
           controls' \in {"built", "freed"}, screen' \in {"intro", "monitor"}
    PROVE  AppInvariant'
<1>1. TypeOK'
  BY DEF AppInvariant, TypeOK, connVars, Places
<1>2. Unwritten'
  BY DEF AppInvariant, Unwritten, connVars
<1> QED BY <1>1, <1>2 DEF AppInvariant

\* The start screen, shown by whatever thread.
LEMMA IntroKeeps ==
    ASSUME AppInvariant, NEW t \in Threads, ShowsIntro(t)
    PROVE  AppInvariant'
<1> DEFINE p == at'[t]
<1>1. at \in [Threads -> Places] /\ Main \in Threads /\ Main \notin Slots
        /\ Slots \subseteq Threads
  BY SlotsAssumption DEF AppInvariant, TypeOK, Places, Threads, Main
<1>2. /\ at[t] \in Rebuild
      /\ p \in {"destroy", "build", "paint", Rest(t)} /\ Goto(t, p)
  BY <1>1 DEF ShowsIntro, ShowIntro, Destroy, Build, Paint, Goto, Rebuild
<1>3. p \in Places /\ (t # Main => p \notin Network \cup {"intro"})
  BY <1>2 DEF Places, Rebuild, Rest, Network, Connected
<1>4. t = Main => ~ \E s \in Slots : Busy(s)
  BY <1>2 DEF AppInvariant, Steady, Rebuild
<1>5. stage' = stage \/ (stage' = "INTRO" /\ at[t] = "intro")
  BY DEF ShowsIntro, ShowIntro, Destroy, Build, Paint
<1>6. at[t] = "intro" => \A s \in Slots : Busy(s) => s = t
  BY <1>1, <1>4 DEF AppInvariant, OneBusy, Busy, Threads
<1>7. /\ at' \in [Threads -> Places] /\ stage' \in {"INTRO", "MONITOR"}
      /\ OneBusy' /\ Steady'
  <2> HIDE DEF p
  <2> QED BY <1>2, <1>3, <1>4, <1>5, <1>6, IdleMoves
<1>8. \A s \in Slots : at'[s] = "greet" => at[s] = "greet"
  BY <1>1, <1>2, <1>3 DEF Goto, Network, Connected
<1>9. /\ UNCHANGED <<connVars, appUp, saving, process, shut>>
      /\ past' \in {"clean", "switched", "stale", "hasty"}
      /\ controls' \in {"built", "freed"} /\ screen' \in {"intro", "monitor"}
  BY DEF ShowsIntro, ShowIntro, Destroy, Build, Paint, readerVars,
         AppInvariant, TypeOK, Touched
<1>10. UNCHANGED connVars
  BY <1>9
<1>11. /\ appUp' \in BOOLEAN /\ saving' \in BOOLEAN
       /\ process' \in BOOLEAN /\ shut' \in BOOLEAN
  BY <1>9 DEF AppInvariant, TypeOK
<1> QED BY <1>7, <1>8, <1>9, <1>10, <1>11, QuietKeeps

\* What the main thread does of its own.
LEMMA MainKeeps ==
    ASSUME AppInvariant,
           Show \/ Agree \/ EditText \/ Switch \/ Saved \/ Repaint
    PROVE  AppInvariant'
<1> DEFINE p == at'[Main]
<1>1. at \in [Threads -> Places] /\ Main \in Threads /\ Main \notin Slots
        /\ Slots \subseteq Threads
  BY SlotsAssumption DEF AppInvariant, TypeOK, Places, Threads, Main
<1>2. p \in Places /\ Goto(Main, p)
  BY <1>1, SavePlaces
     DEF Show, Agree, EditText, Switch, Saved, Repaint, Goto, Places, Rebuild
<1>3. ~ \E s \in Slots : Busy(s)
  BY SavePlaces DEF AppInvariant, Steady, Show, Agree, EditText, Switch, Saved,
         Repaint, Idle, OnIntro
<1>4. UNCHANGED stage /\ UNCHANGED <<connVars, process, shut>>
  BY DEF Show, Agree, EditText, Switch, Saved, Repaint, uiVars
<1>5. /\ past' \in {"clean", "switched", "stale", "hasty"}
      /\ controls' \in {"built", "freed"} /\ screen' \in {"intro", "monitor"}
  BY DEF Show, Agree, EditText, Switch, Saved, Repaint, uiVars, Hasty, Touched,
         AppInvariant, TypeOK
<1>6. appUp' \in BOOLEAN /\ saving' \in BOOLEAN
  <2>1. CASE Show \/ Repaint
    BY <2>1 DEF Show, Repaint, readerVars, AppInvariant, TypeOK
  <2>2. CASE Agree \/ EditText \/ Switch
    BY <2>2, SavesKeepType DEF Agree, EditText, Switch
  <2>3. CASE Saved
    BY <2>3 DEF Saved, CloseFile, readerVars, AppInvariant, TypeOK
  <2> QED BY <2>1, <2>2, <2>3
<1>7. /\ at' \in [Threads -> Places] /\ stage' \in {"INTRO", "MONITOR"}
      /\ OneBusy' /\ Steady'
  <2> HIDE DEF p
  <2> QED BY <1>1, <1>2, <1>3, <1>4, IdleMoves
<1>8. \A s \in Slots : at'[s] = "greet" => at[s] = "greet"
  BY <1>1, <1>2 DEF Goto
<1>9. process' \in BOOLEAN /\ shut' \in BOOLEAN /\ UNCHANGED connVars
  BY <1>4 DEF AppInvariant, TypeOK
<1> QED BY <1>5, <1>6, <1>7, <1>8, <1>9, QuietKeeps

\* A connection is asked for where there is none.
LEMMA ConnectKeeps ==
    ASSUME AppInvariant, Connect
    PROVE  AppInvariant'
<1>1. at \in [Threads -> Places] /\ Main \in Threads /\ Main \notin Slots
        /\ Slots \subseteq Threads
  BY SlotsAssumption DEF AppInvariant, TypeOK, Places, Threads, Main
<1>2. (\A s \in Slots : ~Busy(s)) /\ at[Main] = "idle" /\ stage' = "MONITOR"
  BY DEF AppInvariant, Steady, Connect, OnIntro, Idle
<1>3. /\ at' \in [Threads -> Places] /\ OneBusy' /\ Steady'
      /\ \A s \in Slots : at'[s] = "greet" => at[s] = "greet"
  <2>1. ASSUME NEW t \in Slots, Goto(t, "query")
        PROVE  <1>3!:
    BY <1>1, <1>2, <2>1
       DEF Goto, Places, Network, OneBusy, Steady, Busy
  <2>2. CASE Goto(Main, "intro")
    BY <1>1, <1>2, <2>2
       DEF Goto, Places, Rebuild, OneBusy, Steady, Busy
  <2> QED BY <2>1, <2>2 DEF Connect
<1>4. /\ past' \in {"clean", "switched", "stale", "hasty"}
      /\ controls' \in {"built", "freed"} /\ screen' \in {"intro", "monitor"}
  BY DEF Connect, Hasty, AppInvariant, TypeOK
<1>5. /\ appUp' \in BOOLEAN /\ saving' \in BOOLEAN /\ process' \in BOOLEAN
      /\ shut' \in BOOLEAN /\ UNCHANGED connVars
  BY DEF Connect, readerVars, AppInvariant, TypeOK
<1> QED BY <1>2, <1>3, <1>4, <1>5, QuietKeeps

\* The events that move no thread.
LEMMA EventKeeps ==
    ASSUME AppInvariant, Launch \/ UseControls \/ Stop
    PROVE  AppInvariant'
<1>1. UNCHANGED <<at, stage>> /\ UNCHANGED connVars
  BY DEF Launch, UseControls, Stop, appVars, uiVars
<1>2. /\ at' \in [Threads -> Places] /\ stage' \in {"INTRO", "MONITOR"}
      /\ OneBusy' /\ Steady' /\ \A s \in Slots : at'[s] = "greet" => at[s] = "greet"
  BY <1>1 DEF AppInvariant, TypeOK, Places, OneBusy, Steady, Busy
<1>3. /\ past' \in {"clean", "switched", "stale", "hasty"}
      /\ controls' \in {"built", "freed"} /\ screen' \in {"intro", "monitor"}
  BY DEF Launch, UseControls, Stop, appVars, uiVars, Touched, AppInvariant, TypeOK
<1>4. /\ appUp' \in BOOLEAN /\ saving' \in BOOLEAN
      /\ process' \in BOOLEAN /\ shut' \in BOOLEAN
  <2>1. CASE Launch
    BY <2>1 DEF Launch, StartApp, appVars, AppInvariant, TypeOK
  <2>2. CASE UseControls
    BY <2>2 DEF UseControls, readerVars, AppInvariant, TypeOK
  <2>3. CASE Stop
    BY <2>3 DEF Stop, readerVars, AppInvariant, TypeOK
  <2> QED BY <2>1, <2>2, <2>3
<1> QED BY <1>1, <1>2, <1>3, <1>4, QuietKeeps

\* The process may end at any time.
LEMMA EndKeeps ==
    ASSUME AppInvariant, QuitApp \/ Killed
    PROVE  AppInvariant'
<1>1. Exit /\ appUp' \in BOOLEAN /\ saving' \in BOOLEAN
  BY DEF QuitApp, Quit, Killed, Die, AppInvariant, TypeOK
<1> QED BY <1>1, ExitKeeps

-----------------------------------------------------------------------------
\* The types of the connection's record.
ConnType ==
    /\ srv \in {"none", "queued", "reads", "session", "refused"}
    /\ field \in DOMAIN Fields /\ written \in 0 .. 3
    /\ mail \in Errors \cup {"none", "frame"}
    /\ end \in {"open", "closed", "reset"}
    /\ cause \in {"version", "password", "none"}
    /\ spoilt \in BOOLEAN

\* A busy thread has the connection for itself.
LEMMA BusyKeeps ==
    ASSUME AppInvariant, NEW t \in Slots, Busy(t), NEW p \in Places,
           Goto(t, p), UNCHANGED <<readerVars, stage, controls, past>>,
           screen' \in {"intro", "monitor"}, process' \in BOOLEAN,
           shut' \in BOOLEAN, ConnType',
           p = "greet" => written' \in 0 .. 2
    PROVE  AppInvariant'
<1>1. /\ at' \in [Threads -> Places] /\ stage' \in {"INTRO", "MONITOR"}
      /\ OneBusy' /\ Steady'
  BY BusyMoves
<1>2. appUp' \in BOOLEAN /\ saving' \in BOOLEAN
  BY DEF readerVars, AppInvariant, TypeOK
<1>3. TypeOK'
  BY <1>1, <1>2 DEF AppInvariant, TypeOK, ConnType, Places
<1>4. t \in Threads /\ at \in [Threads -> Places]
  BY DEF AppInvariant, TypeOK, Places, Threads
<1>5. \A s \in Slots : s # t => ~Busy(s) /\ at'[s] = at[s]
  BY <1>4 DEF AppInvariant, OneBusy, Goto, Threads
<1>6. \A s \in Slots : s # t => at'[s] # "greet"
  BY <1>5 DEF Busy, Network, Connected
<1>7. at'[t] = p
  BY <1>4 DEF Goto
<1>8. Unwritten'
  BY <1>6, <1>7 DEF Unwritten
<1> QED BY <1>1, <1>3, <1>8 DEF AppInvariant

\* A connection that is forgotten, and one that begins, are well formed.
LEMMA NewConnType ==
    ASSUME NoConnection \/ NewConnection
    PROVE  ConnType' /\ written' \in 0 .. 2
<1>1. /\ field' = 1 /\ written' = 0 /\ mail' = "none" /\ end' = "open"
      /\ srv' \in {"none", "queued"}
      /\ cause' \in {"version", "password", "none"}
  BY DEF NoConnection, NewConnection
<1>2. spoilt' \in BOOLEAN
  BY DEF NoConnection, NewConnection
<1> QED BY <1>1, <1>2, ThreeFields DEF ConnType

\* Whatever goes wrong, the start screen follows.
LEMMA FailKeeps ==
    ASSUME AppInvariant, NEW t \in Slots, Busy(t), Fail(t),
           UNCHANGED <<readerVars, uiVars, past>>, process' \in BOOLEAN
    PROVE  AppInvariant'
<1>1. /\ Goto(t, "intro") /\ "intro" \in Places
      /\ shut' \in BOOLEAN /\ ConnType'
      /\ screen' \in {"intro", "monitor"}
      /\ UNCHANGED <<readerVars, stage, controls, past>>
  BY NewConnType DEF Fail, Places, Rebuild, uiVars, AppInvariant, TypeOK
<1> QED BY <1>1, BusyKeeps

\* A write that fails, and may end the process.
LEMMA PipeKeeps ==
    ASSUME AppInvariant, NEW t \in Slots, Busy(t), Pipe(t)
    PROVE  AppInvariant'
<1>1. CASE Killed
  BY <1>1, EndKeeps
<1>2. CASE Fail(t) /\ UNCHANGED <<readerVars, uiVars, process, past>>
  <2>1. process' \in BOOLEAN /\ UNCHANGED <<readerVars, uiVars, past>>
    BY <1>2 DEF AppInvariant, TypeOK
  <2> QED BY <1>2, <2>1, FailKeeps
<1> QED BY <1>1, <1>2 DEF Pipe

\* Before the connection is there: client_connect.
LEMMA DialKeeps ==
    ASSUME AppInvariant, NEW t \in Slots, Query(t) \/ Socket(t) \/ Dial(t)
    PROVE  AppInvariant'
<1>1. Busy(t)
  BY DEF Query, Socket, Dial, Busy, Network
<1>2. process' \in BOOLEAN /\ UNCHANGED <<readerVars, stage, controls, past>>
  BY DEF Query, Socket, Dial, uiVars, AppInvariant, TypeOK
<1>3. CASE Query(t) \/ Socket(t)
  <2>1. /\ shut' \in BOOLEAN /\ ConnType'
        /\ screen' \in {"intro", "monitor"}
    BY <1>3 DEF Query, Socket, connVars, uiVars, AppInvariant, TypeOK, ConnType
  <2>2. Goto(t, "socket") \/ Goto(t, "connect") \/ Goto(t, "intro")
    BY <1>3 DEF Query, Socket
  <2>3. {"socket", "connect", "intro"} \subseteq Places
    BY DEF Places, Network, Rebuild
  <2> QED BY <1>1, <1>2, <2>1, <2>2, <2>3, BusyKeeps
<1>4. CASE Dial(t) /\ Fail(t)
  <2>1. UNCHANGED <<readerVars, uiVars, past>>
    BY <1>4 DEF Dial
  <2> QED BY <1>1, <1>2, <1>4, <2>1, FailKeeps
<1>5. CASE Dial(t) /\ Goto(t, "greet") /\ NewConnection /\ UNCHANGED shut
  <2>1. /\ shut' \in BOOLEAN /\ ConnType' /\ written' \in 0 .. 2
        /\ screen' \in {"intro", "monitor"} /\ "greet" \in Places
    BY <1>5, NewConnType
       DEF Dial, uiVars, AppInvariant, TypeOK, Places, Network, Connected
  <2> QED BY <1>1, <1>2, <1>5, <2>1, BusyKeeps
<1> QED BY <1>3, <1>4, <1>5 DEF Dial

\* The three writes of the reader's handshake.
LEMMA GreetKeeps ==
    ASSUME AppInvariant, NEW t \in Slots, Greet(t)
    PROVE  AppInvariant'
<1>1. Busy(t) /\ written \in 0 .. 2
  BY DEF Greet, Busy, Network, Connected, AppInvariant, Unwritten
<1>2. CASE Pipe(t)
  BY <1>1, <1>2, PipeKeeps
<1>3. CASE ~Pipe(t)
  <2> DEFINE p == IF written' = 3 THEN "loop" ELSE "greet"
  <2>1. /\ written' = written + 1 /\ Goto(t, p)
        /\ UNCHANGED <<srv, field, mail, end, cause, spoilt>>
        /\ UNCHANGED <<readerVars, uiVars, process, shut, past>>
    BY <1>3 DEF Greet
  <2>2. p \in Places /\ (p = "greet" => written' \in 0 .. 2)
    BY <1>1, <2>1 DEF Places, Network, Connected
  <2>3. /\ ConnType' /\ process' \in BOOLEAN /\ shut' \in BOOLEAN
        /\ screen' \in {"intro", "monitor"}
        /\ UNCHANGED <<readerVars, stage, controls, past>>
    BY <1>1, <2>1 DEF AppInvariant, TypeOK, ConnType, uiVars
  <2> HIDE DEF p
  <2> QED BY <1>1, <2>1, <2>2, <2>3, BusyKeeps
<1> QED BY <1>2, <1>3

\* client_mainloop, but for its end.
LEMMA LoopKeeps ==
    ASSUME AppInvariant, NEW t \in Slots,
           StartLoop(t) \/ ReadMail(t) \/ Draw(t)
    PROVE  AppInvariant'
<1>1. Busy(t)
  BY DEF StartLoop, ReadMail, Draw, Busy, Network, Connected
<1>2. /\ Goto(t, "read") \/ Goto(t, "exec") \/ Goto(t, "close")
           \/ Goto(t, "confirm")
      /\ {"read", "exec", "close", "confirm"} \subseteq Places
  BY DEF StartLoop, ReadMail, Draw, Places, Network, Connected
<1>3. /\ UNCHANGED <<readerVars, stage, controls, past>>
      /\ screen' \in {"intro", "monitor"} /\ shut' \in BOOLEAN /\ ConnType'
  BY DEF StartLoop, ReadMail, Draw, uiVars, connVars, AppInvariant, TypeOK,
         ConnType
<1>4. process' \in BOOLEAN
  BY DEF StartLoop, ReadMail, Draw, AppInvariant, TypeOK
<1> QED BY <1>1, <1>2, <1>3, <1>4, BusyKeeps

\* The end of client_mainloop, and of the descriptor.
LEMMA HangKeeps ==
    ASSUME AppInvariant, NEW t \in Slots, ReadEnd(t) \/ Hang(t)
    PROVE  AppInvariant'
<1>1. /\ Busy(t) /\ UNCHANGED <<readerVars, uiVars, past>>
      /\ process' \in BOOLEAN
  BY DEF ReadEnd, Hang, Busy, Network, Connected, AppInvariant, TypeOK
<1>2. CASE Fail(t)
  BY <1>1, <1>2, FailKeeps
<1>3. CASE ~Fail(t)
  <2>1. Goto(t, "close") /\ UNCHANGED <<connVars, shut>>
    BY <1>3 DEF ReadEnd, Hang
  <2>2. /\ "close" \in Places /\ ConnType' /\ shut' \in BOOLEAN
        /\ screen' \in {"intro", "monitor"}
        /\ UNCHANGED <<readerVars, stage, controls, past>>
    BY <1>1, <2>1 DEF Places, Network, Connected, connVars, uiVars, ConnType,
                      AppInvariant, TypeOK
  <2> QED BY <1>1, <2>1, <2>2, BusyKeeps
<1> QED BY <1>2, <1>3

\* client_send_confirm
LEMMA ConfirmKeeps ==
    ASSUME AppInvariant, NEW t \in Slots, Confirm(t)
    PROVE  AppInvariant'
<1>1. Busy(t)
  BY DEF Confirm, Busy, Network, Connected
<1>2. CASE Pipe(t)
  BY <1>1, <1>2, PipeKeeps
<1>3. CASE Killed
  BY <1>3, EndKeeps
<1>4. CASE ~Pipe(t) /\ ~Killed
  <2>1. /\ Goto(t, "read") \/ Goto(t, "close")
        /\ mail' \in {mail, "none"}
        /\ UNCHANGED <<srv, field, written, end, cause, spoilt>>
        /\ UNCHANGED <<readerVars, uiVars, process, shut, past>>
    BY <1>4 DEF Confirm
  <2>2. /\ {"read", "close"} \subseteq Places
        /\ ConnType' /\ process' \in BOOLEAN /\ shut' \in BOOLEAN
        /\ screen' \in {"intro", "monitor"}
        /\ UNCHANGED <<readerVars, stage, controls, past>>
    BY <2>1 DEF AppInvariant, TypeOK, ConnType, uiVars, Places, Network,
                Connected
  <2> QED BY <1>1, <2>1, <2>2, BusyKeeps
<1> QED BY <1>2, <1>3, <1>4

-----------------------------------------------------------------------------
\* No thread is there at first.
LEMMA InitApp == Init => AppInvariant
<1> SUFFICES ASSUME Init PROVE AppInvariant
  OBVIOUS
<1>1. at = [t \in Threads |-> Rest(t)]
  BY DEF Init, AppInit
<1>2. at \in [Threads -> {"none", "idle"}]
  BY <1>1 DEF Rest
<1>3. /\ stage \in {"INTRO", "MONITOR"} /\ controls \in {"built", "freed"}
      /\ screen \in {"intro", "monitor"} /\ past \in {"clean", "switched", "stale", "hasty"}
      /\ srv \in {"none", "queued", "reads", "session", "refused"}
      /\ field = 1 /\ written = 0 /\ mail = "none" /\ end = "open"
      /\ cause \in {"version", "password", "none"}
  BY DEF Init, AppInit, HandshakeInit
<1>4. /\ appUp \in BOOLEAN /\ saving \in BOOLEAN /\ process \in BOOLEAN
      /\ shut \in BOOLEAN /\ spoilt \in BOOLEAN
  BY DEF Init, AppInit, HandshakeInit, ReaderInit
<1>5. TypeOK
  BY <1>2, <1>3, <1>4, ThreeFields DEF TypeOK
<1>6. \A t \in Slots : at[t] = "none"
  BY <1>1, SlotsAssumption DEF Threads, Rest, Main
<1> QED
  BY <1>5, <1>6 DEF AppInvariant, OneBusy, Steady, Unwritten, Busy, Network,
                    Connected

\* Every step keeps the invariant.
LEMMA StepApp == AppInvariant /\ [Next]_vars => AppInvariant'
<1> SUFFICES ASSUME AppInvariant, [Next]_vars PROVE AppInvariant'
  OBVIOUS
<1>1. CASE MainThread
  <2>1. Main \in Threads
    BY DEF Threads
  <2> QED
    BY <1>1, <2>1, IntroKeeps, MainKeeps, ConnectKeeps, EventKeeps, EndKeeps
       DEF MainThread
<1>2. CASE Killed
  BY <1>2, EndKeeps
<1>3. ASSUME NEW t \in Slots, Query(t) \/ ClientThread(t)
      PROVE  AppInvariant'
  <2>1. t \in Threads
    BY DEF Threads
  <2> QED
    BY <1>3, <2>1, DialKeeps, GreetKeeps, LoopKeeps, HangKeeps, ConfirmKeeps,
       IntroKeeps DEF ClientThread, Session
<1>4. CASE DaemonSide /\ UNCHANGED <<readerVars, appVars>>
  BY <1>4, DaemonKeeps
<1>5. CASE UNCHANGED vars
  BY <1>5 DEF vars, readerVars, connVars, appVars, uiVars, AppInvariant,
              TypeOK, OneBusy, Steady, Unwritten, Busy
<1> QED BY <1>1, <1>2, <1>3, <1>4, <1>5 DEF Next

\* The invariant holds in every reachable state.
THEOREM AppCorrect == Spec => []AppInvariant
<1>1. Init => AppInvariant
  BY InitApp
<1>2. AppInvariant /\ [Next]_vars => AppInvariant'
  BY StepApp
<1> QED BY <1>1, <1>2, PTL DEF Spec

\* Every variable keeps its type: no thread is lost, no field is read behind
\* the last one, and no write follows the third.
THEOREM AppTypes == Spec => []TypeOK
<1>1. AppInvariant => TypeOK
  BY DEF AppInvariant
<1> QED BY <1>1, AppCorrect, PTL

\* The stage alone, without a lock, keeps two sessions apart, however many
\* threads still come back from one.
THEOREM OneSessionOnly == Spec => []OneSession
<1>1. AppInvariant => OneSession
  BY DEF AppInvariant, OneBusy, Steady, OneSession, Busy
<1> QED BY <1>1, AppCorrect, PTL

-----------------------------------------------------------------------------
(* What the reader is told.                                                *)

\* Why the daemon would send this reader away.
Reason == IF cause = "none" THEN "failure" ELSE cause

\* A message is the reason, and is still there when the daemon has closed;
\* and the daemon does not come past a field that is wrong.
Answered ==
    /\ srv = "refused" => mail = Reason
    /\ mail \in Errors => mail = Reason
    /\ end # "open" /\ spoilt = FALSE => mail = Reason
    /\ srv = "session" => cause = "none"
    /\ srv \in {"queued", "reads"} =>
          /\ cause = "version" => field = 1
          /\ cause = "password" => field \in 1 .. 2

\* The daemon's side keeps this.
LEMMA DaemonAnswers ==
    ASSUME AppInvariant, Answered, DaemonSide
    PROVE  Answered'
<1>1. /\ Fields[1] = "version" /\ Fields[2] = "password"
      /\ Fields[3] = "dimensions" /\ Len(Fields) = 3
  BY DEF Fields
<1>2. /\ field \in 1 .. 3 /\ cause \in {"version", "password", "none"}
      /\ mail \in Errors \cup {"none", "frame"} /\ spoilt \in BOOLEAN
  BY ThreeFields DEF AppInvariant, TypeOK
<1>3. CASE AcceptReader
  BY <1>3 DEF AcceptReader, Answered, Reason
<1>4. CASE Read
  <2>1. CASE cause = Fields[field]
    <3>1. /\ cause # "none" /\ mail' = cause /\ srv' = "refused"
          /\ UNCHANGED <<field, end, cause, spoilt>>
      BY <1>1, <1>2, <1>4, <2>1 DEF Read, Refuse
    <3> QED BY <3>1 DEF Answered, Reason
  <2>2. CASE cause # Fields[field] /\ field = 3
    <3>1. /\ cause = "none" /\ srv' = "session"
          /\ UNCHANGED <<field, mail, end, cause, spoilt>>
      BY <1>1, <1>2, <1>4, <2>2 DEF Read, Proceed, Answered
    <3> QED BY <3>1 DEF Answered, Reason
  <2>3. CASE cause # Fields[field] /\ field # 3
    <3>1. /\ field' = field + 1 /\ srv = "reads" /\ srv' = "reads"
          /\ UNCHANGED <<mail, end, cause, spoilt>>
      BY <1>1, <1>4, <2>3 DEF Read, Proceed
    <3>2. /\ cause # "version" /\ (cause = "password" => field = 1)
      BY <1>1, <1>2, <2>3, <3>1 DEF Answered
    <3> QED BY <1>2, <3>1, <3>2 DEF Answered, Reason
  <2> QED BY <2>1, <2>2, <2>3
<1>5. CASE SendFrame
  BY <1>5 DEF SendFrame, Answered, Reason, Errors
<1>6. CASE SendFailure
  BY <1>6 DEF SendFailure, Refuse, Answered, Reason
<1>7. CASE ReadShort \/ Leave
  BY <1>7 DEF ReadShort, Leave, Close, Reset, ResetAndLose, Answered, Reason,
              Errors
<1>8. CASE CloseRefused
  BY <1>2, <1>8 DEF CloseRefused, Close, Reset, ResetAndLose, Answered, Reason,
              Errors
<1> QED BY <1>3, <1>4, <1>5, <1>6, <1>7, <1>8 DEF DaemonSide

\* So does every step.
LEMMA StepAnswers == AppInvariant /\ Answered /\ [Next]_vars => Answered'
<1> SUFFICES ASSUME AppInvariant, Answered, [Next]_vars PROVE Answered'
  OBVIOUS
<1>1. CASE UNCHANGED connVars
  BY <1>1 DEF connVars, Answered, Reason
<1>2. CASE NoConnection
  BY <1>2 DEF NoConnection, Answered, Reason, Errors
<1>3. CASE NewConnection
  BY <1>3 DEF NewConnection, Answered, Reason, Errors
<1>4. CASE DaemonSide
  BY <1>4, DaemonAnswers
<1>5. CASE UNCHANGED <<srv, field, end, cause, spoilt>> /\ mail' \in {mail, "none"}
             /\ (mail' # mail => mail = "frame")
  BY <1>5 DEF Answered, Reason, Errors, AppInvariant, TypeOK
<1>6. ASSUME NEW t \in Slots, Greet(t) \/ Confirm(t)
      PROVE  \/ UNCHANGED <<srv, field, end, cause, spoilt>>
                  /\ mail' \in {mail, "none"} /\ (mail' # mail => mail = "frame")
             \/ NoConnection
  BY <1>6 DEF Greet, Confirm, Pipe, Fail, Killed, Exit
<1>7. ASSUME NEW t \in Threads, ShowsIntro(t)
      PROVE  UNCHANGED connVars
  BY <1>7 DEF ShowsIntro
<1>8. MainThread => UNCHANGED connVars \/ NoConnection
  BY <1>7 DEF MainThread, Launch, Show, Agree, UseControls, EditText, Switch,
              Saved, Repaint, Connect, Stop, QuitApp, Exit, Threads
<1>9. ASSUME NEW t \in Slots, Query(t) \/ Socket(t) \/ StartLoop(t) \/ ReadMail(t)
                              \/ ReadEnd(t) \/ Draw(t) \/ Hang(t) \/ Dial(t)
      PROVE  UNCHANGED connVars \/ NoConnection \/ NewConnection
  BY <1>9 DEF Query, Socket, StartLoop, ReadMail, ReadEnd, Draw, Hang, Dial,
              Fail
<1>10. Killed => NoConnection
  BY DEF Killed, Exit
<1>11. CASE UNCHANGED vars
  BY <1>1, <1>11 DEF vars
<1>12. Slots \subseteq Threads
  BY DEF Threads
<1> QED
  BY <1>1, <1>2, <1>3, <1>4, <1>5, <1>6, <1>7, <1>8, <1>9, <1>10, <1>11, <1>12
     DEF Next, ClientThread, Session

\* Only three steps end the loop of a session.
LEMMA LoopEnds ==
    ASSUME AppInvariant, Next, NEW t \in Slots, at[t] \in {"read", "confirm"},
           at'[t] \in {"close", "intro"}
    PROVE  ReadMail(t) \/ ReadEnd(t) \/ Confirm(t)
<1>1. at \in [Threads -> Places] /\ t \in Threads /\ Main \in Threads
        /\ t # Main /\ Slots \subseteq Threads
  BY SlotsAssumption DEF AppInvariant, TypeOK, Places, Threads, Main
<1>2. ASSUME NEW s \in Threads, NEW p, Goto(s, p)
      PROVE  s = t
  BY <1>1, <1>2 DEF Goto
<1>3. ASSUME NEW s \in Threads
      PROVE  ~ShowsIntro(s)
  BY <1>1, <1>2 DEF ShowsIntro, ShowIntro, Destroy, Build, Paint
<1>4. ~(UNCHANGED at) /\ ~Exit
  BY <1>1 DEF Exit, Rest
<1>5. ~MainThread
  BY <1>1, <1>2, <1>3, <1>4
     DEF MainThread, Launch, Show, Agree, UseControls, EditText, Switch, Saved,
         Repaint, Connect, Stop, QuitApp, appVars
<1>6. ~Killed /\ ~(UNCHANGED appVars)
  BY <1>4 DEF Killed, appVars
<1>7. PICK s \in Slots : Query(s) \/ ClientThread(s)
  BY <1>5, <1>6 DEF Next
<1>8. s = t
  <2>1. \E p : Goto(s, p)
    BY <1>1, <1>3, <1>6, <1>7
       DEF ClientThread, Session, Query, Socket, Dial, Greet, StartLoop,
           ReadMail, ReadEnd, Draw, Confirm, Hang, Pipe, Fail
  <2> QED BY <1>1, <1>2, <2>1
<1> QED
  BY <1>1, <1>3, <1>7, <1>8
     DEF ClientThread, Session, Query, Socket, Dial, Greet, StartLoop, Draw, Hang

\* Whatever the reader has wrong and wherever the daemon stops, the reader is
\* shown that reason, unless a history variable says why it cannot be.
THEOREM ReasonTold == Spec => Told
<1>1. ASSUME AppInvariant, Answered, [Next]_vars, NEW t \in Slots,
             at[t] \in {"read", "confirm"}, at'[t] \in {"close", "intro"},
             process, ~shut, ~spoilt
      PROVE  mail = Reason
  <2>1. Next
    BY <1>1 DEF vars, appVars
  <2>2. ReadMail(t) \/ ReadEnd(t) \/ Confirm(t)
    BY <1>1, <2>1, LoopEnds
  <2>3. CASE ReadMail(t)
    BY <1>1, <2>3 DEF ReadMail, Goto, Answered, AppInvariant, TypeOK, Threads
  <2>4. CASE ReadEnd(t)
    BY <1>1, <2>4 DEF ReadEnd, Answered, AppInvariant, TypeOK
  <2>5. CASE Confirm(t)
    BY <1>1, <2>5 DEF Confirm, Pipe, Fail, Killed, Exit, Goto, Answered,
                      AppInvariant, TypeOK, Threads
  <2> QED BY <2>2, <2>3, <2>4, <2>5
<1>2. Init => Answered
  BY DEF Init, HandshakeInit, Answered, Errors
<1>3. AppInvariant /\ Answered /\ [Next]_vars => Answered'
  BY StepAnswers
<1>4. AppInvariant /\ Answered /\ [Next]_vars =>
        [\A t \in Slots :
            (/\ at[t] \in {"read", "confirm"} /\ at'[t] \in {"close", "intro"}
             /\ process /\ ~shut /\ ~spoilt)
               => mail = IF cause = "none" THEN "failure" ELSE cause]_vars
  BY <1>1 DEF Reason
<1> QED BY <1>2, <1>3, <1>4, AppCorrect, PTL DEF Spec, Told

-----------------------------------------------------------------------------
(* The start screen.                                                       *)

\* A client thread never saves options, nor waits for events.
SlotPlaces == \A t \in Slots : at[t] \in Network \cup Rebuild \cup {"none"}

Active(t) == at[t] \notin {"none", "idle"}

\* If the user waits, one thread at a time does anything at all, destroyed
\* controls are those that this thread is about to build anew, and the screen
\* is the session's from the first step after query_network.
CarefulOK ==
    past # "hasty" =>
        /\ past \in {"clean", "switched"}
        /\ \A s, t \in Threads : Active(s) /\ Active(t) => s = t
        /\ controls = "freed" => \E t \in Threads : at[t] = "build"
        /\ \A t \in Slots : at[t] \in Network \ {"query"} => screen = "monitor"

\* A step of a client thread that does not concern the start screen.
LEMMA NetworkCareful ==
    ASSUME AppInvariant, SlotPlaces, CarefulOK, NEW t \in Slots,
           at[t] \in Network, NEW p \in Network \cup {"intro"}, Goto(t, p),
           UNCHANGED <<controls, past>>,
           \/ UNCHANGED screen /\ (at[t] = "query" => p = "query")
           \/ screen' = "monitor"
    PROVE  SlotPlaces' /\ CarefulOK'
<1>1. at \in [Threads -> Places] /\ t \in Threads /\ Slots \subseteq Threads
  BY DEF AppInvariant, TypeOK, Places, Threads
<1>2. at' = [at EXCEPT ![t] = p] /\ Active(t) /\ at[t] # "build"
  BY DEF Goto, Active, Network, Connected
<1>3. SlotPlaces'
  BY <1>1, <1>2 DEF SlotPlaces, Rebuild
<1>4. \A s \in Threads : Active(s)' => Active(s)
  BY <1>1, <1>2 DEF Active
<1>5. \A s \in Threads : at[s] = "build" => at'[s] = "build"
  BY <1>1, <1>2
<1>6. past # "hasty" => \A s \in Slots : at'[s] \in Network \ {"query"} => screen' = "monitor"
  <2> SUFFICES ASSUME past # "hasty", NEW s \in Slots,
                      at'[s] \in Network \ {"query"}, screen' # "monitor"
               PROVE  FALSE
    OBVIOUS
  <2>1. s = t \/ at[s] \in Network \ {"query"}
    BY <1>1, <1>2
  <2>2. s = t => at[t] \in Network \ {"query"}
    BY <1>1, <1>2
  <2> QED BY <2>1, <2>2 DEF CarefulOK
<1> QED BY <1>3, <1>4, <1>5, <1>6 DEF CarefulOK

\* A client thread's step, but for the start screen.
LEMMA SessionCareful ==
    ASSUME AppInvariant, SlotPlaces, CarefulOK, NEW t \in Slots,
           Query(t) \/ Socket(t) \/ Dial(t) \/ Session(t), ~Killed
    PROVE  SlotPlaces' /\ CarefulOK'
<1> DEFINE p == at'[t]
<1>1. at \in [Threads -> Places] /\ t \in Threads
  BY DEF AppInvariant, TypeOK, Places, Threads
<1>2. at[t] \in Network
  BY DEF Query, Socket, Dial, Session, Greet, StartLoop, ReadMail, ReadEnd, Draw,
         Confirm, Hang, Network, Connected
<1>3. UNCHANGED <<controls, past>>
  BY DEF Query, Socket, Dial, Session, Greet, StartLoop, ReadMail, ReadEnd, Draw,
         Confirm, Hang, Pipe, uiVars
<1>4. /\ Goto(t, p) /\ p \in Network \cup {"intro"}
      /\ \/ UNCHANGED screen /\ at[t] # "query"
         \/ screen' = "monitor"
  BY <1>1
     DEF Query, Socket, Dial, Session, Greet, StartLoop, ReadMail, ReadEnd, Draw,
         Confirm, Hang, Pipe, Fail, Goto, uiVars, Network, Connected
<1> HIDE DEF p
<1> QED BY <1>2, <1>3, <1>4, NetworkCareful

\* The start screen is built by a thread that is alone.
LEMMA IntroCareful ==
    ASSUME AppInvariant, SlotPlaces, CarefulOK, NEW t \in Threads, ShowsIntro(t)
    PROVE  SlotPlaces' /\ CarefulOK'
<1> DEFINE p == at'[t]
<1>1. at \in [Threads -> Places] /\ Slots \subseteq Threads
  BY DEF AppInvariant, TypeOK, Places, Threads
<1>2. /\ at' = [at EXCEPT ![t] = p] /\ Active(t)
      /\ p \in {"destroy", "build", "paint", Rest(t)}
      /\ p = "build" <=> at[t] = "destroy"
  BY <1>1 DEF ShowsIntro, ShowIntro, Destroy, Build, Paint, Goto, Active, Rest
<1>3. SlotPlaces'
  BY <1>1, <1>2, SlotsAssumption DEF SlotPlaces, Rebuild, Rest, Main
<1>4. p \notin Network
  BY <1>2 DEF Rest, Network, Connected
<1>5. CASE past = "hasty"
  BY <1>3, <1>5
     DEF ShowsIntro, ShowIntro, Destroy, Build, Paint, Touched, CarefulOK
<1>6. CASE past # "hasty"
  <2>1. /\ past \in {"clean", "switched"}
        /\ \A s \in Threads : Active(s) => s = t
    BY <1>2, <1>6 DEF CarefulOK
  <2>2. controls = "freed" => at[t] = "build"
    BY <1>6, <2>1 DEF CarefulOK, Active
  <2>3. /\ past' \in {"clean", "switched"}
        /\ controls' = "freed" => at[t] = "destroy"
    BY <2>1, <2>2
       DEF ShowsIntro, ShowIntro, Destroy, Build, Paint, Touched
  <2>4. \A s \in Threads : Active(s)' => s = t
    BY <1>1, <1>2, <2>1 DEF Active
  <2>5. \A s \in Slots : at'[s] \notin Network
    BY <1>1, <1>2, <1>4, <2>1 DEF Active, Network, Connected
  <2>6. at[t] = "destroy" => at'[t] = "build"
    BY <1>1, <1>2
  <2> QED BY <1>3, <2>3, <2>4, <2>5, <2>6 DEF CarefulOK
<1> QED BY <1>5, <1>6

\* An event that begins something finds nobody at work, or it was hasty.
LEMMA EventCareful ==
    ASSUME AppInvariant, SlotPlaces, CarefulOK,
           Show \/ Agree \/ EditText \/ Switch \/ Connect
    PROVE  SlotPlaces' /\ CarefulOK'
<1>1. at \in [Threads -> Places] /\ Main \in Threads /\ Main \notin Slots
        /\ Threads = Slots \cup {Main}
  BY SlotsAssumption DEF AppInvariant, TypeOK, Places, Threads, Main
<1>2. /\ past' = Hasty \/ (past' = "switched" /\ Hasty = "clean")
      /\ at[Main] = "idle" /\ stage = "INTRO"
      /\ UNCHANGED <<controls, screen>>
  BY DEF Show, Agree, EditText, Switch, Connect, OnIntro, Idle, uiVars
<1>3. PICK t \in Threads : \E p \in {"intro", "saveIdle", "savePaint", "saveIntro",
                                     "saveError", "query"} :
           Goto(t, p) /\ (t # Main => p = "query")
  BY <1>1 DEF Show, Agree, EditText, Switch, Connect
<1>4. PICK p \in {"intro", "saveIdle", "savePaint", "saveIntro", "saveError",
               "query"} :
           at' = [at EXCEPT ![t] = p] /\ (t # Main => p = "query")
  BY <1>3 DEF Goto
<1>5. SlotPlaces'
  BY <1>1, <1>4 DEF SlotPlaces, Network
<1>6. CASE past' = "hasty"
  BY <1>5, <1>6 DEF CarefulOK
<1>7. CASE past' # "hasty"
  <2>1. past # "hasty" /\ past' \in {past, "switched"} /\ ~Overlap
    BY <1>2, <1>7 DEF Hasty
  <2>2. \A s \in Slots : at[s] = "none"
    BY <1>2, <2>1 DEF SlotPlaces, Overlap, AppInvariant, Steady, Busy
  <2>3. \A s \in Threads : ~Active(s) /\ at[s] # "build"
    BY <1>1, <1>2, <2>2 DEF Active
  <2>4. past' \in {"clean", "switched"} /\ controls # "freed"
    BY <2>1, <2>3 DEF CarefulOK
  <2>5. \A s \in Threads : Active(s)' => s = t
    BY <1>1, <1>4, <2>3 DEF Active
  <2>6. \A s \in Slots : at'[s] \in {"none", "query", "intro"} \cup DOMAIN After
    BY <1>1, <1>4, <2>2, SavePlaces
  <2>7. \A s \in Slots : at'[s] \notin Network \ {"query"}
    BY <2>6, SavePlaces DEF Network, Connected
  <2> QED BY <1>2, <1>5, <2>1, <2>4, <2>5, <2>7 DEF CarefulOK
<1> QED BY <1>6, <1>7

\* The other steps.
LEMMA OtherCareful ==
    ASSUME AppInvariant, SlotPlaces, CarefulOK,
           \/ Launch \/ UseControls \/ Stop \/ Saved \/ Repaint \/ QuitApp
           \/ Killed \/ UNCHANGED appVars
    PROVE  SlotPlaces' /\ CarefulOK'
<1>1. at \in [Threads -> Places] /\ Main \in Threads /\ Main \notin Slots
        /\ Threads = Slots \cup {Main}
  BY SlotsAssumption DEF AppInvariant, TypeOK, Places, Threads, Main
<1>2. CASE Launch \/ Stop \/ UNCHANGED appVars
  BY <1>2 DEF Launch, Stop, appVars, uiVars, SlotPlaces, CarefulOK, Active
<1>3. CASE UseControls
  <2>1. at[Main] = "idle" /\ stage = "INTRO" /\ UNCHANGED <<at, controls>>
    BY <1>3 DEF UseControls, OnIntro, Idle
  <2>2. SlotPlaces'
    BY <2>1 DEF SlotPlaces
  <2>3. CASE Overlap \/ past = "hasty"
    BY <1>3, <2>2, <2>3 DEF UseControls, Touched, CarefulOK
  <2>4. CASE ~Overlap /\ past # "hasty"
    <3>1. \A s \in Slots : at[s] = "none"
      BY <2>1, <2>4 DEF SlotPlaces, Overlap, AppInvariant, Steady, Busy
    <3>2. controls # "freed"
      BY <1>1, <2>1, <2>4, <3>1 DEF CarefulOK
    <3>3. past' \in {"clean", "switched"}
      BY <1>3, <2>4, <3>2 DEF UseControls, Touched, CarefulOK
    <3>4. \A s \in Slots : at'[s] \notin Network
      BY <2>1, <3>1 DEF Network, Connected
    <3> QED BY <2>1, <2>2, <2>4, <3>2, <3>3, <3>4 DEF CarefulOK, Active
  <2> QED BY <2>3, <2>4
<1>4. CASE Saved
  <2>1. /\ at[Main] \in {"savePaint", "saveIntro", "saveIdle", "saveError"}
        /\ \E p \in Places : at' = [at EXCEPT ![Main] = p]
        /\ UNCHANGED <<controls, screen, past>>
    BY <1>4, SavePlaces DEF Saved, Goto, uiVars, Places, Rebuild
  <2>2. \A s \in Slots : at'[s] = at[s]
    BY <1>1, <2>1
  <2>3. \A s \in Threads : Active(s)' => Active(s)
    BY <1>1, <2>1, <2>2 DEF Active
  <2>4. \A s \in Threads : at[s] = "build" => at'[s] = "build"
    BY <1>1, <2>1, <2>2
  <2> QED BY <1>1, <2>1, <2>2, <2>3, <2>4 DEF SlotPlaces, CarefulOK
<1>5. CASE QuitApp \/ Killed
  <2>1. /\ at' = [t \in Threads |-> Rest(t)]
        /\ past' = "clean" /\ controls' = "built"
    BY <1>5 DEF QuitApp, Killed, Exit
  <2>2. \A t \in Threads : at'[t] \in {"none", "idle"}
    BY <2>1 DEF Rest
  <2>3. \A t \in Slots : at'[t] = "none"
    BY <1>1, <2>1 DEF Rest
  <2> QED
    BY <1>1, <2>1, <2>2, <2>3
       DEF SlotPlaces, CarefulOK, Active, Network, Connected
<1>6. CASE Repaint
  <2>1. /\ at[Main] = "repaint" /\ at' = [at EXCEPT ![Main] = "intro"]
        /\ past' = Touched /\ UNCHANGED controls
    BY <1>6 DEF Repaint, Goto
  <2>2. \A s \in Slots : at'[s] = at[s]
    BY <1>1, <2>1
  <2>3. SlotPlaces'
    BY <2>2 DEF SlotPlaces
  <2>4. CASE past = "hasty"
    BY <2>1, <2>3, <2>4 DEF Touched, CarefulOK
  <2>5. CASE past # "hasty"
    <3>1. \A s \in Threads : Active(s) => s = Main
      BY <1>1, <2>1, <2>5 DEF CarefulOK, Active
    <3>2. controls # "freed"
      BY <2>1, <2>5, <3>1 DEF CarefulOK, Active
    <3>3. past' \in {"clean", "switched"}
      BY <2>1, <2>5, <3>2 DEF Touched, CarefulOK
    <3>4. \A s \in Threads : Active(s)' => s = Main
      BY <1>1, <2>1, <3>1 DEF Active
    <3>5. \A s \in Slots : at'[s] \notin Network
      BY <1>1, <2>2, <3>1 DEF Active, Network, Connected
    <3> QED BY <2>1, <2>3, <3>2, <3>3, <3>4, <3>5 DEF CarefulOK
  <2> QED BY <2>4, <2>5
<1> QED BY <1>2, <1>3, <1>4, <1>5, <1>6

\* A user who waits for the start screen makes no thread follow the arrays to a
\* control that is destroyed, and sees no start screen drawn over a session.
\* What a touched Switch does to its own button is not a use of the arrays.
THEOREM CarefulUser == Spec => []Careful
<1> DEFINE Inv == AppInvariant /\ SlotPlaces /\ CarefulOK
<1>1. Init => SlotPlaces /\ CarefulOK
  <2> SUFFICES ASSUME Init PROVE SlotPlaces /\ CarefulOK
    OBVIOUS
  <2>1. /\ at = [t \in Threads |-> Rest(t)]
        /\ past = "clean" /\ controls = "built"
    BY DEF Init, AppInit
  <2>2. /\ \A t \in Threads : at[t] \in {"none", "idle"}
        /\ \A t \in Slots : at[t] = "none"
    BY <2>1, SlotsAssumption DEF Rest, Threads, Main
  <2> QED BY <2>1, <2>2 DEF SlotPlaces, CarefulOK, Active, Network, Connected
<1>2. AppInvariant /\ SlotPlaces /\ CarefulOK /\ [Next]_vars
        => (SlotPlaces /\ CarefulOK)'
  <2> SUFFICES ASSUME AppInvariant, SlotPlaces, CarefulOK, [Next]_vars
               PROVE  SlotPlaces' /\ CarefulOK'
    OBVIOUS
  <2>1. Slots \subseteq Threads /\ Main \in Threads
    BY DEF Threads
  <2>2. CASE MainThread
    BY <2>1, <2>2, EventCareful, OtherCareful, IntroCareful DEF MainThread
  <2>3. ASSUME NEW t \in Slots, Query(t) \/ ClientThread(t)
        PROVE  SlotPlaces' /\ CarefulOK'
    BY <2>1, <2>3, SessionCareful, OtherCareful, IntroCareful DEF ClientThread
  <2>4. CASE Killed
    BY <2>4, OtherCareful
  <2>5. CASE UNCHANGED vars \/ (DaemonSide /\ UNCHANGED <<readerVars, appVars>>)
    BY <2>5, OtherCareful DEF vars
  <2> QED BY <2>2, <2>3, <2>4, <2>5 DEF Next
<1>3. AppInvariant /\ SlotPlaces /\ CarefulOK => Careful
  BY DEF CarefulOK, Careful, Opened, Network, Connected
<1> QED BY <1>1, <1>2, <1>3, AppCorrect, PTL DEF Spec

-----------------------------------------------------------------------------
(* Numbers, and the loop over the lines of a file.                         *)

LessThan == {ss \in Nat \X Nat : ss[1] < ss[2]}

LEMMA LessThanWellFounded == IsWellFoundedOn(LessThan, Nat)
<1>1. LessThan = OpToRel(<, Nat)
  BY DEF LessThan, OpToRel
<1> QED
  BY <1>1, NatLessThanWellFounded

\* A set that holds 0 and, with every number below n, the next one, holds n.
LEMMA CountUp ==
    ASSUME NEW n \in Nat, NEW S, 0 \in S,
           \A k \in 0 .. n - 1 : k \in S => k + 1 \in S
    PROVE  n \in S
<1> DEFINE Bad == {k \in 0 .. n : k \notin S}
<1> SUFFICES ASSUME n \notin S PROVE FALSE
  OBVIOUS
<1>1. Bad \in SUBSET Nat /\ n \in Bad
  OBVIOUS
<1>2. PICK k \in Bad : \A j \in Bad : ~ (<<j, k>> \in LessThan)
  <2> HIDE DEF Bad
  <2> QED
    BY <1>1, LessThanWellFounded, WFMin
<1>3. k \in 1 .. n /\ k - 1 \in 0 .. n - 1 /\ k \notin S
  BY <1>2
<1>4. <<k - 1, k>> \in LessThan
  BY <1>3 DEF LessThan
<1>5. k - 1 \in S
  BY <1>2, <1>3, <1>4
<1> QED
  BY <1>3, <1>5

\* A set of numbers up to m that holds m has m as its greatest.
LEMMA GreatestOf ==
    ASSUME NEW m \in Nat, NEW S \in SUBSET (1 .. m), m \in S
    PROVE  Ini!Max(S) = m
<1> DEFINE P(x) == x \in S /\ \A j \in S : x >= j
<1>1. P(m) /\ \A x : P(x) => x = m
  <2>1. \A j \in S : j \in Int /\ j <= m
    OBVIOUS
  <2>2. P(m)
    BY <2>1
  <2>3. ASSUME NEW x, P(x) PROVE x = m
    <3>1. x \in S /\ x >= m
      BY <2>3
    <3> QED
      BY <2>1, <3>1
  <2> QED
    BY <2>2, <2>3, Zenon
<1> HIDE DEF P
<1>2. P(CHOOSE x : P(x))
  BY <1>1, Zenon
<1>3. Ini!Max(S) = CHOOSE x : P(x)
  BY Zenon DEF Ini!Max, P
<1> QED
  BY <1>1, <1>2, <1>3

\* The recursion by which FoldLeft loads the lines s, which begins with b, is
\* one over the subsets of their numbers.
IsFold(it, b, s, n) ==
    it = [S \in SUBSET (1 .. n) |->
            IF S = {} THEN b
            ELSE Ini!LoadLine(it[S \ {Ini!Max(S)}], s[Ini!Max(S)])]

LEMMA FoldExists ==
    ASSUME NEW b, NEW s, NEW n \in Nat
    PROVE  \E it : IsFold(it, b, s, n)
<1> DEFINE Good == {m \in 0 .. n : \E it : IsFold(it, b, s, m)}
<1>1. 0 \in Good
  <2> DEFINE it == [S \in SUBSET (1 .. 0) |-> b]
  <2>1. IsFold(it, b, s, 0)
    BY DEF IsFold
  <2> QED
    BY <2>1
<1>2. ASSUME NEW m \in 0 .. n - 1, m \in Good PROVE m + 1 \in Good
  <2>1. PICK it : IsFold(it, b, s, m)
    BY <1>2
  <2> DEFINE u == [S \in SUBSET (1 .. m + 1) |->
                      IF m + 1 \in S
                      THEN Ini!LoadLine(it[S \ {m + 1}], s[m + 1])
                      ELSE it[S]]
             F(v, S) == IF S = {} THEN b
                        ELSE Ini!LoadLine(v[S \ {Ini!Max(S)}], s[Ini!Max(S)])
  <2>2. ASSUME NEW S \in SUBSET (1 .. m + 1) PROVE u[S] = F(u, S)
    <3>1. CASE m + 1 \in S
      <4>1. Ini!Max(S) = m + 1 /\ S # {}
        <5>1. m + 1 \in Nat
          OBVIOUS
        <5> QED
          BY <3>1, <5>1, GreatestOf
      <4>2. u[S \ {m + 1}] = it[S \ {m + 1}]
        <5>1. S \ {m + 1} \in SUBSET (1 .. m + 1) /\ m + 1 \notin S \ {m + 1}
          OBVIOUS
        <5> QED
          BY <5>1, Zenon
      <4>3. u[S] = Ini!LoadLine(it[S \ {m + 1}], s[m + 1])
        BY <3>1, Zenon
      <4> HIDE DEF u
      <4> QED
        BY <4>1, <4>2, <4>3
    <3>2. CASE m + 1 \notin S
      <4>1. S \in SUBSET (1 .. m) /\ u[S] = it[S]
        <5>1. S \in SUBSET (1 .. m)
          BY <3>2
        <5> QED
          BY <3>2, <5>1, Zenon
      <4>2. it[S] = F(it, S)
        BY <2>1, <4>1, Zenon DEF IsFold
      <4>3. u[S \ {Ini!Max(S)}] = it[S \ {Ini!Max(S)}]
        <5>1. S \ {Ini!Max(S)} \in SUBSET (1 .. m + 1)
              /\ m + 1 \notin S \ {Ini!Max(S)}
          BY <3>2
        <5> QED
          BY <5>1, Zenon
      <4> HIDE DEF u
      <4> QED
        BY <4>1, <4>2, <4>3
    <3> QED
      BY <3>1, <3>2
  <2>3. u = [S \in SUBSET (1 .. m + 1) |-> u[S]]
    OBVIOUS
  <2> HIDE DEF u
  <2>4. u = [S \in SUBSET (1 .. m + 1) |-> F(u, S)]
    BY <2>2, <2>3
  <2>5. IsFold(u, b, s, m + 1)
    BY <2>4, Zenon DEF IsFold
  <2>6. m + 1 \in 0 .. n
    OBVIOUS
  <2> QED
    BY <2>5, <2>6
<1> HIDE DEF Good
<1>3. n \in Good
  BY <1>1, <1>2, CountUp
<1> QED
  BY <1>3 DEF Good

\* ini_load takes the lines one after the other.
Loads(h, s, n, o) ==
    /\ h[0] = Ini!StartLoad(o)
    /\ \A k \in 1 .. n : h[k] = Ini!LoadLine(h[k - 1], s[k])

\* At the end it looks for the required parameters.
Ending(st) == IF st.error = "none" /\ ~Ini!Complete(st)
              THEN [st EXCEPT !.error = "required"] ELSE st

LEMMA LoadRun ==
    ASSUME NEW s, NEW n \in Nat, DOMAIN s = 1 .. n, NEW o, s # NoFile
    PROVE  \E h : Loads(h, s, n, o) /\ Ini!ini_load(s, o) = Ending(h[n])
<1> DEFINE b == Ini!StartLoad(o)
           f == CHOOSE it : IsFold(it, b, s, n)
           h == [k \in 0 .. n |-> f[1 .. k]]
<1>1. IsFold(f, b, s, n)
  BY FoldExists
<1>2. Ini!ini_load(s, o) = Ending(f[1 .. n])
  BY DEF Ending, Ini!ini_load, Ini!FoldLeft, Ini!MapThenFoldSet, IsFold, Ini!NoFile, NoFile
<1> HIDE DEF f, b
<1>3. h[0] = b
  <2>1. {} \in SUBSET (1 .. n) /\ 1 .. 0 = {}
    OBVIOUS
  <2>2. f[{}] = b
    BY <1>1, <2>1 DEF IsFold
  <2> QED
    BY <2>1, <2>2
<1>4. ASSUME NEW k \in 1 .. n PROVE h[k] = Ini!LoadLine(h[k - 1], s[k])
  <2>1. /\ 1 .. k \in SUBSET (1 .. n) /\ 1 .. k \in SUBSET (1 .. k) /\ k \in Nat
        /\ k \in 1 .. k /\ (1 .. k) \ {k} = 1 .. k - 1 /\ 1 .. k # {}
    OBVIOUS
  <2>2. Ini!Max(1 .. k) = k
    BY <2>1, GreatestOf
  <2>3. f[1 .. k] = Ini!LoadLine(f[1 .. k - 1], s[k])
    BY <1>1, <2>1, <2>2 DEF IsFold
  <2> QED
    BY <2>3
<1>5. h[n] = f[1 .. n]
  OBVIOUS
<1> HIDE DEF h
<1> QED
  BY <1>2, <1>3, <1>4, <1>5 DEF Loads, b
-----------------------------------------------------------------------------
(* What a start of the application makes of what it saved.                 *)

Options == [host : Hosts, password : Passwords,
            port : Numbers \cap (PORT_MIN .. PORT_MAX),
            orientation : {0, 1}, accepted : BOOLEAN]

\* The keys of the sections.
LEMMA Sections ==
    /\ DOMAIN reader_sections = 1 .. 4 /\ Len(reader_sections) = 4
    /\ reader_sections[1] = [title |-> "Server",
                             params |-> <<Key("Host", FALSE), Key("Port", FALSE)>>]
    /\ reader_sections[2] = [title |-> "Security",
                             params |-> <<Key("Password", FALSE)>>]
    /\ reader_sections[3] = [title |-> "Client",
                             params |-> <<Key("Orientation", FALSE)>>]
    /\ reader_sections[4] = [title |-> "Agreement",
                             params |-> <<Key("Accepted", FALSE)>>]
<1> DEFINE s == [title |-> "Server",
                 params |-> <<Key("Host", FALSE), Key("Port", FALSE)>>]
           t == [title |-> "Security", params |-> <<Key("Password", FALSE)>>]
           u == [title |-> "Client", params |-> <<Key("Orientation", FALSE)>>]
           v == [title |-> "Agreement", params |-> <<Key("Accepted", FALSE)>>]
<1>1. reader_sections = <<s, t, u, v>>
  BY DEF reader_sections
<1> HIDE DEF s, t, u, v
<1>2. /\ DOMAIN reader_sections = 1 .. 4 /\ Len(reader_sections) = 4
      /\ reader_sections[1] = s /\ reader_sections[2] = t
      /\ reader_sections[3] = u /\ reader_sections[4] = v
  BY <1>1
<1> QED
  BY <1>2 DEF s, t, u, v

LEMMA Tuples ==
    ASSUME NEW a, NEW b, NEW c
    PROVE  <<a>> \o <<b>> = <<a, b>> /\ <<a>> \o <<b, c>> = <<a, b, c>>
<1> DEFINE A == {a, b, c}
<1>1. /\ <<a>> \in Seq(A) /\ <<b>> \in Seq(A) /\ <<b, c>> \in Seq(A)
      /\ <<a, b>> \in Seq(A) /\ <<a, b, c>> \in Seq(A)
  OBVIOUS
<1>2. <<a>> \o <<b>> \in Seq(A) /\ <<a>> \o <<b, c>> \in Seq(A)
  BY <1>1, ConcatProperties
<1>3. /\ Len(<<a>> \o <<b>>) = 2 /\ Len(<<a, b>>) = 2
      /\ \A i \in 1 .. 2 : (<<a>> \o <<b>>)[i] = <<a, b>>[i]
  OBVIOUS
<1>4. /\ Len(<<a>> \o <<b, c>>) = 3 /\ Len(<<a, b, c>>) = 3
      /\ \A i \in 1 .. 3 : (<<a>> \o <<b, c>>)[i] = <<a, b, c>>[i]
  OBVIOUS
<1>5. <<a>> \o <<b>> = <<a, b>>
  BY <1>1, <1>2, <1>3, SeqEqual
<1>6. <<a>> \o <<b, c>> = <<a, b, c>>
  BY <1>1, <1>2, <1>4, SeqEqual
<1> QED
  BY <1>5, <1>6

\* The lines that options_config_save writes.
Saves(o, key) == Param(key, SavedOption(o, key))
LEMMA LinesSaved ==
    ASSUME NEW o
    PROVE  /\ DOMAIN Lines(o) = 1 .. 9
           /\ Lines(o)[1] = Section("Server") /\ Lines(o)[2] = Saves(o, "Host")
           /\ Lines(o)[3] = Saves(o, "Port")
           /\ Lines(o)[4] = Section("Security")
           /\ Lines(o)[5] = Saves(o, "Password")
           /\ Lines(o)[6] = Section("Client")
           /\ Lines(o)[7] = Saves(o, "Orientation")
           /\ Lines(o)[8] = Section("Agreement")
           /\ Lines(o)[9] = Saves(o, "Accepted")
<1> DEFINE P(i) == reader_sections[i].params
           F(i) == <<Section(reader_sections[i].title)>>
                   \o [j \in DOMAIN P(i) |-> Saves(o, P(i)[j].key)]
           seq == [i \in DOMAIN reader_sections |-> F(i)]
           Flat(f) == f = [i \in 1 .. 4 |-> IF i = 1 THEN seq[i]
                                            ELSE f[i - 1] \o seq[i]]
           flat == CHOOSE f : Flat(f)
<1>1. DOMAIN seq = 1 .. 4 /\ Len(seq) = 4
  BY Sections
<1>2. Lines(o) = flat[4]
  <2>1. Lines(o) = FlattenSeq(seq)
    BY DEF Lines, Ini!ini_save, Ini!FlattenSeq, FlattenSeq, Ini!Section,
           Ini!Param, Section, Param, Saves
  <2> HIDE DEF seq
  <2> QED
    BY <1>1, <2>1 DEF FlattenSeq
<1>3. seq[1] = F(1) /\ seq[2] = F(2) /\ seq[3] = F(3) /\ seq[4] = F(4)
  <2> HIDE DEF F
  <2> QED
    BY Sections
<1> HIDE DEF seq
<1>4. Flat(flat)
  <2> DEFINE f == [i \in 1 .. 4 |->
                     IF i = 1 THEN seq[1]
                     ELSE IF i = 2 THEN seq[1] \o seq[2]
                     ELSE IF i = 3 THEN (seq[1] \o seq[2]) \o seq[3]
                     ELSE ((seq[1] \o seq[2]) \o seq[3]) \o seq[4]]
  <2>1. Flat(f)
    OBVIOUS
  <2> QED
    BY <2>1
<1> HIDE DEF flat, F
<1>5. \A i \in 1 .. 4 : flat[i] = IF i = 1 THEN seq[i]
                                  ELSE flat[i - 1] \o seq[i]
  BY <1>4
<1>6. /\ flat[1] = F(1) /\ flat[2] = flat[1] \o F(2)
      /\ flat[3] = flat[2] \o F(3) /\ flat[4] = flat[3] \o F(4)
  <2>1. /\ 1 \in 1 .. 4 /\ 2 \in 1 .. 4 /\ 3 \in 1 .. 4 /\ 4 \in 1 .. 4
        /\ 2 # 1 /\ 3 # 1 /\ 4 # 1 /\ 2 - 1 = 1 /\ 3 - 1 = 2 /\ 4 - 1 = 3
    OBVIOUS
  <2>2. flat[1] = seq[1]
    BY <1>5, <2>1, Zenon
  <2>3. flat[2] = flat[2 - 1] \o seq[2]
    BY <1>5, <2>1, Zenon
  <2>4. flat[3] = flat[3 - 1] \o seq[3]
    BY <1>5, <2>1, Zenon
  <2>5. flat[4] = flat[4 - 1] \o seq[4]
    BY <1>5, <2>1, Zenon
  <2> QED
    BY <1>3, <2>1, <2>2, <2>3, <2>4, <2>5, Zenon
<1>7. F(1) = <<Section("Server"), Saves(o, "Host"), Saves(o, "Port")>>
  <2>1. DOMAIN P(1) = 1 .. 2 /\ P(1)[1].key = "Host" /\ P(1)[2].key = "Port"
    BY Sections DEF Key
  <2>2. [j \in DOMAIN P(1) |-> Saves(o, P(1)[j].key)]
        = <<Saves(o, "Host"), Saves(o, "Port")>>
    BY <2>1
  <2>3. reader_sections[1].title = "Server"
    BY Sections
  <2>4. F(1) = <<Section("Server")>> \o <<Saves(o, "Host"), Saves(o, "Port")>>
    BY <2>2, <2>3 DEF F
  <2> HIDE DEF P
  <2> QED
    BY <2>4, Tuples
<1>8. F(2) = <<Section("Security"), Saves(o, "Password")>>
  <2>1. DOMAIN P(2) = 1 .. 1 /\ P(2)[1].key = "Password"
    BY Sections DEF Key
  <2>2. [j \in DOMAIN P(2) |-> Saves(o, P(2)[j].key)] = <<Saves(o, "Password")>>
    BY <2>1
  <2>3. reader_sections[2].title = "Security"
    BY Sections
  <2> QED
    BY <2>2, <2>3, Tuples DEF F
<1>9. F(3) = <<Section("Client"), Saves(o, "Orientation")>>
  <2>1. DOMAIN P(3) = 1 .. 1 /\ P(3)[1].key = "Orientation"
    BY Sections DEF Key
  <2>2. [j \in DOMAIN P(3) |-> Saves(o, P(3)[j].key)]
        = <<Saves(o, "Orientation")>>
    BY <2>1
  <2>3. reader_sections[3].title = "Client"
    BY Sections
  <2> QED
    BY <2>2, <2>3, Tuples DEF F
<1>10. F(4) = <<Section("Agreement"), Saves(o, "Accepted")>>
  <2>1. DOMAIN P(4) = 1 .. 1 /\ P(4)[1].key = "Accepted"
    BY Sections DEF Key
  <2>2. [j \in DOMAIN P(4) |-> Saves(o, P(4)[j].key)] = <<Saves(o, "Accepted")>>
    BY <2>1
  <2>3. reader_sections[4].title = "Agreement"
    BY Sections
  <2> QED
    BY <2>2, <2>3, Tuples DEF F
<1>11. ASSUME NEW a, NEW b, NEW c, NEW d, NEW e, NEW f, NEW g, NEW h, NEW i
       PROVE  LET x == ((<<a, b, c>> \o <<d, e>>) \o <<f, g>>) \o <<h, i>>
              IN  /\ DOMAIN x = 1 .. 9 /\ x[1] = a /\ x[2] = b /\ x[3] = c
                  /\ x[4] = d /\ x[5] = e /\ x[6] = f /\ x[7] = g /\ x[8] = h
                  /\ x[9] = i
  OBVIOUS
<1>12. Lines(o) = ((<<Section("Server"), Saves(o, "Host"), Saves(o, "Port")>>
                      \o <<Section("Security"), Saves(o, "Password")>>)
                      \o <<Section("Client"), Saves(o, "Orientation")>>)
                      \o <<Section("Agreement"), Saves(o, "Accepted")>>
  BY <1>2, <1>6, <1>7, <1>8, <1>9, <1>10
<1> QED
  BY <1>11, <1>12

\* The load is in section s, has set options o and met no error.
InSection(st, s, o) ==
    \E g : st = [opts |-> o, section |-> s, given |-> g, error |-> "none"]

LEMMA LeastOfOne == ASSUME NEW i \in Nat PROVE Ini!Min({i}) = i
BY DEF Ini!Min

LEMMA Enters ==
    ASSUME NEW st, NEW s, NEW o, InSection(st, s, o), NEW i \in 1 .. 4
    PROVE  InSection(Ini!LoadLine(st, Section(reader_sections[i].title)), i, o)
<1> DEFINE title(k) == reader_sections[k].title
           line == Section(title(i))
<1>1. {k \in 1 .. Len(reader_sections) : title(k) = title(i)} = {i}
  BY Sections
<1>2. PICK g :
        st = [opts |-> o, section |-> s, given |-> g, error |-> "none"]
  BY DEF InSection
<1>3. st.error = "none" /\ line.kind = "section" /\ line.title = title(i)
  BY <1>2 DEF Section
<1>4. Ini!LoadLine(st, line) = Ini!EnterSection(st, line)
  BY <1>3 DEF Ini!LoadLine
<1>5. Ini!EnterSection(st, line) = [st EXCEPT !.section = i]
  <2>1. Ini!Min({i}) = i /\ {i} # {} /\ i # 0
    BY LeastOfOne
  <2>2. Ini!SelectInSeq(reader_sections, LAMBDA t : t.title = line.title) = i
    BY <1>1, <1>3, <2>1 DEF Ini!SelectInSeq
  <2> HIDE DEF line
  <2> QED
    BY <2>1, <2>2 DEF Ini!EnterSection
<1> HIDE DEF line
<1> QED
  BY <1>2, <1>4, <1>5 DEF InSection, line

\* A key of section i, and the text after it, go to the setter.
LEMMA Sets ==
    ASSUME NEW st, NEW i \in 1 .. 4, NEW o, InSection(st, i, o),
           NEW j \in DOMAIN reader_sections[i].params, NEW key, NEW v, NEW new,
           \A k \in DOMAIN reader_sections[i].params :
              reader_sections[i].params[k].key \in {AnyKey, key} <=> k = j,
           j \in 1 .. Len(reader_sections[i].params),
           DOMAIN reader_sections[i].params
             = 1 .. Len(reader_sections[i].params),
           LoadOption(o, reader_sections[i].title, key, v) = Set(new, "none")
    PROVE  InSection(Ini!LoadLine(st, Param(key, v)), i, new)
<1> DEFINE line == Param(key, v)
           params == reader_sections[i].params
<1>1. PICK g :
        st = [opts |-> o, section |-> i, given |-> g, error |-> "none"]
  BY DEF InSection
<1>2. /\ st.error = "none" /\ line.kind = "param" /\ line.key = key
      /\ line.value = v /\ st.section = i /\ st.opts = o /\ st.section # 0
  BY <1>1 DEF Param
<1>3. Ini!LoadLine(st, line) = Ini!SetParam(st, line)
  BY <1>2 DEF Ini!LoadLine, Ini!HasSeparator
<1>4. Ini!SelectInSeq(params, LAMBDA p : p.key \in {AnyKey, line.key}) = j
  <2>1. {k \in 1 .. Len(params) : params[k].key \in {AnyKey, line.key}} = {j}
    BY <1>2
  <2>2. Ini!Min({j}) = j /\ {j} # {} /\ j # 0 /\ j \in Nat
    BY LeastOfOne
  <2> HIDE DEF params, line
  <2> QED
    BY <2>1, <2>2 DEF Ini!SelectInSeq
<1>5. /\ Ini!AnyKey = AnyKey
      /\ LoadOption(st.opts, reader_sections[st.section].title, line.key,
                    line.value) = [opts |-> new, error |-> "none"]
  BY <1>2 DEF Ini!AnyKey, AnyKey, Set
<1> HIDE DEF line
<1>6. Ini!SelectInSeq(reader_sections[st.section].params,
                      LAMBDA p : p.key \in {Ini!AnyKey, line.key}) = j
  BY <1>2, <1>4, <1>5
<1>7. Ini!SetParam(st, line)
      = [st EXCEPT !.opts = new, !.error = "none",
                   !.given = @ \cup {<<st.section, j>>}]
  <2> DEFINE J == Ini!SelectInSeq(reader_sections[st.section].params,
                                  LAMBDA p : p.key \in {Ini!AnyKey, line.key})
             to == LoadOption(st.opts, reader_sections[st.section].title,
                              line.key, line.value)
  <2>1. Ini!SetParam(st, line)
        = CASE st.section = 0            -> [st EXCEPT !.error = "before"]
            [] st.section # 0 /\ J = 0   -> [st EXCEPT !.error = "key"]
            [] st.section # 0 /\ J # 0   ->
                  [st EXCEPT !.opts = to.opts, !.error = to.error,
                      !.given = IF to.error = "none"
                                THEN @ \cup {<<st.section, J>>} ELSE @]
    BY Zenon DEF Ini!SetParam
  <2>2. J = j /\ to = [opts |-> new, error |-> "none"]
    BY <1>5, <1>6
  <2> HIDE DEF J, to
  <2> QED
    BY <1>2, <2>1, <2>2
<1> QED
  BY <1>1, <1>3, <1>7 DEF InSection, line

\* What the setters make of what the getters wrote.
LEMMA SetterGetter ==
    ASSUME NEW o \in Options, NEW d \in Options, NEW title
    PROVE  /\ LoadOption(d, title, "Host", SavedOption(o, "Host"))
                = Set([d EXCEPT !.host = o.host], "none")
           /\ LoadOption(d, title, "Port", SavedOption(o, "Port"))
                = Set([d EXCEPT !.port = o.port], "none")
           /\ LoadOption(d, title, "Password", SavedOption(o, "Password"))
                = Set([d EXCEPT !.password = o.password], "none")
           /\ LoadOption(d, title, "Orientation",
                         SavedOption(o, "Orientation"))
                = Set([d EXCEPT !.orientation = o.orientation], "none")
           /\ LoadOption(d, title, "Accepted", SavedOption(o, "Accepted"))
                = Set([d EXCEPT !.accepted = o.accepted], "none")
<1>1. LoadOption(d, title, "Host", SavedOption(o, "Host"))
        = Set([d EXCEPT !.host = o.host], "none")
  BY DEF LoadOption, SavedOption
<1>2. LoadOption(d, title, "Password", SavedOption(o, "Password"))
        = Set([d EXCEPT !.password = o.password], "none")
  BY DEF LoadOption, SavedOption
<1>3. LoadOption(d, title, "Port", SavedOption(o, "Port"))
        = Set([d EXCEPT !.port = o.port], "none")
  <2> DEFINE text == ToString(o.port)
             port == parse_int(text, PORT_MIN, PORT_MAX)
  <2>1. SavedOption(o, "Port") = <<text>>
    BY DEF SavedOption
  <2>2. port = {o.port}
    <3>1. o.port \in Numbers /\ o.port \in PORT_MIN .. PORT_MAX
      BY DEF Options
    <3> QED
      BY <3>1, NumbersAssumption DEF parse_int
  <2>3. port # {} /\ (CHOOSE n \in port : TRUE) = o.port
    <3> HIDE DEF port
    <3> QED
      BY <2>2
  <2>4. LoadOption(d, title, "Port", <<text>>)
        = IF port = {} THEN Set(d, "value")
          ELSE Set([d EXCEPT !.port = CHOOSE n \in port : TRUE], "none")
    <3> HIDE DEF text
    <3> QED
      BY DEF LoadOption
  <2> HIDE DEF port, text
  <2> QED
    BY <2>1, <2>3, <2>4
<1>4. LoadOption(d, title, "Orientation", SavedOption(o, "Orientation"))
        = Set([d EXCEPT !.orientation = o.orientation], "none")
  <2> DEFINE text == orientation_captions[o.orientation + 1]
             turn == SelectInSeq(orientation_captions, LAMBDA c : c = text)
  <2>1. SavedOption(o, "Orientation") = <<text>>
    BY DEF SavedOption
  <2>2. o.orientation \in {0, 1}
    BY DEF Options
  <2>3. turn = o.orientation + 1
    <3>1. {k \in 1 .. Len(orientation_captions) : orientation_captions[k] = text}
          = {o.orientation + 1}
      BY <2>2 DEF orientation_captions
    <3>2. o.orientation + 1 \in Nat /\ {o.orientation + 1} # {}
      BY <2>2
    <3>3. \A n \in Nat : Min({n}) = n
      BY DEF Min
    <3>4. Min({o.orientation + 1}) = o.orientation + 1
      BY <3>2, <3>3
    <3>5. turn = LET I == {k \in 1 .. Len(orientation_captions) :
                             orientation_captions[k] = text}
                 IN  IF I = {} THEN 0 ELSE Min(I)
      <4> HIDE DEF text
      <4> QED
        BY DEF SelectInSeq
    <3> HIDE DEF turn, text
    <3> QED
      BY <3>1, <3>2, <3>4, <3>5
  <2>4. LoadOption(d, title, "Orientation", <<text>>)
        = IF turn = 0 THEN Set(d, "value")
          ELSE Set([d EXCEPT !.orientation = turn - 1], "none")
    <3> HIDE DEF text
    <3> QED
      BY DEF LoadOption
  <2> HIDE DEF turn, text
  <2> QED
    BY <2>1, <2>2, <2>3, <2>4
<1>5. LoadOption(d, title, "Accepted", SavedOption(o, "Accepted"))
        = Set([d EXCEPT !.accepted = o.accepted], "none")
  <2>1. o.accepted \in BOOLEAN
    BY DEF Options
  <2>2. CASE o.accepted = TRUE
    BY <2>2 DEF LoadOption, SavedOption, parse_bool
  <2>3. CASE o.accepted = FALSE
    BY <2>3 DEF LoadOption, SavedOption, parse_bool
  <2> QED
    BY <2>1, <2>2, <2>3
<1> QED
  BY <1>1, <1>2, <1>3, <1>4, <1>5

\* What is written in full is loaded as it was.
LEMMA RoundTrip == ASSUME NEW o \in Options PROVE Loaded(Lines(o)) = o
<1> DEFINE s == Lines(o)
           a == [Defaults EXCEPT !.host = o.host]
           b == [a EXCEPT !.port = o.port]
           c == [b EXCEPT !.password = o.password]
           d == [c EXCEPT !.orientation = o.orientation]
           e == [d EXCEPT !.accepted = o.accepted]
<1>1. Defaults \in Options
  BY DefaultsAssumption DEF Defaults, Options
<1>2. /\ a \in Options /\ b \in Options /\ c \in Options /\ d \in Options
      /\ e \in Options
  BY <1>1 DEF Options
<1>3. e = o
  BY <1>2 DEF Options, Defaults
<1> HIDE DEF a, b, c, d, e
<1>4. PICK h : /\ Loads(h, s, 9, Defaults)
               /\ Ini!ini_load(s, Defaults) = Ending(h[9])
  <2>1. DOMAIN s = 1 .. 9 /\ DOMAIN NoFile = 1 .. 1 /\ 9 \in Nat
    BY LinesSaved DEF NoFile
  <2>2. s # NoFile
    <3>1. 9 \in DOMAIN s /\ 9 \notin DOMAIN NoFile
      BY <2>1
    <3> HIDE DEF s
    <3> QED
      BY <3>1
  <2> HIDE DEF s
  <2> QED
    BY <2>1, <2>2, LoadRun, Zenon
<1>5. /\ h[0] = Ini!StartLoad(Defaults)
      /\ \A k \in 1 .. 9 : h[k] = Ini!LoadLine(h[k - 1], s[k])
  BY <1>4 DEF Loads
<1>6. /\ h[1] = Ini!LoadLine(h[0], s[1]) /\ h[2] = Ini!LoadLine(h[1], s[2])
      /\ h[3] = Ini!LoadLine(h[2], s[3]) /\ h[4] = Ini!LoadLine(h[3], s[4])
      /\ h[5] = Ini!LoadLine(h[4], s[5]) /\ h[6] = Ini!LoadLine(h[5], s[6])
      /\ h[7] = Ini!LoadLine(h[6], s[7]) /\ h[8] = Ini!LoadLine(h[7], s[8])
      /\ h[9] = Ini!LoadLine(h[8], s[9])
  <2> HIDE DEF s
  <2> QED
    BY <1>5
<1>7. /\ s[1] = Section(reader_sections[1].title)
      /\ s[4] = Section(reader_sections[2].title)
      /\ s[6] = Section(reader_sections[3].title)
      /\ s[8] = Section(reader_sections[4].title)
  BY LinesSaved, Sections
<1>8. /\ s[2] = Param("Host", SavedOption(o, "Host"))
      /\ s[3] = Param("Port", SavedOption(o, "Port"))
      /\ s[5] = Param("Password", SavedOption(o, "Password"))
      /\ s[7] = Param("Orientation", SavedOption(o, "Orientation"))
      /\ s[9] = Param("Accepted", SavedOption(o, "Accepted"))
  BY LinesSaved DEF Saves
<1> DEFINE params(i) == reader_sections[i].params
           Only(i, j, key) ==
             /\ j \in DOMAIN params(i) /\ j \in 1 .. Len(params(i))
             /\ DOMAIN params(i) = 1 .. Len(params(i))
             /\ \A k \in DOMAIN params(i) :
                   params(i)[k].key \in {AnyKey, key} <=> k = j
<1>9. /\ Only(1, 1, "Host") /\ Only(1, 2, "Port") /\ Only(2, 1, "Password")
      /\ Only(3, 1, "Orientation") /\ Only(4, 1, "Accepted")
  BY Sections DEF Key, AnyKey
<1> HIDE DEF s
<1>10. InSection(h[0], 0, Defaults)
  BY <1>5 DEF InSection, Ini!StartLoad
<1>11. InSection(h[1], 1, Defaults)
  BY <1>6, <1>7, <1>10, Enters
<1>12. ASSUME NEW x \in Options, NEW st, NEW i \in 1 .. 4, InSection(st, i, x),
              NEW j, NEW key, Only(i, j, key), NEW v, NEW y,
              LoadOption(x, reader_sections[i].title, key, v) = Set(y, "none")
       PROVE  InSection(Ini!LoadLine(st, Param(key, v)), i, y)
  BY <1>12, Sets, Zenon
<1> HIDE DEF Only
<1>13. InSection(h[2], 1, a)
  <2>1. LoadOption(Defaults, reader_sections[1].title, "Host",
                   SavedOption(o, "Host")) = Set(a, "none")
    BY <1>1, SetterGetter DEF a
  <2> QED
    BY <1>1, <1>6, <1>8, <1>9, <1>11, <1>12, <2>1
<1>14. InSection(h[3], 1, b)
  <2>1. LoadOption(a, reader_sections[1].title, "Port",
                   SavedOption(o, "Port")) = Set(b, "none")
    BY <1>2, SetterGetter DEF b
  <2> QED
    BY <1>2, <1>6, <1>8, <1>9, <1>12, <1>13, <2>1
<1>15. InSection(h[4], 2, b)
  BY <1>6, <1>7, <1>14, Enters
<1>16. InSection(h[5], 2, c)
  <2>1. LoadOption(b, reader_sections[2].title, "Password",
                   SavedOption(o, "Password")) = Set(c, "none")
    BY <1>2, SetterGetter DEF c
  <2> QED
    BY <1>2, <1>6, <1>8, <1>9, <1>12, <1>15, <2>1
<1>17. InSection(h[6], 3, c)
  BY <1>6, <1>7, <1>16, Enters
<1>18. InSection(h[7], 3, d)
  <2>1. LoadOption(c, reader_sections[3].title, "Orientation",
                   SavedOption(o, "Orientation")) = Set(d, "none")
    BY <1>2, SetterGetter DEF d
  <2> QED
    BY <1>2, <1>6, <1>8, <1>9, <1>12, <1>17, <2>1
<1>19. InSection(h[8], 4, d)
  BY <1>6, <1>7, <1>18, Enters
<1>20. InSection(h[9], 4, e)
  <2>1. LoadOption(d, reader_sections[4].title, "Accepted",
                   SavedOption(o, "Accepted")) = Set(e, "none")
    BY <1>2, SetterGetter DEF e
  <2> QED
    BY <1>2, <1>6, <1>8, <1>9, <1>12, <1>19, <2>1
<1>21. Loaded(s) = h[9].opts
  BY <1>4, <1>20 DEF InSection, Loaded, Ending
<1>22. h[9].opts = e
  BY <1>20 DEF InSection
<1> QED
  BY <1>3, <1>21, <1>22 DEF s

\* A file that is not there, or was emptied, leaves the defaults.
LEMMA LoadedNothing == Loaded(NoFile) = Defaults /\ Loaded(<<>>) = Defaults
<1>1. Loaded(NoFile) = Defaults
  BY DEF Loaded, Ini!ini_load, Ini!NoFile, NoFile, Ini!StartLoad
<1>2. PICK h : /\ Loads(h, <<>>, 0, Defaults)
               /\ Ini!ini_load(<<>>, Defaults) = Ending(h[0])
  <2>1. DOMAIN << >> = 1 .. 0 /\ << >> # NoFile /\ 0 \in Nat
    BY DEF NoFile
  <2> QED
    BY <2>1, LoadRun
<1>3. h[0] = [opts |-> Defaults, section |-> 0, given |-> {}, error |-> "none"]
  BY <1>2 DEF Loads, Ini!StartLoad
<1>4. Loaded(<<>>) = Defaults
  BY <1>2, <1>3 DEF Loaded, Ending
<1> QED
  BY <1>1, <1>4

-----------------------------------------------------------------------------
(* The options: the file that is loaded at a start.                        *)

\* The file is not there, emptied by a save that did not come to its end, or
\* what was last written in full; the application has what it would load.
OptionsOK ==
    /\ opts \in Options /\ kept \in Options
    /\ file \in {NoFile, <<>>, Lines(kept)}
    /\ (appUp /\ ~saving /\ ~mishap) => Loaded(file) = opts

LEMMA LoadedWhole ==
    ASSUME OptionsOK
    PROVE  Loaded(file) \in {Defaults, kept} /\ Loaded(file) \in Options
<1>1. Loaded(file) \in {Defaults, kept}
  BY RoundTrip, LoadedNothing DEF OptionsOK
<1>2. Defaults \in Options
  BY DefaultsAssumption DEF Defaults, Options
<1> QED
  BY <1>1, <1>2 DEF OptionsOK

\* What the actions of the options leave of it.
LEMMA OptionsKept ==
    ASSUME OptionsOK,
           \/ StartApp \/ CloseFile \/ Quit \/ Die \/ UNCHANGED readerVars
           \/ \E o \in Options : Change(o)
    PROVE  OptionsOK'
<1>1. CASE StartApp
  BY <1>1, LoadedWhole DEF StartApp, OptionsOK
<1>2. CASE CloseFile
  <2>1. CASE file' = Lines(opts) /\ kept' = opts /\ UNCHANGED mishap
    <3>1. opts' \in Options /\ kept' = opts' /\ file' = Lines(kept')
      BY <1>2, <2>1 DEF CloseFile, OptionsOK
    <3>2. Loaded(file') = opts'
      BY <3>1, RoundTrip
    <3> QED
      BY <3>1, <3>2 DEF OptionsOK
  <2>2. CASE mishap' = TRUE /\ UNCHANGED <<file, kept>>
    BY <1>2, <2>2 DEF CloseFile, OptionsOK
  <2> QED
    BY <1>2, <2>1, <2>2 DEF CloseFile
<1>3. CASE Quit \/ Die
  BY <1>3 DEF Quit, Die, OptionsOK
<1>4. CASE UNCHANGED readerVars
  BY <1>4 DEF readerVars, OptionsOK
<1>5. ASSUME NEW o \in Options, Change(o) PROVE OptionsOK'
  BY <1>5 DEF Change, OptionsOK
<1> QED
  BY <1>1, <1>2, <1>3, <1>4, <1>5

\* The dialogs make options of options.
LEMMA Dialogs ==
    ASSUME opts \in Options,
           \/ EditHost \/ EditPassword \/ \E n \in Numbers : EditPort(n)
           \/ SwitchOrientation \/ Accept
    PROVE  \E o \in Options : Change(o)
<1>1. CASE EditHost
  BY <1>1 DEF EditHost, Options
<1>2. CASE EditPassword
  BY <1>2 DEF EditPassword, Options
<1>3. ASSUME NEW n \in Numbers, EditPort(n) PROVE \E o \in Options : Change(o)
  <2>1. n \in PORT_MIN .. PORT_MAX => [opts EXCEPT !.port = n] \in Options
    BY DEF Options
  <2> QED
    BY <1>3, <2>1 DEF EditPort
<1>4. CASE SwitchOrientation
  <2>1. [opts EXCEPT !.orientation = 1 - @] \in Options
    BY DEF Options
  <2> QED
    BY <1>4, <2>1 DEF SwitchOrientation
<1>5. CASE Accept
  <2>1. [opts EXCEPT !.accepted = TRUE] \in Options
    BY DEF Options
  <2> QED
    BY <1>5, <2>1 DEF Accept
<1> QED
  BY <1>1, <1>2, <1>3, <1>4, <1>5

\* No step of a thread does anything else to the options.
LEMMA OptionSteps ==
    ASSUME opts \in Options, [Next]_vars
    PROVE  \/ StartApp \/ CloseFile \/ Quit \/ Die \/ UNCHANGED readerVars
           \/ \E o \in Options : Change(o)
<1> USE DEF Killed
<1>1. CASE Launch \/ Show \/ UseControls \/ Saved \/ Repaint \/ Connect \/ Stop
           \/ QuitApp
  BY <1>1 DEF Launch, Show, UseControls, Saved, Repaint, Connect, Stop, QuitApp
<1>2. CASE Agree \/ EditText \/ Switch
  <2>1. \/ EditHost \/ EditPassword \/ \E n \in Numbers : EditPort(n)
        \/ SwitchOrientation \/ Accept
    BY <1>2 DEF Agree, EditText, Switch
  <2> QED
    BY <2>1, Dialogs
<1>3. ASSUME NEW t \in Threads, ShowsIntro(t) PROVE UNCHANGED readerVars
  BY <1>3 DEF ShowsIntro
<1>4. ASSUME NEW t \in Slots, Query(t) \/ Socket(t) \/ Dial(t)
      PROVE  UNCHANGED readerVars
  BY <1>4 DEF Query, Socket, Dial
<1>5. ASSUME NEW t \in Slots, Session(t)
      PROVE  Die \/ UNCHANGED readerVars
  BY <1>5 DEF Session, Greet, StartLoop, ReadMail, ReadEnd, Draw, Confirm, Hang,
              Pipe
<1>6. Main \in Threads /\ Slots \subseteq Threads
  BY DEF Threads
<1>7. CASE Killed \/ UNCHANGED vars
           \/ (DaemonSide /\ UNCHANGED <<readerVars, appVars>>)
  BY <1>7 DEF vars
<1> QED
  BY <1>1, <1>2, <1>3, <1>4, <1>5, <1>6, <1>7 DEF Next, MainThread, ClientThread

\* Whatever becomes of the saves, the next start of the application loads all
\* of the options last written in full, or all the defaults; and without a
\* mishap those that the user has now.
THEOREM SavesAllOrNothing == Spec => []AllOrNothing
<1>1. Init => OptionsOK
  <2> SUFFICES ASSUME Init PROVE OptionsOK
    OBVIOUS
  <2>1. /\ appUp = FALSE /\ opts = Defaults /\ kept = Defaults /\ file = NoFile
    BY DEF Init, ReaderInit
  <2>2. Defaults \in Options
    BY DefaultsAssumption DEF Defaults, Options
  <2> QED
    BY <2>1, <2>2 DEF OptionsOK
<1>2. OptionsOK /\ [Next]_vars => OptionsOK'
  <2> SUFFICES ASSUME OptionsOK, [Next]_vars PROVE OptionsOK'
    OBVIOUS
  <2>1. opts \in Options
    BY DEF OptionsOK
  <2> QED
    BY <2>1, OptionSteps, OptionsKept
<1>3. OptionsOK => AllOrNothing
  <2> SUFFICES ASSUME OptionsOK PROVE AllOrNothing
    OBVIOUS
  <2> QED
    BY LoadedWhole DEF AllOrNothing, OptionsOK
<1> QED
  BY <1>1, <1>2, <1>3, PTL DEF Spec
=============================================================================
