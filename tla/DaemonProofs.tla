---------------------------- MODULE DaemonProofs ----------------------------
(***************************************************************************)
(* For any number of readers, key presses and signals: the stack of        *)
(* deferred functions is right wherever the daemon is, a session leaves    *)
(* nothing behind, and the lock file goes with the process.                *)
(***************************************************************************)
EXTENDS Daemon, SequenceTheorems, TLAPS

\* One stack with a function on top of another.
LEMMA OnTop ==
    ASSUME NEW S, NEW s \in Seq(S), NEW t \in Seq(S), NEW x \in S,
           Len(t) = Len(s) + 1, t[Len(t)] = x,
           \A i \in 1 .. Len(s) : s[i] = t[i]
    PROVE  Append(s, x) = t /\ Front(t) = s /\ Last(t) = x
<1> DEFINE f == SubSeq(t, 1, Len(t) - 1)
           u == Append(s, x)
<1>1. \A i \in 1 .. Len(t) - 1 : t[i] \in S
  OBVIOUS
<1>2. /\ f \in Seq(S) /\ Len(f) = Len(s)
      /\ \A i \in 1 .. Len(s) : f[i] = t[i]
  BY <1>1, SubSeqProperties
<1>3. /\ u \in Seq(S) /\ Len(u) = Len(t)
      /\ \A i \in 1 .. Len(t) : u[i] = t[i]
  BY AppendProperties
<1> HIDE DEF f, u
<1>4. f = s /\ u = t
  BY <1>2, <1>3, SeqEqual
<1> QED BY <1>4 DEF f, u, Front, Last

Deferred == {"unlink", "destroy", "close_conn", "unlock"}

\* The stacks there are.
S0 == <<>>
S1 == <<"unlink">>
S2 == <<"unlink", "destroy">>
S3 == <<"unlink", "destroy", "close_conn">>
S4 == <<"unlink", "destroy", "close_conn", "unlock">>

\* What push_defer and pop_defer make of them.
LEMMA Stacks ==
    /\ Append(S1, "destroy") = S2 /\ Append(S2, "close_conn") = S3
    /\ Append(S3, "unlock") = S4
    /\ Front(S4) = S3 /\ Front(S3) = S2 /\ Front(S2) = S1 /\ Front(S1) = S0
    /\ Last(S4) = "unlock" /\ Last(S3) = "close_conn"
    /\ Last(S2) = "destroy" /\ Last(S1) = "unlink"
<1>1. /\ S0 \in Seq(Deferred) /\ S1 \in Seq(Deferred) /\ S2 \in Seq(Deferred)
      /\ S3 \in Seq(Deferred) /\ S4 \in Seq(Deferred)
  BY DEF S0, S1, S2, S3, S4, Deferred
<1>2. Deferred = {"unlink", "destroy", "close_conn", "unlock"}
  BY DEF Deferred
<1>3. /\ Len(S4) = Len(S3) + 1 /\ S4[Len(S4)] = "unlock"
      /\ \A i \in 1 .. Len(S3) : S3[i] = S4[i]
  BY DEF S3, S4
<1>4. /\ Len(S3) = Len(S2) + 1 /\ S3[Len(S3)] = "close_conn"
      /\ \A i \in 1 .. Len(S2) : S2[i] = S3[i]
  BY DEF S2, S3
<1>5. /\ Len(S2) = Len(S1) + 1 /\ S2[Len(S2)] = "destroy"
      /\ \A i \in 1 .. Len(S1) : S1[i] = S2[i]
  BY DEF S1, S2
<1>6. /\ Len(S1) = Len(S0) + 1 /\ S1[Len(S1)] = "unlink"
      /\ \A i \in 1 .. Len(S0) : S0[i] = S1[i]
  <2>1. Len(S0) = 0
    BY DEF S0
  <2>2. Len(S1) = 1
    BY DEF S1
  <2>3. S1[1] = "unlink"
    BY DEF S1
  <2> QED BY <2>1, <2>2, <2>3
<1>7. Append(S3, "unlock") = S4 /\ Front(S4) = S3 /\ Last(S4) = "unlock"
  BY <1>1, <1>2, <1>3, OnTop
<1>8. Append(S2, "close_conn") = S3 /\ Front(S3) = S2 /\ Last(S3) = "close_conn"
  BY <1>1, <1>2, <1>4, OnTop
<1>9. Append(S1, "destroy") = S2 /\ Front(S2) = S1 /\ Last(S2) = "destroy"
  BY <1>1, <1>2, <1>5, OnTop
<1>10. Append(S0, "unlink") = S1 /\ Front(S1) = S0 /\ Last(S1) = "unlink"
  BY <1>1, <1>2, <1>6, OnTop
<1> QED BY <1>7, <1>8, <1>9, <1>10

\* They differ in length, and in what is on them.
LEMMA StacksDiffer ==
    /\ Len(S0) = 0 /\ Len(S1) = 1 /\ Len(S2) = 2 /\ Len(S3) = 3 /\ Len(S4) = 4
    /\ ToSet(S0) = {} /\ ToSet(S1) = {"unlink"}
    /\ ToSet(S2) = {"unlink", "destroy"}
    /\ ToSet(S3) = {"unlink", "destroy", "close_conn"}
    /\ ToSet(S4) = {"unlink", "destroy", "close_conn", "unlock"}
<1>1. /\ Len(S0) = 0 /\ Len(S1) = 1 /\ Len(S2) = 2 /\ Len(S3) = 3 /\ Len(S4) = 4
  BY DEF S0, S1, S2, S3, S4
<1>2. ToSet(S0) = {} /\ ToSet(S1) = {"unlink"}
  BY DEF S0, S1, ToSet
<1>3. ToSet(S2) = {"unlink", "destroy"}
  BY DEF S2, ToSet
<1>4. ToSet(S3) = {"unlink", "destroy", "close_conn"}
  BY DEF S3, ToSet
<1>5. ToSet(S4) = {"unlink", "destroy", "close_conn", "unlock"}
  BY DEF S4, ToSet
<1> QED BY <1>1, <1>2, <1>3, <1>4, <1>5

Places == Base \cup Serving \cup Online \cup Locked \cup {"fail", "exit", "exited"}

Ended == Ending \/ pc = "exited"

\* The stack where the main thread is; a handler that ends the daemon empties
\* it before its last words.
StackOK ==
    /\ Ended => defers \in {S0, S1, S2, S3, S4}
    /\ handler = "bye" \/ pc = "exited" => defers = S0 /\ popped = "none"
    /\ ~Ended =>
          /\ pc \in Base    => defers = S1
          /\ pc \in Serving => defers = S2
          /\ pc \in Online  => defers = S3
          /\ pc \in Locked  => defers = S4
          /\ pc = "fail"    => defers \in {S2, S3, S4}
          /\ pc = "exit"    => defers = S0

\* Where a function is off the stack and not called yet.
PoppedOK ==
    ~Ended =>
        /\ popped = "unlock"     =>
              pc \in {"while", "slow", "fail"} /\ defers = S3
        /\ popped = "close_conn" => pc \in {"loop", "ended"}
        /\ popped \in {"destroy", "cancel", "stats", "statsLog"} =>
              pc = "returned"
        /\ popped = "unlink"     => pc = "exit"

ControlOK ==
    /\ pc \in Places
    /\ popped \in {"none", "unlink", "destroy", "cancel", "stats", "statsLog",
                   "close_conn", "unlock"}
    /\ handler \in {"none", "checked", "log", "logging", "term", "bye"}
    /\ StackOK /\ PoppedOK

\* Whatever step is taken, the stack stays right.
LEMMA ControlKeeps == ControlOK /\ [Next]_vars => ControlOK'
<1> SUFFICES ASSUME ControlOK, [Next]_vars PROVE ControlOK'
  OBVIOUS
<1> USE Stacks, StacksDiffer
    DEF ControlOK, StackOK, PoppedOK, Ended, Ending, At, Goto, push_defer, pop_defer,
        Places, Base, Serving, Online, Locked
<1>1. CASE CallDefer
  BY <1>1 DEF CallDefer, Calling
<1>2. CASE CreateThread
  BY <1>2 DEF CreateThread
<1>3. CASE CreateFails
  BY <1>3 DEF CreateFails
<1>4. CASE OpenSocket
  BY <1>4 DEF OpenSocket
<1>5. CASE Setup
  BY <1>5 DEF Setup
<1>6. CASE Loop
  BY <1>6 DEF Loop
<1>7. CASE EnterAccept
  BY <1>7 DEF EnterAccept
<1>8. CASE Accept
  BY <1>8 DEF Accept
<1>9. CASE Accepted
  BY <1>9 DEF Accepted
<1>10. CASE Opened
  BY <1>10 DEF Opened
<1>11. CASE LogBegin
  BY <1>11 DEF LogBegin, main
<1>12. CASE LogEnd
  BY <1>12 DEF LogEnd, AfterLog
<1>13. CASE ExchangeDone
  BY <1>13 DEF ExchangeDone, AfterExchange
<1>14. CASE ExchangeFails
  BY <1>14 DEF ExchangeFails, AfterExchange
<1>15. CASE BrokenPipe
  BY <1>15 DEF BrokenPipe, Writes
<1>16. CASE LockControl
  BY <1>16 DEF LockControl
<1>17. CASE Shot
  BY <1>17 DEF Shot
<1>18. CASE UnlockControl
  BY <1>18 DEF UnlockControl
<1>19. CASE While
  BY <1>19 DEF While
<1>20. CASE CloseConn
  BY <1>20 DEF CloseConn
<1>21. CASE Fail
  BY <1>21 DEF Fail, Caller
<1>22. CASE SessionFailed
  BY <1>22 DEF SessionFailed
<1>23. CASE ResetState
  BY <1>23 DEF ResetState
<1>24. CASE Returned
  BY <1>24 DEF Returned
<1>25. CASE Closing
  BY <1>25 DEF Closing
<1>26. CASE Exit
  BY <1>26 DEF Exit
<1>27. CASE Kick
  BY <1>27 DEF Kick
<1>28. CASE HandlerCloses
  BY <1>28 DEF HandlerCloses, main
<1>29. CASE HandlerLogs
  BY <1>29 DEF HandlerLogs, main
<1>30. CASE Destroy \/ Cancel \/ StatsBegin \/ StatsEnd
  BY <1>30 DEF Destroy, Cancel, StatsBegin, StatsEnd, Calling
<1>31. CASE HandlerDone
  BY <1>31 DEF HandlerDone, main
<1>35. CASE Terminate
  BY <1>35 DEF Terminate
<1>36. CASE TermPop
  BY <1>36 DEF TermPop, S0
<1>37. CASE TermLog \/ TermExit
  BY <1>37 DEF TermLog, TermExit, main, S0
<1>32. CASE UNCHANGED main /\ UNCHANGED handler
  BY <1>32 DEF main
<1>33. CASE Grab \/ Complain \/ ShutDown \/ CloseServ \/ WaitEvent \/ LockKeys \/ HandleEvent \/ UnlockKeys \/ LoseDisplay \/ Cancelled \/ Arrive \/ PeerLeaves \/ Press
  BY <1>32, <1>33 DEF Grab, Complain, ShutDown, CloseServ, WaitEvent, LockKeys, HandleEvent, UnlockKeys, LoseDisplay, Cancelled, Arrive, PeerLeaves, Press
<1>34. CASE UNCHANGED vars
  BY <1>32, <1>34 DEF vars
<1> QED
  BY <1>1, <1>2, <1>3, <1>4, <1>5, <1>6, <1>7, <1>8, <1>9, <1>10, <1>11, <1>12, <1>13, <1>14, <1>15, <1>16, <1>17, <1>18, <1>19, <1>20, <1>21, <1>22, <1>23, <1>24, <1>25, <1>26, <1>27, <1>28, <1>29, <1>30, <1>31, <1>32, <1>33, <1>34, <1>35, <1>36, <1>37
     DEF Next, Main, Handler, Keys, Environment

\* The first function is there before the daemon is.
LEMMA InitControl == Init => ControlOK
BY StacksDiffer
   DEF Init, ControlOK, StackOK, PoppedOK, Ended, Ending, Places, Base, Serving,
       Online, Locked, S1

\* Whatever failed, was kicked or broke: pop_defer finds its own function on
\* top of the stack.
THEOREM StackBalanced == Spec => []Balanced
<1>1. ControlOK => Balanced
  BY StacksDiffer
     DEF ControlOK, StackOK, Ended, Ending, Balanced, S0, S1, S2, S3, S4, Base, Serving,
         Online, Locked
<1>2. ControlOK /\ [Next]_vars => ControlOK'
  BY ControlKeeps
<1> QED BY <1>1, <1>2, InitControl, PTL DEF Spec

-----------------------------------------------------------------------------
(* What a session leaves behind.                                           *)

\* Where a session may still be in STATE_HANDLE_CLIENT.
Handling ==
    \/ pc \in {"opened", "hello", "handshake", "sized", "lock1", "while",
               "slow", "check", "lock", "ended", "reset"} \cup Locked
    \/ pc = "fail" /\ defers \in {S3, S4}

\* Who still has to give back what a session uses.
FreshOK ==
    /\ conn = "open" =>
          \/ Ended \/ pc \in {"accepted", "opened"} \cup Online \cup Locked
          \/ pc = "fail" /\ defers \in {S3, S4}
          \/ popped = "close_conn"
    /\ lock = "main" =>
          \/ Ended \/ pc \in Locked \/ (pc = "fail" /\ defers = S4)
          \/ popped = "unlock"
    /\ syslog = "main" =>
          \/ Ended \/ handler = "logging" \/ popped = "statsLog"
          \/ pc \in {"start", "listens", "hello", "sized", "slow", "bye",
                    "error", "critical", "closing"}
    /\ handler \in {"logging", "bye"} \/ popped = "statsLog" => syslog = "main"
    /\ handler \in {"checked", "log", "logging"} => Handling
    /\ keys = "complained" => syslog = "keys"
    /\ state = "HANDLE_CLIENT" => Ended \/ Handling

\* Every step leaves it to somebody.
LEMMA FreshKeeps == ControlOK /\ FreshOK /\ [Next]_vars => FreshOK'
<1> SUFFICES ASSUME ControlOK, FreshOK, [Next]_vars PROVE FreshOK'
  OBVIOUS
<1> USE Stacks, StacksDiffer
    DEF ControlOK, StackOK, PoppedOK, Ended, Ending, At, Goto, push_defer, pop_defer,
        Places, Base, Serving, Online, Locked, Handling, FreshOK
<1>1. CASE CallDefer
  BY <1>1 DEF CallDefer, Calling, life, thread, fds
<1>2. CASE CreateThread \/ CreateFails \/ OpenSocket
  BY <1>2 DEF CreateThread, CreateFails, OpenSocket, main, life, fds, thread
<1>3. CASE Setup \/ Loop \/ EnterAccept
  BY <1>3 DEF Setup, Loop, EnterAccept, main, life, fds, thread
<1>4. CASE Accept \/ Accepted \/ Opened
  BY <1>4 DEF Accept, Accepted, Opened, main, life, fds, thread
<1>5. CASE LogBegin \/ LogEnd
  BY <1>5 DEF LogBegin, LogEnd, AfterLog, main, life, fds, thread
<1>6. CASE ExchangeDone \/ ExchangeFails
  BY <1>6 DEF ExchangeDone, ExchangeFails, AfterExchange, main, life, fds, thread
<1>7. CASE BrokenPipe
  BY <1>7 DEF BrokenPipe, Writes, main, life, fds, thread
<1>8. CASE LockControl \/ Shot \/ UnlockControl
  BY <1>8 DEF LockControl, Shot, UnlockControl, main, life, fds, thread
<1>9. CASE While \/ CloseConn
  BY <1>9 DEF While, CloseConn, main, life, fds, thread
<1>10. CASE Fail
  BY <1>10 DEF Fail, Caller, main, life, fds, thread
<1>11. CASE SessionFailed \/ ResetState \/ Returned
  BY <1>11 DEF SessionFailed, ResetState, Returned, main, life, fds, thread
<1>12. CASE Closing \/ Exit
  BY <1>12 DEF Closing, Exit, main, life, fds, thread
<1>13. CASE Kick
  BY <1>13 DEF Kick, main, life, fds, thread
<1>14. CASE HandlerCloses \/ HandlerLogs \/ HandlerDone
  BY <1>14 DEF HandlerCloses, HandlerLogs, HandlerDone, main, life, fds, thread
<1>15. CASE Terminate \/ TermPop
  BY <1>15 DEF Terminate, TermPop, main, life, fds, thread
<1>16. CASE TermLog \/ TermExit
  BY <1>16 DEF TermLog, TermExit, main, life, fds, thread
<1>17. CASE Grab \/ Complain \/ ShutDown \/ CloseServ
  BY <1>17 DEF Grab, Complain, ShutDown, CloseServ, main, life, fds, thread
<1>18. CASE WaitEvent \/ LockKeys \/ HandleEvent \/ UnlockKeys
  BY <1>18 DEF WaitEvent, LockKeys, HandleEvent, UnlockKeys, main, life, fds,
               thread
<1>19. CASE LoseDisplay \/ Cancelled \/ Arrive \/ PeerLeaves \/ Press
  BY <1>19 DEF LoseDisplay, Cancelled, Arrive, PeerLeaves, Press, main, life,
               fds, thread
<1>20. CASE Destroy \/ Cancel \/ StatsBegin \/ StatsEnd
  BY <1>20 DEF Destroy, Cancel, StatsBegin, StatsEnd, Calling, main, life, fds,
               thread
<1>21. CASE UNCHANGED vars
  BY <1>21 DEF vars, main, life, fds, thread
<1> QED
  BY <1>1, <1>2, <1>3, <1>4, <1>5, <1>6, <1>7, <1>8, <1>9, <1>10, <1>11,
     <1>12, <1>13, <1>14, <1>15, <1>16, <1>17, <1>18, <1>19, <1>20, <1>21
     DEF Next, Main, Handler, Keys, Environment

\* Whatever ended the session before, the daemon waits for the next reader
\* without a connection, without a lock and in another state.
THEOREM NextReaderFresh == Spec => []FreshStart
<1>1. Init => ControlOK /\ FreshOK
  BY InitControl DEF Init, FreshOK
<1>2. ControlOK /\ FreshOK /\ [Next]_vars => (ControlOK /\ FreshOK)'
  BY ControlKeeps, FreshKeeps
<1>3. ControlOK /\ FreshOK => FreshStart
  BY DEF FreshOK, FreshStart, Ended, Ending, Handling, Online, Locked
<1> QED BY <1>1, <1>2, <1>3, PTL DEF Spec

-----------------------------------------------------------------------------
(* The lock file.                                                          *)

\* Somebody is to remove it.
FileOK == lockfile => "unlink" \in ToSet(defers) \/ popped = "unlink" \/ lost

\* No step forgets to.
LEMMA FileKeeps == ControlOK /\ FileOK /\ [Next]_vars => FileOK'
<1> SUFFICES ASSUME ControlOK, FileOK, [Next]_vars PROVE FileOK'
  OBVIOUS
<1> USE Stacks, StacksDiffer
    DEF ControlOK, StackOK, PoppedOK, Ended, Ending, At, Goto, push_defer, pop_defer,
        Places, Base, Serving, Online, Locked, FileOK
<1>1. CASE CallDefer
  BY <1>1 DEF CallDefer, Calling, life, thread, fds
<1>2. CASE CreateThread \/ CreateFails \/ OpenSocket
  BY <1>2 DEF CreateThread, CreateFails, OpenSocket, main, life, fds, thread
<1>3. CASE Setup \/ Loop \/ EnterAccept
  BY <1>3 DEF Setup, Loop, EnterAccept, main, life, fds, thread
<1>4. CASE Accept \/ Accepted \/ Opened
  BY <1>4 DEF Accept, Accepted, Opened, main, life, fds, thread
<1>5. CASE LogBegin \/ LogEnd
  BY <1>5 DEF LogBegin, LogEnd, AfterLog, main, life, fds, thread
<1>6. CASE ExchangeDone \/ ExchangeFails
  BY <1>6 DEF ExchangeDone, ExchangeFails, AfterExchange, main, life, fds, thread
<1>7. CASE BrokenPipe
  BY <1>7 DEF BrokenPipe, Writes, main, life, fds, thread
<1>8. CASE LockControl \/ Shot \/ UnlockControl
  BY <1>8 DEF LockControl, Shot, UnlockControl, main, life, fds, thread
<1>9. CASE While \/ CloseConn
  BY <1>9 DEF While, CloseConn, main, life, fds, thread
<1>10. CASE Fail
  BY <1>10 DEF Fail, Caller, main, life, fds, thread
<1>11. CASE SessionFailed \/ ResetState \/ Returned
  BY <1>11 DEF SessionFailed, ResetState, Returned, main, life, fds, thread
<1>12. CASE Closing \/ Exit
  BY <1>12 DEF Closing, Exit, main, life, fds, thread
<1>13. CASE Kick
  BY <1>13 DEF Kick, main, life, fds, thread
<1>14. CASE HandlerCloses \/ HandlerLogs \/ HandlerDone
  BY <1>14 DEF HandlerCloses, HandlerLogs, HandlerDone, main, life, fds, thread
<1>15. CASE Terminate \/ TermPop
  BY <1>15 DEF Terminate, TermPop, main, life, fds, thread
<1>16. CASE TermLog \/ TermExit
  BY <1>16 DEF TermLog, TermExit, main, life, fds, thread
<1>17. CASE Grab \/ Complain \/ ShutDown \/ CloseServ
  BY <1>17 DEF Grab, Complain, ShutDown, CloseServ, main, life, fds, thread
<1>18. CASE WaitEvent \/ LockKeys \/ HandleEvent \/ UnlockKeys
  BY <1>18 DEF WaitEvent, LockKeys, HandleEvent, UnlockKeys, main, life, fds,
               thread
<1>19. CASE LoseDisplay \/ Cancelled \/ Arrive \/ PeerLeaves \/ Press
  BY <1>19 DEF LoseDisplay, Cancelled, Arrive, PeerLeaves, Press, main, life,
               fds, thread
<1>20. CASE Destroy \/ Cancel \/ StatsBegin \/ StatsEnd
  BY <1>20 DEF Destroy, Cancel, StatsBegin, StatsEnd, Calling, main, life, fds,
               thread
<1>21. CASE UNCHANGED vars
  BY <1>21 DEF vars, main, life, fds, thread
<1> QED
  BY <1>1, <1>2, <1>3, <1>4, <1>5, <1>6, <1>7, <1>8, <1>9, <1>10, <1>11,
     <1>12, <1>13, <1>14, <1>15, <1>16, <1>17, <1>18, <1>19, <1>20, <1>21
     DEF Next, Main, Handler, Keys, Environment

\* However the process ends, the lock file is gone; but for a signal between
\* the two halves of the pop_defer that removes it.
THEOREM FileRemoved == Spec => []ExitClean
<1>1. Init => ControlOK /\ FileOK
  BY InitControl, StacksDiffer DEF Init, FileOK, S1
<1>2. ControlOK /\ FileOK /\ [Next]_vars => (ControlOK /\ FileOK)'
  BY ControlKeeps, FileKeeps
<1>3. ControlOK /\ FileOK => ExitClean
  BY StacksDiffer DEF ControlOK, StackOK, Ended, Ending, FileOK, ExitClean
<1> QED BY <1>1, <1>2, <1>3, PTL DEF Spec
-----------------------------------------------------------------------------
(* A failed shortcuts thread.                                              *)

\* The socket is closed by the thread, or the daemon sees STATE_SHUTDOWN
\* before it accepts; no handler may change the state in between.
ServOK ==
    /\ serv = "open" =>
          Ended \/ "destroy" \in ToSet(defers) \/ popped = "destroy"
    /\ pc \in {"start", "create"} => keys = "none"
    /\ keys \in {"close", "failed"} =>
          (pc \in {"socket", "setup", "listens"} => Ended \/ state = "SHUTDOWN")
    /\ keys = "failed" /\ serv = "open" /\ ~Ended =>
          /\ state = "SHUTDOWN"
          /\ \/ pc \in {"setup", "listens", "loop", "returned"}
             \/ pc = "fail" /\ defers = S2
    /\ late \in {0, 1}
    /\ late = 1 => \/ Ended
                   \/ serv # "open" /\ pc \notin {"start", "create", "socket", "accepting"}

\* No step lets a second reader in.
LEMMA ServKeeps == ControlOK /\ FreshOK /\ ServOK /\ [Next]_vars => ServOK'
<1> SUFFICES ASSUME ControlOK, FreshOK, ServOK, [Next]_vars PROVE ServOK'
  OBVIOUS
<1> USE Stacks, StacksDiffer
    DEF ControlOK, StackOK, PoppedOK, Ended, Ending, At, Goto, push_defer, pop_defer,
        Places, Base, Serving, Online, Locked, Handling, FreshOK, ServOK
<1>1. CASE CallDefer
  BY <1>1 DEF CallDefer, Calling, life, thread, fds
<1>2. CASE CreateThread \/ CreateFails \/ OpenSocket
  BY <1>2 DEF CreateThread, CreateFails, OpenSocket, main, life, fds, thread
<1>3. CASE Setup \/ Loop \/ EnterAccept
  BY <1>3 DEF Setup, Loop, EnterAccept, main, life, fds, thread
<1>4. CASE Accept \/ Accepted \/ Opened
  BY <1>4 DEF Accept, Accepted, Opened, main, life, fds, thread
<1>5. CASE LogBegin \/ LogEnd
  BY <1>5 DEF LogBegin, LogEnd, AfterLog, main, life, fds, thread
<1>6. CASE ExchangeDone \/ ExchangeFails
  BY <1>6 DEF ExchangeDone, ExchangeFails, AfterExchange, main, life, fds, thread
<1>7. CASE BrokenPipe
  BY <1>7 DEF BrokenPipe, Writes, main, life, fds, thread
<1>8. CASE LockControl \/ Shot \/ UnlockControl
  BY <1>8 DEF LockControl, Shot, UnlockControl, main, life, fds, thread
<1>9. CASE While \/ CloseConn
  BY <1>9 DEF While, CloseConn, main, life, fds, thread
<1>10. CASE Fail
  BY <1>10 DEF Fail, Caller, main, life, fds, thread
<1>11. CASE SessionFailed \/ ResetState \/ Returned
  BY <1>11 DEF SessionFailed, ResetState, Returned, main, life, fds, thread
<1>12. CASE Closing \/ Exit
  BY <1>12 DEF Closing, Exit, main, life, fds, thread
<1>13. CASE Kick
  BY <1>13 DEF Kick, main, life, fds, thread
<1>14. CASE HandlerCloses \/ HandlerLogs \/ HandlerDone
  BY <1>14 DEF HandlerCloses, HandlerLogs, HandlerDone, main, life, fds, thread
<1>15. CASE Terminate \/ TermPop
  BY <1>15 DEF Terminate, TermPop, main, life, fds, thread
<1>16. CASE TermLog \/ TermExit
  BY <1>16 DEF TermLog, TermExit, main, life, fds, thread
<1>17. CASE Grab \/ Complain \/ ShutDown \/ CloseServ
  BY <1>17 DEF Grab, Complain, ShutDown, CloseServ, main, life, fds, thread
<1>18. CASE WaitEvent \/ LockKeys \/ HandleEvent \/ UnlockKeys
  BY <1>18 DEF WaitEvent, LockKeys, HandleEvent, UnlockKeys, main, life, fds,
               thread
<1>19. CASE LoseDisplay \/ Cancelled \/ Arrive \/ PeerLeaves \/ Press
  BY <1>19 DEF LoseDisplay, Cancelled, Arrive, PeerLeaves, Press, main, life,
               fds, thread
<1>20. CASE Destroy \/ Cancel \/ StatsBegin \/ StatsEnd
  BY <1>20 DEF Destroy, Cancel, StatsBegin, StatsEnd, Calling, main, life, fds,
               thread
<1>21. CASE UNCHANGED vars
  BY <1>21 DEF vars, main, life, fds, thread
<1> QED
  BY <1>1, <1>2, <1>3, <1>4, <1>5, <1>6, <1>7, <1>8, <1>9, <1>10, <1>11,
     <1>12, <1>13, <1>14, <1>15, <1>16, <1>17, <1>18, <1>19, <1>20, <1>21
     DEF Next, Main, Handler, Keys, Environment

\* After a failure of the shortcuts thread at most one more reader is served.
THEOREM OneLastReader == Spec => []LastReader
<1> DEFINE Inv == ControlOK /\ FreshOK /\ ServOK
<1>1. Init => Inv
  BY InitControl DEF Init, FreshOK, ServOK
<1>2. Inv /\ [Next]_vars => Inv'
  BY ControlKeeps, FreshKeeps, ServKeeps
<1>3. Inv => LastReader
  BY DEF ServOK, LastReader
<1> QED BY <1>1, <1>2, <1>3, PTL DEF Spec

-----------------------------------------------------------------------------
(* Types.                                                                  *)

\* How many frames a session has allocated, where it is.
HeldOK ==
    /\ held \in 0 .. 2
    /\ ~Ended =>
          /\ pc \in Base \cup {"setup", "listens", "accept", "accepting",
                             "accepted", "opened", "reset", "error", "hello",
                             "handshake", "sized", "lock1", "shot1"} => held = 0
          /\ pc \in {"loop", "ended"} /\ popped # "close_conn" => held = 0
          /\ pc = "fail" /\ defers = S2 => held = 0
          /\ pc \in {"send1", "unlock1", "while", "slow", "check", "lock", "shot",
                     "unlock", "bye", "close"} => held = 1
          /\ pc = "send" => held = 2

\* A session has two frames at most.
LEMMA HeldKeeps == ControlOK /\ HeldOK /\ [Next]_vars => HeldOK'
<1> SUFFICES ASSUME ControlOK, HeldOK, [Next]_vars PROVE HeldOK'
  OBVIOUS
<1> USE Stacks, StacksDiffer
    DEF ControlOK, StackOK, PoppedOK, Ended, Ending, At, Goto, push_defer, pop_defer,
        Places, Base, Serving, Online, Locked, HeldOK
<1>1. CASE CallDefer
  BY <1>1 DEF CallDefer, Calling, life, thread, fds
<1>2. CASE CreateThread \/ CreateFails \/ OpenSocket
  BY <1>2 DEF CreateThread, CreateFails, OpenSocket, main, life, fds, thread
<1>3. CASE Setup \/ Loop \/ EnterAccept
  BY <1>3 DEF Setup, Loop, EnterAccept, main, life, fds, thread
<1>4. CASE Accept \/ Accepted \/ Opened
  BY <1>4 DEF Accept, Accepted, Opened, main, life, fds, thread
<1>5. CASE LogBegin \/ LogEnd
  BY <1>5 DEF LogBegin, LogEnd, AfterLog, main, life, fds, thread
<1>6. CASE ExchangeDone \/ ExchangeFails
  BY <1>6 DEF ExchangeDone, ExchangeFails, AfterExchange, main, life, fds, thread
<1>7. CASE BrokenPipe
  BY <1>7 DEF BrokenPipe, Writes, main, life, fds, thread
<1>8. CASE LockControl \/ Shot \/ UnlockControl
  BY <1>8 DEF LockControl, Shot, UnlockControl, main, life, fds, thread
<1>9. CASE While \/ CloseConn
  BY <1>9 DEF While, CloseConn, main, life, fds, thread
<1>10. CASE Fail
  BY <1>10 DEF Fail, Caller, main, life, fds, thread
<1>11. CASE SessionFailed \/ ResetState \/ Returned
  BY <1>11 DEF SessionFailed, ResetState, Returned, main, life, fds, thread
<1>12. CASE Closing \/ Exit
  BY <1>12 DEF Closing, Exit, main, life, fds, thread
<1>13. CASE Kick
  BY <1>13 DEF Kick, main, life, fds, thread
<1>14. CASE HandlerCloses \/ HandlerLogs \/ HandlerDone
  BY <1>14 DEF HandlerCloses, HandlerLogs, HandlerDone, main, life, fds, thread
<1>15. CASE Terminate \/ TermPop
  BY <1>15 DEF Terminate, TermPop, main, life, fds, thread
<1>16. CASE TermLog \/ TermExit
  BY <1>16 DEF TermLog, TermExit, main, life, fds, thread
<1>17. CASE Grab \/ Complain \/ ShutDown \/ CloseServ
  BY <1>17 DEF Grab, Complain, ShutDown, CloseServ, main, life, fds, thread
<1>18. CASE WaitEvent \/ LockKeys \/ HandleEvent \/ UnlockKeys
  BY <1>18 DEF WaitEvent, LockKeys, HandleEvent, UnlockKeys, main, life, fds,
               thread
<1>19. CASE LoseDisplay \/ Cancelled \/ Arrive \/ PeerLeaves \/ Press
  BY <1>19 DEF LoseDisplay, Cancelled, Arrive, PeerLeaves, Press, main, life,
               fds, thread
<1>20. CASE Destroy \/ Cancel \/ StatsBegin \/ StatsEnd
  BY <1>20 DEF Destroy, Cancel, StatsBegin, StatsEnd, Calling, main, life, fds,
               thread
<1>21. CASE UNCHANGED vars
  BY <1>21 DEF vars, main, life, fds, thread
<1> QED
  BY <1>1, <1>2, <1>3, <1>4, <1>5, <1>6, <1>7, <1>8, <1>9, <1>10, <1>11,
     <1>12, <1>13, <1>14, <1>15, <1>16, <1>17, <1>18, <1>19, <1>20, <1>21
     DEF Next, Main, Handler, Keys, Environment

\* The variables that have values of their own.
RestOK ==
    /\ state \in {"SHUTDOWN", "LISTEN", "HANDLE_CLIENT"}
    /\ {serv, conn} \subseteq {"none", "open", "closed"}
    /\ lock \in {"free", "main", "keys"} /\ syslog \in {"free", "main", "keys"}
    /\ keys \in {"none", "grab", "complain", "complained", "close", "wait",
                 "lock", "handle", "failed", "ended"}
    /\ signals \in 0 .. MaxSignals
    /\ events \in Nat /\ presses \in Nat /\ events + presses <= MaxPresses
    /\ clients \in 0 .. MaxClients

\* They keep them.
LEMMA RestKeeps == RestOK /\ [Next]_vars => RestOK'
<1> SUFFICES ASSUME RestOK, [Next]_vars PROVE RestOK'
  OBVIOUS
<1> USE BoundsAssumption DEF RestOK
<1>1. CASE CallDefer
  BY <1>1 DEF CallDefer, Calling, life, thread, fds
<1>2. CASE CreateThread \/ CreateFails \/ OpenSocket
  BY <1>2 DEF CreateThread, CreateFails, OpenSocket, main, life, fds, thread
<1>3. CASE Setup \/ Loop \/ EnterAccept
  BY <1>3 DEF Setup, Loop, EnterAccept, main, life, fds, thread
<1>4. CASE Accept \/ Accepted \/ Opened
  BY <1>4 DEF Accept, Accepted, Opened, main, life, fds, thread
<1>5. CASE LogBegin \/ LogEnd
  BY <1>5 DEF LogBegin, LogEnd, AfterLog, main, life, fds, thread
<1>6. CASE ExchangeDone \/ ExchangeFails
  BY <1>6 DEF ExchangeDone, ExchangeFails, AfterExchange, main, life, fds, thread
<1>7. CASE BrokenPipe
  BY <1>7 DEF BrokenPipe, Writes, main, life, fds, thread
<1>8. CASE LockControl \/ Shot \/ UnlockControl
  BY <1>8 DEF LockControl, Shot, UnlockControl, main, life, fds, thread
<1>9. CASE While \/ CloseConn
  BY <1>9 DEF While, CloseConn, main, life, fds, thread
<1>10. CASE Fail
  BY <1>10 DEF Fail, Caller, main, life, fds, thread
<1>11. CASE SessionFailed \/ ResetState \/ Returned
  BY <1>11 DEF SessionFailed, ResetState, Returned, main, life, fds, thread
<1>12. CASE Closing \/ Exit
  BY <1>12 DEF Closing, Exit, main, life, fds, thread
<1>13. CASE Kick
  BY <1>13 DEF Kick, main, life, fds, thread
<1>14. CASE HandlerCloses \/ HandlerLogs \/ HandlerDone
  BY <1>14 DEF HandlerCloses, HandlerLogs, HandlerDone, main, life, fds, thread
<1>15. CASE Terminate \/ TermPop
  BY <1>15 DEF Terminate, TermPop, main, life, fds, thread
<1>16. CASE TermLog \/ TermExit
  BY <1>16 DEF TermLog, TermExit, main, life, fds, thread
<1>17. CASE Grab \/ Complain \/ ShutDown \/ CloseServ
  BY <1>17 DEF Grab, Complain, ShutDown, CloseServ, main, life, fds, thread
<1>18. CASE WaitEvent \/ LockKeys \/ HandleEvent \/ UnlockKeys
  BY <1>18 DEF WaitEvent, LockKeys, HandleEvent, UnlockKeys, main, life, fds,
               thread
<1>19. CASE LoseDisplay \/ Cancelled \/ Arrive \/ PeerLeaves \/ Press
  BY <1>19 DEF LoseDisplay, Cancelled, Arrive, PeerLeaves, Press, main, life,
               fds, thread
<1>20. CASE Destroy \/ Cancel \/ StatsBegin \/ StatsEnd
  BY <1>20 DEF Destroy, Cancel, StatsBegin, StatsEnd, Calling, main, life, fds,
               thread
<1>21. CASE UNCHANGED vars
  BY <1>21 DEF vars, main, life, fds, thread
<1> QED
  BY <1>1, <1>2, <1>3, <1>4, <1>5, <1>6, <1>7, <1>8, <1>9, <1>10, <1>11,
     <1>12, <1>13, <1>14, <1>15, <1>16, <1>17, <1>18, <1>19, <1>20, <1>21
     DEF Next, Main, Handler, Keys, Environment

\* The truth values.
FlagsOK ==
    /\ peer \in BOOLEAN /\ leaked \in BOOLEAN
    /\ lockfile \in BOOLEAN /\ lost \in BOOLEAN /\ has_stats \in BOOLEAN
    /\ process \in BOOLEAN /\ cancelled \in BOOLEAN

\* They stay truth values.
LEMMA FlagsKeep == FlagsOK /\ [Next]_vars => FlagsOK'
<1> SUFFICES ASSUME FlagsOK, [Next]_vars PROVE FlagsOK'
  OBVIOUS
<1> USE DEF FlagsOK
<1>1. CASE CallDefer
  BY <1>1 DEF CallDefer, Calling, life, thread, fds
<1>2. CASE CreateThread \/ CreateFails \/ OpenSocket
  BY <1>2 DEF CreateThread, CreateFails, OpenSocket, main, life, fds, thread
<1>3. CASE Setup \/ Loop \/ EnterAccept
  BY <1>3 DEF Setup, Loop, EnterAccept, main, life, fds, thread
<1>4. CASE Accept \/ Accepted \/ Opened
  BY <1>4 DEF Accept, Accepted, Opened, main, life, fds, thread
<1>5. CASE LogBegin \/ LogEnd
  BY <1>5 DEF LogBegin, LogEnd, AfterLog, main, life, fds, thread
<1>6. CASE ExchangeDone \/ ExchangeFails
  BY <1>6 DEF ExchangeDone, ExchangeFails, AfterExchange, main, life, fds, thread
<1>7. CASE BrokenPipe
  BY <1>7 DEF BrokenPipe, Writes, main, life, fds, thread
<1>8. CASE LockControl \/ Shot \/ UnlockControl
  BY <1>8 DEF LockControl, Shot, UnlockControl, main, life, fds, thread
<1>9. CASE While \/ CloseConn
  BY <1>9 DEF While, CloseConn, main, life, fds, thread
<1>10. CASE Fail
  BY <1>10 DEF Fail, Caller, main, life, fds, thread
<1>11. CASE SessionFailed \/ ResetState \/ Returned
  BY <1>11 DEF SessionFailed, ResetState, Returned, main, life, fds, thread
<1>12. CASE Closing \/ Exit
  BY <1>12 DEF Closing, Exit, main, life, fds, thread
<1>13. CASE Kick
  BY <1>13 DEF Kick, main, life, fds, thread
<1>14. CASE HandlerCloses \/ HandlerLogs \/ HandlerDone
  BY <1>14 DEF HandlerCloses, HandlerLogs, HandlerDone, main, life, fds, thread
<1>15. CASE Terminate \/ TermPop
  BY <1>15 DEF Terminate, TermPop, main, life, fds, thread
<1>16. CASE TermLog \/ TermExit
  BY <1>16 DEF TermLog, TermExit, main, life, fds, thread
<1>17. CASE Grab \/ Complain \/ ShutDown \/ CloseServ
  BY <1>17 DEF Grab, Complain, ShutDown, CloseServ, main, life, fds, thread
<1>18. CASE WaitEvent \/ LockKeys \/ HandleEvent \/ UnlockKeys
  BY <1>18 DEF WaitEvent, LockKeys, HandleEvent, UnlockKeys, main, life, fds,
               thread
<1>19. CASE LoseDisplay \/ Cancelled \/ Arrive \/ PeerLeaves \/ Press
  BY <1>19 DEF LoseDisplay, Cancelled, Arrive, PeerLeaves, Press, main, life,
               fds, thread
<1>20. CASE Destroy \/ Cancel \/ StatsBegin \/ StatsEnd
  BY <1>20 DEF Destroy, Cancel, StatsBegin, StatsEnd, Calling, main, life, fds,
               thread
<1>21. CASE UNCHANGED vars
  BY <1>21 DEF vars, main, life, fds, thread
<1> QED
  BY <1>1, <1>2, <1>3, <1>4, <1>5, <1>6, <1>7, <1>8, <1>9, <1>10, <1>11,
     <1>12, <1>13, <1>14, <1>15, <1>16, <1>17, <1>18, <1>19, <1>20, <1>21
     DEF Next, Main, Handler, Keys, Environment

\* Every variable keeps its type: the daemon is always at a statement of its
\* code, never holds more than two frames, and loses no key press.
THEOREM DaemonTypes == Spec => []TypeOK
<1> DEFINE Inv == ControlOK /\ FreshOK /\ ServOK /\ HeldOK /\ RestOK /\ FlagsOK
<1>1. Init => Inv
  <2> SUFFICES ASSUME Init PROVE Inv
    OBVIOUS
  <2>1. ControlOK /\ FreshOK /\ ServOK /\ HeldOK
    BY InitControl DEF Init, FreshOK, ServOK, HeldOK, Base
  <2>2. RestOK
    BY BoundsAssumption DEF Init, RestOK
  <2>3. FlagsOK
    BY DEF Init, FlagsOK
  <2> QED BY <2>1, <2>2, <2>3
<1>2. Inv /\ [Next]_vars => Inv'
  BY ControlKeeps, FreshKeeps, ServKeeps, HeldKeeps, RestKeeps, FlagsKeep
<1>3. Inv => TypeOK
  <2> SUFFICES ASSUME Inv PROVE TypeOK
    OBVIOUS
  <2>1. ToSet(defers) \subseteq {"unlink", "destroy", "close_conn", "unlock"}
    BY StacksDiffer DEF ControlOK, StackOK, Ended, Ending, Places
  <2>2. late \in Nat
    BY DEF ServOK
  <2>3. {events, presses} \subseteq 0 .. MaxPresses
    BY BoundsAssumption DEF RestOK
  <2> QED
    BY <2>1, <2>2, <2>3 DEF TypeOK, ControlOK, Places, HeldOK, RestOK, FlagsOK
<1> QED BY <1>1, <1>2, <1>3, PTL DEF Spec
=============================================================================
