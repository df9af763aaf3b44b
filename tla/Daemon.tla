------------------------------- MODULE Daemon -------------------------------
(***************************************************************************)
(* The daemon as a process (server/main.c, common/exceptions.c,            *)
(* server/shortcuts.c): daemon_main on the main thread, handle_shortcuts   *)
(* on a thread of its own, and the signal handlers, which run on the main  *)
(* thread between any two of its steps.  What they share: state, the two   *)
(* descriptors, control_lock, the stack of deferred functions and the lock *)
(* inside syslog.                                                          *)
(*                                                                         *)
(* What goes over the connection is the subject of FrameSync.  Here an     *)
(* exchange with the reader is one step that succeeds or fails.  A signal  *)
(* that ends the daemon may come at any step, inside every handler too.    *)
(* It comes once for each of the signals (sa_mask is empty, but a signal   *)
(* is blocked while its own handler runs, and these handlers do not        *)
(* return).  A kick or a SIGPIPE inside another handler is left out.       *)
(***************************************************************************)
EXTENDS Naturals, SequencesExt

CONSTANTS
    MaxClients,    \* readers in the backlog of listen
    MaxPresses,    \* shortcuts the user presses
    MaxSignals,    \* SIGTERM and the signals of signals_fatal that come
    stats_enabled  \* the setting

ASSUME BoundsAssumption ==
    /\ MaxClients \in Nat /\ MaxPresses \in Nat /\ MaxSignals \in Nat
    /\ stats_enabled \in BOOLEAN

VARIABLES
    pc,        \* where the main thread is
    popped,    \* function off the stack and not called yet, or the part of
               \* server_destroy that comes next
    defers,    \* defers_stack
    handler,   \* the signal handler that interrupts the main thread
    state,     \* state
    serv,      \* serv_fd: "none", "open" or "closed"
    conn,      \* conn_fd: "none", "open" or "closed"
    peer,      \* whether the reader at the other end is there
    lock,      \* owner of control_lock: "free", "main" or "keys"
    syslog,    \* owner of the lock inside syslog
    held,      \* frames allocated by this session and not freed
    leaked,    \* history: a session has ended with frames not freed
    lockfile,  \* the lock file exists
    lost,      \* history: a signal came when its removal was off the stack
    signals,   \* signals to come that end the daemon
    has_stats, \* has_stats
    keys,      \* where the shortcuts thread is
    process,   \* process of shortcuts.c
    cancelled, \* pthread_cancel has been called
    events,    \* key events that wait for the shortcuts thread
    presses,   \* key presses to come
    clients,   \* readers that wait for accept
    late       \* history: readers accepted after the shortcuts thread failed

life     == <<lockfile, lost, signals, has_stats>>
main     == <<pc, popped, defers, held, leaked, life>>
fds      == <<serv, conn, peer, clients, late>>
thread   == <<keys, process, cancelled, events, presses>>
vars     == <<main, fds, thread, handler, state, lock, syslog>>

-----------------------------------------------------------------------------
Init ==
    /\ pc = "start" /\ popped = "none" /\ defers = <<"unlink">>
    /\ handler = "none" /\ state = "LISTEN"
    /\ serv = "none" /\ conn = "none" /\ peer = FALSE
    /\ lock = "free" /\ syslog = "free"
    /\ held = 0 /\ leaked = FALSE
    /\ lockfile = TRUE /\ lost = FALSE /\ signals = MaxSignals
    /\ has_stats = FALSE
    /\ keys = "none" /\ process = FALSE /\ cancelled = FALSE
    /\ events = 0 /\ presses = MaxPresses
    /\ clients = 0 /\ late = 0

\* The main thread is at l, not inside a handler or a deferred function.
At(l) == pc = l /\ handler = "none" /\ popped = "none"

Goto(l) == pc' = l

push_defer(f) == defers' = Append(defers, f)

\* The first half of pop_defer: the function is off the stack; CallDefer
\* is the second.  The caller goes on at l.
pop_defer(l) ==
    /\ popped' = Last(defers) /\ defers' = Front(defers) /\ Goto(l)

-----------------------------------------------------------------------------
(* Deferred functions: the main thread calls them from pop_defer, or from  *)
(* pop_all_defers in a handler that ends the daemon.                       *)

Calling(f) == popped = f /\ handler \in {"none", "term"} /\ pc # "exited"

\* defer_unlock_control_lock, defer_close_conn_fd and
\* defer_close_and_unlink_lock_file.  A session that ends leaves its frames
\* allocated.
CallDefer ==
    /\ \/ /\ Calling("unlock") /\ lock' = "free"
          /\ UNCHANGED <<conn, lockfile, leaked, held>>
       \/ /\ Calling("close_conn")
          /\ conn' = IF conn = "open" THEN "closed" ELSE conn
          /\ leaked' = (leaked \/ (held > 0 /\ handler = "none"))
          /\ held' = IF handler = "none" THEN 0 ELSE held
          /\ UNCHANGED <<lock, lockfile>>
       \/ /\ Calling("unlink") /\ lockfile' = FALSE
          /\ UNCHANGED <<lock, conn, leaked, held>>
    /\ popped' = "none"
    /\ UNCHANGED <<pc, defers, handler, state, serv, peer, clients, late,
                   lost, signals, has_stats, thread, syslog>>

\* server_destroy: the socket is closed and the thread told to stop, ...
Destroy ==
    /\ Calling("destroy") /\ popped' = "cancel"
    /\ serv' = IF serv = "open" THEN "closed" ELSE serv
    /\ process' = FALSE
    /\ UNCHANGED <<pc, defers, held, leaked, life, conn, peer, clients, late,
                   keys, cancelled, events, presses, handler, state, lock,
                   syslog>>

\* Mutant of Cancel: pthread_join, which waits for the thread.
CancelJoins ==
    /\ Calling("cancel") /\ keys \in {"none", "failed", "ended"}
    /\ popped' = IF has_stats /\ stats_enabled THEN "stats" ELSE "none"
    /\ UNCHANGED <<pc, defers, held, leaked, life, fds, thread, handler, state,
                   lock, syslog>>

\* ... it is cancelled, whatever it waits for, ...
Cancel ==
    /\ Calling("cancel") /\ cancelled' = TRUE
    /\ popped' = IF has_stats /\ stats_enabled THEN "stats" ELSE "none"
    /\ UNCHANGED <<pc, defers, held, leaked, life, fds,
                   keys, process, events, presses, handler, state, lock,
                   syslog>>

\* ... and syslog tells whether the statistics were saved.
StatsBegin ==
    /\ Calling("stats") /\ popped' = "statsLog"
    /\ syslog = "free" /\ syslog' = "main"
    /\ UNCHANGED <<pc, defers, held, leaked, life, fds, thread, handler, state,
                   lock>>

StatsEnd ==
    /\ Calling("statsLog") /\ popped' = "none" /\ syslog' = "free"
    /\ UNCHANGED <<pc, defers, held, leaked, life, fds, thread, handler, state,
                   lock>>

-----------------------------------------------------------------------------
(* daemon_main                                                             *)

\* server_create starts the shortcuts thread before it has serv_fd.
CreateThread ==
    /\ At("create") /\ Goto("socket")
    /\ keys' = "grab"
    /\ UNCHANGED <<popped, defers, held, leaked, life, fds,
                   process, cancelled, events, presses, handler, state, lock, syslog>>

CreateFails ==
    /\ (At("start") /\ syslog = "free") \/ At("create") \/ At("socket")
    /\ Goto("returned")
    /\ UNCHANGED <<popped, defers, held, leaked, life, fds, thread,
                   handler, state, lock, syslog>>

OpenSocket ==
    /\ At("socket") /\ Goto("setup")
    /\ serv' = "open" /\ push_defer("destroy")
    /\ UNCHANGED <<popped, held, leaked, life, conn, peer, clients, late,
                   thread, handler, state, lock, syslog>>

\* server_setup: setsockopt, bind and listen need the descriptor.
Setup ==
    /\ At("setup")
    /\ \/ serv = "open" /\ Goto("listens")
       \/ Goto("fail")
    /\ UNCHANGED <<popped, defers, held, leaked, life, fds, thread,
                   handler, state, lock, syslog>>

\* The condition of the accept loop, and the call.
Loop ==
    /\ At("loop")
    /\ \/ /\ state \in {"LISTEN", "HANDLE_CLIENT"}
          /\ Goto("accept") /\ UNCHANGED <<popped, defers>>
       \/ state = "SHUTDOWN" /\ pop_defer("returned")
    /\ UNCHANGED <<held, leaked, life, fds, thread,
                   handler, state, lock, syslog>>

EnterAccept ==
    /\ At("accept")
    /\ Goto(IF serv = "open" THEN "accepting" ELSE "fail")
    /\ UNCHANGED <<popped, defers, held, leaked, life, fds, thread,
                   handler, state, lock, syslog>>

\* A call of accept that waits is not disturbed when serv_fd is closed.
Accept ==
    /\ At("accepting") /\ clients > 0 /\ Goto("accepted")
    /\ clients' = clients - 1 /\ conn' = "open" /\ peer' = TRUE
    /\ late' = IF keys = "failed" THEN late + 1 ELSE late
    /\ UNCHANGED <<popped, defers, held, leaked, life, serv, thread,
                   handler, state, lock, syslog>>

\* server_handle_client begins.
Accepted ==
    /\ At("accepted") /\ Goto("opened")
    /\ state' = "HANDLE_CLIENT"
    /\ UNCHANGED <<popped, defers, held, leaked, life, fds, thread,
                   handler, lock, syslog>>

Opened ==
    /\ At("opened") /\ Goto("hello")
    /\ push_defer("close_conn")
    /\ UNCHANGED <<popped, held, leaked, life, fds, thread,
                   handler, state, lock, syslog>>

\* The calls on the main thread that take the lock inside syslog (closelog
\* is one), and where the code goes on.  server_destroy has one more.
AfterLog ==
    [start |-> "create", listens |-> "loop", hello |-> "handshake",
     sized |-> "lock1", slow |-> "while", bye |-> "close", error |-> "loop",
     critical |-> "closing", closing |-> "closed"]

LogBegin ==
    /\ \E l \in DOMAIN AfterLog : At(l)
    /\ syslog = "free" /\ syslog' = "main"
    /\ UNCHANGED <<main, fds, thread, handler, state, lock>>

LogEnd ==
    /\ \E l \in DOMAIN AfterLog : At(l) /\ Goto(AfterLog[l])
    /\ syslog = "main" /\ syslog' = "free"
    /\ UNCHANGED <<popped, defers, held, leaked, life, fds, thread,
                   handler, state, lock>>

-----------------------------------------------------------------------------
(* The frames of a session.                                                *)

\* Exchanges with the reader, and where the code goes on after success:
\* handshake, transfer_image_send_all, the CONN_CHECK byte, the regions of a
\* frame, and the error message of a screenshot that failed.
AfterExchange ==
    [handshake |-> "sized", send1 |-> "unlock1", check |-> "lock",
     send |-> "unlock", showerror |-> "fail"]
\* Those that write; the handshake writes its refusals.
Writes == {"handshake", "send1", "check", "send", "showerror"}

\* Mutant of ExchangeDone: the frame before is not freed.
ExchangeDoneLeaks ==
    /\ \E l \in DOMAIN AfterExchange : At(l) /\ Goto(AfterExchange[l])
    /\ conn = "open" /\ peer
    /\ UNCHANGED <<popped, defers, held, leaked, life, fds, thread,
                   handler, state, lock, syslog>>

\* The frame sent becomes image_data and the one before it is freed.
ExchangeDone ==
    /\ \E l \in DOMAIN AfterExchange :
          /\ At(l) /\ Goto(AfterExchange[l])
          /\ held' = IF l = "send" THEN held - 1 ELSE held
          /\ has_stats' = (has_stats \/ l = "send")
    /\ conn = "open" /\ peer
    /\ UNCHANGED <<popped, defers, leaked, lockfile, lost, signals, fds, thread,
                   handler, state, lock, syslog>>

\* A read or a write of a closed descriptor, or of a connection the reader
\* has closed, returns an error ...
ExchangeFails ==
    /\ \E l \in DOMAIN AfterExchange : At(l)
    /\ Goto("fail")
    /\ UNCHANGED <<popped, defers, held, leaked, life, fds, thread,
                   handler, state, lock, syslog>>
Doomed == conn # "open" \/ ~peer

\* ... and a write to it raises SIGPIPE first: broken_pipe_handler.
BrokenPipe ==
    /\ \E l \in Writes : At(l)
    /\ conn = "open" /\ ~peer
    /\ Goto("fail")
    /\ handler' = IF state = "HANDLE_CLIENT" THEN "checked" ELSE "none"
    /\ UNCHANGED <<popped, defers, held, leaked, life, fds, thread,
                   state, lock, syslog>>

\* send_first_frame and send_next_frame work under control_lock.
LockControl ==
    /\ \E l \in {"lock1", "lock"} :
          At(l) /\ Goto(IF l = "lock1" THEN "shot1" ELSE "shot")
    /\ lock = "free" /\ lock' = "main" /\ push_defer("unlock")
    /\ UNCHANGED <<popped, held, leaked, life, fds, thread,
                   handler, state, syslog>>

\* get_screenshot_data_checked allocates a frame, or has nothing but an
\* error message to send.
Shot ==
    /\ \/ At("shot1") /\ Goto("send1") /\ held' = held + 1
       \/ At("shot")  /\ Goto("send")  /\ held' = held + 1
       \/ /\ At("shot1") \/ At("shot")
          /\ Goto("showerror") /\ UNCHANGED held
    /\ UNCHANGED <<popped, defers, leaked, life, fds, thread,
                   handler, state, lock, syslog>>

\* Mutant of UnlockControl: the deferred function stays on the stack.
UnlockControlForgets ==
    /\ At("unlock1") \/ At("unlock")
    /\ Goto("while") /\ lock' = "free"
    /\ UNCHANGED <<popped, defers, held, leaked, life, fds, thread,
                   handler, state, syslog>>

\* A frame that took long is complained of, if statistics are kept.
UnlockControl ==
    /\ \/ /\ At("unlock1") \/ At("unlock")
          /\ pop_defer("while")
       \/ At("unlock") /\ stats_enabled /\ pop_defer("slow")
    /\ UNCHANGED <<held, leaked, life, fds, thread,
                   handler, state, lock, syslog>>

\* The condition of the frame loop; usleep is before it.
While ==
    /\ At("while")
    /\ Goto(IF state = "HANDLE_CLIENT" THEN "check" ELSE "bye")
    /\ UNCHANGED <<popped, defers, held, leaked, life, fds, thread,
                   handler, state, lock, syslog>>

\* The last statement of server_handle_client.
CloseConn ==
    /\ At("close") /\ pop_defer("loop")
    /\ UNCHANGED <<held, leaked, life, fds, thread,
                   handler, state, lock, syslog>>

\* TRY_WITH_DEFER and PANIC_WITH_DEFER: each function that fails pops its
\* own deferred function and returns -1 to its caller.
Caller == [unlock |-> "fail", close_conn |-> "ended", destroy |-> "returned"]
Fail ==
    /\ At("fail") /\ pop_defer(Caller[Last(defers)])
    /\ UNCHANGED <<held, leaked, life, fds, thread,
                   handler, state, lock, syslog>>

\* Mutant of SessionFailed: only a session that was kicked resets state.
SessionFailedKeeps ==
    /\ At("ended") /\ Goto("loop")
    /\ UNCHANGED <<popped, defers, held, leaked, life, fds, thread,
                   handler, state, lock, syslog>>

\* daemon_main after a session that failed: one that was kicked or whose
\* connection broke is in STATE_LISTEN already.  The test and the
\* assignment are two accesses of a variable the other thread writes.
SessionFailed ==
    /\ At("ended")
    /\ Goto(IF state = "HANDLE_CLIENT" THEN "reset" ELSE "loop")
    /\ UNCHANGED <<popped, defers, held, leaked, life, fds, thread,
                   handler, state, lock, syslog>>

ResetState ==
    /\ At("reset") /\ Goto("error")
    /\ state' = "LISTEN"
    /\ UNCHANGED <<popped, defers, held, leaked, life, fds, thread,
                   handler, lock, syslog>>

\* run_daemon after daemon_main, which has failed if state is what it was.
Returned ==
    /\ At("returned") /\ state' = "SHUTDOWN"
    /\ Goto(IF state = "SHUTDOWN" THEN "closing" ELSE "critical")
    /\ UNCHANGED <<popped, defers, held, leaked, life, fds, thread,
                   handler, lock, syslog>>

Closing ==
    /\ At("closed") /\ pop_defer("exit")
    /\ UNCHANGED <<held, leaked, life, fds, thread,
                   handler, state, lock, syslog>>

Exit ==
    /\ At("exit") /\ Goto("exited")
    /\ UNCHANGED <<popped, defers, held, leaked, life, fds, thread,
                   handler, state, lock, syslog>>

-----------------------------------------------------------------------------
(* Signals.                                                                *)

\* kick_handler looks at state.  It interrupts a call of accept, which then
\* fails: the handlers are installed without SA_RESTART.
Kick ==
    /\ handler = "none" /\ pc # "exited"
    /\ handler' = IF state = "HANDLE_CLIENT" THEN "checked" ELSE "none"
    /\ pc' = IF At("accepting") THEN "fail" ELSE pc
    /\ UNCHANGED <<popped, defers, held, leaked, life, fds, thread,
                   state, lock, syslog>>

\* The body of kick_handler and of broken_pipe_handler, up to syslog.
HandlerCloses ==
    /\ handler = "checked" /\ handler' = "log"
    /\ state' = "LISTEN"
    /\ conn' = IF conn = "open" THEN "closed" ELSE conn
    /\ UNCHANGED <<main, serv, peer, clients, late, thread, lock, syslog>>

HandlerLogs ==
    /\ handler = "log" /\ handler' = "logging"
    /\ syslog = "free" /\ syslog' = "main"
    /\ UNCHANGED <<main, fds, thread, state, lock>>

HandlerDone ==
    /\ handler = "logging" /\ handler' = "none" /\ syslog' = "free"
    /\ UNCHANGED <<main, fds, thread, state, lock>>

\* SIGTERM or a fatal signal: term_handler and fatal_handler begin, and what
\* they interrupt never goes on.
Terminate ==
    /\ pc # "exited" /\ signals > 0 /\ signals' = signals - 1
    /\ handler' = "term" /\ popped' = "none"
    /\ lost' = (lost \/ popped = "unlink")
    /\ UNCHANGED <<pc, defers, held, leaked, lockfile, has_stats, fds, thread,
                   state, lock, syslog>>

\* pop_all_defers takes one function off the stack ...
TermPop ==
    /\ handler = "term" /\ popped = "none" /\ defers # <<>>
    /\ popped' = Last(defers) /\ defers' = Front(defers)
    /\ UNCHANGED <<pc, held, leaked, life, fds, thread, handler, state, lock,
                   syslog>>

\* Mutant of TermLog: the handler does not call pop_all_defers.
TermLogAtOnce ==
    /\ handler = "term" /\ popped = "none" /\ handler' = "bye"
    /\ syslog = "free" /\ syslog' = "main"
    /\ UNCHANGED <<main, fds, thread, state, lock>>

\* ... and then syslog ...
TermLog ==
    /\ handler = "term" /\ popped = "none" /\ defers = <<>>
    /\ handler' = "bye"
    /\ syslog = "free" /\ syslog' = "main"
    /\ UNCHANGED <<main, fds, thread, state, lock>>

\* ... and exit.
TermExit ==
    /\ handler = "bye" /\ Goto("exited")
    /\ handler' = "none" /\ syslog' = "free"
    /\ UNCHANGED <<popped, defers, held, leaked, life, fds, thread, state, lock>>

-----------------------------------------------------------------------------
(* The shortcuts thread: handle_shortcuts and shortcuts_handle_start.      *)

Running == pc # "exited"

\* The keys are grabbed, or one of them cannot be.  A stop that came before is
\* forgotten.
Grab ==
    /\ Running /\ keys = "grab"
    /\ \/ keys' = "wait" /\ process' = TRUE
       \/ keys' = "complain" /\ UNCHANGED process
    /\ UNCHANGED <<main, fds, cancelled, events, presses, handler, state, lock, syslog>>

Complain ==
    /\ Running /\ keys = "complain" /\ keys' = "complained"
    /\ syslog = "free" /\ syslog' = "keys"
    /\ UNCHANGED <<main, fds, process, cancelled, events, presses, handler, state, lock>>

ShutDown ==
    /\ Running /\ keys = "complained" /\ keys' = "close"
    /\ syslog' = "free" /\ state' = "SHUTDOWN"
    /\ UNCHANGED <<main, fds, process, cancelled, events, presses, handler, lock>>

\* Mutant of CloseServ: the thread relies on state alone.
CloseServForgets ==
    /\ Running /\ keys = "close" /\ keys' = "failed"
    /\ UNCHANGED <<main, fds, process, cancelled, events, presses,
                   handler, state, lock, syslog>>

\* Before server_create has opened it, serv_fd is 0, which is /dev/null.
CloseServ ==
    /\ Running /\ keys = "close" /\ keys' = "failed"
    /\ serv' = IF serv = "open" THEN "closed" ELSE serv
    /\ UNCHANGED <<main, conn, peer, clients, late, process, cancelled, events, presses,
                   handler, state, lock, syslog>>

\* An event, or the end of the loop.
WaitEvent ==
    /\ Running /\ keys = "wait"
    /\ \/ process /\ events > 0 /\ keys' = "lock"
       \/ ~process /\ keys' = "ended"
    /\ UNCHANGED <<main, fds, process, cancelled, events, presses,
                   handler, state, lock, syslog>>

LockKeys ==
    /\ Running /\ keys = "lock" /\ keys' = "handle"
    /\ lock = "free" /\ lock' = "keys"
    /\ UNCHANGED <<main, fds, process, cancelled, events, presses,
                   handler, state, syslog>>

\* Under the lock the thread handles all the events there are.
HandleEvent ==
    /\ Running /\ keys = "handle" /\ events > 0 /\ events' = events - 1
    /\ UNCHANGED <<main, fds, keys, process, cancelled, presses,
                   handler, state, lock, syslog>>

\* Mutant of UnlockKeys: the thread goes on waiting with the lock.
UnlockKeysForgets ==
    /\ Running /\ keys = "handle" /\ events = 0
    /\ keys' = "wait"
    /\ UNCHANGED <<main, fds, process, cancelled, events, presses,
                   handler, state, lock, syslog>>

UnlockKeys ==
    /\ Running /\ keys = "handle" /\ events = 0
    /\ keys' = "wait" /\ lock' = "free"
    /\ UNCHANGED <<main, fds, process, cancelled, events, presses,
                   handler, state, syslog>>

\* xcb_wait_for_event returns NULL: the X server is gone, or server_destroy has
\* disconnected from it.
LoseDisplay ==
    /\ Running /\ keys = "wait" /\ keys' = "ended"
    /\ UNCHANGED <<main, fds, process, cancelled, events, presses,
                   handler, state, lock, syslog>>

\* A cancelled thread ends in the next call that waits; the C library gives
\* the lock inside syslog back, and nobody control_lock.
Cancelled ==
    /\ Running /\ cancelled
    /\ keys \in {"grab", "complain", "complained", "close", "wait", "handle"}
    /\ keys' = "ended"
    /\ syslog' = IF syslog = "keys" THEN "free" ELSE syslog
    /\ UNCHANGED <<main, fds, process, cancelled, events, presses,
                   handler, state, lock>>

-----------------------------------------------------------------------------
(* The readers and the user.                                               *)

\* A call of accept that waits keeps the socket alive when it is closed.
Arrive ==
    /\ Running /\ pc # "setup" /\ clients < MaxClients
    /\ serv = "open" \/ (serv = "closed" /\ pc = "accepting")
    /\ clients' = clients + 1
    /\ UNCHANGED <<main, serv, conn, peer, late, thread,
                   handler, state, lock, syslog>>

PeerLeaves ==
    /\ Running /\ conn = "open" /\ peer /\ peer' = FALSE
    /\ UNCHANGED <<main, serv, conn, clients, late, thread,
                   handler, state, lock, syslog>>

Press ==
    /\ Running /\ presses > 0
    /\ presses' = presses - 1 /\ events' = events + 1
    /\ UNCHANGED <<main, fds, keys, process, cancelled, handler, state, lock, syslog>>

-----------------------------------------------------------------------------
Main ==
    \/ CallDefer \/ Destroy \/ Cancel \/ StatsBegin \/ StatsEnd
    \/ CreateThread \/ OpenSocket \/ Setup \/ Loop \/ EnterAccept
    \/ Accept \/ Accepted \/ Opened \/ LogBegin \/ LogEnd
    \/ LockControl \/ Shot \/ UnlockControl \/ While \/ CloseConn
    \/ BrokenPipe \/ (Doomed /\ ExchangeFails)
    \/ Fail \/ SessionFailed \/ ResetState \/ Returned \/ Closing \/ Exit
Handler ==
    HandlerCloses \/ HandlerLogs \/ HandlerDone \/ TermPop \/ TermLog \/ TermExit
Keys ==
    \/ Grab \/ Complain \/ ShutDown \/ CloseServ \/ WaitEvent \/ LockKeys
    \/ HandleEvent \/ UnlockKeys
Environment ==
    \/ ExchangeDone \/ ExchangeFails \/ CreateFails \/ Kick \/ Terminate
    \/ LoseDisplay \/ Cancelled \/ Arrive \/ PeerLeaves \/ Press

Next == Main \/ Handler \/ Keys \/ Environment

Spec == Init /\ [][Next]_vars

\* The system schedules both threads.  Readers need not answer.
FairSpec == Spec /\ WF_vars(Main) /\ WF_vars(Handler) /\ WF_vars(Keys)

-----------------------------------------------------------------------------
Base    == {"start", "create", "socket", "returned", "critical", "closing",
            "closed"}
Serving == {"setup", "listens", "loop", "accept", "accepting", "accepted", "opened",
            "ended", "reset", "error"}
Online  == {"hello", "handshake", "sized", "lock1", "while", "slow", "check",
            "lock", "bye", "close"}
Locked  == {"shot1", "send1", "unlock1", "shot", "send", "unlock",
            "showerror"}
InSession == pc \in {"opened"} \cup Online \cup Locked

TypeOK ==
    /\ pc \in Base \cup Serving \cup Online \cup Locked
                   \cup {"fail", "exit", "exited"}
    /\ popped \in {"none", "unlink", "destroy", "cancel", "stats", "statsLog",
                   "close_conn", "unlock"}
    /\ ToSet(defers) \subseteq {"unlink", "destroy", "close_conn", "unlock"}
    /\ handler \in {"none", "checked", "log", "logging", "term", "bye"}
    /\ state \in {"SHUTDOWN", "LISTEN", "HANDLE_CLIENT"}
    /\ {serv, conn} \subseteq {"none", "open", "closed"}
    /\ lock \in {"free", "main", "keys"} /\ syslog \in {"free", "main", "keys"}
    /\ held \in 0 .. 2
    /\ peer \in BOOLEAN /\ leaked \in BOOLEAN
    /\ lockfile \in BOOLEAN /\ lost \in BOOLEAN /\ has_stats \in BOOLEAN
    /\ process \in BOOLEAN /\ cancelled \in BOOLEAN
    /\ signals \in 0 .. MaxSignals
    /\ keys \in {"none", "grab", "complain", "complained", "close", "wait",
                 "lock", "handle", "failed", "ended"}
    /\ {events, presses} \subseteq 0 .. MaxPresses
    /\ clients \in 0 .. MaxClients /\ late \in Nat

\* A handler that does not return.
Ending == handler \in {"term", "bye"}

\* Whatever failed, was kicked or broke, and however deep in the calls, the
\* stack of deferred functions is the one the code at pc relies on, so that
\* pop_defer never finds another function on top (exceptions.c:17-18) and 16
\* places are enough.
Balanced ==
    ~Ending /\ pc # "exited" =>
        /\ pc \in Base    => defers = <<"unlink">>
        /\ pc \in Serving => defers = <<"unlink", "destroy">>
        /\ pc \in Online  => defers = <<"unlink", "destroy", "close_conn">>
        /\ pc \in Locked  =>
              defers = <<"unlink", "destroy", "close_conn", "unlock">>
        /\ pc = "fail" => Len(defers) \in 2 .. 4
        /\ pc = "exit" => defers = <<>>

\* Between two sessions the daemon owns no connection and no lock, and a
\* signal does not find it in STATE_HANDLE_CLIENT: nothing of a session, ended
\* in whatever way, is left for the next reader.
FreshStart ==
    pc \in {"loop", "accept", "accepting"} /\ popped = "none"
        /\ ~Ending =>
            /\ conn # "open" /\ lock # "main" /\ syslog # "main"
            /\ state # "HANDLE_CLIENT"

\* However the process ends (stopped, by fatal signals, the second inside
\* the handler of the first, failing or told to by the shortcuts thread) the
\* lock file is gone, so that the next start finds its way free; except when
\* a signal came between the two halves of a pop_defer, where the function is
\* neither on the stack nor called yet.
ExitClean == pc = "exited" /\ lockfile => lost

\* After the shortcuts thread has failed at most one more reader is served: a
\* call of accept that was waiting.
LastReader == late <= 1

\* A handler that calls syslog waits for a lock its own thread holds: the
\* signal came inside syslog of the code or of the handler it interrupted.
Stuck ==
    /\ syslog = "main"
    /\ handler = "log" \/ (handler = "term" /\ popped # "statsLog")

\* A kick or a broken pipe ends the session, wherever the main thread is,
\* waiting for control_lock included; except when it came inside syslog.
KickEnds == InSession /\ conn = "closed" ~> ~InSession \/ Stuck

\* SIGTERM and fatal signals end the process from wherever they come, through
\* all of the deferred functions: whatever the shortcuts thread waits for,
\* control_lock that nobody gives back or a stop it has overwritten
\* (shortcuts.c:124) included, and however many of the signals interrupt one
\* another; except for one that came inside syslog.
TermExits == Ending ~> pc = "exited" \/ Stuck

-----------------------------------------------------------------------------
(* What the help text and the comments say.                                *)

\* main.c:54: "stop      Stop the daemon", here one that serves a reader and
\* has not been kicked.
StopStops == handler = "term" /\ InSession /\ conn = "open" ~> pc = "exited"

\* main.c:56: "kick      Ask the daemon to close the current connection"; a
\* daemon without one goes on waiting for readers.
KickSpares == [][Kick => pc' = pc]_vars

\* main.c:161-162: the frame "should be freed by caller".
FramesFreed == ~leaked
=============================================================================
