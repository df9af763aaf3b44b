------------------------------ MODULE LockFile ------------------------------
(***************************************************************************)
(* The lock file of the daemon (server/main.c): the processes that         *)
(* "start", "stop", "status" and "kick" make of the same program, which    *)
(* create it, read a process number from it, send that process a signal,   *)
(* and remove it.  Processes may be killed at any point, and the system    *)
(* uses their numbers again.  Daemon says what happens inside the daemon   *)
(* between WritePid and its end.                                           *)
(***************************************************************************)
EXTENDS Naturals

CONSTANTS
    Pid,     \* process numbers
    Inode,   \* files that may get the name lock_filename
    None     \* no process, no file

ASSUME NoneAssumption == None \notin Pid /\ None \notin Inode

VARIABLES
    stage,    \* where a process is; "free" is a number nobody has
    cmd,      \* its command
    fd,       \* the lock file it has opened
    target,   \* the number it has read
    file,     \* the file that has the name
    data      \* the number written in a file

vars == <<stage, cmd, fd, target, file, data>>

Command == {"start", "stop", "status", "kick"}

\* The processes that created the file and have not given it up.
Owning == {"created", "forked", "ready", "daemon", "ending"}
Owner(p) == stage[p] \in Owning

\* Signals are handled from configure_signal_handlers on.
Handling == {"ready", "daemon", "ending"}

Init ==
    /\ stage = [p \in Pid |-> "free"]
    /\ cmd = [p \in Pid |-> "status"]
    /\ fd = [p \in Pid |-> None] /\ target = [p \in Pid |-> None]
    /\ file = None /\ data = [i \in Inode |-> None]

Enter(p, s) == stage' = [stage EXCEPT ![p] = s]

\* The process p ends; nothing of it is left.
Leave(p) ==
    /\ Enter(p, "free")
    /\ cmd' = [cmd EXCEPT ![p] = "status"]
    /\ fd' = [fd EXCEPT ![p] = None] /\ target' = [target EXCEPT ![p] = None]

\* Somebody types a command, or the system starts some other program.
Spawn(p) ==
    /\ stage[p] = "free"
    /\ \/ \E c \in Command :
             /\ cmd' = [cmd EXCEPT ![p] = c]
             /\ Enter(p, IF c = "start" THEN "start" ELSE "open")
       \/ Enter(p, "other") /\ UNCHANGED cmd
    /\ UNCHANGED <<fd, target, file, data>>

-----------------------------------------------------------------------------
(* run_daemon                                                              *)

\* The password cannot be loaded.
LoadFails(p) ==
    /\ stage[p] = "start" /\ Leave(p)
    /\ UNCHANGED <<file, data>>

\* Mutant of CreateLock: O_CREAT without O_EXCL.
CreateLockShared(p) ==
    /\ stage[p] = "start" /\ Enter(p, "created")
    /\ \E i \in Inode :
          /\ IF file = None THEN \A q \in Pid : fd[q] # i ELSE i = file
          /\ file' = i /\ fd' = [fd EXCEPT ![p] = i]
          /\ data' = [data EXCEPT ![i] = None]
    /\ UNCHANGED <<cmd, target>>

\* open with O_CREAT | O_EXCL makes a new file, or finds one.
CreateLock(p) ==
    /\ stage[p] = "start"
    /\ \/ /\ file = None /\ Enter(p, "created")
          /\ \E i \in Inode :
                /\ \A q \in Pid : fd[q] # i
                /\ file' = i /\ fd' = [fd EXCEPT ![p] = i]
                /\ data' = [data EXCEPT ![i] = None]
       \/ file # None /\ Enter(p, "open") /\ UNCHANGED <<file, fd, data>>
    /\ UNCHANGED <<cmd, target>>

\* Mutant of Fork: the parent runs its deferred functions when it exits.
ForkUnlinks(p, c) ==
    /\ stage[p] = "created" /\ stage[c] = "free"
    /\ stage' = [stage EXCEPT ![p] = "free", ![c] = "forked"]
    /\ cmd' = [cmd EXCEPT ![p] = "status", ![c] = "start"]
    /\ fd' = [fd EXCEPT ![p] = None, ![c] = fd[p]]
    /\ file' = None
    /\ UNCHANGED <<target, data>>

\* The parent exits; the child has a number of its own and the descriptor.
\* The lock of lockf stays with the parent and ends with it.
Fork(p, c) ==
    /\ stage[p] = "created" /\ stage[c] = "free"
    /\ stage' = [stage EXCEPT ![p] = "free", ![c] = "forked"]
    /\ cmd' = [cmd EXCEPT ![p] = "status", ![c] = "start"]
    /\ fd' = [fd EXCEPT ![p] = None, ![c] = fd[p]]
    /\ UNCHANGED <<target, file, data>>

ConfigureSignals(p) ==
    /\ stage[p] = "forked" /\ Enter(p, "ready")
    /\ UNCHANGED <<cmd, fd, target, file, data>>

\* Mutant of WritePid: the number is written before the handlers are there.
WritePidEarly(p) ==
    /\ stage[p] = "forked" /\ Enter(p, "ready")
    /\ data' = [data EXCEPT ![fd[p]] = p]
    /\ UNCHANGED <<cmd, fd, target, file>>

WritePid(p) ==
    /\ stage[p] = "ready" /\ Enter(p, "daemon")
    /\ data' = [data EXCEPT ![fd[p]] = p]
    /\ UNCHANGED <<cmd, fd, target, file>>

\* A step fails (lockf, chdir, fork, setsid, write), or the daemon is done.
GiveUp(p) ==
    /\ stage[p] \in {"created", "forked", "ready", "daemon"}
    /\ Enter(p, "ending")
    /\ UNCHANGED <<cmd, fd, target, file, data>>

\* defer_close_and_unlink_lock_file removes whatever file has the name.
Unlink(p) ==
    /\ stage[p] = "ending" /\ Leave(p)
    /\ file' = None
    /\ UNCHANGED data

-----------------------------------------------------------------------------
(* send_signal_to_daemon: of stop, kick and status, and of a start that    *)
(* has found the file.                                                     *)

OpenLock(p) ==
    /\ stage[p] = "open"
    /\ \/ /\ file # None /\ Enter(p, "read")
          /\ fd' = [fd EXCEPT ![p] = file]
          /\ UNCHANGED <<cmd, target>>
       \/ file = None /\ Leave(p)
    /\ UNCHANGED <<file, data>>

\* The number, or an error if none is written yet.
ReadPid(p) ==
    /\ stage[p] = "read"
    /\ \/ /\ data[fd[p]] # None /\ Enter(p, "send")
          /\ target' = [target EXCEPT ![p] = data[fd[p]]]
          /\ fd' = [fd EXCEPT ![p] = None] /\ UNCHANGED cmd
       \/ data[fd[p]] = None /\ Leave(p)
    /\ UNCHANGED <<file, data>>

\* What becomes of the process that gets the signal of command c: a daemon
\* goes through its handler, any other program is ended.
Signalled(s, c) ==
    CASE c \in {"start", "status"} -> s
      [] c = "stop" /\ s \in Handling -> "ending"
      [] c = "kick" /\ s \in Handling -> s
      [] c \in {"stop", "kick"} /\ s \notin Handling -> "free"

\* kill, also of a process that is none or another one by now; the sender
\* ends, and the target may.
Send(p) ==
    /\ stage[p] = "send"
    /\ LET t    == target[p]
           s    == Signalled(stage[t], cmd[p])
           gone == {p} \cup {q \in {t} : s = "free"}
       IN /\ stage' = [q \in Pid |-> IF q \in gone THEN "free"
                                     ELSE IF q = t THEN s ELSE stage[q]]
          /\ cmd' = [q \in Pid |-> IF q \in gone THEN "status" ELSE cmd[q]]
          /\ fd' = [q \in Pid |-> IF q \in gone THEN None ELSE fd[q]]
          /\ target' = [q \in Pid |-> IF q \in gone THEN None ELSE target[q]]
    /\ UNCHANGED <<file, data>>

-----------------------------------------------------------------------------
\* Any process may be killed, or, if it is another program, end.
Crash(p) ==
    /\ stage[p] # "free" /\ Leave(p)
    /\ UNCHANGED <<file, data>>

\* A user follows the advice of ERR_LOCK_DEFUNCT: "Delete the lock file".
Remove ==
    /\ file # None /\ data[file] # None /\ stage[data[file]] = "free"
    /\ file' = None
    /\ UNCHANGED <<stage, cmd, fd, target, data>>

Next ==
    \/ Remove
    \/ \E p \in Pid :
          \/ Spawn(p) \/ LoadFails(p) \/ CreateLock(p) \/ ConfigureSignals(p)
          \/ WritePid(p) \/ GiveUp(p) \/ Unlink(p) \/ OpenLock(p) \/ ReadPid(p)
          \/ Send(p) \/ Crash(p)
          \/ \E c \in Pid : Fork(p, c)

Spec == Init /\ [][Next]_vars

-----------------------------------------------------------------------------
TypeOK ==
    /\ stage \in [Pid -> {"free", "other", "start", "open", "read", "send"}
                         \cup Owning]
    /\ cmd \in [Pid -> Command]
    /\ fd \in [Pid -> Inode \cup {None}]
    /\ target \in [Pid -> Pid \cup {None}]
    /\ file \in Inode \cup {None}
    /\ data \in [Inode -> Pid \cup {None}]

\* A daemon is never started beside another one that is starting, serving
\* or stopping, whatever was killed or signalled before, and although the lock
\* of lockf does not outlive the fork.
Exclusive == \A p, q \in Pid : Owner(p) /\ Owner(q) => p = q

\* A daemon that serves is found by stop, kick and status: the file has the
\* name and its number, and nobody else's exit has removed it.
Found ==
    \A p \in Pid : stage[p] = "daemon" => file # None /\ data[file] = p

-----------------------------------------------------------------------------
\* The strengthening: the file that has the name is the one its owner has
\* open, a number in it is the owner's own and was written as the last step,
\* and a process about to send a signal has read some number.
OwnsFile ==
    \A p \in Pid : Owner(p) =>
        /\ file # None /\ fd[p] = file
        /\ data[file] \in {None, p}
        /\ stage[p] = "daemon" => data[file] = p
        /\ stage[p] \in {"created", "forked", "ready"} => data[file] = None
HasRead ==
    \A p \in Pid : /\ stage[p] = "read" => fd[p] # None
                   /\ stage[p] = "send" => target[p] # None

LockInvariant == TypeOK /\ Exclusive /\ OwnsFile /\ HasRead

=============================================================================
