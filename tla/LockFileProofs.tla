--------------------------- MODULE LockFileProofs ---------------------------
(***************************************************************************)
(* For any set of process numbers and of files: there is never more than   *)
(* one daemon, and a daemon that serves is the one its lock file names.    *)
(***************************************************************************)
EXTENDS LockFile, TLAPS

\* Nobody has the file open and no process runs.
LEMMA InitLock == Init => LockInvariant
BY NoneAssumption DEF Init, LockInvariant, TypeOK, Exclusive, OwnsFile,
                      HasRead, Owner, Owning, Command

\* A step that makes no process an owner, lets the owner go on, with its
\* descriptor, or sends it to its end, and leaves the files as they are.
Harmless ==
    /\ \A p \in Pid : Owner(p)' =>
          Owner(p) /\ fd'[p] = fd[p] /\ stage'[p] \in {stage[p], "ending"}
    /\ UNCHANGED <<file, data>>

\* Such a step keeps what the owner of the file relies on.
LEMMA HarmlessKeeps ==
    ASSUME Exclusive, OwnsFile, Harmless
    PROVE  Exclusive' /\ OwnsFile'
BY DEF Exclusive, OwnsFile, Harmless, Owner

\* A process that ends gives up its file: the case of LoadFails, Crash and
\* the error paths of send_signal_to_daemon.
LEMMA LeaveKeeps ==
    ASSUME NEW p \in Pid, LockInvariant, Leave(p), UNCHANGED <<file, data>>
    PROVE  LockInvariant'
<1>1. Harmless
  BY DEF LockInvariant, TypeOK, Harmless, Leave, Enter, Owner, Owning
<1>2. Exclusive' /\ OwnsFile'
  BY <1>1, HarmlessKeeps DEF LockInvariant
<1>3. TypeOK' /\ HasRead'
  BY NoneAssumption
  DEF LockInvariant, TypeOK, HasRead, Leave, Enter, Command, Owning
<1> QED BY <1>2, <1>3 DEF LockInvariant

\* Every step of the processes keeps the invariant.
LEMMA StepKeeps == LockInvariant /\ [Next]_vars => LockInvariant'
<1> SUFFICES ASSUME LockInvariant, [Next]_vars
             PROVE  LockInvariant'
  OBVIOUS
<1> USE DEF Enter
<1>a. TypeOK /\ Exclusive /\ OwnsFile /\ HasRead
  BY DEF LockInvariant
<1>1. CASE Remove
  \* The file is nobody's: an owner's number in it would be of a live process.
  <2>1. \A p \in Pid : ~Owner(p)
    BY <1>a, <1>1, NoneAssumption
    DEF Remove, TypeOK, OwnsFile, Owner, Owning
  <2>2. Exclusive' /\ OwnsFile'
    BY <2>1, <1>1 DEF Remove, Exclusive, OwnsFile, Owner
  <2>3. TypeOK' /\ HasRead'
    BY <1>a, <1>1 DEF Remove, TypeOK, HasRead
  <2> QED BY <2>2, <2>3 DEF LockInvariant
<1>2. ASSUME NEW p \in Pid, Spawn(p)
      PROVE  LockInvariant'
  <2>1. Harmless
    BY <1>a, <1>2 DEF Spawn, TypeOK, Harmless, Owner, Owning
  <2>2. Exclusive' /\ OwnsFile'
    BY <2>1, <1>a, HarmlessKeeps
  <2>3. TypeOK' /\ HasRead'
    BY <1>a, <1>2 DEF Spawn, TypeOK, HasRead
  <2> QED BY <2>2, <2>3 DEF LockInvariant
<1>3. ASSUME NEW p \in Pid, CreateLock(p)
      PROVE  LockInvariant'
  <2>1. CASE file = None
    \* Without a file there is no owner, so the new one is alone.
    <3>1. \A q \in Pid : ~Owner(q)
      BY <1>a, <2>1 DEF OwnsFile
    <3>2. PICK i \in Inode : /\ file' = i /\ fd' = [fd EXCEPT ![p] = i]
                             /\ data' = [data EXCEPT ![i] = None]
                             /\ stage' = [stage EXCEPT ![p] = "created"]
      BY <1>3, <2>1 DEF CreateLock
    <3>3. Exclusive' /\ OwnsFile'
      BY <3>1, <3>2, <1>a, NoneAssumption
      DEF TypeOK, Exclusive, OwnsFile, Owner, Owning
    <3>4. TypeOK' /\ HasRead'
      BY <3>2, <1>3, <1>a, NoneAssumption
      DEF CreateLock, TypeOK, HasRead, Owning
    <3> QED BY <3>3, <3>4 DEF LockInvariant
  <2>2. CASE file # None
    <3>1. Harmless
      BY <1>a, <1>3, <2>2 DEF CreateLock, TypeOK, Harmless, Owner, Owning
    <3>2. Exclusive' /\ OwnsFile'
      BY <3>1, <1>a, HarmlessKeeps
    <3>3. TypeOK' /\ HasRead'
      BY <1>a, <1>3, <2>2 DEF CreateLock, TypeOK, HasRead
    <3> QED BY <3>2, <3>3 DEF LockInvariant
  <2> QED BY <2>1, <2>2
<1>4. ASSUME NEW p \in Pid, NEW c \in Pid, Fork(p, c)
      PROVE  LockInvariant'
  \* The child takes the place of the parent; the file is still empty.
  <2>1. Owner(p) /\ stage[c] = "free" /\ p # c
    BY <1>4 DEF Fork, Owner, Owning
  <2>2. /\ stage' = [stage EXCEPT ![p] = "free", ![c] = "forked"]
        /\ fd' = [fd EXCEPT ![p] = None, ![c] = fd[p]]
        /\ UNCHANGED <<target, file, data>>
        /\ stage[p] = "created"
    BY <1>4 DEF Fork
  <2>3. \A q \in Pid : Owner(q)' => q = c
    BY <1>a, <2>1, <2>2 DEF TypeOK, Exclusive, Owner, Owning
  <2>4. Exclusive'
    BY <2>3 DEF Exclusive
  <2>5. file # None /\ fd[p] = file /\ data[file] = None
    BY <1>a, <2>1, <2>2 DEF OwnsFile
  <2>6. OwnsFile'
    BY <2>1, <2>2, <2>3, <2>5, <1>a DEF TypeOK, OwnsFile, Owner, Owning
  <2>7. TypeOK' /\ HasRead'
    BY <1>a, <1>4 DEF Fork, TypeOK, HasRead, Command, Owning
  <2> QED BY <2>4, <2>6, <2>7 DEF LockInvariant
<1>5. ASSUME NEW p \in Pid, ConfigureSignals(p)
      PROVE  LockInvariant'
  <2>1. Exclusive' /\ OwnsFile'
    BY <1>a, <1>5 DEF ConfigureSignals, TypeOK, Exclusive, OwnsFile,
                      Owner, Owning
  <2>2. TypeOK' /\ HasRead'
    BY <1>a, <1>5 DEF ConfigureSignals, TypeOK, HasRead, Owning
  <2> QED BY <2>1, <2>2 DEF LockInvariant
<1>6. ASSUME NEW p \in Pid, WritePid(p)
      PROVE  LockInvariant'
  \* p is the owner, so it writes its number into the file with the name.
  <2>1. Owner(p) /\ fd[p] = file /\ file \in Inode
    BY <1>a, <1>6 DEF WritePid, TypeOK, OwnsFile, Owner, Owning
  <2>2. /\ stage' = [stage EXCEPT ![p] = "daemon"]
        /\ data' = [data EXCEPT ![file] = p]
        /\ UNCHANGED <<cmd, fd, target, file>>
    BY <2>1, <1>6 DEF WritePid
  <2>3. Exclusive' /\ OwnsFile'
    BY <1>a, <2>1, <2>2 DEF TypeOK, Exclusive, OwnsFile, Owner, Owning
  <2>4. TypeOK' /\ HasRead'
    BY <1>a, <2>1, <2>2 DEF TypeOK, HasRead, Owning
  <2> QED BY <2>3, <2>4 DEF LockInvariant
<1>7. ASSUME NEW p \in Pid, GiveUp(p)
      PROVE  LockInvariant'
  <2>1. Harmless
    BY <1>a, <1>7 DEF GiveUp, TypeOK, Harmless, Owner, Owning
  <2>2. Exclusive' /\ OwnsFile'
    BY <2>1, <1>a, HarmlessKeeps
  <2>3. TypeOK' /\ HasRead'
    BY <1>a, <1>7 DEF GiveUp, TypeOK, HasRead, Owning
  <2> QED BY <2>2, <2>3 DEF LockInvariant
<1>8. ASSUME NEW p \in Pid, Unlink(p)
      PROVE  LockInvariant'
  \* The file removed is p's own, for no other process owns one.
  <2>1. Owner(p)
    BY <1>8 DEF Unlink, Owner, Owning
  <2>2. \A q \in Pid : ~Owner(q)'
    BY <1>a, <1>8, <2>1 DEF Unlink, Leave, TypeOK, Exclusive, Owner, Owning
  <2>3. Exclusive' /\ OwnsFile'
    BY <2>2 DEF Exclusive, OwnsFile
  <2>4. TypeOK' /\ HasRead'
    BY <1>a, <1>8 DEF Unlink, Leave, TypeOK, HasRead, Command, Owning
  <2> QED BY <2>3, <2>4 DEF LockInvariant
<1>9. ASSUME NEW p \in Pid, OpenLock(p)
      PROVE  LockInvariant'
  <2>1. CASE file = None
    BY <1>9, <2>1, LeaveKeeps DEF OpenLock
  <2>2. CASE file # None
    <3>1. Harmless
      BY <1>a, <1>9, <2>2 DEF OpenLock, TypeOK, Harmless, Owner, Owning
    <3>2. Exclusive' /\ OwnsFile'
      BY <3>1, <1>a, HarmlessKeeps
    <3>3. TypeOK' /\ HasRead'
      BY <1>a, <1>9, <2>2 DEF OpenLock, TypeOK, HasRead
    <3> QED BY <3>2, <3>3 DEF LockInvariant
  <2> QED BY <2>1, <2>2
<1>10. ASSUME NEW p \in Pid, ReadPid(p)
       PROVE  LockInvariant'
  <2>1. CASE data[fd[p]] = None
    BY <1>10, <2>1, LeaveKeeps DEF ReadPid
  <2>2. CASE data[fd[p]] # None
    <3>1. Harmless
      BY <1>a, <1>10, <2>2 DEF ReadPid, TypeOK, Harmless, Owner, Owning
    <3>2. Exclusive' /\ OwnsFile'
      BY <3>1, <1>a, HarmlessKeeps
    <3>3. data[fd[p]] \in Pid
      BY <1>a, <1>10, <2>2 DEF ReadPid, TypeOK, HasRead
    <3>4. TypeOK' /\ HasRead'
      BY <1>a, <1>10, <2>2, <3>3 DEF ReadPid, TypeOK, HasRead
    <3> QED BY <3>2, <3>4 DEF LockInvariant
  <2> QED BY <2>1, <2>2
<1>11. ASSUME NEW p \in Pid, Send(p)
       PROVE  LockInvariant'
  \* The target may be ended or sent to its end; it never becomes an owner.
  <2> DEFINE t    == target[p]
             s    == Signalled(stage[t], cmd[p])
             gone == {p} \cup {q \in {t} : s = "free"}
  <2>1. t \in Pid /\ stage[p] = "send"
    BY <1>a, <1>11 DEF Send, TypeOK, HasRead
  <2>2. /\ s \in {stage[t], "ending", "free"}
        /\ s = "ending" => Owner(t)
    BY <1>a, <2>1 DEF TypeOK, Signalled, Handling, Owner, Owning, Command
  <2>3. /\ stage' = [q \in Pid |-> IF q \in gone THEN "free"
                                   ELSE IF q = t THEN s ELSE stage[q]]
        /\ cmd' = [q \in Pid |-> IF q \in gone THEN "status" ELSE cmd[q]]
        /\ fd' = [q \in Pid |-> IF q \in gone THEN None ELSE fd[q]]
        /\ target' = [q \in Pid |-> IF q \in gone THEN None ELSE target[q]]
        /\ UNCHANGED <<file, data>>
    BY <1>11 DEF Send
  <2> HIDE DEF s, t
  <2>4. Harmless
    BY <1>a, <2>1, <2>2, <2>3 DEF TypeOK, Harmless, Owner, Owning
  <2>5. Exclusive' /\ OwnsFile'
    BY <2>4, <1>a, HarmlessKeeps
  <2>6. TypeOK' /\ HasRead'
    BY <1>a, <2>1, <2>2, <2>3 DEF TypeOK, HasRead, Owning, Command
  <2> QED BY <2>5, <2>6 DEF LockInvariant
<1>12. ASSUME NEW p \in Pid, LoadFails(p) \/ Crash(p)
       PROVE  LockInvariant'
  BY <1>12, LeaveKeeps DEF LoadFails, Crash
<1>13. CASE UNCHANGED vars
  BY <1>a, <1>13 DEF vars, LockInvariant, TypeOK, Exclusive, OwnsFile,
                     HasRead, Owner
<1> QED
  BY <1>1, <1>2, <1>3, <1>4, <1>5, <1>6, <1>7, <1>8, <1>9, <1>10, <1>11,
     <1>12, <1>13 DEF Next

\* The lock file's invariant holds in every reachable state.
THEOREM LockCorrect == Spec => []LockInvariant
<1>1. Init => LockInvariant
  BY InitLock
<1>2. LockInvariant /\ [Next]_vars => LockInvariant'
  BY StepKeeps
<1> QED BY <1>1, <1>2, PTL DEF Spec

\* Two daemons never run, nor start, side by side: O_EXCL is enough, although
\* the lock of lockf is lost in the fork.
THEOREM OneDaemon == Spec => []Exclusive
<1>1. LockInvariant => Exclusive
  BY DEF LockInvariant
<1> QED BY <1>1, LockCorrect, PTL

\* A daemon that serves can be found by its lock file.
THEOREM DaemonFound == Spec => []Found
<1>1. LockInvariant => Found
  BY DEF LockInvariant, OwnsFile, Found, Owner, Owning
<1> QED BY <1>1, LockCorrect, PTL
=============================================================================
