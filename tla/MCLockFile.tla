----------------------------- MODULE MCLockFile -----------------------------
(***************************************************************************)
(* Three processes at a time: two starts and a stop, or a daemon, the      *)
(* program that has got the number of an earlier one, and a command.  A    *)
(* name for each file that may be open and one more.                       *)
(***************************************************************************)
EXTENDS LockFile, TLC

CONSTANTS p1, p2, p3, f1, f2, f3

Processes == {p1, p2, p3}
Files     == {f1, f2, f3}
Sym       == Permutations(Processes) \cup Permutations(Files)
=============================================================================
