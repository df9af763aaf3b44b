------------------------------ MODULE MCDaemon ------------------------------
(***************************************************************************)
(* One reader may wait while another is served, a key is pressed, and two  *)
(* signals end the daemon, the second perhaps inside the handler of the    *)
(* first.                                                                  *)
(***************************************************************************)
EXTENDS Daemon
=============================================================================
