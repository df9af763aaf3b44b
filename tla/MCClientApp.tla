---------------------------- MODULE MCClientApp -----------------------------
(***************************************************************************)
(* Two client threads, so that a connection can be asked for while the     *)
(* thread of the one before is still busy with the start screen; a second  *)
(* host without a name, and a port number that is refused.                 *)
(***************************************************************************)
EXTENDS ClientApp

SomeHosts == {"192.168.0.101", ""}
=============================================================================
