----------------------------- MODULE Handshake ------------------------------
(***************************************************************************)
(* One connection from the reader's connect to its end, seen from the      *)
(* daemon: it is accepted from the queue of listen, client_handshake (of   *)
(* server/main.c) reads what the reader sends in three writes, and the     *)
(* session that follows shows frames until either side ends it.            *)
(*                                                                         *)
(* Each field is read by calls that must return all of it, and a stream    *)
(* may deliver it in parts.  What the daemon has not read when it closes   *)
(* the connection turns the close into a reset, and a reset may destroy    *)
(* what it has sent before.                                                *)
(***************************************************************************)
EXTENDS Integers, Sequences

VARIABLES
    srv,        \* the daemon: "none", "queued", "reads", "session", "refused"
    field,      \* number of the field it reads
    written,    \* writes of the reader's handshake that are done
    mail,       \* on the way to the reader: "none", "frame" or an error
    end,        \* the daemon's end of the stream: "open", "closed", "reset"
    cause,      \* what the reader has wrong: "version", "password" or "none"
    spoilt      \* history: a field came in parts, a message was destroyed,
                \* or the daemon left of itself

connVars == <<srv, field, written, mail, end, cause, spoilt>>

\* The header with the version, the password, the reader's dimensions.
Fields == <<"version", "password", "dimensions">>
Errors == {"version", "password", "failure"}

NoConnection ==
    /\ srv' = "none" /\ field' = 1 /\ written' = 0
    /\ mail' = "none" /\ end' = "open" /\ cause' = "none" /\ spoilt' = FALSE

HandshakeInit ==
    /\ srv = "none" /\ field = 1 /\ written = 0
    /\ mail = "none" /\ end = "open" /\ cause = "none" /\ spoilt = FALSE

\* connect has succeeded: the connection waits in the daemon's queue.
NewConnection ==
    /\ srv' = "queued" /\ field' = 1 /\ written' = 0
    /\ mail' = "none" /\ end' = "open" /\ spoilt' = FALSE
    /\ cause' \in {"version", "password", "none"}

-----------------------------------------------------------------------------
\* close ends the stream, behind what has been sent; spoils is whether the
\* daemon leaves the reader without a word.
Close(spoils) ==
    /\ srv' = "none" /\ end' = "closed" /\ spoilt' = (spoilt \/ spoils)
    /\ UNCHANGED <<field, written, mail, cause>>

\* Where the daemon has not read all that the reader sends (fields of the
\* handshake for certain, a confirmation perhaps), the connection is reset,
\* which may destroy what has been sent.
Reset(spoils) ==
    /\ srv' = "none" /\ end' = "reset" /\ spoilt' = (spoilt \/ spoils)
    /\ UNCHANGED <<field, written, mail, cause>>
ResetAndLose ==
    /\ srv' = "none" /\ end' = "reset" /\ spoilt' = TRUE
    /\ mail # "none" /\ mail' = "none"
    /\ UNCHANGED <<field, written, cause>>

AcceptReader ==
    /\ srv = "queued" /\ srv' = "reads"
    /\ UNCHANGED <<field, written, mail, end, cause, spoilt>>

\* transfer_send_error before the connection is closed.
Refuse(reason) ==
    /\ srv' = "refused" /\ mail' = reason
    /\ UNCHANGED <<field, written, end, cause, spoilt>>

\* What the field says is right; the last one begins the session.
Proceed ==
    /\ IF field = Len(Fields) THEN srv' = "session" /\ UNCHANGED field
                              ELSE field' = field + 1 /\ UNCHANGED srv
    /\ UNCHANGED <<written, mail, end, cause, spoilt>>

\* Mutant of Read: a reader with another version is sent away without a word.
ReadSilent ==
    /\ srv = "reads" /\ written >= field
    /\ CASE cause = Fields[field] /\ field = 1 -> Reset(FALSE)
         [] cause = Fields[field] /\ field # 1 -> Refuse(cause)
         [] cause # Fields[field]              -> Proceed

\* Mutant of Read: the last field is not told from the others.
ReadPastEnd ==
    /\ srv = "reads" /\ written >= field
    /\ field' = field + 1
    /\ UNCHANGED <<srv, written, mail, end, cause, spoilt>>

\* The reads return the whole field.
Read ==
    /\ srv = "reads" /\ written >= field
    /\ CASE cause = Fields[field] -> Refuse(cause)
         [] cause # Fields[field] -> Proceed

\* A read returns a part of it, which is taken for a failure.
ReadShort == srv = "reads" /\ written >= field /\ Reset(TRUE)

CloseRefused ==
    /\ srv = "refused"
    /\ \/ field = Len(Fields) /\ Close(FALSE)
       \/ field < Len(Fields) /\ (Reset(FALSE) \/ ResetAndLose)

\* The session shows a frame when the one before is confirmed.
SendFrame ==
    /\ srv = "session" /\ mail = "none" /\ mail' = "frame"
    /\ UNCHANGED <<srv, field, written, end, cause, spoilt>>

\* get_screenshot_data_checked tells the reader why the session ends.
SendFailure == srv = "session" /\ mail = "none" /\ Refuse("failure")

\* A kick or a stop of the daemon, or a transfer of it that fails.
Leave ==
    \/ srv \in {"queued", "reads"} /\ Reset(TRUE)
    \/ srv = "session" /\ (Close(TRUE) \/ Reset(TRUE) \/ ResetAndLose)

DaemonSide ==
    \/ AcceptReader \/ Read \/ ReadShort \/ CloseRefused
    \/ SendFrame \/ SendFailure \/ Leave
=============================================================================
