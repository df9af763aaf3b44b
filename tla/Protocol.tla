------------------------------ MODULE Protocol ------------------------------
(***************************************************************************)
(* The command set of common/protocol.h that the server uses, and its      *)
(* layout on the wire.                                                     *)
(*                                                                         *)
(* A byte is abstracted to what the receiver's switch can tell apart: the  *)
(* first byte of a command (which carries the command's arguments along),  *)
(* an argument byte, the null byte that ends an error message, and the     *)
(* confirmation byte.  What is kept exactly is the NUMBER of bytes of each *)
(* command, because the receiver may read a command in any pieces.         *)
(***************************************************************************)
EXTENDS Naturals, Sequences

CMD_RESET_POSITION(px, py) == [cmd |-> "RESET_POSITION", x |-> px, y |-> py]
CMD_SKIP(n)                == [cmd |-> "SKIP", count |-> n]
CMD_PUT_REPEAT(n)          == [cmd |-> "PUT_REPEAT", count |-> n]
CMD_PUT_COLOR(c)           == [cmd |-> "PUT_COLOR", color |-> c]
CMD_SOFT_UPDATE            == [cmd |-> "SOFT_UPDATE"]
CMD_PARTIAL_UPDATE(px, py, pw, ph) ==
    [cmd |-> "PARTIAL_UPDATE", x |-> px, y |-> py, w |-> pw, h |-> ph]
CONN_CHECK                 == [cmd |-> "CONN_CHECK"]
CMD_SHOW_ERROR(n)          == [cmd |-> "SHOW_ERROR", length |-> n]

\* Bytes that do not begin a command.
ArgByte     == [cmd |-> "argument"]
NulByte     == [cmd |-> "nul"]
RES_CONFIRM == [cmd |-> "CONFIRM"]

COORD_SIZE == 2
COLOR_SIZE == 3
COUNT_SIZE == 3

\* Number of bytes of a command, its first byte included.
Size(c) ==
    CASE c.cmd = "RESET_POSITION"          -> 1 + 2 * COORD_SIZE
      [] c.cmd \in {"SKIP", "PUT_REPEAT"}  -> 1 + COUNT_SIZE
      [] c.cmd = "PUT_COLOR"               -> 1 + COLOR_SIZE
      [] c.cmd = "PARTIAL_UPDATE"          -> 1 + 4 * COORD_SIZE
      [] c.cmd = "SHOW_ERROR"              -> 1 + c.length + 1
      [] OTHER                             -> 1

\* The bytes of a command; only an error message ends in a null byte.
Encode(c) ==
    [k \in 1 .. Size(c) |->
        CASE k = 1                                  -> c
          [] k = Size(c) /\ c.cmd = "SHOW_ERROR"    -> NulByte
          [] OTHER                                  -> ArgByte]
=============================================================================
