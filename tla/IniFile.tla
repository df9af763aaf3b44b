------------------------------ MODULE IniFile -------------------------------
(***************************************************************************)
(* What the files of common/ini_parser.c are made of: a configuration file *)
(* is a sequence of lines, classified as the code tells lines apart; a     *)
(* value is the sequence of its words between plus signs, and a number is  *)
(* its text.  parse_int and parse_bool, which the setters use, are of      *)
(* common/utils.c.  IniLoad reads and writes such a file.                  *)
(***************************************************************************)
EXTENDS Integers, SequencesExt

CONSTANT Numbers     \* those that occur in files and dialogs

\* "%d" gives different numbers different texts.
ASSUME NumbersAssumption ==
    \A m, n \in Numbers : ToString(m) = ToString(n) => m = n

PORT_MIN == 1
PORT_MAX == 49151

\* Blank lines and comments; "[title]"; "key = value", split at the first
\* " = "; a line of one character, which passes for none of them unnoticed;
\* and a line without " = ".
Skipped        == [kind |-> "skipped"]
Section(t)     == [kind |-> "section", title |-> t]
Param(k, v)    == [kind |-> "param", key |-> k, value |-> v]
Single         == [kind |-> "single"]
Ambiguous      == [kind |-> "ambiguous"]

\* Every line that a file may hold; there is a word before every plus sign.
FileLines ==
    {Skipped, Single, Ambiguous}
    \cup [kind : {"section"}, title : STRING]
    \cup [kind : {"param"}, key : STRING, value : Seq(STRING) \ {<<>>}]

\* INI_ANY_KEY, and the end of a file that is not there.
AnyKey == "*"
NoFile == <<[kind |-> "absent"]>>

\* A table is a sequence of sections [title, params], and params a sequence
\* of [key, expected].
Key(k, e) == [key |-> k, expected |-> e]

\* The numbers within the bounds that have this text: one, or none.
parse_int(text, min, max) ==
    {n \in Numbers : n \in min .. max /\ ToString(n) = text}

\* Capital letters do not matter to it, and are not varied here.
parse_bool(text) == text \in {"True", "False"}
=============================================================================
