----------------------------- MODULE MCControl ------------------------------
(***************************************************************************)
(* A landscape screen, a reader held upright and the same one turned, the  *)
(* root window and one more, which is moved, partly off the screen too.    *)
(* At the smallest scale the frame of the turned reader is larger than the *)
(* screen in both directions; at the largest a side of two pixels becomes  *)
(* one.                                                                    *)
(***************************************************************************)
EXTENDS Control

TwoReaders == {<<2, 3>>, <<3, 2>>}
Half2      == <<1, 2>>
One        == <<1, 1>>
Two        == <<2, 1>>
Places     == {Screen, [left |-> -3, top |-> 1, width |-> 4, height |-> 1]}
=============================================================================
