----------------------------- MODULE MCDiffLoop -----------------------------
(***************************************************************************)
(* Every pattern of unchanged (colour 2), black and white pixels on a      *)
(* small screen, every region on it (so with and without pixels of other   *)
(* regions on the line), every pair of remembered colours, and a reader    *)
(* whose screen shows the image the server compares with, or another one.  *)
(***************************************************************************)
EXTENDS DiffLoop

Uniform(c)    == [q \in Pixel |-> c]
Grey          == {Uniform(2)}
GreyOrWhite   == {Uniform(2), Uniform(1)}
AllImages     == Image
AllRegions    == {r \in Region : OnScreen(r)}
=============================================================================
