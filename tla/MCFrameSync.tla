---------------------------- MODULE MCFrameSync -----------------------------
(***************************************************************************)
(* Two columns of one pixel are regions, the third is what the division    *)
(* leaves over.  From one frame to another none, some or all of the pixels *)
(* of a region change, in the first region, in the second or in both, and  *)
(* the last pixels of frames have both colours.                            *)
(***************************************************************************)
EXTENDS FrameSync

Picture1 == [q \in Pixel |-> 0]
Picture2 == [q \in Pixel |-> IF q[1] = 1 THEN 0 ELSE 1]
Picture3 == [q \in Pixel |-> IF q = <<1, 0>> THEN 0 ELSE 1]
SomeFrames == {Picture1, Picture2, Picture3}
TwoFrames  == {Picture1, Picture2}
=============================================================================
