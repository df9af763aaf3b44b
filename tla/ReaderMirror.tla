---------------------------- MODULE ReaderMirror ----------------------------
(***************************************************************************)
(* What the program promises to who looks at the reader: its screen        *)
(* mirrors the computer's, at most one frame behind.  There are no         *)
(* messages here, no regions, no encoding and no confirmations: a frame is *)
(* shown, the next one is captured, pixels change from the one to the      *)
(* other, and only when none is left may another be captured.  FrameSync   *)
(* implements this specification.                                          *)
(*                                                                         *)
(* Two things the code does keep the promise from being simpler: pixels    *)
(* outside Mirrored keep showing the first frame of the session, and one   *)
(* colour, blind, may be shown as the colour of the first frame's last     *)
(* pixel.                                                                  *)
(***************************************************************************)
CONSTANTS
    Pixel,      \* positions of the reader's screen
    Mirrored,   \* those that follow the computer's screen
    Final,      \* the last of them in the order of drawing
    Frames,     \* images a screenshot may give
    Colors

VARIABLES
    phase,      \* "apart", "meeting", "first", "showing" or "changing"
    shown,      \* what the reader's panel shows
    first,      \* the first frame of the session
    frame,      \* the frame the reader shows, or is about to
    coming,     \* the frame it changes to
    blind       \* the colour a session may confuse

vars == <<phase, shown, first, frame, coming, blind>>

\* A pixel that shows colour s can stand for colour c.
StandsFor(s, c) == s = c \/ (c = blind /\ s = first[Final])

Mirrors(f) ==
    \A q \in Pixel : IF q \in Mirrored THEN StandsFor(shown[q], f[q])
                                       ELSE shown[q] = first[q]

Init ==
    /\ phase = "apart"
    /\ shown \in [Pixel -> Colors]
    /\ {first, frame, coming} \subseteq Frames /\ blind \in Colors

Meet ==
    /\ phase = "apart" /\ phase' = "meeting"
    /\ shown' \in [Pixel -> Colors] /\ blind' \in Colors
    /\ UNCHANGED <<first, frame, coming>>

CaptureFirst ==
    /\ phase = "meeting" /\ phase' = "first"
    /\ first' \in Frames /\ frame' = first'
    /\ UNCHANGED <<shown, coming, blind>>

\* The first frame appears all at once, ...
ShowFirst == shown' = first /\ UNCHANGED <<phase, first, frame, coming, blind>>

Begin ==
    /\ phase = "first" /\ Mirrors(frame)
    /\ phase' = "showing"
    /\ UNCHANGED <<shown, first, frame, coming, blind>>

Capture ==
    /\ phase = "showing" /\ phase' = "changing"
    /\ coming' \in Frames
    /\ UNCHANGED <<shown, first, frame, blind>>

\* ... the others part by part, and no pixel is ever touched in vain.
Repaint ==
    /\ shown' \in [Pixel -> Colors]
    /\ \A q \in Pixel : shown'[q] # shown[q] =>
            q \in Mirrored /\ StandsFor(shown'[q], coming[q])
    /\ UNCHANGED <<phase, first, frame, coming, blind>>

Done ==
    /\ phase = "changing" /\ Mirrors(coming)
    /\ phase' = "showing" /\ frame' = coming
    /\ UNCHANGED <<shown, first, coming, blind>>

\* Either side may go at any time.  Alone, the reader may still show what it
\* has received, or the computer go on capturing.
Part ==
    /\ phase # "apart" /\ phase' = "apart"
    /\ UNCHANGED <<shown, first, frame, coming, blind>>

CaptureAlone ==
    /\ phase = "apart"
    /\ first' \in Frames /\ frame' \in Frames /\ coming' \in Frames
    /\ UNCHANGED <<phase, shown, blind>>

Next ==
    \/ Meet \/ CaptureFirst \/ Begin \/ Capture \/ Done \/ Part \/ CaptureAlone
    \/ phase \in {"first", "apart"} /\ ShowFirst
    \/ phase \in {"changing", "apart"} /\ Repaint

Spec == Init /\ [][Next]_vars
=============================================================================
