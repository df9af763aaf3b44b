------------------------------ MODULE DiffLoop ------------------------------
(***************************************************************************)
(* transfer_image_send_diff one pixel at a time, with a reader that        *)
(* executes what each pixel adds to the buffer.  The encoder compresses:   *)
(* it leaves out positions (SKIP), colours (PUT_REPEAT reuses the last     *)
(* colour SENT, over regions, frames and sessions) and refreshes only the  *)
(* bounding box.  The question of this module is what survives of that on  *)
(* the other side.                                                         *)
(***************************************************************************)
EXTENDS Transfer

CONSTANTS
    Prevs,     \* the captured images that occur as prev_image
    Nexts,     \* the captured images that occur as next_image
    Screens,   \* what the reader's frame buffer may hold before the message
    Regions    \* the regions a frame is divided into

ASSUME FramesAssumption  ==
    Prevs \subseteq Image /\ Nexts \subseteq Image /\ Screens \subseteq Image
ASSUME RegionsAssumption == Regions \subseteq {r \in Region : OnScreen(r)}

VARIABLES
    prev, next,   \* prev_image and next_image
    region,       \* region_left, region_top, region_width, region_height
    color0,       \* history: color when the function was called
    rd0,          \* history: the reader when the function was called
    d,            \* the local variables of the loop, color, the buffer
    p,            \* <<x, y>>, the loop counters
    rd,           \* the reader that executed the commands in the buffer
    pc            \* "scan" in the loop, "sent" after it

vars == <<prev, next, region, color0, rd0, d, p, rd, pc>>

Init ==
    /\ prev \in Prevs /\ next \in Nexts
    /\ region \in Regions
    /\ color0 \in Colors
    /\ \E c \in Colors, f \in Screens :
          rd0 = [x |-> 0, y |-> 0, color |-> c, fb |-> f, panel |-> f]
    /\ d = DiffStart(region, color0)
    /\ p = <<region.left, region.top>>
    /\ rd = [rd0 EXCEPT !.x = region.left, !.y = region.top]
    /\ pc = "scan"

\* One iteration of the inner loop.
Scan ==
    /\ pc = "scan" /\ p[2] < Bottom(region)
    /\ d' = DiffPixel(d, region, prev, next, p)
    /\ rd' = IF prev[p] # next[p] THEN Follow(rd, d, next[p]) ELSE rd
    /\ p' = Advance(region, p)
    /\ UNCHANGED <<prev, next, region, color0, rd0, pc>>

\* The end of the function: the refresh is appended and the buffer written,
\* or nothing is written and the reader executes nothing at all.
Finish ==
    /\ pc = "scan" /\ p[2] = Bottom(region)
    /\ d' = DiffEnd(d)
    /\ rd' = IF NeedSend(d)
             THEN Flush(rd, d.x1, d.y1, d.x2 - d.x1 + 1, d.y2 - d.y1 + 1)
             ELSE rd0
    /\ pc' = "sent"
    /\ UNCHANGED <<prev, next, region, color0, rd0, p>>

Next == Scan \/ Finish

Spec == Init /\ [][Next]_vars

-----------------------------------------------------------------------------
\* The types of the loop and of the reader that follows it.
TypeOK ==
    /\ prev \in Image /\ next \in Image
    /\ region \in Region /\ OnScreen(region)
    /\ color0 \in Colors
    /\ rd0 \in Registers /\ rd \in Registers
    /\ d \in LoopState(Command)
    /\ pc = "scan" => d.cmds \in Seq(Drawing)
    /\ p \in (region.left .. Right(region) - 1)
             \X (region.top .. Bottom(region))
    /\ pc \in {"scan", "sent"}

\* A changed pixel that the loop has passed.
Passed(q)  == q[2] < p[2] \/ (q[2] = p[2] /\ q[1] < p[1])
Changed(q) == q \in Cells(region) /\ prev[q] # next[q]

\* Decoding undoes encoding: the commands in the buffer, executed from the
\* state the reader was in, give the reader that took part pixel by pixel;
\* so no SKIP, no count of a PUT_REPEAT and no left out colour is misread,
\* and the loop as a whole is SendDiff (transfer.c:112-174).
LockStep ==
    /\ rd = IF pc = "sent" /\ ~NeedSend(d) THEN rd0
            ELSE ApplyAll(rd0, d.cmds)
    /\ pc = "sent" => d = SendDiff(prev, next, region, color0)

\* The only way for a passed pixel to be drawn wrong: it has the colour the
\* server remembers from before this message, which it therefore does not
\* send, and the reader remembers another one (transfer.c:78,128).
Faithful ==
    \A q \in Pixel : Changed(q) /\ Passed(q) =>
        \/ rd.fb[q] = next[q]
        \/ next[q] = color0 /\ rd.fb[q] = rd0.color

\* The message draws the changed pixels of its region that were passed, in
\* order, and nothing else: never a pixel of another region, of the line
\* skipped between two rows, or one that did not change.
Frugal ==
    \A q \in Pixel : ~(Changed(q) /\ Passed(q)) => rd.fb[q] = rd0.fb[q]

\* End to end: if the reader's screen showed prev_image on the region and both
\* sides remembered the same colour, it shows next_image on the region after
\* the message.  This is the step by which the reader follows the frames.
Mirrors ==
    (/\ pc = "sent" /\ color0 = rd0.color
     /\ \A q \in Cells(region) : rd0.fb[q] = prev[q])
        => \A q \in Cells(region) : rd.fb[q] = next[q]

\* The colours the two sides remember are equal as soon as one was sent.
ColorLink ==
    \/ rd.color = d.color
    \/ rd.color = rd0.color /\ d.color = color0

\* Once the message is executed, every pixel it changed is on the panel, and
\* the refresh does not leave the region (transfer.c:156-183).
Refreshed ==
    pc = "sent" =>
        \A q \in Pixel :
            /\ Changed(q) => rd.panel[q] = rd.fb[q]
            /\ q \notin Cells(region) => rd.panel[q] = rd0.panel[q]

\* Commands in the buffer cost no more than four bytes per position the
\* encoder has gone over: 5 + 4 W H bytes before the refresh command, which
\* is what MAX_SENT_DATA_SIZE is meant to hold (transfer.c:11-13).
BufferBound ==
    pc = "scan" =>
        Len(d.cmds) - 1 + (IF d.skipped > 0 THEN 1 ELSE 0)
            <= Offset(p) - Offset(<<region.left, region.top>>)

-----------------------------------------------------------------------------
(* The strengthening that makes Faithful, Frugal and Refreshed inductive.  *)

\* The reader stands skipped positions before the pixel the loop is at, even
\* where the line between them leaves the region.
OnTrack ==
    pc = "scan" =>
        /\ rd.x \in 0 .. W - 1 /\ rd.y \in 0 .. H - 1
        /\ p[2] < Bottom(region) => rd.y * W + rd.x + d.skipped = Offset(p)

\* The count that is incremented in place belongs to a PUT_REPEAT, the last
\* command in the buffer (transfer.c:140-142).
RepeatIsLast == pc = "scan" => Countable(d)

\* The bounding box lies in the region and holds every passed changed pixel.
BoundingBox ==
    /\ {d.x1, d.x2} \subseteq region.left .. Right(region) - 1
    /\ {d.y1, d.y2} \subseteq region.top .. Bottom(region) - 1
    /\ \A q \in Pixel : Changed(q) /\ Passed(q) =>
          /\ d.x1 <= q[1] /\ q[1] <= d.x2
          /\ d.y1 <= q[2] /\ q[2] <= d.y2

\* Before the message is complete the panel is as it was, and a message that
\* will not be sent has not touched the colour the server remembers.
NothingLost ==
    /\ pc = "scan" => rd.panel = rd0.panel
    /\ NeedSend(d) \/ d.color = color0
    /\ pc = "sent" => p[2] = Bottom(region)

LoopInvariant ==
    /\ TypeOK /\ OnTrack /\ RepeatIsLast /\ BoundingBox /\ NothingLost
    /\ ColorLink /\ Faithful /\ Frugal /\ Refreshed /\ BufferBound
=============================================================================
