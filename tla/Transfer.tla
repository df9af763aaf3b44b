------------------------------ MODULE Transfer ------------------------------
(***************************************************************************)
(* The encoder of the server (server/transfer.c): what                     *)
(* transfer_image_send_all and transfer_image_send_diff put into the       *)
(* buffer.  The diff is described by the body of its inner loop, DiffPixel,*)
(* so that DiffLoop can take it one pixel at a time and SendDiff all at    *)
(* once.  Positions are pairs <<x, y>>, counted from 0 as in the code.     *)
(***************************************************************************)
EXTENDS Reader

\* The rows of a rectangle from top to bottom, each from left to right.
RowMajor(left, top, width, height) ==
    [k \in 1 .. width * height |->
        <<left + ((k - 1) % width), top + ((k - 1) \div width)>>]

\* Number of a position in the rows of the whole screen.
Offset(q) == q[2] * W + q[1]

SendAll(image) ==
    <<CMD_RESET_POSITION(0, 0)>>
    \o [k \in 1 .. W * H |-> CMD_PUT_COLOR(image[RowMajor(0, 0, W, H)[k]])]
    \o <<CMD_SOFT_UPDATE>>

-----------------------------------------------------------------------------
\* A region of the screen, and the part of the client's line outside it.
Region == [left : 0 .. W - 1, top : 0 .. H - 1,
           width : 1 .. W, height : 1 .. H]
OnScreen(r) == r.left + r.width <= W /\ r.top + r.height <= H
Right(r)    == r.left + r.width
Bottom(r)   == r.top + r.height
LineSkip(r) == W - r.width
Cells(r)    == (r.left .. Right(r) - 1) \X (r.top .. Bottom(r) - 1)

\* The regions of a frame: height_divisor rows of width_divisor columns.
RegionAt(i, j, rw, rh) ==
    [left |-> j * rw, top |-> i * rh, width |-> rw, height |-> rh]

\* The position in the region after q, row by row.
Advance(r, q) ==
    IF q[1] + 1 = Right(r) THEN <<r.left, q[2] + 1>> ELSE <<q[1] + 1, q[2]>>

Lower(a, b)  == IF a < b THEN a ELSE b
Higher(a, b) == IF a > b THEN a ELSE b

\* Local variables of the loop: skipped_before, is_repeat_before, the
\* bounding box of the changed pixels, and the commands in the buffer; the
\* static color is part of the record too.
DiffStart(r, color) ==
    [skipped |-> 0, repeat |-> FALSE, color |-> color,
     x1 |-> Right(r) - 1, y1 |-> Bottom(r) - 1, x2 |-> r.left, y2 |-> r.top,
     cmds |-> <<CMD_RESET_POSITION(r.left, r.top)>>]

\* The commands that the loop gives, and the types of its state when its
\* commands are of a set C.
Drawing == {c \in Command :
              c.cmd \in {"RESET_POSITION", "SKIP", "PUT_REPEAT", "PUT_COLOR"}}
LoopState(C) == [skipped : Nat, repeat : BOOLEAN, color : Colors,
                 x1 : Nat, y1 : Nat, x2 : Nat, y2 : Nat, cmds : Seq(C)]

\* In a state that repeats, the last command is a PUT_REPEAT that can count
\* one pixel more.
Countable(e) ==
    /\ Len(e.cmds) > 0
    /\ e.repeat => e.skipped = 0 /\ Last(e.cmds).cmd = "PUT_REPEAT"

\* Mutant of Emit: a skip is sent even if no pixel was passed over.
EmitEverySkip(d, c) ==
    LET before == Append(d.cmds, CMD_SKIP(d.skipped)) IN
    IF c = d.color /\ d.repeat
    THEN [before EXCEPT ![Len(d.cmds)].count = @ + 1]
    ELSE Append(before, IF c # d.color THEN CMD_PUT_COLOR(c)
                                       ELSE CMD_PUT_REPEAT(1))

\* The commands after a changed pixel of colour c: the skip to it if pixels
\* were passed over, then a new colour, or one more of the same colour.
Emit(d, c) ==
    LET before == IF d.skipped > 0 THEN Append(d.cmds, CMD_SKIP(d.skipped))
                                   ELSE d.cmds
    IN  CASE c # d.color -> Append(before, CMD_PUT_COLOR(c))
          [] c = d.color /\ d.repeat ->
                [before EXCEPT ![Len(before)].count = @ + 1]
          [] c = d.color /\ ~d.repeat -> Append(before, CMD_PUT_REPEAT(1))

\* Mutant of ChangedPixel: a pixel that moves one border of the box is not
\* compared with the opposite one ("else if").
ChangedPixelElse(d, p, c) ==
    [skipped |-> 0, repeat |-> c = d.color, color |-> c,
     x1 |-> Lower(d.x1, p[1]), y1 |-> Lower(d.y1, p[2]),
     x2 |-> IF p[1] < d.x1 THEN d.x2 ELSE Higher(d.x2, p[1]),
     y2 |-> IF p[2] < d.y1 THEN d.y2 ELSE Higher(d.y2, p[2]),
     cmds |-> Emit(d, c)]

ChangedPixel(d, p, c) ==
    [skipped |-> 0, repeat |-> c = d.color, color |-> c,
     x1 |-> Lower(d.x1, p[1]), y1 |-> Lower(d.y1, p[2]),
     x2 |-> Higher(d.x2, p[1]), y2 |-> Higher(d.y2, p[2]),
     cmds |-> Emit(d, c)]

\* The reader after the commands that Emit adds for a pixel of colour c: an
\* increment of the last PUT_REPEAT is one more iteration of its loop.
Follow(rd, d, c) ==
    LET at == IF d.skipped > 0 THEN SkipPixels(rd, d.skipped) ELSE rd
    IN  PutPixel([at EXCEPT !.color = IF c # d.color THEN c ELSE @])

\* Mutant of SkipMore: is_repeat_before survives the skipped pixels.
SkipMoreInRepeat(d, n) == [d EXCEPT !.skipped = @ + n]

SkipMore(d, n) == [d EXCEPT !.skipped = @ + n, !.repeat = FALSE]

\* Mutant of EndOfLine: the pixels between two lines are not counted.
EndOfLineUncounted(d, r, p) == d

\* What follows the inner loop when it has reached the end of a line.
EndOfLine(d, r, p) ==
    IF p[1] = Right(r) - 1 /\ LineSkip(r) > 0 THEN SkipMore(d, LineSkip(r))
                                              ELSE d

DiffPixel(d, r, prev, next, p) ==
    EndOfLine(IF prev[p] # next[p] THEN ChangedPixel(d, p, next[p])
                                   ELSE SkipMore(d, 1), r, p)

\* Mutant of NeedSend: a change in one line or one column is not sent.
NeedSendBroad(d) == d.x1 < d.x2 /\ d.y1 < d.y2

NeedSend(d) == d.x1 <= d.x2 /\ d.y1 <= d.y2

\* The refresh of the bounding box that ends a message worth sending.
DiffEnd(d) ==
    IF NeedSend(d)
    THEN [d EXCEPT !.cmds = Append(@, CMD_PARTIAL_UPDATE(d.x1, d.y1,
                                d.x2 - d.x1 + 1, d.y2 - d.y1 + 1))]
    ELSE d

SendDiff(prev, next, r, color) ==
    DiffEnd(FoldLeft(LAMBDA d, p : DiffPixel(d, r, prev, next, p),
                     DiffStart(r, color),
                     RowMajor(r.left, r.top, r.width, r.height)))

\* Bytes of a sequence of commands.
EncodeAll(cmds) == FlattenSeq([k \in DOMAIN cmds |-> Encode(cmds[k])])
=============================================================================
