------------------------------- MODULE Reader -------------------------------
(***************************************************************************)
(* The decoder of the e-book reader application (client/client.c): the     *)
(* position and colour registers x, y, color, the frame buffer that        *)
(* DrawPixel writes, and the panel that SoftUpdate and PartialUpdate       *)
(* refresh from it.  Apply is what one complete command does; ExecCommand  *)
(* is client_exec at the bytes that happen to be in the receive buffer.    *)
(***************************************************************************)
EXTENDS Integers, SequencesExt, Protocol

CONSTANTS
    W, H,     \* width and height of the reader's screen
    Colors    \* 24-bit colours; 0 is the one both sides start with

ASSUME ScreenAssumption == W \in Nat \ {0} /\ H \in Nat \ {0}
ASSUME ColorsAssumption == 0 \in Colors

Pixel == (0 .. W - 1) \X (0 .. H - 1)
Image == [Pixel -> Colors]

Command ==
    [cmd : {"RESET_POSITION"}, x : Nat, y : Nat]
    \cup [cmd : {"SKIP", "PUT_REPEAT"}, count : Nat]
    \cup [cmd : {"PUT_COLOR"}, color : Colors]
    \cup [cmd : {"PARTIAL_UPDATE"}, x : Nat, y : Nat, w : Nat, h : Nat]
    \cup [cmd : {"SHOW_ERROR"}, length : Nat]
    \cup [cmd : {"SOFT_UPDATE", "CONN_CHECK"}]

Registers == [x : Nat, y : Nat, color : Colors, fb : Image, panel : Image]

\* client_mainloop zeroes the registers; ClearScreen left some uniform
\* content, which the first frame overwrites.
InitReader(blank) ==
    [x |-> 0, y |-> 0, color |-> 0,
     fb |-> [p \in Pixel |-> blank], panel |-> [p \in Pixel |-> blank]]

-----------------------------------------------------------------------------
\* DrawPixel of the device library ignores a position off the screen.
DrawPixel(fb, px, py, c) ==
    [p \in Pixel |-> IF p = <<px, py>> THEN c ELSE fb[p]]

\* One iteration of the PUT_REPEAT loop, and the whole of PUT_COLOR once the
\* colour is loaded: draw, step right, wrap to the next line and to the top.
PutPixel(rd) ==
    LET endOfLine == rd.x + 1 = W IN
    [rd EXCEPT !.fb = DrawPixel(@, rd.x, rd.y, rd.color),
               !.x  = IF endOfLine THEN 0 ELSE rd.x + 1,
               !.y  = IF ~endOfLine THEN rd.y
                      ELSE IF rd.y + 1 = H THEN 0 ELSE rd.y + 1]

SkipPixels(rd, count) ==
    [rd EXCEPT !.x = (count + rd.x) % W,
               !.y = rd.y + (count + rd.x) \div W]

\* Without going through the frame buffer again, the panel shows the
\* rectangle as it is drawn now.
Flush(rd, px, py, pw, ph) ==
    [rd EXCEPT !.x = px, !.y = py,
               !.panel = [p \in Pixel |->
                   IF p[1] \in px .. px + pw - 1 /\ p[2] \in py .. py + ph - 1
                   THEN rd.fb[p] ELSE @[p]]]

Apply(rd, c) ==
    CASE c.cmd = "RESET_POSITION" -> [rd EXCEPT !.x = c.x, !.y = c.y]
      [] c.cmd = "SKIP"           -> SkipPixels(rd, c.count)
      [] c.cmd = "PUT_REPEAT"     ->
            FoldLeft(LAMBDA r, k : PutPixel(r), rd,
                     [k \in 1 .. c.count |-> k])
      [] c.cmd = "PUT_COLOR"      -> PutPixel([rd EXCEPT !.color = c.color])
      [] c.cmd = "SOFT_UPDATE"    -> [rd EXCEPT !.panel = rd.fb]
      [] c.cmd = "PARTIAL_UPDATE" -> Flush(rd, c.x, c.y, c.w, c.h)
      [] c.cmd = "CONN_CHECK"     -> rd

ApplyAll(rd, cmds) == FoldLeft(Apply, rd, cmds)

-----------------------------------------------------------------------------
(***************************************************************************)
(* One turn of the loop of client_exec: st.at bytes of the buffer are done *)
(* and there are more; st.stop says why the loop ends, if it does.  Every  *)
(* confirmation is written from buffer[0], over the first received byte.   *)
(***************************************************************************)
Update == {"SOFT_UPDATE", "PARTIAL_UPDATE"}
Known  == {"RESET_POSITION", "SKIP", "PUT_REPEAT", "PUT_COLOR",
           "SHOW_ERROR", "CONN_CHECK"} \cup Update

\* Mutant of Complete: the command may lack its last byte.
CompleteButOne(buf, i) ==
    IF buf[i].cmd = "SHOW_ERROR"
    THEN \E j \in i + 1 .. Len(buf) : buf[j] = NulByte
    ELSE i + Size(buf[i]) - 2 <= Len(buf)

\* All the bytes of the command that begins at position i have arrived.
Complete(buf, i) ==
    IF buf[i].cmd = "SHOW_ERROR"
    THEN \E j \in i + 1 .. Len(buf) : buf[j] = NulByte
    ELSE i + Size(buf[i]) - 1 <= Len(buf)

\* Position of the null byte that ends the message begun at position i.
EndOfMessage(buf, i) ==
    Min({j \in i + 1 .. Len(buf) : buf[j] = NulByte})

ExecCommand(st) ==
    LET i == st.at + 1
        c == st.buf[i]
    IN  CASE c.cmd \notin Known -> [st EXCEPT !.stop = "unsupported"]
          [] c.cmd \in Known /\ ~Complete(st.buf, i) ->
                [st EXCEPT !.stop = "short"]
          [] c.cmd = "SHOW_ERROR" /\ Complete(st.buf, i) ->
                [st EXCEPT !.stop = "error",
                           !.at = EndOfMessage(st.buf, i) - 1]
          [] c.cmd \in Known \ ({"SHOW_ERROR"} \cup Update)
                /\ Complete(st.buf, i) ->
                [st EXCEPT !.rd = Apply(@, c), !.at = @ + Size(c)]
          [] c.cmd \in Update /\ Complete(st.buf, i) ->
                [st EXCEPT !.rd = Apply(@, c), !.at = @ + Size(c),
                           !.acks = @ + 1, !.buf[1] = RES_CONFIRM]
=============================================================================
