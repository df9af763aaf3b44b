--------------------------- MODULE DiffLoopProofs ---------------------------
(***************************************************************************)
(* What transfer_image_send_diff does to the reader, for every screen      *)
(* size, every pair of images, every region and every pair of remembered   *)
(* colours.  The steps are those of TransferProofs; here they are steps of *)
(* the state machine.                                                      *)
(***************************************************************************)
EXTENDS DiffLoop, TransferProofs

-----------------------------------------------------------------------------
(* The invariant.                                                          *)

\* What the function was called with.
ThisCall == [prev |-> prev, next |-> next, region |-> region,
             color |-> color0, reader |-> rd0]

LEMMA ThisCallType ==
    /\ /\ prev \in Image /\ next \in Image /\ color0 \in Colors
       /\ region \in Region /\ OnScreen(region) /\ rd0 \in Registers
       => ThisCall \in Call
    /\ ThisCall.prev = prev /\ ThisCall.next = next
    /\ ThisCall.region = region /\ ThisCall.color = color0
    /\ ThisCall.reader = rd0
  BY DEF ThisCall, Call

\* The pixels of the call are those of the state.
LEMMA ThisCallPixels ==
    ASSUME region \in Region, OnScreen(region)
    PROVE  /\ \A q \in Pixel : /\ Changed(q) <=> q \in ToDraw(ThisCall)
                               /\ Changed(q) /\ Passed(q)
                                     <=> q \in Done(ThisCall, p)
           /\ ToDraw(ThisCall) \subseteq Pixel
           /\ Done(ThisCall, p) \subseteq ToDraw(ThisCall)
<1>1. Cells(region) \subseteq Pixel
  BY ScreenAssumption DEF Cells, Pixel, Region, OnScreen, Right, Bottom
<1> QED
  BY <1>1, ThisCallType DEF Changed, Passed, ToDraw, Done, Before

\* In the loop, LoopInvariant is the invariant of the loop of TransferProofs.
LEMMA ScanHolds ==
    ASSUME LoopInvariant, pc = "scan"
    PROVE  ThisCall \in Call /\ LoopHolds(ThisCall, d, p, rd)
<1>1. /\ TypeOK /\ OnTrack /\ RepeatIsLast /\ BoundingBox /\ NothingLost
      /\ ColorLink /\ Faithful /\ Frugal /\ BufferBound
  BY DEF LoopInvariant
<1>2. ThisCall \in Call
  BY <1>1, ThisCallType DEF TypeOK
<1> DEFINE m == ThisCall
<1>3. /\ m.prev = prev /\ m.next = next /\ m.region = region
      /\ m.color = color0 /\ m.reader = rd0
  BY ThisCallType
<1>4. /\ \A q \in Pixel : Changed(q) /\ Passed(q) <=> q \in Done(m, p)
      /\ Done(m, p) \subseteq Pixel
  BY <1>1, ThisCallPixels DEF TypeOK
<1> HIDE DEF m
<1>5. d \in LoopState(Drawing)
  BY <1>1 DEF TypeOK, LoopState
<1>6. LoopTypes(m, d, p, rd)
  BY <1>1, <1>3, <1>5 DEF TypeOK, LoopTypes
<1>7. InStep(m, d, p, rd) /\ Countable(d)
  BY <1>1, <1>3 DEF OnTrack, RepeatIsLast, InStep
<1>8. Boxed(m, d, p)
  BY <1>1, <1>3, <1>4 DEF BoundingBox, Boxed
<1>9. Kept(m, d, rd) /\ Linked(m, d, rd)
  BY <1>1, <1>3 DEF NothingLost, ColorLink, Kept, Linked
<1>10. Drawn(m, p, rd) /\ Spared(m, p, rd)
  BY <1>1, <1>3, <1>4 DEF Faithful, Frugal, Drawn, Spared
<1>11. Short(m, d, p)
  BY <1>1, <1>3 DEF BufferBound, Short
<1> QED
  BY <1>2, <1>6, <1>7, <1>8, <1>9, <1>10, <1>11 DEF LoopHolds, m

LEMMA HoldsScan ==
    ASSUME ThisCall \in Call, LoopHolds(ThisCall, d, p, rd), pc = "scan"
    PROVE  LoopInvariant
<1> DEFINE m == ThisCall
<1>1. /\ LoopTypes(m, d, p, rd) /\ InStep(m, d, p, rd) /\ Countable(d)
      /\ Boxed(m, d, p) /\ Kept(m, d, rd) /\ Linked(m, d, rd)
      /\ Drawn(m, p, rd) /\ Spared(m, p, rd) /\ Short(m, d, p)
  BY DEF LoopHolds
<1>2. /\ m.prev = prev /\ m.next = next /\ m.region = region
      /\ m.color = color0 /\ m.reader = rd0
  BY ThisCallType
<1>3. /\ prev \in Image /\ next \in Image /\ color0 \in Colors
      /\ region \in Region /\ OnScreen(region) /\ rd0 \in Registers
  BY <1>2, CallTypes
<1>4. /\ \A q \in Pixel : Changed(q) /\ Passed(q) <=> q \in Done(m, p)
      /\ Done(m, p) \subseteq Pixel
  BY <1>3, ThisCallPixels
<1> HIDE DEF m
<1>5. d \in LoopState(Command) /\ d.cmds \in Seq(Drawing)
  <2>1. Drawing \subseteq Command
    BY DEF Drawing
  <2>2. d \in LoopState(Drawing)
    BY <1>1 DEF LoopTypes
  <2>3. d.cmds \in Seq(Drawing) /\ d.cmds \in Seq(Command)
    BY <2>1, <2>2, SeqMonotonic DEF LoopState
  <2> QED
    BY <2>2, <2>3 DEF LoopState
<1>6. TypeOK
  BY <1>1, <1>2, <1>3, <1>5 DEF TypeOK, LoopTypes
<1>7. OnTrack /\ RepeatIsLast
  BY <1>1, <1>2 DEF OnTrack, RepeatIsLast, InStep
<1>8. BoundingBox
  BY <1>1, <1>2, <1>4 DEF BoundingBox, Boxed
<1>9. NothingLost /\ ColorLink
  BY <1>1, <1>2 DEF NothingLost, ColorLink, Kept, Linked
<1>10. Faithful /\ Frugal
  BY <1>1, <1>2, <1>4 DEF Faithful, Frugal, Drawn, Spared
<1>11. Refreshed /\ BufferBound
  BY <1>1, <1>2 DEF Refreshed, BufferBound, Short
<1> QED
  BY <1>6, <1>7, <1>8, <1>9, <1>10, <1>11 DEF LoopInvariant

-----------------------------------------------------------------------------
(* The steps.                                                              *)

\* The initial values of the locals satisfy the invariant.
LEMMA InitInvariant == Init => LoopInvariant
<1> SUFFICES ASSUME Init PROVE LoopInvariant
  OBVIOUS
<1>1. /\ prev \in Image /\ next \in Image
      /\ region \in Region /\ OnScreen(region) /\ color0 \in Colors
      /\ pc = "scan" /\ p = <<region.left, region.top>>
      /\ d = DiffStart(region, color0)
      /\ rd = [rd0 EXCEPT !.x = region.left, !.y = region.top]
  BY FramesAssumption, RegionsAssumption DEF Init
<1>2. PICK c \in Colors, f \in Screens :
         rd0 = [x |-> 0, y |-> 0, color |-> c, fb |-> f, panel |-> f]
  BY DEF Init
<1>3. rd0 \in Registers
  BY <1>2, FramesAssumption DEF Registers
<1>4. ThisCall \in Call /\ ThisCall.region = region
      /\ ThisCall.color = color0 /\ ThisCall.reader = rd0
  BY <1>1, <1>3, ThisCallType
<1>5. LoopHolds(ThisCall, d, p, rd)
  BY <1>1, <1>4, LoopBegins
<1> QED
  BY <1>1, <1>4, <1>5, HoldsScan

\* One iteration of the inner loop is one of the loop of the call.
LEMMA ScanStays ==
    ASSUME LoopInvariant, Scan
    PROVE  /\ ThisCall \in Call /\ ThisCall' = ThisCall
           /\ pc = "scan" /\ pc' = "scan"
           /\ LoopHolds(ThisCall, d, p, rd) /\ LoopHolds(ThisCall, d', p', rd')
           /\ p[2] < Bottom(region)
           /\ d' = DiffPixel(d, region, prev, next, p)
           /\ p' = Advance(region, p) /\ rd' = Followed(ThisCall, d, p, rd)
<1>1. /\ pc = "scan" /\ pc' = "scan" /\ p[2] < Bottom(region)
      /\ d' = DiffPixel(d, region, prev, next, p)
      /\ p' = Advance(region, p)
      /\ rd' = IF prev[p] # next[p] THEN Follow(rd, d, next[p]) ELSE rd
      /\ prev' = prev /\ next' = next /\ region' = region
      /\ color0' = color0 /\ rd0' = rd0
  BY DEF Scan
<1>2. ThisCall \in Call /\ LoopHolds(ThisCall, d, p, rd)
  BY <1>1, ScanHolds
<1>3. /\ ThisCall.prev = prev /\ ThisCall.next = next
      /\ ThisCall.region = region
  BY ThisCallType
<1>4. ThisCall' = ThisCall
  BY <1>1 DEF ThisCall
<1>5. rd' = Followed(ThisCall, d, p, rd)
  BY <1>1, <1>3 DEF Followed
<1>6. LoopHolds(ThisCall, d', p', rd')
  BY <1>1, <1>2, <1>3, <1>5, LoopGoesOn
<1> QED
  BY <1>1, <1>2, <1>4, <1>5, <1>6

\* The end of the function preserves the invariant.
LEMMA FinishPreserves == LoopInvariant /\ Finish => LoopInvariant'
<1> SUFFICES ASSUME LoopInvariant, Finish PROVE LoopInvariant'
  OBVIOUS
<1> DEFINE m == ThisCall
<1>1. /\ TypeOK /\ BoundingBox /\ NothingLost
      /\ pc = "scan" /\ pc' = "sent" /\ p[2] = Bottom(region)
      /\ prev' = prev /\ next' = next /\ region' = region
      /\ color0' = color0 /\ rd0' = rd0 /\ p' = p
      /\ d' = DiffEnd(d)
      /\ rd' = IF NeedSend(d)
               THEN Flush(rd, d.x1, d.y1, d.x2 - d.x1 + 1, d.y2 - d.y1 + 1)
               ELSE rd0
  BY DEF LoopInvariant, Finish
<1>2. /\ d \in LoopState(Command) /\ rd0 \in Registers
      /\ d.x1 \in Nat /\ d.y1 \in Nat /\ d.x2 \in Nat /\ d.y2 \in Nat
      /\ d.cmds \in Seq(Command) /\ region \in Region /\ OnScreen(region)
  BY <1>1 DEF TypeOK, LoopState
<1>3. /\ d' \in LoopState(Command) /\ d'.color = d.color
      /\ d'.x1 = d.x1 /\ d'.y1 = d.y1 /\ d'.x2 = d.x2 /\ d'.y2 = d.y2
  <2>1. CASE NeedSend(d)
    <3> DEFINE c == CMD_PARTIAL_UPDATE(d.x1, d.y1, d.x2 - d.x1 + 1,
                                       d.y2 - d.y1 + 1)
    <3>1. d.x2 - d.x1 + 1 \in Nat /\ d.y2 - d.y1 + 1 \in Nat
      BY <1>2, <2>1 DEF NeedSend
    <3>2. c \in Command
      BY <1>2, <3>1 DEF Command, CMD_PARTIAL_UPDATE
    <3> HIDE DEF c
    <3>3. Append(d.cmds, c) \in Seq(Command)
      BY <1>2, <3>2, AppendProperties
    <3>4. d' = [d EXCEPT !.cmds = Append(d.cmds, c)]
      BY <1>1, <2>1 DEF DiffEnd, c
    <3> QED
      BY <1>2, <3>3, <3>4 DEF LoopState
  <2>2. CASE ~NeedSend(d)
    <3>1. d' = d
      BY <1>1, <2>2 DEF DiffEnd
    <3> QED
      BY <1>2, <3>1
  <2> QED
    BY <2>1, <2>2
<1>4. /\ m.prev = prev /\ m.next = next /\ m.region = region
      /\ m.color = color0 /\ m.reader = rd0
  BY ThisCallType
<1>5. m \in Call /\ LoopHolds(m, d, p, rd)
  BY <1>1, ScanHolds
<1>6. /\ \A q \in Pixel : /\ Changed(q)' <=> q \in ToDraw(m)
                          /\ (Changed(q) /\ Passed(q))' <=> q \in ToDraw(m)
      /\ ToDraw(m) \subseteq Pixel
  <2>1. Done(m, p) = ToDraw(m)
    BY <1>1, <1>4, <1>5, LoopEnds
  <2>2. /\ \A q \in Pixel : /\ Changed(q) <=> q \in ToDraw(m)
                            /\ Changed(q) /\ Passed(q) <=> q \in Done(m, p)
        /\ ToDraw(m) \subseteq Pixel
    BY <1>2, ThisCallPixels
  <2>3. \A q \in Pixel : /\ Changed(q)' <=> Changed(q)
                         /\ Passed(q)' <=> Passed(q)
    BY <1>1 DEF Changed, Passed
  <2> QED
    BY <2>1, <2>2, <2>3
<1>7. /\ NeedSend(d) => Sent(m, d, rd')
      /\ ~NeedSend(d) => /\ ToDraw(m) = {} /\ d.color = color0 /\ rd' = rd0
  BY <1>1, <1>4, <1>5, LoopEnds
<1>8. NeedSend(d)' <=> NeedSend(d)
  BY <1>3 DEF NeedSend
<1> HIDE DEF m
<1>9. TypeOK'
  <2>1. rd' \in Registers
    BY <1>2, <1>7 DEF Sent
  <2> QED
    BY <1>1, <1>3, <2>1 DEF TypeOK
<1>10. BoundingBox'
  BY <1>1, <1>3 DEF BoundingBox, Changed, Passed
<1>11. NothingLost'
  BY <1>1, <1>3, <1>7, <1>8 DEF NothingLost
<1>12. ColorLink'
  BY <1>1, <1>3, <1>4, <1>7 DEF ColorLink, Sent, Linked
<1>13. Faithful' /\ Frugal' /\ Refreshed'
  <2>1. CASE NeedSend(d)
    <3>1. /\ \A q \in ToDraw(m) :
                /\ rd'.fb[q] = next[q] \/ (next[q] = color0
                                           /\ rd'.fb[q] = rd0.color)
                /\ rd'.panel[q] = rd'.fb[q]
          /\ \A q \in Pixel \ ToDraw(m) : rd'.fb[q] = rd0.fb[q]
          /\ \A q \in Pixel \ Cells(region) : rd'.panel[q] = rd0.panel[q]
      BY <1>4, <1>7, <2>1 DEF Sent
    <3>2. Faithful'
      BY <1>1, <1>6, <3>1 DEF Faithful
    <3>3. Frugal'
      BY <1>1, <1>6, <3>1 DEF Frugal
    <3>4. Refreshed'
      BY <1>1, <1>6, <3>1 DEF Refreshed, Cells
    <3> QED
      BY <3>2, <3>3, <3>4
  <2>2. CASE ~NeedSend(d)
    <3>1. ToDraw(m) = {} /\ rd' = rd0
      BY <1>7, <2>2
    <3> QED
      BY <1>1, <1>6, <3>1 DEF Faithful, Frugal, Refreshed
  <2> QED
    BY <2>1, <2>2
<1> QED
  BY <1>1, <1>9, <1>10, <1>11, <1>12, <1>13
     DEF LoopInvariant, OnTrack, RepeatIsLast, BufferBound

-----------------------------------------------------------------------------
(* The theorems.                                                           *)

\* The invariant holds of every execution of transfer_image_send_diff.
THEOREM LoopCorrect == Spec => []LoopInvariant
<1>1. Init => LoopInvariant
  BY InitInvariant
<1>2. LoopInvariant /\ [Next]_vars => LoopInvariant'
  <2> SUFFICES ASSUME LoopInvariant, [Next]_vars PROVE LoopInvariant'
    OBVIOUS
  <2>1. CASE Scan
    <3>1. /\ (ThisCall \in Call)' /\ LoopHolds(ThisCall, d, p, rd)'
          /\ (pc = "scan")'
      BY <2>1, ScanStays
    <3>2. (ThisCall \in Call /\ LoopHolds(ThisCall, d, p, rd) /\ pc = "scan"
             => LoopInvariant)'
      BY HoldsScan, PTL
    <3> QED
      BY <3>1, <3>2
  <2>2. CASE Finish
    BY <2>2, FinishPreserves
  <2>3. CASE UNCHANGED vars
    BY <2>3 DEF vars, LoopInvariant, TypeOK, OnTrack, RepeatIsLast,
       BoundingBox, NothingLost, ColorLink, Faithful, Frugal, Refreshed,
       BufferBound, Changed, Passed
  <2> QED
    BY <2>1, <2>2, <2>3 DEF Next
<1> QED
  BY <1>1, <1>2, PTL DEF Spec

\* Every changed pixel of the region is drawn in its new colour, or in the
\* colour the reader remembered where the server left out the one it did.
THEOREM DiffFaithful == Spec => []Faithful
  <1>1. LoopInvariant => Faithful
    BY DEF LoopInvariant
  <1> QED
    BY LoopCorrect, <1>1, PTL

\* A reader that showed the previous image on the region and remembers the
\* same colour as the server shows the next image on the region.
THEOREM DiffMirrors == Spec => []Mirrors
<1>1. LoopInvariant => Mirrors
  <2> SUFFICES ASSUME LoopInvariant, pc = "sent", color0 = rd0.color,
                      NEW q \in Cells(region), rd0.fb[q] = prev[q]
               PROVE  rd.fb[q] = next[q]
    BY DEF Mirrors
  <2>1. /\ TypeOK /\ Faithful /\ Frugal /\ p[2] = Bottom(region)
    BY DEF LoopInvariant, NothingLost
  <2>2. q \in Pixel /\ Passed(q)
    BY <2>1, ScreenAssumption
       DEF Cells, Passed, Pixel, TypeOK, Region, OnScreen, Right, Bottom
  <2>3. CASE prev[q] # next[q]
    BY <2>1, <2>2, <2>3 DEF Faithful, Changed
  <2>4. CASE prev[q] = next[q]
    BY <2>1, <2>2, <2>4 DEF Frugal, Changed
  <2> QED
    BY <2>3, <2>4
<1> QED
  BY LoopCorrect, <1>1, PTL

\* Nothing but the changed pixels of the region is ever drawn.
THEOREM DiffFrugal == Spec => []Frugal
  <1>1. LoopInvariant => Frugal
    BY DEF LoopInvariant
  <1> QED
    BY LoopCorrect, <1>1, PTL

\* The refreshed rectangle shows all that was drawn, within the region.
THEOREM DiffRefreshed == Spec => []Refreshed
  <1>1. LoopInvariant => Refreshed
    BY DEF LoopInvariant
  <1> QED
    BY LoopCorrect, <1>1, PTL

\* The buffer holds at most one command per position gone over.
THEOREM DiffBufferBound == Spec => []BufferBound
  <1>1. LoopInvariant => BufferBound
    BY DEF LoopInvariant
  <1> QED
    BY LoopCorrect, <1>1, PTL

-----------------------------------------------------------------------------
(* Decoding undoes encoding.                                              *)

\* Decoding undoes encoding.  In the loop the variables are where the loop of
\* SendDiff is after as many pixels, and the reader is the one that executed
\* the buffer; at the end they are what SendDiff and ApplyAll give.
LockInvariant ==
    /\ pc = "scan" =>
          /\ rd = ApplyAll(rd0, d.cmds)
          /\ \A h : IsDiffRun(ThisCall, h) =>
                \E k \in 0 .. PixelCount(region) :
                    p = PositionAt(region, k) /\ d = h[k]
    /\ pc = "sent" => LockStep

\* The reset of the position is executed like the other commands.
LEMMA LockInit == Init => LockInvariant
<1> SUFFICES ASSUME Init PROVE LockInvariant
  OBVIOUS
<1> DEFINE c == CMD_RESET_POSITION(region.left, region.top)
<1>1. LoopInvariant
  BY InitInvariant
<1>2. /\ region \in Region /\ rd0 \in Registers /\ pc = "scan"
      /\ d = DiffStart(region, color0) /\ p = <<region.left, region.top>>
      /\ rd = [rd0 EXCEPT !.x = region.left, !.y = region.top]
  BY <1>1 DEF Init, LoopInvariant, TypeOK
<1>3. /\ c \in Harmless /\ c.cmd = "RESET_POSITION"
      /\ c.x = region.left /\ c.y = region.top
      /\ d.cmds = <<c>> /\ <<c>> = Append(<<>>, c) /\ <<>> \in Seq(Harmless)
  <2>1. region.left \in Nat /\ region.top \in Nat
    BY <1>2, ScreenAssumption DEF Region
  <2> QED
    BY <1>2, <2>1 DEF DiffStart, Harmless, Command, CMD_RESET_POSITION
<1> HIDE DEF c
<1>4. rd = ApplyAll(rd0, d.cmds)
  <2>1. ApplyAll(rd0, <<>>) = rd0
    BY <1>2, <1>3, ApplyAllAppend
  <2>2. ApplyAll(rd0, Append(<<>>, c)) = Apply(ApplyAll(rd0, <<>>), c)
    BY <1>2, <1>3, ApplyAllAppend
  <2>3. Apply(rd0, c) = [rd0 EXCEPT !.x = c.x, !.y = c.y]
    BY <1>2, <1>3, ApplyType
  <2> QED
    BY <1>2, <1>3, <2>1, <2>2, <2>3
<1>5. ASSUME NEW h, IsDiffRun(ThisCall, h)
      PROVE  \E k \in 0 .. PixelCount(region) :
                p = PositionAt(region, k) /\ d = h[k]
  <2>1. h[0] = d
    BY <1>2, <1>5, ThisCallType DEF IsDiffRun
  <2>2. /\ PositionAt(region, 0) = p /\ 0 \in 0 .. PixelCount(region)
    BY <1>2, Positions
  <2> QED
    BY <2>1, <2>2
<1> QED
  BY <1>2, <1>4, <1>5 DEF LockInvariant

\* A pixel adds to the buffer what the reader follows.
LEMMA LockScan == LoopInvariant /\ LockInvariant /\ Scan => LockInvariant'
<1> SUFFICES ASSUME LoopInvariant, LockInvariant, Scan PROVE LockInvariant'
  OBVIOUS
<1>1. /\ ThisCall \in Call /\ ThisCall' = ThisCall /\ pc = "scan" /\ pc' = "scan"
      /\ LoopHolds(ThisCall, d, p, rd) /\ p[2] < Bottom(region)
      /\ d' = DiffPixel(d, region, prev, next, p)
      /\ p' = Advance(region, p) /\ rd' = Followed(ThisCall, d, p, rd)
      /\ region' = region /\ rd0' = rd0
  BY ScanStays DEF Scan
<1>2. /\ ThisCall.prev = prev /\ ThisCall.next = next
      /\ ThisCall.region = region /\ ThisCall.reader = rd0
  BY ThisCallType
<1>3. rd = ApplyAll(rd0, d.cmds)
  BY <1>1 DEF LockInvariant
<1>4. rd' = ApplyAll(rd0, d'.cmds)
  BY <1>1, <1>2, <1>3, DiffPixelFollows
<1>5. ASSUME NEW h, IsDiffRun(ThisCall, h)
      PROVE  \E k \in 0 .. PixelCount(region) :
                p' = PositionAt(region, k) /\ d' = h[k]
  <2>1. PICK k \in 0 .. PixelCount(region) :
           p = PositionAt(region, k) /\ d = h[k]
    BY <1>1, <1>5 DEF LockInvariant
  <2>2. region \in Region
    BY <1>1, <1>2, CallTypes
  <2>3. PixelCount(region) \in Nat /\ k # PixelCount(region)
    BY <1>1, <2>1, <2>2, Positions, ScreenAssumption DEF Bottom, Region
  <2>4. /\ k \in 0 .. PixelCount(region) - 1 /\ k + 1 \in 1 .. PixelCount(region)
        /\ (k + 1) - 1 = k /\ k + 1 \in 0 .. PixelCount(region)
    BY <2>3
  <2>5. PositionAt(region, k + 1) = Advance(region, PositionAt(region, k))
    BY <2>2, <2>4, Positions
  <2>6. h[k + 1] = DiffPixel(h[k], region, prev, next, PositionAt(region, k))
    BY <1>2, <1>5, <2>4 DEF IsDiffRun
  <2>7. p' = PositionAt(region, k + 1) /\ d' = h[k + 1]
    BY <1>1, <2>1, <2>5, <2>6
  <2> QED
    BY <2>4, <2>7
<1> QED
  BY <1>1, <1>4, <1>5 DEF LockInvariant

\* At the end the loop has gone over the region, and the refresh is executed.
LEMMA LockFinish == LoopInvariant /\ LockInvariant /\ Finish => LockInvariant'
<1> SUFFICES ASSUME LoopInvariant, LockInvariant, Finish PROVE LockInvariant'
  OBVIOUS
<1>1. /\ pc = "scan" /\ pc' = "sent" /\ p[2] = Bottom(region)
      /\ prev' = prev /\ next' = next /\ region' = region
      /\ color0' = color0 /\ rd0' = rd0
      /\ d' = DiffEnd(d)
      /\ rd' = IF NeedSend(d)
               THEN Flush(rd, d.x1, d.y1, d.x2 - d.x1 + 1, d.y2 - d.y1 + 1)
               ELSE rd0
  BY DEF Finish
<1>2. ThisCall \in Call /\ LoopHolds(ThisCall, d, p, rd)
  BY <1>1, ScanHolds
<1>3. /\ ThisCall.prev = prev /\ ThisCall.next = next
      /\ ThisCall.region = region /\ ThisCall.reader = rd0
      /\ ThisCall.color = color0
  BY ThisCallType
<1>4. /\ rd = ApplyAll(rd0, d.cmds)
      /\ \A h : IsDiffRun(ThisCall, h) =>
            \E k \in 0 .. PixelCount(region) :
                p = PositionAt(region, k) /\ d = h[k]
  BY <1>1 DEF LockInvariant
<1>5. DiffEnd(d) = SendDiff(prev, next, region, color0)
  <2>1. PICK h : /\ IsDiffRun(ThisCall, h)
                 /\ SendDiff(prev, next, region, color0)
                       = DiffEnd(h[PixelCount(region)])
    BY <1>2, <1>3, DiffRun
  <2>2. PICK k \in 0 .. PixelCount(region) :
           p = PositionAt(region, k) /\ d = h[k]
    BY <1>4, <2>1
  <2>3. region \in Region
    BY <1>2, <1>3, CallTypes
  <2>4. k = PixelCount(region)
    <3> SUFFICES ASSUME k # PixelCount(region) PROVE FALSE
      OBVIOUS
    <3>1. k \in 0 .. PixelCount(region) - 1
      BY <2>3, Positions
    <3>2. p[2] < Bottom(region) /\ Bottom(region) \in Int
      BY <2>2, <2>3, <3>1, Positions, ScreenAssumption DEF Bottom, Region
    <3> QED
      BY <1>1, <3>2
  <2> QED
    BY <2>1, <2>2, <2>4
<1>6. /\ NeedSend(d') <=> NeedSend(d)
      /\ rd' = IF NeedSend(d) THEN ApplyAll(rd0, DiffEnd(d).cmds) ELSE rd0
  <2> DEFINE e == DiffEnd(d)
  <2>1. d \in LoopState(Drawing) /\ rd0 \in Registers
    BY <1>2, <1>3, CallTypes DEF LoopHolds, LoopTypes
  <2>2. /\ e.x1 = d.x1 /\ e.x2 = d.x2 /\ e.y1 = d.y1 /\ e.y2 = d.y2
        /\ NeedSend(d) => ApplyAll(rd0, e.cmds)
                            = Flush(ApplyAll(rd0, d.cmds), d.x1, d.y1,
                                    d.x2 - d.x1 + 1, d.y2 - d.y1 + 1)
    BY <2>1, DiffEndFollows
  <2> HIDE DEF e
  <2>3. d' = e
    BY <1>1 DEF e
  <2>4. NeedSend(d') <=> NeedSend(d)
    BY <2>2, <2>3 DEF NeedSend
  <2>5. CASE NeedSend(d)
    BY <1>1, <1>4, <2>2, <2>4, <2>5 DEF e
  <2>6. CASE ~NeedSend(d)
    BY <1>1, <2>4, <2>6
  <2> QED
    BY <2>5, <2>6
<1> QED
  BY <1>1, <1>5, <1>6 DEF LockInvariant, LockStep

\* The reader that follows pixel by pixel is the one that executes the
\* commands, and the loop as a whole is SendDiff.
THEOREM DiffLockStep == Spec => []LockStep
<1>1. LoopInvariant /\ LockInvariant /\ [Next]_vars => LockInvariant'
  <2> SUFFICES ASSUME LoopInvariant, LockInvariant, [Next]_vars
               PROVE  LockInvariant'
    OBVIOUS
  <2>1. CASE Scan
    BY <2>1, LockScan
  <2>2. CASE Finish
    BY <2>2, LockFinish
  <2>3. CASE UNCHANGED vars
    BY <2>3 DEF vars, LockInvariant, LockStep, ThisCall
  <2> QED
    BY <2>1, <2>2, <2>3 DEF Next
<1>2. LoopInvariant /\ LockInvariant => LockStep
  BY DEF LockInvariant, LockStep, LoopInvariant, TypeOK
<1> QED
  BY LoopCorrect, LockInit, <1>1, <1>2, PTL DEF Spec
=============================================================================
