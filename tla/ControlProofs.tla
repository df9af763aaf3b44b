--------------------------- MODULE ControlProofs ----------------------------
(***************************************************************************)
(* For screens, readers, windows and scales of any size: what is captured  *)
(* for the reader is a frame that fits, and it stays where it is.          *)
(***************************************************************************)
EXTENDS Control, TLAPS

\* A context with two sides, or a place, of its own.
LEMMA WithSides ==
    ASSUME NEW c \in WindowContext, NEW x \in Nat, NEW y \in Nat
    PROVE  [c EXCEPT !.width = x, !.height = y] = [left |-> c.left, top |-> c.top,
                                              width |-> x, height |-> y,
                                              scale |-> c.scale]
<1> DEFINE u == [c EXCEPT !.width = x, !.height = y]
<1>1. u \in WindowContext
  BY DEF WindowContext
<1>2. /\ u.left = c.left /\ u.top = c.top
      /\ u.width = x /\ u.height = y
      /\ u.scale = c.scale
  BY DEF WindowContext
<1> HIDE DEF u
<1>3. u = [left |-> u.left, top |-> u.top, width |-> u.width,
           height |-> u.height, scale |-> u.scale]
  BY <1>1 DEF WindowContext
<1> QED BY <1>2, <1>3 DEF u

\* A context at another place is a context, field by field.
LEMMA WithPlace ==
    ASSUME NEW c \in WindowContext, NEW x \in Int, NEW y \in Int
    PROVE  [c EXCEPT !.left = x, !.top = y] = [left |-> x, top |-> y,
                                            width |-> c.width,
                                            height |-> c.height,
                                            scale |-> c.scale]
<1> DEFINE u == [c EXCEPT !.left = x, !.top = y]
<1>1. u \in WindowContext
  BY DEF WindowContext
<1>2. /\ u.left = x /\ u.top = y
      /\ u.width = c.width /\ u.height = c.height
      /\ u.scale = c.scale
  BY DEF WindowContext
<1> HIDE DEF u
<1>3. u = [left |-> u.left, top |-> u.top, width |-> u.width,
           height |-> u.height, scale |-> u.scale]
  BY <1>1 DEF WindowContext
<1> QED BY <1>2, <1>3 DEF u

-----------------------------------------------------------------------------
USE DEF Positive, Quotient

\* A side at a scale is a number of pixels.
LEMMA ScaledNat ==
    ASSUME NEW a \in Positive, NEW q \in Quotient
    PROVE  Scaled(a, q) \in Nat
<1>1. PICK n \in Positive, d \in Positive : q = <<n, d>>
  OBVIOUS
<1>2. (2 * a * d + n) \div (2 * n) \in Nat
  OBVIOUS
<1> QED BY <1>1, <1>2 DEF Scaled

\* At the quotient of two sides, one becomes the other, exactly.
LEMMA ScaledExact ==
    ASSUME NEW a \in Positive, NEW b \in Positive
    PROVE  Scaled(a, <<a, b>>) = b
<1>1. 2 * a * b + a = b * (2 * a) + a /\ 0 <= a /\ a < 2 * a
  OBVIOUS
<1>2. ASSUME NEW m \in Nat, 0 < m, NEW r \in 0 .. m - 1
      PROVE  (b * m + r) \div m = b
  OBVIOUS
<1>3. (b * (2 * a) + a) \div (2 * a) = b
  BY <1>2
<1> QED BY <1>1, <1>3 DEF Scaled

\* Multiplying by a positive number keeps and reflects an order.
LEMMA TimesMonotonic ==
    ASSUME NEW a \in Nat, NEW b \in Nat, NEW k \in Positive
    PROVE  a <= b <=> a * k <= b * k
<1>1. ASSUME NEW x \in Nat, NEW y \in Nat, x <= y PROVE x * k <= y * k
  <2>1. y * k = x * k + (y - x) * k /\ (y - x) * k >= 0
    BY <1>1
  <2> QED BY <2>1
<1>2. CASE a <= b
  BY <1>1, <1>2
<1>3. CASE b + 1 <= a
  <2>1. (b + 1) * k <= a * k
    BY <1>1, <1>3
  <2>2. (b + 1) * k = b * k + k
    OBVIOUS
  <2> QED BY <1>3, <2>1, <2>2
<1> QED BY <1>2, <1>3

\* What of a side is left at a scale: something, unless the scale is more than
\* twice the side.
LEMMA ScaledSome ==
    ASSUME NEW a \in Positive, NEW n \in Positive, NEW d \in Positive
    PROVE  Scaled(a, <<n, d>>) > 0 <=> n <= 2 * (a * d)
<1> DEFINE x == 2 * a * d
<1>1. x \in Nat /\ x = 2 * (a * d)
  OBVIOUS
<1>2. Scaled(a, <<n, d>>) = (x + n) \div (2 * n)
  BY DEF Scaled
<1> HIDE DEF x
<1>3. (x + n) \div (2 * n) > 0 <=> n <= x
  <2> DEFINE m == 2 * n
             y == x + n
  <2>1. m \in Nat /\ m > 0 /\ y \in Nat
    BY <1>1
  <2>2. y = m * (y \div m) + (y % m) /\ y % m \in 0 .. m - 1
        /\ y \div m \in Nat
    <3> HIDE DEF m, y
    <3> QED BY <2>1
  <2>3. y \div m > 0 <=> m <= y
    <3> HIDE DEF m, y
    <3>1. CASE y \div m = 0
      BY <2>1, <2>2, <3>1
    <3>2. CASE y \div m >= 1
      <4>1. m * (y \div m) >= m
        <5>1. 1 * m <= (y \div m) * m
          BY <2>1, <2>2, <3>2, TimesMonotonic
        <5> QED BY <2>1, <2>2, <5>1
      <4> QED BY <2>1, <2>2, <3>2, <4>1
    <3> QED BY <2>2, <3>1, <3>2
  <2> QED BY <1>1, <2>3
<1> QED BY <1>1, <1>2, <1>3

\* A side that is not lost at a scale is not lost at a smaller one.
LEMMA ScaledMore ==
    ASSUME NEW a \in Positive, NEW q \in Quotient, NEW m \in Quotient,
           AtMost(q, m), Scaled(a, m) > 0
    PROVE  Scaled(a, q) > 0
<1>1. PICK n \in Positive, d \in Positive : q = <<n, d>>
  OBVIOUS
<1>2. PICK mn \in Positive, md \in Positive : m = <<mn, md>>
  OBVIOUS
<1>3. n * md <= mn * d
  BY <1>1, <1>2 DEF AtMost
<1>4. mn <= 2 * (a * md)
  BY <1>2, ScaledSome
<1>5. mn * d <= (2 * (a * md)) * d
  <2>1. 2 * (a * md) \in Nat
    OBVIOUS
  <2> QED BY <1>4, <2>1, TimesMonotonic
<1>6. (2 * (a * md)) * d = (2 * (a * d)) * md
  OBVIOUS
<1>7. /\ n * md \in Nat /\ mn * d \in Nat /\ (2 * (a * md)) * d \in Nat
      /\ 2 * (a * d) \in Nat
  OBVIOUS
<1>8. n * md <= (2 * (a * d)) * md
  BY ONLY <1>3, <1>5, <1>6, <1>7
<1>9. n <= 2 * (a * d)
  BY <1>7, <1>8, TimesMonotonic
<1> QED BY <1>1, <1>9, ScaledSome

\* Reducing a quotient gives a quotient of the same value.
LEMMA LowestEqual ==
    ASSUME NEW n \in Positive, NEW d \in Positive
    PROVE  /\ Lowest(n, d) \in Quotient
           /\ Lowest(n, d)[1] * d = n * Lowest(n, d)[2]
<1>1. <<n, d>> \in (1 .. n) \X (1 .. d) /\ <<n, d>>[1] * d = n * <<n, d>>[2]
  OBVIOUS
<1>2. \E q \in (1 .. n) \X (1 .. d) : q[1] * d = n * q[2]
  BY <1>1
<1>3. /\ Lowest(n, d) \in (1 .. n) \X (1 .. d)
      /\ Lowest(n, d)[1] * d = n * Lowest(n, d)[2]
  BY <1>2 DEF Lowest
<1> QED BY <1>3

-----------------------------------------------------------------------------
\* What normalize_coord returns is inside, whatever the coordinate was, and
\* it leaves there what is inside already.
LEMMA NormalizeInside ==
    ASSUME NEW x \in Int, NEW side \in Nat, NEW limit \in Positive
    PROVE  LET y == normalize_coord(x, side, limit) IN
           /\ y \in Int
           /\ Inside(y, side, limit)
           /\ Captured(y, side, limit) = Least(side, limit)
           /\ normalize_coord(y, side, limit) = y
BY DEF normalize_coord, Inside, Captured, Least, Greatest

\* The size of the frame that update_frame gives to a scale.
Clamped(scale) ==
    LET w == Scaled(client[1], scale)
        h == Scaled(client[2], scale)
    IN  IF w > screen_width /\ h > screen_height
        THEN <<Scaled(client[1], critical_scale),
               Scaled(client[2], critical_scale)>>
        ELSE <<w, h>>

\* In one direction at least it is within the screen.
LEMMA ClampedFits ==
    ASSUME client \in Positive \X Positive, NEW scale \in Quotient
    PROVE  /\ Clamped(scale) \in Nat \X Nat
           /\ \/ Clamped(scale)[1] <= screen_width
              \/ Clamped(scale)[2] <= screen_height
<1>1. PICK cw \in Positive, ch \in Positive : client = <<cw, ch>>
  OBVIOUS
<1>2. screen_width \in Positive /\ screen_height \in Positive
  BY SizesAssumption
<1>3. Scaled(cw, scale) \in Nat /\ Scaled(ch, scale) \in Nat
  BY ScaledNat
<1>4. /\ critical_scale \in {<<cw, screen_width>>, <<ch, screen_height>>}
      /\ critical_scale \in Quotient
  BY <1>1, <1>2 DEF critical_scale
<1>5. Scaled(cw, critical_scale) \in Nat /\ Scaled(ch, critical_scale) \in Nat
  BY <1>4, ScaledNat
<1>6. \/ Scaled(cw, critical_scale) = screen_width
      \/ Scaled(ch, critical_scale) = screen_height
  BY <1>2, <1>4, ScaledExact
<1> QED BY <1>1, <1>2, <1>3, <1>5, <1>6 DEF Clamped

InRange(q) == AtMost(MIN_SCALE, q) /\ AtMost(q, MAX_SCALE)

\* No side of the frame of a whole reader vanishes at a scale in the range.
LEMMA ClampedSome ==
    ASSUME client \in Readers, NEW scale \in Quotient, InRange(scale)
    PROVE  Clamped(scale)[1] > 0 /\ Clamped(scale)[2] > 0
<1>1. PICK cw \in Positive, ch \in Positive : client = <<cw, ch>>
  BY SizesAssumption
<1>2. screen_width \in Positive /\ screen_height \in Positive
  BY SizesAssumption
<1>3. Scaled(cw, scale) > 0 /\ Scaled(ch, scale) > 0
  <2>1. Scaled(cw, MAX_SCALE) > 0 /\ Scaled(ch, MAX_SCALE) > 0
    BY <1>1, ReadersAssumption
  <2> QED BY <2>1, ScalesAssumption, ScaledMore DEF InRange
<1>4. Scaled(cw, critical_scale) > 0 /\ Scaled(ch, critical_scale) > 0
  <2>1. ASSUME NEW a \in Positive, NEW b \in Positive, NEW p \in Positive,
               NEW q \in Positive, a * q <= b * p
        PROVE  Scaled(b, <<a, p>>) > 0
    <3>1. a <= a * q
      <4>1. 1 * a <= q * a
        BY TimesMonotonic
      <4> QED BY <4>1
    <3>2. a \in Nat /\ a * q \in Nat /\ b * p \in Nat
      OBVIOUS
    <3>3. a <= 2 * (b * p)
      BY ONLY <2>1, <3>1, <3>2
    <3> QED BY <3>3, ScaledSome
  <2>2. CASE critical_scale = <<cw, screen_width>>
             /\ cw * screen_height <= ch * screen_width
    BY <1>2, <2>1, <2>2, ScaledExact
  <2>3. CASE critical_scale = <<ch, screen_height>>
             /\ ~(cw * screen_height <= ch * screen_width)
    <3>1. cw * screen_height \in Nat /\ ch * screen_width \in Nat
      BY <1>2
    <3>2. ch * screen_width <= cw * screen_height
      BY <2>3, <3>1
    <3> QED BY <1>2, <2>1, <2>3, <3>2, ScaledExact
  <2> QED BY <1>1, <2>2, <2>3 DEF critical_scale, AtMost
<1> QED BY <1>1, <1>3, <1>4 DEF Clamped

\* update_frame, field by field.
LEMMA UpdateFields ==
    ASSUME client \in Positive \X Positive, NEW c \in WindowContext
    PROVE  LET u == update_frame(c) IN
           u = [left   |-> normalize_coord(c.left, Clamped(c.scale)[1],
                                           screen_width),
                top    |-> normalize_coord(c.top, Clamped(c.scale)[2],
                                           screen_height),
                width  |-> Clamped(c.scale)[1],
                height |-> Clamped(c.scale)[2],
                scale  |-> c.scale]
<1> DEFINE plain == apply_scale(c, c.scale)
           fit   == IF plain.width > screen_width
                       /\ plain.height > screen_height
                    THEN apply_scale(c, critical_scale) ELSE plain
<1>c. c.scale \in Quotient /\ critical_scale \in Quotient
  BY SizesAssumption DEF critical_scale, WindowContext
<1>1. ASSUME NEW q \in Quotient
      PROVE  apply_scale(c, q) =
               [left |-> c.left, top |-> c.top,
                width |-> Scaled(client[1], q),
                height |-> Scaled(client[2], q), scale |-> c.scale]
  <2>1. Scaled(client[1], q) \in Nat /\ Scaled(client[2], q) \in Nat
    BY ScaledNat
  <2> QED BY <2>1, WithSides DEF apply_scale
<1>2. fit = [left |-> c.left, top |-> c.top, width |-> Clamped(c.scale)[1],
             height |-> Clamped(c.scale)[2], scale |-> c.scale]
  <2>1. plain = [left |-> c.left, top |-> c.top,
                 width |-> Scaled(client[1], c.scale),
                 height |-> Scaled(client[2], c.scale), scale |-> c.scale]
    BY <1>1, <1>c
  <2>2. apply_scale(c, critical_scale) =
          [left |-> c.left, top |-> c.top,
           width |-> Scaled(client[1], critical_scale),
           height |-> Scaled(client[2], critical_scale), scale |-> c.scale]
    BY <1>1, <1>c
  <2> HIDE DEF plain
  <2>3. CASE /\ Scaled(client[1], c.scale) > screen_width
             /\ Scaled(client[2], c.scale) > screen_height
    BY <2>1, <2>2, <2>3 DEF Clamped
  <2>4. CASE ~ (/\ Scaled(client[1], c.scale) > screen_width
                /\ Scaled(client[2], c.scale) > screen_height)
    BY <2>1, <2>4 DEF Clamped
  <2> QED BY <2>3, <2>4
<1>3. update_frame(c) =
        [fit EXCEPT !.left = normalize_coord(fit.left, fit.width, screen_width),
                    !.top = normalize_coord(fit.top, fit.height, screen_height)]
  BY DEF update_frame
<1> HIDE DEF fit
<1> QED BY <1>2, <1>3

\* A frame updated is a frame that fits, captured as far as the screen goes.
LEMMA UpdateFits ==
    ASSUME client \in Positive \X Positive, NEW c \in WindowContext
    PROVE  LET u == update_frame(c) IN
           /\ u \in WindowContext /\ u.scale = c.scale
           /\ Fits(u)
           /\ Captured(u.left, u.width, screen_width)
                 = Least(u.width, screen_width)
           /\ Captured(u.top, u.height, screen_height)
                 = Least(u.height, screen_height)
           /\ update_frame(u) = u
<1> DEFINE u == update_frame(c)
           w == Clamped(c.scale)[1]
           h == Clamped(c.scale)[2]
<1>1. /\ c.scale \in Quotient /\ c.left \in Int /\ c.top \in Int
      /\ screen_width \in Positive /\ screen_height \in Positive
  BY SizesAssumption DEF WindowContext
<1>2. w \in Nat /\ h \in Nat /\ (w <= screen_width \/ h <= screen_height)
  BY <1>1, ClampedFits
<1>3. u = [left |-> normalize_coord(c.left, w, screen_width),
           top |-> normalize_coord(c.top, h, screen_height),
           width |-> w, height |-> h, scale |-> c.scale]
  BY UpdateFields
<1> HIDE DEF u, w, h
<1>4. /\ normalize_coord(c.left, w, screen_width) \in Int
      /\ Inside(normalize_coord(c.left, w, screen_width), w, screen_width)
      /\ Captured(normalize_coord(c.left, w, screen_width), w, screen_width)
            = Least(w, screen_width)
      /\ normalize_coord(normalize_coord(c.left, w, screen_width),
                         w, screen_width)
            = normalize_coord(c.left, w, screen_width)
  BY <1>1, <1>2, NormalizeInside
<1>5. /\ normalize_coord(c.top, h, screen_height) \in Int
      /\ Inside(normalize_coord(c.top, h, screen_height), h, screen_height)
      /\ Captured(normalize_coord(c.top, h, screen_height), h, screen_height)
            = Least(h, screen_height)
      /\ normalize_coord(normalize_coord(c.top, h, screen_height),
                         h, screen_height)
            = normalize_coord(c.top, h, screen_height)
  BY <1>1, <1>2, NormalizeInside
<1>6. u \in WindowContext /\ u.scale = c.scale
  BY <1>1, <1>2, <1>3, <1>4, <1>5 DEF WindowContext
<1>7. Fits(u)
  BY <1>2, <1>3, <1>4, <1>5 DEF Fits
<1>8. /\ Captured(u.left, u.width, screen_width)
            = Least(u.width, screen_width)
      /\ Captured(u.top, u.height, screen_height)
            = Least(u.height, screen_height)
  BY <1>3, <1>4, <1>5
<1>9. update_frame(u) = u
  <2>1. update_frame(u) =
          [left |-> normalize_coord(u.left, Clamped(u.scale)[1], screen_width),
           top |-> normalize_coord(u.top, Clamped(u.scale)[2], screen_height),
           width |-> Clamped(u.scale)[1], height |-> Clamped(u.scale)[2],
           scale |-> u.scale]
    BY <1>6, UpdateFields
  <2>2. Clamped(u.scale)[1] = w /\ Clamped(u.scale)[2] = h
    BY <1>6 DEF w, h
  <2> QED BY <2>1, <2>2, <1>3, <1>4, <1>5
<1> QED BY <1>6, <1>7, <1>8, <1>9 DEF u

-----------------------------------------------------------------------------
(* Every operation keeps contexts contexts, with a scale in its range.     *)

Sound      == {c \in WindowContext : InRange(c.scale)}

\* control_update_frame keeps a scale in range.
LEMMA UpdateSound ==
    ASSUME client \in Positive \X Positive, NEW c \in Sound
    PROVE  update_frame(c) \in Sound
BY UpdateFits DEF Sound

\* reset_position moves a frame to whole coordinates and keeps its scale.
LEMMA ResetSound ==
    ASSUME NEW c \in Sound, NEW g \in Place
    PROVE  reset_position(c, g) \in Sound
<1>1. ASSUME NEW f \in Nat, NEW p \in Int, NEW w \in Nat
      PROVE  reset_coord(f, p, w) \in Int
  BY DEF reset_coord
<1>2. /\ c \in WindowContext /\ c.width \in Nat /\ c.height \in Nat
      /\ g.left \in Int /\ g.top \in Int /\ g.width \in Nat /\ g.height \in Nat
  BY DEF Sound, Place, WindowContext
<1>3. reset_position(c, g) =
        [left |-> reset_coord(c.width, g.left, g.width),
         top |-> reset_coord(c.height, g.top, g.height),
         width |-> c.width, height |-> c.height, scale |-> c.scale]
  BY <1>1, <1>2, WithPlace DEF reset_position
<1>4. /\ reset_coord(c.width, g.left, g.width) \in Int
      /\ reset_coord(c.height, g.top, g.height) \in Int
  BY <1>1, <1>2
<1> QED BY <1>2, <1>3, <1>4 DEF Sound, WindowContext

\* The scales of the configuration are in the range.
LEMMA ResetScaleSound ==
    ASSUME NEW c \in WindowContext
    PROVE  reset_scale(c) \in Sound
<1>1. ASSUME NEW q \in {windows_scale, desktop_scale}
      PROVE  q \in Quotient /\ InRange(q)
  BY ScalesAssumption DEF InRange, AtMost
<1>2. PICK q \in {windows_scale, desktop_scale} :
        reset_scale(c) = [c EXCEPT !.scale = q]
  BY DEF reset_scale
<1>3. q \in Quotient /\ InRange(q)
  BY <1>1
<1> HIDE DEF Quotient
<1>4. [c EXCEPT !.scale = q] \in WindowContext /\ [c EXCEPT !.scale = q].scale = q
  BY <1>3 DEF WindowContext
<1> QED BY <1>2, <1>3, <1>4 DEF Sound

Contexts == [Windows -> Sound \cup {None}]

\* control_context_select gives the selected window a sound context and
\* leaves one that exists as it is.
LEMMA SelectSound ==
    ASSUME client \in Positive \X Positive, NEW cs \in Contexts,
           NEW w \in Windows, NEW g \in Place
    PROVE  /\ Select(cs, w, g) \in Contexts /\ Select(cs, w, g)[w] \in Sound
           /\ cs[w] # None => Select(cs, w, g) = cs
<1>1. Allocated \in WindowContext
  BY ScalesAssumption DEF Allocated, WindowContext
<1>2. reset_position(update_frame(reset_scale(Allocated)), g) \in Sound
  BY <1>1, ResetScaleSound, UpdateSound, ResetSound
<1> QED BY <1>2 DEF Select, Contexts

-----------------------------------------------------------------------------
(* Zooming multiplies or divides the scale and checks one of the bounds:   *)
(* the other holds because the factor is at least one.                     *)

\* A comparison with a quotient is one with any equal quotient.
LEMMA SameComparison ==
    ASSUME NEW n \in Positive, NEW d \in Positive, NEW r1 \in Positive,
           NEW r2 \in Positive, NEW m1 \in Positive, NEW m2 \in Positive,
           r1 * d = n * r2
    PROVE  /\ m1 * d <= n * m2 <=> m1 * r2 <= r1 * m2
           /\ n * m2 <= m1 * d <=> r1 * m2 <= m1 * r2
<1>1. /\ (m1 * d) * r2 = (m1 * r2) * d
      /\ (n * m2) * r2 = (n * r2) * m2 /\ (r1 * d) * m2 = (r1 * m2) * d
  OBVIOUS
<1>2. (n * m2) * r2 = (r1 * m2) * d
  BY <1>1
<1>3. /\ m1 * d \in Nat /\ n * m2 \in Nat /\ m1 * r2 \in Nat /\ r1 * m2 \in Nat
  OBVIOUS
<1>4. /\ m1 * d <= n * m2 <=> (m1 * d) * r2 <= (n * m2) * r2
      /\ n * m2 <= m1 * d <=> (n * m2) * r2 <= (m1 * d) * r2
      /\ m1 * r2 <= r1 * m2 <=> (m1 * r2) * d <= (r1 * m2) * d
      /\ r1 * m2 <= m1 * r2 <=> (r1 * m2) * d <= (m1 * r2) * d
  BY ONLY <1>3, TimesMonotonic, r2 \in Positive, d \in Positive
<1> QED BY ONLY <1>1, <1>2, <1>4

\* Zooming in does not fall below a lower bound, zooming out does not rise
\* above an upper one, and the scale stays a quotient of positive numbers.
LEMMA TimesBound ==
    ASSUME NEW q \in Quotient, NEW f \in Quotient, NEW m \in Quotient,
           f[1] >= f[2]
    PROVE  /\ Times(q, f) \in Quotient /\ Over(q, f) \in Quotient
           /\ AtMost(m, q) => AtMost(m, Times(q, f))
           /\ AtMost(q, m) => AtMost(Over(q, f), m)
<1>1. PICK q1 \in Positive, q2 \in Positive, f1 \in Positive,
           f2 \in Positive, m1 \in Positive, m2 \in Positive :
        q = <<q1, q2>> /\ f = <<f1, f2>> /\ m = <<m1, m2>>
  <2>1. /\ q = <<q[1], q[2]>> /\ q[1] \in Positive /\ q[2] \in Positive
        /\ f = <<f[1], f[2]>> /\ f[1] \in Positive /\ f[2] \in Positive
        /\ m = <<m[1], m[2]>> /\ m[1] \in Positive /\ m[2] \in Positive
    OBVIOUS
  <2> QED BY <2>1
<1>2. q1 * f1 \in Positive /\ q2 * f2 \in Positive
      /\ q1 * f2 \in Positive /\ q2 * f1 \in Positive
  OBVIOUS
<1>l. ASSUME NEW n \in Positive, NEW d \in Positive
      PROVE  \E r1 \in Positive, r2 \in Positive :
                Lowest(n, d) = <<r1, r2>> /\ r1 * d = n * r2
  <2>1. Lowest(n, d) \in Quotient /\ Lowest(n, d)[1] * d = n * Lowest(n, d)[2]
    BY LowestEqual
  <2>2. PICK r1 \in Positive, r2 \in Positive : Lowest(n, d) = <<r1, r2>>
    BY <2>1
  <2> QED BY <2>1, <2>2
<1>m. /\ Times(q, f) = Lowest(q1 * f1, q2 * f2)
      /\ Over(q, f) = Lowest(q1 * f2, q2 * f1)
  BY <1>1 DEF Times, Over
<1>3. PICK t1 \in Positive, t2 \in Positive :
        Times(q, f) = <<t1, t2>> /\ t1 * (q2 * f2) = (q1 * f1) * t2
  <2> DEFINE n == q1 * f1
             d == q2 * f2
  <2>1. n \in Positive /\ d \in Positive /\ Times(q, f) = Lowest(n, d)
    BY <1>2, <1>m
  <2> HIDE DEF n, d
  <2>2. \E r1 \in Positive, r2 \in Positive :
           Times(q, f) = <<r1, r2>> /\ r1 * d = n * r2
    BY <2>1, <1>l
  <2> QED BY <2>2 DEF n, d
<1>4. PICK o1 \in Positive, o2 \in Positive :
        Over(q, f) = <<o1, o2>> /\ o1 * (q2 * f1) = (q1 * f2) * o2
  <2> DEFINE n == q1 * f2
             d == q2 * f1
  <2>1. n \in Positive /\ d \in Positive /\ Over(q, f) = Lowest(n, d)
    BY <1>2, <1>m
  <2> HIDE DEF n, d
  <2>2. \E r1 \in Positive, r2 \in Positive :
           Over(q, f) = <<r1, r2>> /\ r1 * d = n * r2
    BY <2>1, <1>l
  <2> QED BY <2>2 DEF n, d
<1>5. f1 >= f2
  BY <1>1
<1>6. ASSUME m1 * q2 <= q1 * m2 PROVE m1 * t2 <= t1 * m2
  <2>1. /\ (m1 * q2) * f2 <= (q1 * m2) * f2
        /\ f2 * (q1 * m2) <= f1 * (q1 * m2)
    <3>1. m1 * q2 \in Nat /\ q1 * m2 \in Positive
      OBVIOUS
    <3> QED BY <1>5, <1>6, <3>1, TimesMonotonic
  <2>2. /\ (m1 * q2) * f2 = m1 * (q2 * f2)
        /\ f2 * (q1 * m2) = (q1 * m2) * f2
        /\ f1 * (q1 * m2) = (q1 * f1) * m2
    OBVIOUS
  <2>3. m1 * (q2 * f2) <= (q1 * f1) * m2
    BY <2>1, <2>2
  <2> QED BY <1>2, <1>3, <2>3, SameComparison
<1>7. ASSUME q1 * m2 <= m1 * q2 PROVE o1 * m2 <= m1 * o2
  <2>1. /\ (q1 * m2) * f2 <= (m1 * q2) * f2
        /\ f2 * (m1 * q2) <= f1 * (m1 * q2)
    <3>1. q1 * m2 \in Nat /\ m1 * q2 \in Positive
      OBVIOUS
    <3> QED BY <1>5, <1>7, <3>1, TimesMonotonic
  <2>2. /\ (q1 * m2) * f2 = (q1 * f2) * m2
        /\ f2 * (m1 * q2) = (m1 * q2) * f2
        /\ f1 * (m1 * q2) = m1 * (q2 * f1)
    OBVIOUS
  <2>3. (q1 * f2) * m2 <= m1 * (q2 * f1)
    BY <2>1, <2>2
  <2> QED BY <1>2, <1>4, <2>3, SameComparison
<1> QED BY <1>1, <1>3, <1>4, <1>6, <1>7 DEF AtMost

-----------------------------------------------------------------------------
(* The invariant is inductive as it stands: TypeOK and ScaleInRange.       *)

ControlInvariant == TypeOK /\ ScaleInRange

\* The reader served has a width and a height.
LEMMA ReadersHaveSizes ==
    ASSUME TypeOK
    PROVE  client \in Positive \X Positive
BY DEF TypeOK

\* The invariant says that all contexts are sound.
LEMMA Together == ControlInvariant <=> TypeOK /\ contexts \in Contexts
<1>1. ASSUME ControlInvariant PROVE contexts \in Contexts
  <2>1. ASSUME NEW w \in Windows PROVE contexts[w] \in Sound \cup {None}
    BY <1>1 DEF ControlInvariant, TypeOK, ScaleInRange, InRange, Sound
  <2> QED BY <1>1, <2>1 DEF ControlInvariant, TypeOK, Contexts
<1>2. ASSUME TypeOK, contexts \in Contexts PROVE ScaleInRange
  BY <1>2 DEF Contexts, Sound, InRange, ScaleInRange
<1> QED BY <1>1, <1>2 DEF ControlInvariant

\* center_zoomed_position with a scale in range leaves a sound context.
LEMMA ZoomedSound ==
    ASSUME ControlInvariant, active # None, NEW q \in Quotient, InRange(q)
    PROVE  Zoomed(q) \in Sound
<1>1. /\ client[1] \in Positive /\ client[2] \in Positive
  BY ReadersHaveSizes DEF ControlInvariant
<1>2. Context \in WindowContext
  BY DEF ControlInvariant, TypeOK, Context
<1>3. Context.scale \in Quotient
  BY <1>2 DEF WindowContext
<1>4. ASSUME NEW a \in Positive
      PROVE  Half(Scaled(a, Context.scale) - Scaled(a, q)) \in Int
  <2>1. Scaled(a, Context.scale) \in Nat /\ Scaled(a, q) \in Nat
    BY <1>3, ScaledNat
  <2> QED BY <2>1 DEF Half
<1>5. Context.left \in Int /\ Context.top \in Int
  BY <1>2 DEF WindowContext
<1>6. /\ Zoomed(q) \in WindowContext /\ Zoomed(q).scale = q
  <2> DEFINE x == Context.left + Half(Scaled(client[1], Context.scale)
                                      - Scaled(client[1], q))
             y == Context.top + Half(Scaled(client[2], Context.scale)
                                     - Scaled(client[2], q))
  <2>1. x \in Int /\ y \in Int
    BY <1>1, <1>4, <1>5
  <2>2. Zoomed(q) = [Context EXCEPT !.scale = q, !.left = x, !.top = y]
    BY DEF Zoomed
  <2> HIDE DEF x, y, Quotient, Positive
  <2> QED BY <1>2, <2>1, <2>2 DEF WindowContext
<1> QED BY <1>6 DEF Sound

\* A shortcut that puts a sound context in place of the active one keeps
\* the invariant.
LEMMA ChangesKeep ==
    ASSUME ControlInvariant, NEW c \in Sound, Changes(c)
    PROVE  ControlInvariant'
<1>1. contexts' \in Contexts
  BY Together DEF Changes, Contexts
<1>2. contexts'[active] = c /\ c # None
  BY WindowsAssumption DEF Changes, Pressed, ControlInvariant, TypeOK, Sound
<1>3. TypeOK'
  <2>1. contexts' \in [Windows -> WindowContext \cup {None}]
    BY <1>1 DEF Contexts, Sound
  <2>2. presses' \in 0 .. MaxPresses
    BY ScalesAssumption DEF Changes, Pressed, ControlInvariant, TypeOK
  <2> QED BY <1>2, <2>1, <2>2 DEF Changes, Pressed, ControlInvariant, TypeOK
<1> QED BY <1>1, <1>3 DEF ControlInvariant, ScaleInRange, Contexts, Sound,
                          InRange

\* There is no context before the first screenshot.
LEMMA InitKeeps == Init => ControlInvariant
<1> SUFFICES ASSUME Init PROVE ControlInvariant
  OBVIOUS
<1>1. contexts \in Contexts
  BY DEF Init, Contexts
<1>2. where \in [Windows -> Geometry \cup {None}] /\ where[Root] # None
  <2>1. PICK places \in [Windows -> Geometries] :
           where = [places EXCEPT ![Root] = Screen]
    BY DEF Init
  <2>2. Screen \in Geometry /\ Screen \in Place
    BY SizesAssumption DEF Screen, Geometry, Place
  <2>3. Screen # None
    BY <2>2, WindowsAssumption
  <2> QED BY <2>1, <2>2, <2>3, SizesAssumption, WindowsAssumption
<1>3. TypeOK
  <2>1. geometry \in Place
    BY DEF Init, Place
  <2>2. client \in Readers /\ client \in Positive \X Positive
        /\ incoming = None
    BY SizesAssumption DEF Init
  <2>3. contexts \in [Windows -> WindowContext \cup {None}]
    BY <1>1 DEF Contexts, Sound
  <2>4. tracking \in BOOLEAN /\ active = None /\ presses \in 0 .. MaxPresses
    BY ScalesAssumption DEF Init
  <2> HIDE DEF Positive, Quotient
  <2> QED BY <1>2, <2>1, <2>2, <2>3, <2>4 DEF TypeOK
<1> QED BY <1>1, <1>3, Together

\* A new reader changes only the size the next frames will have.
LEMMA ReaderKeeps == ControlInvariant /\ NewReader => ControlInvariant'
<1> SUFFICES ASSUME ControlInvariant, NewReader PROVE ControlInvariant'
  OBVIOUS
<1>1. PICK r \in Readers : client' = <<r[1], client[2]>> /\ incoming' = r[2]
  BY DEF NewReader
<1>2. /\ r \in Positive \X Positive /\ client[2] \in Positive
      /\ <<r[1], r[2]>> = r
  BY SizesAssumption DEF ControlInvariant, TypeOK
<1>3. incoming' # None
  BY <1>1, <1>2, WindowsAssumption
<1> QED BY <1>1, <1>2, <1>3
        DEF NewReader, ControlInvariant, TypeOK, ScaleInRange

\* Its height completes it.
LEMMA HeightKeeps == ControlInvariant /\ NewHeight => ControlInvariant'
<1> SUFFICES ASSUME ControlInvariant, NewHeight PROVE ControlInvariant'
  OBVIOUS
<1>1. <<client[1], incoming>> \in Readers /\ incoming \in Positive
      /\ client[1] \in Positive
  BY DEF NewHeight, ControlInvariant, TypeOK
<1> QED BY <1>1 DEF NewHeight, ControlInvariant, TypeOK, ScaleInRange

\* The contexts do not follow the windows of the display.
LEMMA MoveKeeps == ControlInvariant /\ MoveWindow => ControlInvariant'
<1> SUFFICES ASSUME ControlInvariant, MoveWindow PROVE ControlInvariant'
  OBVIOUS
<1>1. PICK w \in Windows \ {Root}, g \in Geometries \cup {None} :
        where' = [where EXCEPT ![w] = g]
  BY DEF MoveWindow
<1>2. where' \in [Windows -> Geometry \cup {None}] /\ where'[Root] # None
  BY <1>1, SizesAssumption, WindowsAssumption DEF ControlInvariant, TypeOK
<1> QED BY <1>2 DEF MoveWindow, control, ControlInvariant, TypeOK, ScaleInRange

\* The window chosen, where it is, and its context, taken or made.
LEMMA ChosenKeeps ==
    ASSUME ControlInvariant, NEW cs \in Contexts, NEW w \in Windows,
           NEW places \in [Windows -> Geometry \cup {None}]
    PROVE  LET s == Selected(w, places[w])
               g == Placed(places[w])
           IN  /\ s \in Windows /\ g \in Place
               /\ Select(cs, s, g) \in Contexts /\ Select(cs, s, g)[s] \in Sound
               /\ cs[s] # None => Select(cs, s, g) = cs
<1> DEFINE s == Selected(w, places[w])
           g == Placed(places[w])
<1>1. s \in Windows
  BY WindowsAssumption DEF Selected
<1>2. g \in Place
  <2>1. geometry \in Place
    BY DEF ControlInvariant, TypeOK
  <2>2. Geometry \subseteq Place
    BY DEF Geometry, Place
  <2> QED BY <2>1, <2>2 DEF Placed
<1>3. client \in Positive \X Positive
  BY ReadersHaveSizes DEF ControlInvariant
<1> HIDE DEF s, g
<1>4. /\ Select(cs, s, g) \in Contexts /\ Select(cs, s, g)[s] \in Sound
      /\ cs[s] # None => Select(cs, s, g) = cs
  BY <1>1, <1>2, <1>3, SelectSound
<1> QED BY <1>1, <1>2, <1>4 DEF s, g

\* What is left to check when the context of the window is among contexts.
LEMMA ActiveKeeps ==
    ASSUME ControlInvariant, client' = client, incoming' = incoming,
           tracking' \in BOOLEAN, contexts' \in Contexts, active' \in Windows,
           contexts'[active'] \in Sound, geometry' \in Place,
           where' \in [Windows -> Geometry \cup {None}], where'[Root] # None,
           presses' \in 0 .. MaxPresses
    PROVE  ControlInvariant'
<1>1. contexts'[active'] # None
  BY WindowsAssumption DEF Sound
<1>2. contexts' \in [Windows -> WindowContext \cup {None}]
  BY DEF Contexts, Sound
<1>3. TypeOK'
  BY <1>1, <1>2 DEF ControlInvariant, TypeOK
<1> QED BY <1>3 DEF ControlInvariant, ScaleInRange, Contexts, Sound, InRange

\* A screenshot updates the active frame and selects a context.
LEMMA ScreenshotKeeps == ControlInvariant /\ Screenshot => ControlInvariant'
<1> SUFFICES ASSUME ControlInvariant, Screenshot PROVE ControlInvariant'
  OBVIOUS
<1> DEFINE old == IF active = None THEN contexts
                  ELSE [contexts EXCEPT ![active] = update_frame(@)]
<1>1. PICK focus \in Windows :
        LET window == IF tracking THEN focus ELSE Root
            w      == Selected(window, where[window])
            g      == Placed(where[window])
        IN  active' = w /\ geometry' = g /\ contexts' = Select(old, w, g)
  BY DEF Screenshot
<1>2. old \in Contexts
  <2>1. contexts \in Contexts
    BY Together
  <2>2. ASSUME active # None PROVE update_frame(contexts[active]) \in Sound
    <3>1. contexts[active] \in Sound
      BY <2>1, <2>2 DEF ControlInvariant, TypeOK, Contexts
    <3> QED BY <3>1, UpdateSound, ReadersHaveSizes DEF ControlInvariant
  <2> QED BY <2>1, <2>2 DEF Contexts
<1> HIDE DEF old
<1>3. PICK window \in Windows :
        /\ active' = Selected(window, where[window])
        /\ geometry' = Placed(where[window])
        /\ contexts' = Select(old, Selected(window, where[window]),
                                    Placed(where[window]))
  <2>1. (IF tracking THEN focus ELSE Root) \in Windows
    BY WindowsAssumption
  <2> QED BY <1>1, <2>1
<1>4. /\ where \in [Windows -> Geometry \cup {None}] /\ where[Root] # None
      /\ tracking \in BOOLEAN
  BY DEF ControlInvariant, TypeOK
<1>5. /\ active' \in Windows /\ geometry' \in Place /\ contexts' \in Contexts
      /\ contexts'[active'] \in Sound
  BY <1>2, <1>3, <1>4, ChosenKeeps
<1>6. presses' \in 0 .. MaxPresses
  BY ScalesAssumption DEF Screenshot
<1> QED BY <1>4, <1>5, <1>6, ActiveKeeps DEF Screenshot

\* Moving a frame keeps it a frame, wherever it goes.
LEMMA MovedSound ==
    ASSUME NEW c \in Sound, NEW d \in Int
    PROVE  /\ [c EXCEPT !.left = @ + d] \in Sound
           /\ [c EXCEPT !.top = @ + d] \in Sound
<1>1. c.left + d \in Int /\ c.top + d \in Int
  BY DEF Sound, WindowContext
<1> HIDE DEF Quotient
<1>2. /\ [c EXCEPT !.left = @ + d] \in WindowContext
      /\ [c EXCEPT !.left = @ + d].scale = c.scale
  BY <1>1 DEF Sound, WindowContext
<1>3. /\ [c EXCEPT !.top = @ + d] \in WindowContext
      /\ [c EXCEPT !.top = @ + d].scale = c.scale
  BY <1>1 DEF Sound, WindowContext
<1> QED BY <1>2, <1>3 DEF Sound

\* The shortcuts that move, reset or zoom the active frame.
LEMMA ShortcutKeeps ==
    ASSUME ControlInvariant,
           \/ ResetPosition \/ MoveUp \/ MoveDown \/ MoveLeft \/ MoveRight
           \/ ResetScale \/ ZoomIn \/ ZoomOut
    PROVE  ControlInvariant'
<1>1. active # None
  BY DEF ResetPosition, MoveUp, MoveDown, MoveLeft, MoveRight, ResetScale,
         ZoomIn, ZoomOut, Changes, Pressed
<1>2. Context \in Sound /\ geometry \in Place
  BY <1>1, Together DEF ControlInvariant, TypeOK, Contexts, Context
<1>3. Context \in WindowContext /\ Context.scale \in Quotient
      /\ InRange(Context.scale)
  BY <1>2 DEF Sound, WindowContext
<1>4. move_step \in Int /\ -move_step \in Int
  BY ScalesAssumption
<1>5. CASE ResetPosition
  BY <1>2, <1>5, ResetSound, ChangesKeep DEF ResetPosition
<1>6. CASE MoveUp \/ MoveLeft
  <2>1. /\ Context.top - move_step = Context.top + (-move_step)
        /\ Context.left - move_step = Context.left + (-move_step)
    BY <1>3, <1>4 DEF WindowContext
  <2>2. /\ [Context EXCEPT !.top = @ - move_step] \in Sound
        /\ [Context EXCEPT !.left = @ - move_step] \in Sound
    BY <1>2, <1>4, <2>1, MovedSound
  <2> QED BY <1>6, <2>2, ChangesKeep DEF MoveUp, MoveLeft
<1>7. CASE MoveDown \/ MoveRight
  <2>1. /\ [Context EXCEPT !.top = @ + move_step] \in Sound
        /\ [Context EXCEPT !.left = @ + move_step] \in Sound
    BY <1>2, <1>4, MovedSound
  <2> QED BY <1>7, <2>1, ChangesKeep DEF MoveDown, MoveRight
<1>8. CASE ResetScale
  BY <1>3, <1>8, ResetScaleSound, ChangesKeep DEF ResetScale
<1>9. CASE ZoomIn
  <2> DEFINE scale == Times(Context.scale, scale_factor)
  <2>1. scale \in Quotient /\ AtMost(MIN_SCALE, scale)
    BY <1>3, TimesBound, ScalesAssumption DEF InRange
  <2>2. AtMost(scale, MAX_SCALE) => Zoomed(scale) \in Sound
    BY <1>1, <2>1, ZoomedSound DEF InRange
  <2>3. (IF AtMost(scale, MAX_SCALE) THEN Zoomed(scale) ELSE Context) \in Sound
    BY <1>2, <2>2
  <2> QED BY <1>9, <2>3, ChangesKeep DEF ZoomIn
<1>10. CASE ZoomOut
  <2> DEFINE scale == Over(Context.scale, scale_factor)
             goes == /\ \/ Scaled(client[1], Context.scale) < screen_width
                        \/ Scaled(client[2], Context.scale) < screen_height
                     /\ AtMost(MIN_SCALE, scale)
  <2>1. scale \in Quotient /\ AtMost(scale, MAX_SCALE)
    BY <1>3, TimesBound, ScalesAssumption DEF InRange
  <2>2. goes => Zoomed(scale) \in Sound
    BY <1>1, <2>1, ZoomedSound DEF InRange
  <2>3. (IF goes THEN Zoomed(scale) ELSE Context) \in Sound
    BY <1>2, <2>2
  <2> QED BY <1>10, <2>3, ChangesKeep DEF ZoomOut
<1> QED BY <1>5, <1>6, <1>7, <1>8, <1>9, <1>10

\* Tracking decides only what the next screenshot selects.
LEMMA ToggleKeeps ==
    ASSUME ControlInvariant, ToggleWindowTracking
    PROVE  ControlInvariant'
<1>1. presses' \in 0 .. MaxPresses
  BY ScalesAssumption
     DEF ToggleWindowTracking, Pressed, ControlInvariant, TypeOK
<1> QED BY <1>1 DEF ToggleWindowTracking, Pressed, ControlInvariant, TypeOK,
                    ScaleInRange

\* A window that grows is a window still, where it was.
LEMMA GrownGeometry ==
    ASSUME NEW g \in Geometry, NEW dw \in Int, NEW dh \in Int,
           Grown(g, dw, dh).width \in Positive,
           Grown(g, dw, dh).height \in Positive
    PROVE  Grown(g, dw, dh) \in Geometry
<1> DEFINE u == Grown(g, dw, dh)
<1>1. u \in [left : Int, top : Int, width : Int, height : Int]
  <2>1. g \in [left : Int, top : Int, width : Int, height : Int]
    BY DEF Geometry
  <2>2. g.width + dw \in Int /\ g.height + dh \in Int
    BY <2>1
  <2>3. ASSUME NEW x \in Int, NEW y \in Int
        PROVE  [g EXCEPT !.width = x, !.height = y]
                 \in [left : Int, top : Int, width : Int, height : Int]
    BY <2>1
  <2> QED BY <2>2, <2>3 DEF Grown
<1> HIDE DEF u
<1>2. u = [left |-> u.left, top |-> u.top, width |-> u.width,
           height |-> u.height]
  BY <1>1
<1>3. u.left \in Int /\ u.top \in Int
  BY <1>1
<1>4. u.width \in Positive /\ u.height \in Positive
  BY DEF u
<1> QED BY <1>2, <1>3, <1>4 DEF Geometry, u

\* The resize of a window, after which the frame is placed over it.
LEMMA AdjustKeeps ==
    ASSUME ControlInvariant, AdjustWindowSize
    PROVE  ControlInvariant'
<1>1. /\ active \in Windows /\ contexts \in Contexts /\ Context \in Sound
      /\ where \in [Windows -> Geometry \cup {None}] /\ where[Root] # None
  BY Together, WindowsAssumption
     DEF AdjustWindowSize, Pressed, ControlInvariant, TypeOK, Contexts, Context
<1>2. where' \in [Windows -> Geometry \cup {None}] /\ where'[Root] # None
  <2>1. CASE where' = where
    BY <1>1, <2>1
  <2>2. ASSUME where' \in Resized, Possible(where'), where[active] # None
        PROVE  where' \in [Windows -> Geometry \cup {None}]
               /\ where'[Root] # None
    <3> DEFINE dw == Context.width - where[active].width
               dh == Context.height - where[active].height
    <3>1. dw \in Int /\ dh \in Int
      BY <1>1, <2>2 DEF Sound, WindowContext, Geometry
    <3>2. PICK w \in Windows \ {Root} :
            /\ where[w] # None
            /\ where' = [where EXCEPT ![w] = Grown(where[w], dw, dh)]
      BY <2>2 DEF Resized
    <3> HIDE DEF dw, dh
    <3>3. where[w] \in Geometry /\ where'[w] = Grown(where[w], dw, dh)
      BY <1>1, <3>2
    <3>4. where'[w] # None => where'[w] \in Geometry
      <4>1. SUFFICES ASSUME where'[w] # None PROVE where'[w] \in Geometry
        OBVIOUS
      <4>2. where'[w].width \in Positive /\ where'[w].height \in Positive
        BY <2>2, <4>1, ScalesAssumption DEF Possible
      <4> QED BY <3>1, <3>3, <4>2, GrownGeometry
    <3> QED BY <1>1, <3>2, <3>3, <3>4, WindowsAssumption
  <2> QED BY <1>1, <2>1, <2>2 DEF AdjustWindowSize
<1> DEFINE w == Selected(active, where'[active])
           g == Placed(where'[active])
           cs == Select(contexts, w, g)
<1>3. /\ w \in Windows /\ g \in Place /\ cs \in Contexts /\ cs[w] \in Sound
  BY <1>1, <1>2, ChosenKeeps
<1>4. /\ active' = w /\ geometry' = g
      /\ contexts' = [cs EXCEPT ![w] = reset_position(cs[w], g)]
  BY DEF AdjustWindowSize
<1> HIDE DEF w, g, cs
<1>5. reset_position(cs[w], g) \in Sound
  BY <1>3, ResetSound
<1>6. contexts' \in Contexts /\ contexts'[active'] \in Sound
  BY <1>3, <1>4, <1>5 DEF Contexts
<1>7. presses' \in 0 .. MaxPresses /\ tracking' \in BOOLEAN /\ client' = client
      /\ incoming' = incoming
  BY ScalesAssumption DEF AdjustWindowSize, Pressed, ControlInvariant, TypeOK
<1> QED BY <1>2, <1>3, <1>4, <1>6, <1>7, ActiveKeeps

\* Every step keeps types and the range of scales.
LEMMA StepKeeps == ControlInvariant /\ [Next]_vars => ControlInvariant'
<1> SUFFICES ASSUME ControlInvariant, [Next]_vars PROVE ControlInvariant'
  OBVIOUS
<1>1. CASE NewReader \/ NewHeight
  BY <1>1, ReaderKeeps, HeightKeeps
<1>2. CASE Screenshot
  BY <1>2, ScreenshotKeeps
<1>3. CASE Shortcut
  BY <1>3, ShortcutKeeps, ToggleKeeps, AdjustKeeps DEF Shortcut
<1>4. CASE MoveWindow
  BY <1>4, MoveKeeps
<1>5. CASE UNCHANGED vars
  BY <1>5 DEF vars, control, ControlInvariant, TypeOK, ScaleInRange
<1> QED BY <1>1, <1>2, <1>3, <1>4, <1>5 DEF Next

-----------------------------------------------------------------------------
\* Every context is a frame with a scale, the active one exists, and what is
\* known of the windows is a place each (contexts_list, active_context and
\* window_left .. window_height of control.c).
THEOREM ControlTyped == Spec => []TypeOK
<1>1. Spec => []ControlInvariant
  BY InitKeeps, StepKeeps, PTL DEF Spec
<1>2. ControlInvariant => TypeOK
  BY DEF ControlInvariant
<1> QED BY <1>1, <1>2, PTL

\* No sequence of shortcuts and readers takes a scale out of
\* MIN_SCALE .. MAX_SCALE, although control_zoom_in checks only the upper
\* bound and control_zoom_out only the lower.
THEOREM ControlScaleInRange == Spec => []ScaleInRange
<1>1. Spec => []ControlInvariant
  BY InitKeeps, StepKeeps, PTL DEF Spec
<1>2. ControlInvariant => ScaleInRange
  BY DEF ControlInvariant
<1> QED BY <1>1, <1>2, PTL

\* A second screenshot of a window takes its frame updated.
LEMMA AgainUpdates ==
    ASSUME ControlInvariant, Again
    PROVE  /\ active # None /\ contexts[active] \in Sound
           /\ Frame = update_frame(contexts[active])
           /\ client \in Positive \X Positive /\ client \in Readers
<1>1. ControlInvariant'
  BY ScreenshotKeeps DEF Again
<1>2. client \in Positive \X Positive
  BY ReadersHaveSizes DEF ControlInvariant
<1>3. active # None /\ active \in Windows
  <2>1. PICK window \in Windows : active' = Selected(window, where[window])
    BY WindowsAssumption DEF Again, Screenshot
  <2> QED BY <2>1, WindowsAssumption DEF Again, Selected
<1>4. contexts[active] \in Sound /\ contexts \in Contexts
  BY <1>3, Together DEF ControlInvariant, TypeOK, Contexts
<1>5. PICK g : contexts' =
        Select([contexts EXCEPT ![active] = update_frame(@)], active, g)
  BY <1>3 DEF Again, Screenshot
<1>6. update_frame(contexts[active]) \in Sound
  BY <1>2, <1>4, UpdateSound
<1>7. update_frame(contexts[active]) # None
  BY <1>6, WindowsAssumption DEF Sound
<1>8. [contexts EXCEPT ![active] = update_frame(@)][active]
        = update_frame(contexts[active])
  BY <1>3, <1>4 DEF Contexts
<1>9. contexts' = [contexts EXCEPT ![active] = update_frame(@)]
  BY <1>5, <1>7, <1>8 DEF Select
<1>10. client \in Readers
  BY DEF Again, Screenshot, ControlInvariant, TypeOK
<1> QED BY <1>2, <1>3, <1>4, <1>8, <1>9, <1>10 DEF Frame

\* Whatever keys were pressed, and for screens of any size and readers of any
\* size that MAX_SCALE does not make vanish, the frame captured is on the
\* screen as far as it fits, and never empty: what control_update_frame is for.
THEOREM ControlFrameFits == Spec => FrameFits
<1> DEFINE Good == /\ Fits(Frame)
                   /\ Shown(Frame.left, Frame.width, screen_width)
                   /\ Shown(Frame.top, Frame.height, screen_height)
<1>1. Spec => []ControlInvariant
  BY InitKeeps, StepKeeps, PTL DEF Spec
<1>2. ControlInvariant /\ [Next]_vars => [Again => Good]_vars
  <2> SUFFICES ASSUME ControlInvariant, Again PROVE Good
    OBVIOUS
  <2> DEFINE c == contexts[active]
  <2>1. /\ c \in WindowContext /\ InRange(c.scale) /\ c.scale \in Quotient
        /\ client \in Positive \X Positive /\ client \in Readers
        /\ Frame = update_frame(c)
    BY AgainUpdates DEF Sound, WindowContext
  <2> HIDE DEF c
  <2>2. /\ Fits(Frame)
        /\ Captured(Frame.left, Frame.width, screen_width)
              = Least(Frame.width, screen_width)
        /\ Captured(Frame.top, Frame.height, screen_height)
              = Least(Frame.height, screen_height)
    BY <2>1, UpdateFits
  <2>3. Frame.width > 0 /\ Frame.height > 0
    <3>1. Frame.width = Clamped(c.scale)[1] /\ Frame.height = Clamped(c.scale)[2]
      BY <2>1, UpdateFields
    <3> QED BY <2>1, <3>1, ClampedSome
  <2>4. Least(Frame.width, screen_width) > 0
        /\ Least(Frame.height, screen_height) > 0
    BY <2>3, SizesAssumption DEF Least
  <2> QED BY <2>2, <2>4 DEF Shown
<1> QED BY <1>1, <1>2, PTL DEF Spec, FrameFits

\* Where a screenshot has put a frame, the next one leaves it.
THEOREM ControlSettles == Spec => Settles
<1>1. Spec => []ControlInvariant
  BY InitKeeps, StepKeeps, PTL DEF Spec
<1>2. ControlInvariant /\ [Next]_vars
        => [Again => update_frame(Frame) = Frame]_vars
  <2> SUFFICES ASSUME ControlInvariant, Again
               PROVE  update_frame(Frame) = Frame
    OBVIOUS
  <2>1. contexts[active] \in WindowContext /\ client \in Positive \X Positive
        /\ Frame = update_frame(contexts[active])
    BY AgainUpdates DEF Sound
  <2> QED BY <2>1, UpdateFits
<1> QED BY <1>1, <1>2, PTL DEF Spec, Settles

\* Half a difference of sides makes up for the difference, but for a rounding.
LEMMA HalfRounds ==
    ASSUME NEW p \in Int, NEW a \in Nat, NEW b \in Nat
    PROVE  2 * (p + Half(a - b)) + b - (2 * p + a) \in -1 .. 1
<1>1. ASSUME NEW x \in Int PROVE 2 * Half(x) - x \in -1 .. 1
  BY DEF Half
<1>2. Half(a - b) \in Int
  BY DEF Half
<1> DEFINE h == Half(a - b)
<1>3. 2 * h - (a - b) \in -1 .. 1
  BY <1>1
<1> HIDE DEF h
<1> QED BY <1>2, <1>3 DEF h

\* The middle of a plain frame under center_zoomed_position.
LEMMA ZoomedCentred ==
    ASSUME ControlInvariant, active # None, NEW q \in Quotient, InRange(q),
           Plain(Context)
    PROVE  \A i \in 1 .. 2 :
               Twice(apply_scale(Zoomed(q), Zoomed(q).scale))[i]
                  - Twice(Context)[i] \in -1 .. 1
<1> DEFINE s == Context.scale
           d == Zoomed(q)
           w(x) == Scaled(client[1], x)
           h(x) == Scaled(client[2], x)
<1>1. Context \in WindowContext /\ s \in Quotient
  BY DEF ControlInvariant, TypeOK, Context, WindowContext
<1>2. client[1] \in Positive /\ client[2] \in Positive
  BY ReadersHaveSizes DEF ControlInvariant
<1>3. w(s) \in Nat /\ h(s) \in Nat /\ w(q) \in Nat /\ h(q) \in Nat
  BY <1>1, <1>2, ScaledNat
<1>4. Context.left \in Int /\ Context.top \in Int
  BY <1>1 DEF WindowContext
<1>5. Context.width = w(s) /\ Context.height = h(s)
  <2>1. apply_scale(Context, s)
          = [left |-> Context.left, top |-> Context.top,
             width |-> w(s), height |-> h(s), scale |-> s]
    BY <1>1, <1>3, WithSides DEF apply_scale
  <2> QED BY <2>1 DEF Plain
<1>6. /\ d \in WindowContext /\ d.scale = q
      /\ d.left = Context.left + Half(w(s) - w(q))
      /\ d.top = Context.top + Half(h(s) - h(q))
  <2>1. d \in Sound
    BY ZoomedSound
  <2>2. /\ Context = [left |-> Context.left, top |-> Context.top,
                      width |-> Context.width, height |-> Context.height,
                      scale |-> Context.scale]
    BY <1>1 DEF WindowContext
  <2> QED BY <1>1, <2>1 DEF Sound, Zoomed, WindowContext
<1>7. apply_scale(d, d.scale)
        = [left |-> d.left, top |-> d.top, width |-> w(q), height |-> h(q),
           scale |-> q]
  <2>1. apply_scale(d, d.scale) = [d EXCEPT !.width = w(q), !.height = h(q)]
    BY <1>6 DEF apply_scale
  <2> HIDE DEF d, w, h
  <2> QED BY <1>3, <1>6, <2>1, WithSides
<1>8. /\ 2 * d.left + w(q) - (2 * Context.left + w(s)) \in -1 .. 1
      /\ 2 * d.top + h(q) - (2 * Context.top + h(s)) \in -1 .. 1
  BY <1>3, <1>4, <1>6, HalfRounds
<1> DEFINE old == Twice(Context)
           new == Twice(apply_scale(d, d.scale))
           l == 2 * d.left + w(q) - (2 * Context.left + w(s))
           t == 2 * d.top + h(q) - (2 * Context.top + h(s))
<1>9. new = <<2 * d.left + w(q), 2 * d.top + h(q)>>
  BY <1>7 DEF Twice
<1>10. old = <<2 * Context.left + w(s), 2 * Context.top + h(s)>>
  BY <1>5 DEF Twice
<1>11. new[1] - old[1] = l /\ new[2] - old[2] = t
  <2> HIDE DEF old, new
  <2>1. /\ new[1] = 2 * d.left + w(q) /\ new[2] = 2 * d.top + h(q)
    BY <1>9
  <2>2. /\ old[1] = 2 * Context.left + w(s) /\ old[2] = 2 * Context.top + h(s)
    BY <1>10
  <2>3. d.left \in Int /\ d.top \in Int
    BY <1>6 DEF WindowContext
  <2> HIDE DEF d, w, h, s
  <2> QED BY <1>3, <1>4, <2>1, <2>2, <2>3
<1>12. l \in -1 .. 1 /\ t \in -1 .. 1
  BY <1>8
<1> HIDE DEF l, t, old, new
<1>13. \A i \in 1 .. 2 : new[i] - old[i] \in -1 .. 1
  BY <1>11, <1>12
<1> QED BY <1>13 DEF old, new

\* What zooming makes of the active context.
LEMMA ZoomSteps ==
    ASSUME ControlInvariant, ZoomIn \/ ZoomOut
    PROVE  \E q \in Quotient : InRange(q) /\ Context' \in {Context, Zoomed(q)}
<1>1. /\ active # None /\ active' = active
      /\ Context \in WindowContext /\ Context.scale \in Quotient
      /\ InRange(Context.scale)
  BY DEF ZoomIn, ZoomOut, Changes, Pressed, ControlInvariant, TypeOK, Context,
         WindowContext, ScaleInRange, InRange
<1>2. ASSUME NEW c, Changes(c) PROVE Context' = c
  BY <1>1, <1>2 DEF Changes, ControlInvariant, TypeOK, Context
<1>3. CASE ZoomIn
  <2> DEFINE scale == Times(Context.scale, scale_factor)
  <2>1. scale \in Quotient /\ AtMost(MIN_SCALE, scale)
    BY <1>1, TimesBound, ScalesAssumption DEF InRange
  <2>2. Context' = IF AtMost(scale, MAX_SCALE) THEN Zoomed(scale) ELSE Context
    BY <1>2, <1>3 DEF ZoomIn
  <2> QED BY <1>1, <2>1, <2>2 DEF InRange
<1>4. CASE ZoomOut
  <2> DEFINE scale == Over(Context.scale, scale_factor)
             goes == /\ \/ Scaled(client[1], Context.scale) < screen_width
                        \/ Scaled(client[2], Context.scale) < screen_height
                     /\ AtMost(MIN_SCALE, scale)
  <2>1. scale \in Quotient /\ AtMost(scale, MAX_SCALE)
    BY <1>1, TimesBound, ScalesAssumption DEF InRange
  <2>2. Context' = IF goes THEN Zoomed(scale) ELSE Context
    BY <1>2, <1>4 DEF ZoomOut
  <2> QED BY <1>1, <2>1, <2>2 DEF InRange
<1> QED BY <1>3, <1>4

\* Zooming in and out, as far as it goes, leaves the middle where it is.
THEOREM ControlZoomCentres == Spec => ZoomCentres
<1>1. Spec => []ControlInvariant
  BY InitKeeps, StepKeeps, PTL DEF Spec
<1>2. ControlInvariant /\ [Next]_vars
        => [ZoomIn \/ ZoomOut =>
              LET c == apply_scale(Context', Context'.scale) IN
              Plain(Context) =>
                 \A i \in 1 .. 2 :
                     Twice(c)[i] - Twice(Context)[i] \in -1 .. 1]_vars
  <2> SUFFICES ASSUME ControlInvariant, ZoomIn \/ ZoomOut, Plain(Context)
               PROVE  LET c == apply_scale(Context', Context'.scale) IN
                      \A i \in 1 .. 2 :
                          Twice(c)[i] - Twice(Context)[i] \in -1 .. 1
    OBVIOUS
  <2>1. PICK q \in Quotient : InRange(q) /\ Context' \in {Context, Zoomed(q)}
    BY ZoomSteps
  <2>2. active # None /\ Context \in WindowContext
    BY DEF ZoomIn, ZoomOut, Changes, Pressed, ControlInvariant, TypeOK, Context
  <2>3. CASE Context' = Zoomed(q)
    BY <2>1, <2>2, <2>3, ZoomedCentred
  <2>4. CASE Context' = Context
    <3>1. Context.left \in Int /\ Context.top \in Int
          /\ Context.width \in Nat /\ Context.height \in Nat
      BY <2>2 DEF WindowContext
    <3>2. apply_scale(Context', Context'.scale) = Context
      BY <2>4 DEF Plain
    <3>3. /\ Twice(Context)[1] - Twice(Context)[1] = 0
          /\ Twice(Context)[2] - Twice(Context)[2] = 0
      BY <3>1 DEF Twice
    <3> QED BY <3>2, <3>3
  <2> QED BY <2>1, <2>3, <2>4
<1> QED BY <1>1, <1>2, PTL DEF Spec, ZoomCentres
=============================================================================
