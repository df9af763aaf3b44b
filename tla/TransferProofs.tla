--------------------------- MODULE TransferProofs ---------------------------
(***************************************************************************)
(* What the encoder and the decoder do, for every screen, image, region    *)
(* and reader: the commands that SendDiff gives for a region, executed by  *)
(* ApplyAll.  The loops of the program run as often as their data says, so *)
(* the module begins with induction in a first-order form and with what it *)
(* says of folds.                                                          *)
(***************************************************************************)
EXTENDS Transfer, FiniteSetTheorems, SequenceTheorems, TLAPS

-----------------------------------------------------------------------------
(* Induction.                                                              *)

LessThan == {ss \in Nat \X Nat : ss[1] < ss[2]}

LEMMA LessThanWellFounded == IsWellFoundedOn(LessThan, Nat)
<1>1. LessThan = OpToRel(<, Nat)
  BY DEF LessThan, OpToRel
<1> QED
  BY <1>1, NatLessThanWellFounded

\* A set of natural numbers that is not empty has a least element.
LEMMA LeastNatural ==
    ASSUME NEW S \in SUBSET Nat, S # {}
    PROVE  \E n \in S : \A k \in S : n <= k
<1>1. PICK n \in S : \A k \in S : ~ (<<k, n>> \in LessThan)
  BY LessThanWellFounded, WFMin
<1>2. ASSUME NEW k \in S, k < n PROVE FALSE
  <2>1. <<k, n>> \in LessThan
    BY <1>2 DEF LessThan
  <2> QED
    BY <1>1, <2>1
<1> QED
  BY <1>2

\* A set that holds 0 and, with every number below n, the next one, holds all
\* the numbers up to n.
LEMMA CountUp ==
    ASSUME NEW n \in Nat, NEW S, 0 \in S,
           \A k \in 0 .. n - 1 : k \in S => k + 1 \in S
    PROVE  \A k \in 0 .. n : k \in S
<1> DEFINE Bad == {k \in 0 .. n : k \notin S}
<1> SUFFICES ASSUME Bad # {} PROVE FALSE
  OBVIOUS
<1>1. PICK k \in Bad : \A j \in Bad : k <= j
  <2>1. Bad \in SUBSET Nat
    OBVIOUS
  <2> QED
    BY <2>1, LeastNatural
<1>2. k \in 1 .. n /\ k - 1 \in 0 .. n - 1
  BY <1>1
<1>3. k - 1 \in S
  BY <1>1, <1>2
<1> QED
  BY <1>1, <1>2, <1>3

-----------------------------------------------------------------------------
(* Folds.  FoldLeft recurs over the subsets of the domain of its sequence, *)
(* and takes the greatest index first.                                     *)

\* The greatest of a set of indices is one of them.
LEMMA GreatestIsIndex ==
    ASSUME NEW n \in Nat, NEW S \in SUBSET (1 .. n), S # {}
    PROVE  Max(S) \in S
<1> DEFINE Up == {n - k : k \in S}
           P(x) == x \in S /\ \A j \in S : x >= j
<1>1. Up \in SUBSET Nat /\ Up # {}
  <2>1. \A k \in S : n - k \in Nat
    OBVIOUS
  <2>2. PICK k \in S : TRUE
    OBVIOUS
  <2>3. n - k \in Up
    BY <2>2
  <2> QED
    BY <2>1, <2>3
<1>2. PICK m \in Up : \A j \in Up : m <= j
  BY <1>1, LeastNatural
<1>3. P(n - m)
  <2>1. PICK k \in S : m = n - k
    BY <1>2
  <2>2. n - m = k
    BY <2>1
  <2>3. \A j \in S : m <= n - j
    BY <1>2
  <2> QED
    BY <2>1, <2>2, <2>3
<1> HIDE DEF P
<1>4. P(CHOOSE x : P(x))
  BY <1>3, Zenon
<1>5. Max(S) = CHOOSE x : P(x)
  BY Zenon DEF Max, P
<1> QED
  BY <1>4, <1>5 DEF P

\* A set of indices up to m that holds m has m as its greatest.
LEMMA GreatestOf ==
    ASSUME NEW m \in Nat, NEW S \in SUBSET (1 .. m), m \in S
    PROVE  Max(S) = m
<1> DEFINE P(x) == x \in S /\ \A j \in S : x >= j
<1>1. P(m) /\ \A x : P(x) => x = m
  <2>1. \A j \in S : j \in Int /\ j <= m
    OBVIOUS
  <2>2. P(m)
    BY <2>1
  <2>3. ASSUME NEW x, P(x) PROVE x = m
    <3>1. x \in S /\ x >= m
      BY <2>3
    <3> QED
      BY <2>1, <3>1
  <2> QED
    BY <2>2, <2>3, Zenon
<1> HIDE DEF P
<1>2. P(CHOOSE x : P(x))
  BY <1>1, Zenon
<1>3. Max(S) = CHOOSE x : P(x)
  BY Zenon DEF Max, P
<1> QED
  BY <1>1, <1>2, <1>3

\* The recursion of a fold has a solution: one step of it for each set of
\* indices, in a set T that the steps do not leave.
IsFold(it, b, g, n) ==
    \A S \in SUBSET (1 .. n) :
        it[S] = IF S = {} THEN b ELSE g[<<it[S \ {Max(S)}], Max(S)>>]

LEMMA FoldExists ==
    ASSUME NEW T, NEW b \in T, NEW n \in Nat, NEW g \in [T \X (1 .. n) -> T]
    PROVE  \E it \in [SUBSET (1 .. n) -> T] : IsFold(it, b, g, n)
<1> DEFINE Good == {m \in 0 .. n :
                       \E it \in [SUBSET (1 .. m) -> T] : IsFold(it, b, g, m)}
<1>1. 0 \in Good
  <2> DEFINE it == [S \in SUBSET (1 .. 0) |-> b]
  <2>1. it \in [SUBSET (1 .. 0) -> T]
    OBVIOUS
  <2>2. IsFold(it, b, g, 0)
    BY DEF IsFold
  <2> QED
    BY <2>1, <2>2
<1>2. ASSUME NEW m \in 0 .. n - 1, m \in Good PROVE m + 1 \in Good
  <2>1. PICK it \in [SUBSET (1 .. m) -> T] : IsFold(it, b, g, m)
    BY <1>2
  <2> DEFINE u == [S \in SUBSET (1 .. m + 1) |->
                      IF m + 1 \in S THEN g[<<it[S \ {m + 1}], m + 1>>]
                                     ELSE it[S]]
  <2>2. ASSUME NEW S \in SUBSET (1 .. m + 1)
        PROVE  /\ S \ {m + 1} \in SUBSET (1 .. m)
               /\ m + 1 \notin S => S \in SUBSET (1 .. m)
               /\ m + 1 \in S => Max(S) = m + 1
    <3>1. m + 1 \in Nat
      OBVIOUS
    <3>2. m + 1 \in S => Max(S) = m + 1
      BY <3>1, GreatestOf
    <3> QED
      BY <3>2
  <2>3. u \in [SUBSET (1 .. m + 1) -> T]
    <3> SUFFICES ASSUME NEW S \in SUBSET (1 .. m + 1) PROVE u[S] \in T
      BY Zenon
    <3>1. CASE m + 1 \in S
      <4>1. it[S \ {m + 1}] \in T
        BY <2>1, <2>2
      <4>2. <<it[S \ {m + 1}], m + 1>> \in T \X (1 .. n)
        BY <4>1
      <4> QED
        BY <3>1, <4>2
    <3>2. CASE m + 1 \notin S
      BY <2>1, <2>2, <3>2
    <3> QED
      BY <3>1, <3>2
  <2>4. IsFold(u, b, g, m + 1)
    <3> SUFFICES ASSUME NEW S \in SUBSET (1 .. m + 1)
                 PROVE  u[S] = IF S = {} THEN b
                               ELSE g[<<u[S \ {Max(S)}], Max(S)>>]
      BY Zenon DEF IsFold
    <3>1. CASE m + 1 \in S
      <4>1. Max(S) = m + 1 /\ S # {}
        BY <2>2, <3>1
      <4>2. u[S \ {m + 1}] = it[S \ {m + 1}]
        <5>1. S \ {m + 1} \in SUBSET (1 .. m + 1) /\ m + 1 \notin S \ {m + 1}
          OBVIOUS
        <5> QED
          BY <5>1, Zenon
      <4>3. u[S] = g[<<it[S \ {m + 1}], m + 1>>]
        BY <3>1, Zenon
      <4> HIDE DEF u
      <4> QED
        BY <4>1, <4>2, <4>3
    <3>2. CASE m + 1 \notin S
      <4>1. S \in SUBSET (1 .. m) /\ u[S] = it[S]
        BY <2>2, <3>2
      <4>2. it[S] = IF S = {} THEN b ELSE g[<<it[S \ {Max(S)}], Max(S)>>]
        BY <2>1, <4>1, Zenon DEF IsFold
      <4>3. u[S \ {Max(S)}] = it[S \ {Max(S)}]
        <5>1. S \ {Max(S)} \in SUBSET (1 .. m + 1)
              /\ m + 1 \notin S \ {Max(S)}
          BY <3>2
        <5> QED
          BY <5>1, Zenon
      <4> HIDE DEF u
      <4> QED
        BY <4>1, <4>2, <4>3
    <3> QED
      BY <3>1, <3>2
  <2> HIDE DEF u
  <2>5. m + 1 \in 0 .. n
    OBVIOUS
  <2> QED
    BY <2>3, <2>4, <2>5
<1> HIDE DEF Good
<1>3. n \in Good
  BY <1>1, <1>2, CountUp
<1> QED
  BY <1>3 DEF Good

\* The indices up to k are k and those up to k - 1.
LEMMA UpTo ==
    ASSUME NEW k \in Nat \ {0}
    PROVE  Max(1 .. k) = k /\ (1 .. k) \ {k} = 1 .. k - 1 /\ 1 .. k # {}
<1>1. k \in 1 .. k /\ 1 .. k \in SUBSET (1 .. k)
  OBVIOUS
<1>2. Max(1 .. k) = k
  BY <1>1, GreatestOf
<1> QED
  BY <1>1, <1>2

\* A chain of steps that begins in T does not leave it.
IsChain(it, T, g, n) ==
    /\ it[{}] \in T
    /\ \A k \in 1 .. n : it[1 .. k - 1] \in T =>
            it[1 .. k] = g[<<it[1 .. k - 1], k>>]

IsRun(h, it, g, n) ==
    /\ h[0] = it[{}] /\ h[n] = it[1 .. n]
    /\ \A k \in 1 .. n : h[k] = g[<<h[k - 1], k>>]

LEMMA FoldRun ==
    ASSUME NEW T, NEW n \in Nat, NEW g \in [T \X (1 .. n) -> T], NEW it,
           IsChain(it, T, g, n)
    PROVE  \E h \in [0 .. n -> T] : IsRun(h, it, g, n)
<1> DEFINE h == [k \in 0 .. n |-> it[1 .. k]]
           Good == {k \in 0 .. n : h[k] \in T}
<1>1. h[0] = it[{}] /\ h[n] = it[1 .. n]
  <2>1. 1 .. 0 = {}
    OBVIOUS
  <2> QED
    BY <2>1
<1>2. ASSUME NEW k \in 1 .. n, h[k - 1] \in T
      PROVE  h[k] = g[<<h[k - 1], k>>] /\ h[k] \in T
  <2>1. h[k] = it[1 .. k] /\ h[k - 1] = it[1 .. k - 1]
    OBVIOUS
  <2>2. h[k] = g[<<h[k - 1], k>>]
    BY <1>2, <2>1 DEF IsChain
  <2> HIDE DEF h
  <2> QED
    BY <1>2, <2>2
<1> HIDE DEF h
<1>3. 0 \in Good
  BY <1>1 DEF IsChain
<1>4. ASSUME NEW k \in 0 .. n - 1, k \in Good PROVE k + 1 \in Good
  <2>1. k + 1 \in 1 .. n /\ h[(k + 1) - 1] \in T
    BY <1>4
  <2>2. h[k + 1] \in T
    BY <1>2, <2>1
  <2> QED
    BY <2>1, <2>2
<1>5. \A k \in 0 .. n : h[k] \in T
  <2> HIDE DEF Good
  <2>1. \A k \in 0 .. n : k \in Good
    BY <1>3, <1>4, CountUp
  <2> QED
    BY <2>1 DEF Good
<1>6. h \in [0 .. n -> T]
  BY <1>5 DEF h
<1>7. \A k \in 1 .. n : h[k] = g[<<h[k - 1], k>>]
  BY <1>2, <1>5
<1> QED
  BY <1>1, <1>6, <1>7 DEF IsRun
-----------------------------------------------------------------------------
(* Division by the width of the screen.                                    *)

\* A position is recovered from its offset in row-major order.
LEMMA DivMod ==
    ASSUME NEW w \in Nat \ {0}, NEW k \in Nat, NEW r \in 0 .. w - 1
    PROVE  (k * w + r) \div w = k /\ (k * w + r) % w = r
  BY SMT

\* Two positions with the same offset are the same.
LEMMA SameOffset ==
    ASSUME NEW w \in Nat \ {0},
           NEW k1 \in Nat, NEW r1 \in 0 .. w - 1,
           NEW k2 \in Nat, NEW r2 \in 0 .. w - 1,
           k1 * w + r1 = k2 * w + r2
    PROVE  k1 = k2 /\ r1 = r2
  BY SMT

\* n positions further than <<x1, y1>> is <<x2, y2>>: SKIP(n) gets there.
LEMMA SkipReaches ==
    ASSUME NEW w \in Nat \ {0}, NEW n \in Nat,
           NEW y1 \in Nat, NEW x1 \in 0 .. w - 1,
           NEW y2 \in Nat, NEW x2 \in 0 .. w - 1,
           y1 * w + x1 + n = y2 * w + x2
    PROVE  (n + x1) % w = x2 /\ y1 + (n + x1) \div w = y2
<1>1. n + x1 = (y2 - y1) * w + x2
  BY SMT
<1>2. y2 - y1 \in Nat
  <2>1. y2 - y1 \in Int
    OBVIOUS
  <2>2. SUFFICES ASSUME y2 - y1 <= -1 PROVE FALSE
    BY <2>1
  <2>3. (y2 - y1) * w <= (-1) * w
    BY <2>2, SMT
  <2> QED
    BY <1>1, <2>3, SMT
<1> QED
  BY <1>1, <1>2, DivMod, SMT

-----------------------------------------------------------------------------
(* The reader.                                                             *)

\* Drawing at the reader's position changes that pixel only, and the reader
\* is then at the next position, unless it was at the last one.
LEMMA PutPixelDraws ==
    ASSUME NEW r \in Registers, r.x \in 0 .. W - 1, r.y \in 0 .. H - 1
    PROVE  /\ PutPixel(r) \in Registers
           /\ \A q \in Pixel : PutPixel(r).fb[q] =
                 IF q[1] = r.x /\ q[2] = r.y THEN r.color ELSE r.fb[q]
           /\ PutPixel(r).color = r.color /\ PutPixel(r).panel = r.panel
           /\ PutPixel(r).x \in 0 .. W - 1 /\ PutPixel(r).y \in 0 .. H - 1
           /\ \/ r.x = W - 1 /\ r.y = H - 1
              \/ PutPixel(r).y * W + PutPixel(r).x = r.y * W + r.x + 1
<1>1. /\ r.x \in Nat /\ r.y \in Nat /\ r.color \in Colors
      /\ r.fb \in Image /\ r.panel \in Image
  BY DEF Registers
<1>2. DrawPixel(r.fb, r.x, r.y, r.color) \in Image
  BY <1>1 DEF DrawPixel, Image
<1>3. /\ PutPixel(r).fb = DrawPixel(r.fb, r.x, r.y, r.color)
      /\ PutPixel(r).color = r.color /\ PutPixel(r).panel = r.panel
      /\ PutPixel(r).x = IF r.x + 1 = W THEN 0 ELSE r.x + 1
      /\ PutPixel(r).y = IF r.x + 1 # W THEN r.y
                         ELSE IF r.y + 1 = H THEN 0 ELSE r.y + 1
  BY DEF Registers, PutPixel
<1>4. PutPixel(r).x \in Nat /\ PutPixel(r).y \in Nat
  BY <1>1, <1>3, ScreenAssumption
<1>5. PutPixel(r) \in Registers
  BY <1>1, <1>2, <1>3, <1>4 DEF Registers, PutPixel
<1>6. PutPixel(r).x \in 0 .. W - 1 /\ PutPixel(r).y \in 0 .. H - 1
  BY <1>3, ScreenAssumption
<1>7. \A q \in Pixel : PutPixel(r).fb[q] =
         IF q[1] = r.x /\ q[2] = r.y THEN r.color ELSE r.fb[q]
  BY <1>1, <1>3 DEF DrawPixel, Pixel
<1>8. \/ r.x = W - 1 /\ r.y = H - 1
      \/ PutPixel(r).y * W + PutPixel(r).x = r.y * W + r.x + 1
  <2>1. CASE r.x + 1 = W /\ r.y + 1 # H
    <3>1. (r.y + 1) * W = r.y * W + W
      BY <1>1, ScreenAssumption, SMT
    <3> QED
      BY <1>1, <1>3, <2>1, <3>1, ScreenAssumption
  <2> QED
    BY <1>1, <1>3, <2>1, ScreenAssumption
<1> QED
  BY <1>3, <1>5, <1>6, <1>7, <1>8

\* Wherever the reader is, it draws without leaving its registers' types.
LEMMA PutPixelType ==
    ASSUME NEW r \in Registers
    PROVE  PutPixel(r) \in Registers
<1>1. /\ r.x \in Nat /\ r.y \in Nat /\ r.color \in Colors
      /\ r.fb \in Image /\ r.panel \in Image
  BY DEF Registers
<1>2. DrawPixel(r.fb, r.x, r.y, r.color) \in Image
  BY <1>1 DEF DrawPixel, Image
<1>3. /\ PutPixel(r).fb = DrawPixel(r.fb, r.x, r.y, r.color)
      /\ PutPixel(r).color = r.color /\ PutPixel(r).panel = r.panel
      /\ PutPixel(r).x = IF r.x + 1 = W THEN 0 ELSE r.x + 1
      /\ PutPixel(r).y = IF r.x + 1 # W THEN r.y
                         ELSE IF r.y + 1 = H THEN 0 ELSE r.y + 1
  BY DEF Registers, PutPixel
<1>4. PutPixel(r).x \in Nat /\ PutPixel(r).y \in Nat
  BY <1>1, <1>3, ScreenAssumption
<1> QED
  BY <1>1, <1>2, <1>3, <1>4 DEF Registers, PutPixel

\* The loop of PUT_REPEAT, and its iterations.
Repeat(r, n) == FoldLeft(LAMBDA q, k : PutPixel(q), r, [k \in 1 .. n |-> k])

LEMMA RepeatRun ==
    ASSUME NEW r \in Registers, NEW n \in Nat
    PROVE  \E h \in [0 .. n -> Registers] :
              /\ h[0] = r /\ \A k \in 1 .. n : h[k] = PutPixel(h[k - 1])
              /\ Repeat(r, n) = h[n]
<1> DEFINE indices == [k \in 1 .. n |-> k]
           IsIter(it) == it = [S \in SUBSET DOMAIN indices |->
                 IF S = {} THEN r ELSE LET x == Max(S) IN PutPixel(it[S \ {x}])]
           g == [t \in Registers \X (1 .. n) |-> PutPixel(t[1])]
           f == CHOOSE it : IsIter(it)
<1>1. g \in [Registers \X (1 .. n) -> Registers]
  BY PutPixelType
<1>2. \E it : IsIter(it)
  <2> HIDE DEF g
  <2>1. PICK it \in [SUBSET (1 .. n) -> Registers] : IsFold(it, r, g, n)
    BY <1>1, FoldExists
  <2>2. ASSUME NEW S \in SUBSET (1 .. n)
        PROVE  it[S] = IF S = {} THEN r ELSE PutPixel(it[S \ {Max(S)}])
    <3>1. CASE S = {}
      BY <2>1, <3>1 DEF IsFold
    <3>2. CASE S # {}
      <4>1. it[S] = g[<<it[S \ {Max(S)}], Max(S)>>]
        BY <2>1, <3>2 DEF IsFold
      <4>2. it[S \ {Max(S)}] \in Registers
        BY <2>1
      <4>3. Max(S) \in 1 .. n
        BY <3>2, GreatestIsIndex
      <4> QED
        BY <4>1, <4>2, <4>3, <3>2 DEF g
    <3> QED
      BY <3>1, <3>2
  <2>3. DOMAIN indices = 1 .. n
    OBVIOUS
  <2> QED
    BY <2>1, <2>2, <2>3
<1>3. IsIter(f)
  BY <1>2
<1>4. Repeat(r, n) = f[1 .. n]
  BY DEF Repeat, FoldLeft, MapThenFoldSet
<1>5. /\ f[{}] = r
      /\ \A k \in 1 .. n : f[1 .. k] = PutPixel(f[1 .. k - 1])
  <2>1. f = [S \in SUBSET (1 .. n) |-> IF S = {} THEN r
                           ELSE LET x == Max(S) IN PutPixel(f[S \ {x}])]
    <3>1. DOMAIN indices = 1 .. n
      OBVIOUS
    <3> QED
      BY <1>3, <3>1
  <2> HIDE DEF f
  <2>2. ASSUME NEW k \in 1 .. n PROVE f[1 .. k] = PutPixel(f[1 .. k - 1])
    <3>1. 1 .. k \in SUBSET (1 .. n)
      OBVIOUS
    <3>2. Max(1 .. k) = k /\ (1 .. k) \ {k} = 1 .. k - 1 /\ 1 .. k # {}
      BY UpTo
    <3> QED
      BY <2>1, <3>1, <3>2
  <2> QED
    BY <2>1, <2>2
<1> HIDE DEF f
<1>6. IsChain(f, Registers, g, n)
  BY <1>5 DEF IsChain
<1> HIDE DEF g
<1>7. PICK h \in [0 .. n -> Registers] : IsRun(h, f, g, n)
  BY <1>1, <1>6, FoldRun
<1>8. ASSUME NEW k \in 1 .. n PROVE h[k] = PutPixel(h[k - 1])
  <2>1. h[k - 1] \in Registers
    BY <1>7
  <2> QED
    BY <1>7, <2>1 DEF g, IsRun
<1> QED
  BY <1>4, <1>5, <1>7, <1>8 DEF IsRun

\* One more iteration draws one more pixel.
LEMMA RepeatNext ==
    ASSUME NEW r \in Registers
    PROVE  /\ Repeat(r, 0) = r
           /\ \A n \in Nat : /\ Repeat(r, n) \in Registers
                             /\ Repeat(r, n + 1) = PutPixel(Repeat(r, n))
<1>1. Repeat(r, 0) = r
  BY RepeatRun
<1>2. ASSUME NEW n \in Nat
      PROVE  /\ Repeat(r, n) \in Registers
             /\ Repeat(r, n + 1) = PutPixel(Repeat(r, n))
  <2>1. PICK a \in [0 .. n -> Registers] :
           /\ a[0] = r /\ \A k \in 1 .. n : a[k] = PutPixel(a[k - 1])
           /\ Repeat(r, n) = a[n]
    BY RepeatRun
  <2>2. PICK b \in [0 .. n + 1 -> Registers] :
           /\ b[0] = r /\ \A k \in 1 .. n + 1 : b[k] = PutPixel(b[k - 1])
           /\ Repeat(r, n + 1) = b[n + 1]
    <3>1. n + 1 \in Nat
      OBVIOUS
    <3> QED
      BY <3>1, RepeatRun
  <2> DEFINE Same == {k \in 0 .. n : a[k] = b[k]}
  <2>3. 0 \in Same
    BY <2>1, <2>2
  <2>4. ASSUME NEW k \in 0 .. n - 1, k \in Same PROVE k + 1 \in Same
    <3>1. /\ k + 1 \in 1 .. n /\ k + 1 \in 1 .. n + 1 /\ (k + 1) - 1 = k
          /\ a[k] = b[k]
      BY <2>4
    <3>2. a[k + 1] = b[k + 1]
      BY <2>1, <2>2, <3>1
    <3> QED
      BY <3>1, <3>2
  <2>5. a[n] = b[n]
    <3> HIDE DEF Same
    <3>1. n \in Same
      BY <2>3, <2>4, CountUp
    <3> QED
      BY <3>1 DEF Same
  <2>6. b[n + 1] = PutPixel(b[n])
    <3>1. n + 1 \in 1 .. n + 1 /\ (n + 1) - 1 = n
      OBVIOUS
    <3> QED
      BY <2>2, <3>1
  <2> QED
    BY <2>1, <2>2, <2>5, <2>6
<1> QED
  BY <1>1, <1>2

\* What the reader executes without leaving its loop.
Harmless == {c \in Command : c.cmd # "SHOW_ERROR"}

\* A message draws, and ends in its only refresh.
IsMessage(cmds) ==
    \E s \in Seq(Drawing), c \in Harmless :
        c.cmd \in Update /\ cmds = Append(s, c)

\* The commands of Harmless, one kind at a time.
LEMMA HarmlessKinds ==
    ASSUME NEW c \in Harmless
    PROVE  \/ c.cmd = "RESET_POSITION" /\ c.x \in Nat /\ c.y \in Nat
           \/ c.cmd \in {"SKIP", "PUT_REPEAT"} /\ c.count \in Nat
           \/ c.cmd = "PUT_COLOR" /\ c.color \in Colors
           \/ c.cmd = "PARTIAL_UPDATE" /\ c.x \in Nat /\ c.y \in Nat
                 /\ c.w \in Nat /\ c.h \in Nat
           \/ c.cmd \in {"SOFT_UPDATE", "CONN_CHECK"}
  BY DEF Harmless, Command

\* f is r after the refresh of a rectangle.
ShowsRectangle(f, r, px, py, pw, ph) ==
    /\ f \in Registers /\ f.fb = r.fb /\ f.color = r.color
    /\ \A q \in Pixel :
          f.panel[q] = IF /\ q[1] \in px .. px + pw - 1
                          /\ q[2] \in py .. py + ph - 1
                       THEN r.fb[q] ELSE r.panel[q]

\* PARTIAL_UPDATE copies the rectangle to the panel; the frame buffer and
\* the colour stay.
LEMMA FlushShows ==
    ASSUME NEW r \in Registers,
           NEW px \in Nat, NEW py \in Nat, NEW pw \in Nat, NEW ph \in Nat
    PROVE  ShowsRectangle(Flush(r, px, py, pw, ph), r, px, py, pw, ph)
<1> DEFINE f == Flush(r, px, py, pw, ph)
           inside(q) == /\ q[1] \in px .. px + pw - 1
                        /\ q[2] \in py .. py + ph - 1
           panel == [q \in Pixel |-> IF inside(q) THEN r.fb[q] ELSE r.panel[q]]
<1>1. r.fb \in Image /\ r.panel \in Image /\ r.color \in Colors
  BY DEF Registers
<1>2. panel \in Image
  BY <1>1 DEF Image
<1>3. f.x = px /\ f.y = py /\ f.panel = panel /\ f.fb = r.fb /\ f.color = r.color
  BY DEF Flush, Registers
<1>4. f \in Registers
  <2> HIDE DEF panel
  <2>1. f = [[[r EXCEPT !.x = px] EXCEPT !.y = py] EXCEPT !.panel = panel]
    BY DEF Flush, panel
  <2>2. [r EXCEPT !.x = px] \in Registers
    BY DEF Registers
  <2>3. [[r EXCEPT !.x = px] EXCEPT !.y = py] \in Registers
    BY <2>2 DEF Registers
  <2> QED
    BY <1>2, <2>1, <2>3 DEF Registers
<1> QED
  BY <1>3, <1>4 DEF ShowsRectangle

\* A command is what the reader understands it to be, and executing it keeps
\* the registers' types.
LEMMA ApplyType ==
    ASSUME NEW r \in Registers, NEW c \in Harmless
    PROVE  /\ Apply(r, c) \in Registers
           /\ c.cmd = "RESET_POSITION" =>
                 Apply(r, c) = [r EXCEPT !.x = c.x, !.y = c.y]
           /\ c.cmd = "SKIP" => Apply(r, c) = SkipPixels(r, c.count)
           /\ c.cmd = "PUT_REPEAT" => Apply(r, c) = Repeat(r, c.count)
           /\ c.cmd = "PUT_COLOR" =>
                 Apply(r, c) = PutPixel([r EXCEPT !.color = c.color])
           /\ c.cmd = "SOFT_UPDATE" => Apply(r, c) = [r EXCEPT !.panel = r.fb]
           /\ c.cmd = "PARTIAL_UPDATE" =>
                 Apply(r, c) = Flush(r, c.x, c.y, c.w, c.h)
           /\ c.cmd = "CONN_CHECK" => Apply(r, c) = r
<1>0. /\ r.x \in Nat /\ r.y \in Nat /\ r.color \in Colors
      /\ r.fb \in Image /\ r.panel \in Image
  BY DEF Registers
<1>1. CASE c.cmd = "RESET_POSITION"
  <2>1. Apply(r, c) = [r EXCEPT !.x = c.x, !.y = c.y]
    BY <1>1 DEF Apply
  <2>2. c.x \in Nat /\ c.y \in Nat
    BY <1>1, HarmlessKinds
  <2>3. [r EXCEPT !.x = c.x, !.y = c.y] \in Registers
    BY <2>2 DEF Registers
  <2> QED
    BY <1>1, <2>1, <2>3
<1>2. CASE c.cmd = "SKIP"
  <2>1. Apply(r, c) = SkipPixels(r, c.count)
    BY <1>2 DEF Apply
  <2>2. c.count \in Nat
    BY <1>2, HarmlessKinds
  <2>3. (c.count + r.x) % W \in Nat /\ r.y + (c.count + r.x) \div W \in Nat
    BY <1>0, <2>2, ScreenAssumption
  <2>4. SkipPixels(r, c.count) \in Registers
    BY <2>3 DEF SkipPixels, Registers
  <2> QED
    BY <1>2, <2>1, <2>4
<1>3. CASE c.cmd = "PUT_REPEAT"
  <2>1. Apply(r, c) = Repeat(r, c.count)
    BY <1>3 DEF Apply, Repeat
  <2>2. c.count \in Nat
    BY <1>3, HarmlessKinds
  <2> QED
    BY <1>3, <2>1, <2>2, RepeatNext
<1>4. CASE c.cmd = "PUT_COLOR"
  <2>1. Apply(r, c) = PutPixel([r EXCEPT !.color = c.color])
    BY <1>4 DEF Apply
  <2>2. c.color \in Colors
    BY <1>4, HarmlessKinds
  <2>3. [r EXCEPT !.color = c.color] \in Registers
    BY <2>2 DEF Registers
  <2> QED
    BY <1>4, <2>1, <2>3, PutPixelType
<1>5. CASE c.cmd = "SOFT_UPDATE"
  <2>1. Apply(r, c) = [r EXCEPT !.panel = r.fb]
    BY <1>5 DEF Apply
  <2>2. [r EXCEPT !.panel = r.fb] \in Registers
    BY <1>0 DEF Registers
  <2> QED
    BY <1>5, <2>1, <2>2
<1>6. CASE c.cmd = "PARTIAL_UPDATE"
  <2>1. Apply(r, c) = Flush(r, c.x, c.y, c.w, c.h)
    BY <1>6 DEF Apply
  <2>2. c.x \in Nat /\ c.y \in Nat /\ c.w \in Nat /\ c.h \in Nat
    BY <1>6, HarmlessKinds
  <2>3. Flush(r, c.x, c.y, c.w, c.h) \in Registers
    BY <2>2, FlushShows DEF ShowsRectangle
  <2> QED
    BY <1>6, <2>1, <2>3
<1>7. CASE c.cmd = "CONN_CHECK"
  <2>1. Apply(r, c) = r
    BY <1>7 DEF Apply
  <2> QED
    BY <1>7, <2>1
<1> QED
  BY <1>1, <1>2, <1>3, <1>4, <1>5, <1>6, <1>7, HarmlessKinds

\* The execution of a sequence of commands, and its steps.
LEMMA ApplyAllRun ==
    ASSUME NEW r \in Registers, NEW s \in Seq(Harmless)
    PROVE  \E h \in [0 .. Len(s) -> Registers] :
              /\ h[0] = r /\ \A k \in 1 .. Len(s) : h[k] = Apply(h[k - 1], s[k])
              /\ ApplyAll(r, s) = h[Len(s)]
<1> DEFINE n == Len(s)
           IsIter(it) == it = [S \in SUBSET DOMAIN s |->
                 IF S = {} THEN r ELSE LET x == Max(S) IN Apply(it[S \ {x}], s[x])]
           g == [t \in Registers \X (1 .. n) |-> Apply(t[1], s[t[2]])]
           f == CHOOSE it : IsIter(it)
<1>0. /\ n \in Nat /\ DOMAIN s = 1 .. n
      /\ \A k \in 1 .. n : s[k] \in Harmless
  BY ElementOfSeq, LenProperties
<1>1. g \in [Registers \X (1 .. n) -> Registers]
  BY <1>0, ApplyType
<1> HIDE DEF n
<1>2. \E it : IsIter(it)
  <2> HIDE DEF g
  <2>1. PICK it \in [SUBSET (1 .. n) -> Registers] : IsFold(it, r, g, n)
    BY <1>0, <1>1, FoldExists
  <2>2. ASSUME NEW S \in SUBSET (1 .. n)
        PROVE  it[S] = IF S = {} THEN r
                       ELSE Apply(it[S \ {Max(S)}], s[Max(S)])
    <3>1. CASE S = {}
      BY <2>1, <3>1 DEF IsFold
    <3>2. CASE S # {}
      <4>1. it[S] = g[<<it[S \ {Max(S)}], Max(S)>>]
        BY <2>1, <3>2 DEF IsFold
      <4>2. it[S \ {Max(S)}] \in Registers
        BY <2>1
      <4>3. Max(S) \in 1 .. n
        BY <1>0, <3>2, GreatestIsIndex
      <4> QED
        BY <4>1, <4>2, <4>3, <3>2 DEF g
    <3> QED
      BY <3>1, <3>2
  <2> QED
    BY <1>0, <2>1, <2>2
<1>3. IsIter(f)
  BY <1>2
<1>4. ApplyAll(r, s) = f[1 .. n]
  <2>1. ApplyAll(r, s) = f[DOMAIN s]
    BY DEF ApplyAll, FoldLeft, MapThenFoldSet
  <2> HIDE DEF f
  <2> QED
    BY <1>0, <2>1
<1>5. /\ f[{}] = r
      /\ \A k \in 1 .. n : f[1 .. k] = Apply(f[1 .. k - 1], s[k])
  <2>1. f = [S \in SUBSET (1 .. n) |-> IF S = {} THEN r
                   ELSE LET x == Max(S) IN Apply(f[S \ {x}], s[x])]
    BY <1>0, <1>3
  <2> HIDE DEF f
  <2>2. ASSUME NEW k \in 1 .. n PROVE f[1 .. k] = Apply(f[1 .. k - 1], s[k])
    <3>1. 1 .. k \in SUBSET (1 .. n) /\ k \in Nat \ {0}
      BY <1>0
    <3>2. Max(1 .. k) = k /\ (1 .. k) \ {k} = 1 .. k - 1 /\ 1 .. k # {}
      BY <3>1, UpTo
    <3> QED
      BY <2>1, <3>1, <3>2
  <2> QED
    BY <2>1, <2>2
<1> HIDE DEF f
<1>6. IsChain(f, Registers, g, n)
  BY <1>5 DEF IsChain
<1> HIDE DEF g
<1>7. PICK h \in [0 .. n -> Registers] : IsRun(h, f, g, n)
  BY <1>0, <1>1, <1>6, FoldRun
<1>8. ASSUME NEW k \in 1 .. n PROVE h[k] = Apply(h[k - 1], s[k])
  <2>1. h[k - 1] \in Registers
    BY <1>0, <1>7
  <2> QED
    BY <1>7, <2>1 DEF g, IsRun
<1> QED
  BY <1>4, <1>5, <1>7, <1>8 DEF IsRun, n

\* Commands are executed one after the other.
LEMMA ApplyAllAppend ==
    ASSUME NEW r \in Registers, NEW s \in Seq(Harmless)
    PROVE  /\ ApplyAll(r, <<>>) = r /\ ApplyAll(r, s) \in Registers
           /\ \A c \in Harmless :
                 ApplyAll(r, Append(s, c)) = Apply(ApplyAll(r, s), c)
<1>1. ApplyAll(r, <<>>) = r
  <2>1. <<>> \in Seq(Harmless) /\ Len(<<>>) = 0
    OBVIOUS
  <2>2. PICK h \in [0 .. Len(<<>>) -> Registers] :
           h[0] = r /\ ApplyAll(r, <<>>) = h[Len(<<>>)]
    BY <2>1, ApplyAllRun
  <2> QED
    BY <2>1, <2>2
<1>2. PICK a \in [0 .. Len(s) -> Registers] :
         /\ a[0] = r /\ \A k \in 1 .. Len(s) : a[k] = Apply(a[k - 1], s[k])
         /\ ApplyAll(r, s) = a[Len(s)]
  BY ApplyAllRun
<1> DEFINE n == Len(s)
<1>3. n \in Nat
  OBVIOUS
<1>4. ASSUME NEW c \in Harmless
      PROVE  ApplyAll(r, Append(s, c)) = Apply(ApplyAll(r, s), c)
  <2> DEFINE t == Append(s, c)
  <2>1. /\ t \in Seq(Harmless) /\ Len(t) = n + 1 /\ t[n + 1] = c
        /\ \A k \in 1 .. n : t[k] = s[k]
    BY AppendProperties
  <2>2. PICK b \in [0 .. Len(t) -> Registers] :
           /\ b[0] = r /\ \A k \in 1 .. Len(t) : b[k] = Apply(b[k - 1], t[k])
           /\ ApplyAll(r, t) = b[Len(t)]
    BY <2>1, ApplyAllRun
  <2> HIDE DEF t, n
  <2> DEFINE Same == {k \in 0 .. n : a[k] = b[k]}
  <2>3. 0 \in Same
    BY <1>2, <1>3, <2>2
  <2>4. ASSUME NEW k \in 0 .. n - 1, k \in Same PROVE k + 1 \in Same
    <3>1. /\ k + 1 \in 1 .. n /\ k + 1 \in 1 .. n + 1 /\ (k + 1) - 1 = k
          /\ a[k] = b[k]
      BY <1>3, <2>4
    <3>2. a[k + 1] = b[k + 1]
      BY <1>2, <2>1, <2>2, <3>1 DEF n
    <3> QED
      BY <1>3, <3>1, <3>2
  <2>5. a[n] = b[n]
    <3> HIDE DEF Same
    <3>1. \A k \in 0 .. n : k \in Same
      BY <1>3, <2>3, <2>4, CountUp
    <3> QED
      BY <1>3, <3>1 DEF Same
  <2>6. b[n + 1] = Apply(b[n], c)
    <3>1. n + 1 \in 1 .. n + 1 /\ (n + 1) - 1 = n
      BY <1>3
    <3> QED
      BY <2>1, <2>2, <3>1
  <2>7. ApplyAll(r, t) = Apply(ApplyAll(r, s), c)
    BY <1>2, <2>1, <2>2, <2>5, <2>6 DEF n
  <2> QED
    BY <2>7 DEF t
<1>5. ApplyAll(r, s) \in Registers
  BY <1>2, <1>3
<1> QED
  BY <1>1, <1>4, <1>5

-----------------------------------------------------------------------------
(* The loop of transfer_image_send_diff.  A call of it is a record: what   *)
(* the function is given, the static color, and the reader at that time.   *)

Call == [prev : Image, next : Image, region : {r \in Region : OnScreen(r)},
         color : Colors, reader : Registers]

\* The pixels that the call has to draw, and those before the position p.
ToDraw(m)     == {q \in Cells(m.region) : m.prev[q] # m.next[q]}
Before(q, p)  == q[2] < p[2] \/ (q[2] = p[2] /\ q[1] < p[1])
Done(m, p)    == {q \in ToDraw(m) : Before(q, p)}

\* The rest of the line behind a region, when the loop leaves a row.
Jump(r, p) == IF p[1] = Right(r) - 1 THEN LineSkip(r) ELSE 0

\* The parts of the invariant of the loop at the position p, in the state d of
\* its variables and with the reader rd that executed the commands so far.
LoopTypes(m, d, p, rd) ==
    /\ d \in LoopState(Drawing) /\ rd \in Registers
    /\ p \in (m.region.left .. Right(m.region) - 1)
             \X (m.region.top .. Bottom(m.region))
InStep(m, d, p, rd) ==
    /\ rd.x \in 0 .. W - 1 /\ rd.y \in 0 .. H - 1
    /\ p[2] < Bottom(m.region) => rd.y * W + rd.x + d.skipped = Offset(p)
Boxed(m, d, p) ==
    /\ {d.x1, d.x2} \subseteq m.region.left .. Right(m.region) - 1
    /\ {d.y1, d.y2} \subseteq m.region.top .. Bottom(m.region) - 1
    /\ \A q \in Done(m, p) : /\ d.x1 <= q[1] /\ q[1] <= d.x2
                             /\ d.y1 <= q[2] /\ q[2] <= d.y2
Kept(m, d, rd) ==
    /\ rd.panel = m.reader.panel
    /\ NeedSend(d) \/ d.color = m.color
Linked(m, d, rd) ==
    \/ rd.color = d.color
    \/ rd.color = m.reader.color /\ d.color = m.color
Drawn(m, p, rd) ==
    \A q \in Done(m, p) :
        \/ rd.fb[q] = m.next[q]
        \/ m.next[q] = m.color /\ rd.fb[q] = m.reader.color
Spared(m, p, rd) ==
    \A q \in Pixel \ Done(m, p) : rd.fb[q] = m.reader.fb[q]
Short(m, d, p) ==
    Len(d.cmds) - 1 + (IF d.skipped > 0 THEN 1 ELSE 0)
        <= Offset(p) - Offset(<<m.region.left, m.region.top>>)

LoopHolds(m, d, p, rd) ==
    /\ LoopTypes(m, d, p, rd) /\ InStep(m, d, p, rd) /\ Countable(d)
    /\ Boxed(m, d, p) /\ Kept(m, d, rd) /\ Linked(m, d, rd)
    /\ Drawn(m, p, rd) /\ Spared(m, p, rd) /\ Short(m, d, p)

\* The reader after one iteration of the loop.
Followed(m, d, p, rd) ==
    IF m.prev[p] # m.next[p] THEN Follow(rd, d, m.next[p]) ELSE rd

\* The members of a call.
LEMMA CallTypes ==
    ASSUME NEW m \in Call
    PROVE  /\ m.prev \in Image /\ m.next \in Image
           /\ m.region \in Region /\ OnScreen(m.region)
           /\ m.color \in Colors /\ m.reader \in Registers
  BY DEF Call

-----------------------------------------------------------------------------
(* The loop state.                                                         *)

\* Appending a command: the buffer is one longer and ends in it.
LEMMA AppendCommand ==
    ASSUME NEW s \in Seq(Drawing), NEW m \in Drawing
    PROVE  /\ Append(s, m) \in Seq(Drawing)
           /\ Len(Append(s, m)) = Len(s) + 1 /\ Len(Append(s, m)) > 0
           /\ Last(Append(s, m)) = m
  BY AppendProperties DEF Last

\* A changed pixel extends the bounding box by no more than itself, resets
\* what was skipped, and adds one command, or two after a skip.
LEMMA ChangedPixelState ==
    ASSUME NEW e \in LoopState(Drawing), NEW c \in Colors,
           NEW q \in Pixel,
           Countable(e)
    PROVE  LET f == ChangedPixel(e, q, c)
               k == IF e.skipped > 0 THEN 1 ELSE 0
           IN  /\ f \in LoopState(Drawing)
               /\ f.skipped = 0 /\ f.color = c
               /\ Countable(f) /\ Len(f.cmds) <= Len(e.cmds) + 1 + k
               /\ f.x1 = Lower(e.x1, q[1])  /\ f.y1 = Lower(e.y1, q[2])
               /\ f.x2 = Higher(e.x2, q[1]) /\ f.y2 = Higher(e.y2, q[2])
<1> DEFINE before == IF e.skipped > 0 THEN Append(e.cmds, CMD_SKIP(e.skipped))
                                      ELSE e.cmds
           k == IF e.skipped > 0 THEN 1 ELSE 0
<1>1. /\ e.skipped \in Nat /\ e.repeat \in BOOLEAN /\ e.color \in Colors
      /\ e.x1 \in Nat /\ e.y1 \in Nat /\ e.x2 \in Nat /\ e.y2 \in Nat
      /\ e.cmds \in Seq(Drawing)
  BY DEF LoopState
<1>2. /\ CMD_SKIP(e.skipped) \in Drawing /\ CMD_PUT_COLOR(c) \in Drawing
      /\ CMD_PUT_REPEAT(1) \in Drawing
      /\ CMD_PUT_REPEAT(1).cmd = "PUT_REPEAT"
  BY <1>1 DEF Drawing, Command, CMD_SKIP, CMD_PUT_COLOR, CMD_PUT_REPEAT
<1>3. /\ before \in Seq(Drawing)
      /\ Len(before) = Len(e.cmds) + k
  <2>1. /\ Append(e.cmds, CMD_SKIP(e.skipped)) \in Seq(Drawing)
        /\ Len(Append(e.cmds, CMD_SKIP(e.skipped))) = Len(e.cmds) + 1
    BY <1>1, <1>2, AppendCommand
  <2>2. Len(e.cmds) \in Nat
    BY <1>1
  <2>3. CASE e.skipped > 0
    BY <2>1, <2>3
  <2>4. CASE ~(e.skipped > 0)
    <3>1. before = e.cmds
      BY <2>4
    <3> HIDE DEF before
    <3>2. Len(before) = Len(e.cmds) + 0
      BY <2>2, <3>1
    <3> QED
      BY <1>1, <2>4, <3>1, <3>2, Zenon
  <2> QED
    BY <2>3, <2>4
<1>4. /\ Emit(e, c) \in Seq(Drawing) /\ Len(Emit(e, c)) > 0
      /\ Len(Emit(e, c)) <= Len(before) + 1
      /\ c = e.color => Last(Emit(e, c)).cmd = "PUT_REPEAT"
  <2> HIDE DEF before
  <2>5. before \in Seq(Drawing)
    BY <1>3, Zenon
  <2>4. before \in Seq(Drawing) /\ Len(before) \in Nat
    BY ONLY <2>5
  <2>1. CASE c # e.color
    <3>1. Emit(e, c) = Append(before, CMD_PUT_COLOR(c))
      BY <2>1 DEF Emit, before
    <3>2. /\ Emit(e, c) \in Seq(Drawing)
          /\ Len(Emit(e, c)) = Len(before) + 1
          /\ Len(Emit(e, c)) > 0 /\ Len(before) \in Nat
      BY ONLY <1>2, <2>4, <3>1, AppendCommand
    <3>3. Len(Emit(e, c)) <= Len(before) + 1
      BY ONLY <3>2
    <3> QED
      BY <2>1, <3>2, <3>3, Zenon
  <2>2. CASE c = e.color /\ ~e.repeat
    <3>1. Emit(e, c) = Append(before, CMD_PUT_REPEAT(1))
      BY <2>2 DEF Emit, before
    <3>2. /\ Emit(e, c) \in Seq(Drawing)
          /\ Len(Emit(e, c)) = Len(before) + 1
          /\ Len(Emit(e, c)) > 0 /\ Len(before) \in Nat
          /\ Last(Emit(e, c)) = CMD_PUT_REPEAT(1)
      BY ONLY <1>2, <2>4, <3>1, AppendCommand
    <3>3. Len(Emit(e, c)) <= Len(before) + 1
      BY ONLY <3>2
    <3> QED
      BY <1>2, <3>2, <3>3, Zenon
  <2>3. CASE c = e.color /\ e.repeat
    <3> DEFINE n == Len(e.cmds)
               m == e.cmds[n]
    <3>1. before = e.cmds /\ m.cmd = "PUT_REPEAT" /\ n \in 1 .. n
      BY <1>1, <2>3 DEF Countable, before, Last
    <3>2. m \in Drawing
      BY <1>1, <3>1
    <3>3. m \in [cmd : {"SKIP", "PUT_REPEAT"}, count : Nat]
      BY <3>1, <3>2 DEF Drawing, Command
    <3>4. [m EXCEPT !.count = @ + 1] \in [cmd : {"SKIP", "PUT_REPEAT"}, count : Nat]
      BY <3>3
    <3>5. [m EXCEPT !.count = @ + 1].cmd = "PUT_REPEAT"
      BY <3>1, <3>3
    <3>6. [m EXCEPT !.count = @ + 1] \in Drawing
      BY <3>4, <3>5 DEF Drawing, Command
    <3>7. Emit(e, c) = [e.cmds EXCEPT ![n] = [m EXCEPT !.count = @ + 1]]
      BY <2>3, <3>1 DEF Emit, before
    <3> HIDE DEF m
    <3>8. /\ Emit(e, c) \in Seq(Drawing) /\ Len(Emit(e, c)) = n
          /\ Emit(e, c)[n] = [m EXCEPT !.count = @ + 1]
      BY <1>1, <3>1, <3>6, <3>7
    <3> QED
      BY <3>1, <3>5, <3>8 DEF Last
  <2> QED
    BY <1>1, <2>1, <2>2, <2>3
<1>5. /\ Lower(e.x1, q[1]) \in Nat /\ Lower(e.y1, q[2]) \in Nat
      /\ Higher(e.x2, q[1]) \in Nat /\ Higher(e.y2, q[2]) \in Nat
  <2>1. q[1] \in Nat /\ q[2] \in Nat
    BY ScreenAssumption DEF Pixel
  <2> QED
    BY <1>1, <2>1 DEF Lower, Higher
<1> DEFINE f == ChangedPixel(e, q, c)
<1>6. /\ f = [skipped |-> 0, repeat |-> c = e.color, color |-> c,
              x1 |-> Lower(e.x1, q[1]), y1 |-> Lower(e.y1, q[2]),
              x2 |-> Higher(e.x2, q[1]), y2 |-> Higher(e.y2, q[2]),
              cmds |-> Emit(e, c)]
      /\ (c = e.color) \in BOOLEAN
  BY DEF ChangedPixel
<1>7. f \in LoopState(Drawing)
  BY <1>4, <1>5, <1>6 DEF LoopState
<1>8. Len(f.cmds) <= Len(e.cmds) + 1 + k
  <2>1. f.cmds = Emit(e, c)
    BY <1>6
  <2>2. Len(e.cmds) \in Nat /\ Len(Emit(e, c)) \in Nat
    BY <1>1, <1>4
  <2>3. k \in Nat
    OBVIOUS
  <2> HIDE DEF f, before, k
  <2> QED
    BY ONLY <1>3, <1>4, <2>1, <2>2, <2>3
<1>9. /\ f.skipped = 0 /\ f.color = c
      /\ f.repeat = (c = e.color) /\ f.cmds = Emit(e, c)
      /\ f.x1 = Lower(e.x1, q[1])  /\ f.y1 = Lower(e.y1, q[2])
      /\ f.x2 = Higher(e.x2, q[1]) /\ f.y2 = Higher(e.y2, q[2])
  BY <1>6
<1> HIDE DEF f
<1>10. Countable(f)
  BY <1>4, <1>9, Zenon DEF Countable
<1> QED
  BY <1>7, <1>8, <1>9, <1>10, Zenon DEF f

\* Skipping adds to what is skipped, ends a repetition and does no more.
LEMMA SkipMoreState ==
    ASSUME NEW e \in LoopState(Drawing), NEW n \in Nat
    PROVE  LET f == SkipMore(e, n)
           IN  /\ f \in LoopState(Drawing) /\ f.skipped = e.skipped + n /\ ~f.repeat
               /\ f.color = e.color /\ f.cmds = e.cmds
               /\ f.x1 = e.x1 /\ f.y1 = e.y1 /\ f.x2 = e.x2 /\ f.y2 = e.y2
<1> DEFINE f == SkipMore(e, n)
<1>1. e.skipped \in Nat
  BY DEF LoopState
<1>2. /\ f.skipped = e.skipped + n /\ f.repeat = FALSE
      /\ f.color = e.color /\ f.cmds = e.cmds
      /\ f.x1 = e.x1 /\ f.y1 = e.y1 /\ f.x2 = e.x2 /\ f.y2 = e.y2
  BY DEF SkipMore, LoopState
<1>3. f \in LoopState(Drawing)
  <2>1. e.skipped + n \in Nat
    BY <1>1
  <2> QED
    BY <2>1 DEF SkipMore, LoopState
<1> QED
  BY <1>2, <1>3

\* At the end of a row the loop counts the rest of the line as passed over,
\* and changes nothing else but is_repeat_before.
LEMMA EndOfLineState ==
    ASSUME NEW e \in LoopState(Drawing), NEW r, NEW p, Jump(r, p) \in Nat
    PROVE  LET f == EndOfLine(e, r, p)
           IN  /\ f \in LoopState(Drawing) /\ f.skipped = e.skipped + Jump(r, p)
               /\ f.repeat => e.repeat /\ Jump(r, p) = 0
               /\ f.color = e.color /\ f.cmds = e.cmds
               /\ f.x1 = e.x1 /\ f.y1 = e.y1 /\ f.x2 = e.x2 /\ f.y2 = e.y2
<1>1. CASE p[1] = Right(r) - 1 /\ LineSkip(r) > 0
  <2>1. /\ EndOfLine(e, r, p) = SkipMore(e, LineSkip(r))
        /\ Jump(r, p) = LineSkip(r) /\ LineSkip(r) \in Nat
    BY <1>1 DEF EndOfLine, Jump
  <2> QED
    BY <2>1, SkipMoreState
<1>2. CASE ~(p[1] = Right(r) - 1 /\ LineSkip(r) > 0)
  <2>1. EndOfLine(e, r, p) = e /\ Jump(r, p) = 0
    BY <1>2 DEF EndOfLine, Jump
  <2>2. e.skipped \in Nat
    BY DEF LoopState
  <2> QED
    BY <2>1, <2>2
<1> QED
  BY <1>1, <1>2

-----------------------------------------------------------------------------
(* The loop counters.                                                      *)

\* The next position is one further, and the rest of the line at the end of
\* a row; the positions passed are those passed before and the last one.
LEMMA AdvanceMoves ==
    ASSUME NEW r \in Region, OnScreen(r),
           NEW p \in (r.left .. Right(r) - 1) \X (r.top .. Bottom(r)),
           p[2] < Bottom(r)
    PROVE  /\ Jump(r, p) \in Nat
           /\ Advance(r, p) \in (r.left .. Right(r) - 1)
                             \X (r.top .. Bottom(r))
           /\ Offset(Advance(r, p)) = Offset(p) + 1 + Jump(r, p)
           /\ p \in Cells(r) /\ p \in Pixel
           /\ p[1] = W - 1 /\ p[2] = H - 1 => Advance(r, p)[2] = Bottom(r)
           /\ \A q \in Cells(r) :
                 Before(q, Advance(r, p)) <=> Before(q, p) \/ q = p
<1> DEFINE left == r.left   right == Right(r)
           top  == r.top    bottom == Bottom(r)
<1>1. /\ left \in Nat /\ top \in Nat /\ right \in Nat /\ bottom \in Nat
      /\ right <= W /\ bottom <= H /\ left < right /\ top < bottom
      /\ right = left + r.width
      /\ LineSkip(r) = W - (right - left) /\ LineSkip(r) \in Nat
  BY ScreenAssumption
     DEF Region, OnScreen, Right, Bottom, LineSkip
<1>2. /\ p = <<p[1], p[2]>> /\ p[1] \in left .. right - 1
      /\ p[2] \in top .. bottom - 1 /\ p[1] \in Nat /\ p[2] \in Nat
  BY <1>1
<1>3. /\ p[1] + 1 = right => Advance(r, p) = <<left, p[2] + 1>>
      /\ p[1] + 1 # right => Advance(r, p) = <<p[1] + 1, p[2]>>
  BY DEF Advance
<1>4. Jump(r, p) = IF p[1] + 1 = right THEN W - (right - left) ELSE 0
  BY <1>1, <1>2 DEF Jump
<1>5. p \in Cells(r)
  BY <1>1, <1>2 DEF Cells
<1>6. p \in Pixel
  BY <1>1, <1>2, ScreenAssumption DEF Pixel
<1>7. p[1] = W - 1 /\ p[2] = H - 1 => Advance(r, p)[2] = bottom
  BY <1>1, <1>2, <1>3, ScreenAssumption
<1> HIDE DEF left, right, top, bottom
<1>8. Offset(Advance(r, p)) = Offset(p) + 1 + Jump(r, p)
  <2>1. CASE p[1] + 1 = right
    <3>1. (p[2] + 1) * W = p[2] * W + W
      BY <1>2, ScreenAssumption, SMT
    <3>2. p[2] * W \in Nat
      BY <1>2, ScreenAssumption
    <3>3. Offset(Advance(r, p)) = (p[2] + 1) * W + left
      BY <1>3, <2>1 DEF Offset
    <3>4. Offset(p) = p[2] * W + p[1]
      BY DEF Offset
    <3>5. Jump(r, p) = W - (right - left) /\ p[1] = right - 1
      BY <1>1, <1>2, <1>4, <2>1
    <3> DEFINE line == p[2] * W
    <3>6. /\ line \in Nat /\ Offset(p) = line + p[1]
          /\ Offset(Advance(r, p)) = line + W + left
      BY <3>1, <3>2, <3>3, <3>4
    <3> HIDE DEF line
    <3> QED
      BY ONLY <1>1, <1>2, <3>5, <3>6, ScreenAssumption
  <2>2. CASE p[1] + 1 # right
    <3>1. p[2] * W \in Nat
      BY <1>2, ScreenAssumption
    <3>2. Offset(Advance(r, p)) = p[2] * W + (p[1] + 1)
      BY <1>3, <2>2 DEF Offset
    <3> QED
      BY <1>2, <1>4, <2>2, <3>1, <3>2 DEF Offset
  <2> QED
    BY <2>1, <2>2
<1>9. \A q \in Cells(r) :
         Before(q, Advance(r, p)) <=> Before(q, p) \/ q = p
  <2> SUFFICES ASSUME NEW q \in Cells(r)
               PROVE  Before(q, Advance(r, p)) <=> Before(q, p) \/ q = p
    OBVIOUS
  <2>1. /\ q = <<q[1], q[2]>> /\ q[1] \in left .. right - 1
        /\ q[2] \in top .. bottom - 1
    BY DEF Cells, left, right, top, bottom
  <2>2. q = p <=> q[1] = p[1] /\ q[2] = p[2]
    BY <1>2, <2>1
  <2>3. CASE p[1] + 1 = right
    BY <1>1, <1>2, <1>3, <2>1, <2>2, <2>3 DEF Before
  <2>4. CASE p[1] + 1 # right
    BY <1>1, <1>2, <1>3, <2>1, <2>2, <2>4 DEF Before
  <2> QED
    BY <2>3, <2>4
<1>10. /\ Advance(r, p)[1] \in left .. right - 1 /\ Advance(r, p)[2] \in top .. bottom
       /\ Advance(r, p) = <<Advance(r, p)[1], Advance(r, p)[2]>>
  BY <1>1, <1>2, <1>3
<1>11. Jump(r, p) \in Nat
  BY <1>1, <1>4 DEF LineSkip
<1> QED
  BY <1>5, <1>6, <1>7, <1>8, <1>9, <1>10, <1>11 DEF left, right, top, bottom

-----------------------------------------------------------------------------
(* Decoding undoes encoding.                                               *)

\* One more pixel of a colour that repeats is counted in the last command.
LEMMA EmitCounts ==
    ASSUME NEW e \in LoopState(Drawing), Countable(e), NEW c \in Colors,
           c = e.color, e.repeat
    PROVE  /\ e.skipped = 0
           /\ \E s \in Seq(Drawing), l \in Drawing, m \in Drawing :
                 /\ e.cmds = Append(s, l) /\ Emit(e, c) = Append(s, m)
                 /\ l.cmd = "PUT_REPEAT" /\ m.cmd = "PUT_REPEAT"
                 /\ l.count \in Nat /\ m.count = l.count + 1
<1>0. e.cmds \in Seq(Drawing) /\ Drawing \subseteq Harmless
  BY DEF LoopState, Drawing, Harmless
<1>1. /\ e.skipped = 0 /\ Len(e.cmds) > 0 /\ e.cmds # <<>>
      /\ Last(e.cmds).cmd = "PUT_REPEAT"
  BY DEF Countable
<1>2. PICK s \in Seq(Drawing), l \in Drawing : e.cmds = Append(s, l)
  BY <1>0, <1>1, SequenceEmptyOrAppend
<1> DEFINE n == Len(s)
           m == [l EXCEPT !.count = @ + 1]
<1>3. /\ n \in Nat /\ Len(e.cmds) = n + 1 /\ e.cmds[n + 1] = l
      /\ \A k \in 1 .. n : e.cmds[k] = s[k]
  BY <1>2, AppendProperties
<1>4. l.cmd = "PUT_REPEAT" /\ l.count \in Nat
  BY <1>1, <1>3, HarmlessKinds, <1>0 DEF Last
<1>5. /\ m \in Drawing /\ m.cmd = "PUT_REPEAT" /\ m.count = l.count + 1
  <2>1. l \in [cmd : {"SKIP", "PUT_REPEAT"}, count : Nat]
    BY <1>4 DEF Drawing, Command
  <2>2. m \in [cmd : {"SKIP", "PUT_REPEAT"}, count : Nat]
    BY <2>1
  <2>3. m.cmd = "PUT_REPEAT" /\ m.count = l.count + 1
    BY <1>4, <2>1
  <2> QED
    BY <2>2, <2>3 DEF Drawing, Command
<1>6. Emit(e, c) = Append(s, m)
  <2>1. Emit(e, c) = [e.cmds EXCEPT ![n + 1] = m]
    BY <1>1, <1>3 DEF Emit
  <2> HIDE DEF m
  <2> DEFINE u == [e.cmds EXCEPT ![n + 1] = m]
             v == Append(s, m)
  <2>2. n + 1 \in 1 .. Len(e.cmds)
    BY <1>3
  <2>3. /\ u \in Seq(Drawing) /\ Len(u) = n + 1
        /\ \A k \in 1 .. n + 1 : u[k] = IF k = n + 1 THEN m ELSE e.cmds[k]
    BY <1>0, <1>3, <1>5, <2>2, ExceptSeq
  <2>4. /\ v \in Seq(Drawing) /\ Len(v) = n + 1 /\ v[n + 1] = m
        /\ \A k \in 1 .. n : v[k] = s[k]
    BY <1>2, <1>5, AppendProperties
  <2> HIDE DEF u, v, n
  <2>5. \A k \in 1 .. n + 1 : u[k] = v[k]
    BY <1>3, <2>3, <2>4
  <2>6. u = v
    BY <2>3, <2>4, <2>5, SeqEqual
  <2> QED
    BY <2>1, <2>6 DEF u, v
<1> HIDE DEF m
<1> QED
  BY <1>1, <1>2, <1>4, <1>5, <1>6

\* The commands that a pixel adds to the buffer draw that pixel: the reader
\* that executes the longer buffer is the one that executed the shorter one
\* and then follows.
LEMMA EmitFollows ==
    ASSUME NEW e \in LoopState(Drawing), Countable(e), NEW c \in Colors,
           NEW r \in Registers
    PROVE  ApplyAll(r, Emit(e, c)) = Follow(ApplyAll(r, e.cmds), e, c)
<1> DEFINE before == IF e.skipped > 0 THEN Append(e.cmds, CMD_SKIP(e.skipped))
                                      ELSE e.cmds
           rd == ApplyAll(r, e.cmds)
           at == IF e.skipped > 0 THEN SkipPixels(rd, e.skipped) ELSE rd
           ac == [at EXCEPT !.color = IF c # e.color THEN c ELSE @]
<1>1. /\ e.skipped \in Nat /\ e.repeat \in BOOLEAN /\ e.cmds \in Seq(Drawing)
  BY DEF LoopState
<1>2. Drawing \subseteq Harmless
  BY DEF Drawing, Harmless
<1>3. /\ CMD_SKIP(e.skipped) \in Drawing /\ CMD_PUT_COLOR(c) \in Drawing
      /\ CMD_PUT_REPEAT(1) \in Drawing
      /\ CMD_SKIP(e.skipped).cmd = "SKIP"
      /\ CMD_SKIP(e.skipped).count = e.skipped
      /\ CMD_PUT_COLOR(c).cmd = "PUT_COLOR" /\ CMD_PUT_COLOR(c).color = c
      /\ CMD_PUT_REPEAT(1).cmd = "PUT_REPEAT" /\ CMD_PUT_REPEAT(1).count = 1
  BY <1>1 DEF Drawing, Command, CMD_SKIP, CMD_PUT_COLOR, CMD_PUT_REPEAT
<1>4. e.cmds \in Seq(Harmless) /\ rd \in Registers
  <2>1. e.cmds \in Seq(Harmless)
    BY <1>1, <1>2, SeqMonotonic
  <2> QED
    BY <2>1, ApplyAllAppend
<1>5. /\ before \in Seq(Harmless) /\ ApplyAll(r, before) = at
      /\ at \in Registers
  <2>1. CASE e.skipped > 0
    <3>1. /\ CMD_SKIP(e.skipped) \in Harmless
          /\ before = Append(e.cmds, CMD_SKIP(e.skipped))
          /\ at = SkipPixels(rd, e.skipped)
      BY <1>2, <1>3, <2>1
    <3>2. /\ Apply(rd, CMD_SKIP(e.skipped)) = SkipPixels(rd, e.skipped)
          /\ Apply(rd, CMD_SKIP(e.skipped)) \in Registers
      BY <1>3, <1>4, <3>1, ApplyType
    <3>3. before \in Seq(Harmless)
      BY <1>4, <3>1, AppendProperties
    <3>4. ApplyAll(r, before) = Apply(rd, CMD_SKIP(e.skipped))
      BY <1>4, <3>1, ApplyAllAppend
    <3> QED
      BY <3>1, <3>2, <3>3, <3>4
  <2>2. CASE ~(e.skipped > 0)
    BY <1>4, <2>2
  <2> QED
    BY <2>1, <2>2
<1>6. Follow(rd, e, c) = PutPixel(ac)
  BY DEF Follow
<1> HIDE DEF before, at, rd
<1>7. CASE c # e.color
  <2>1. Emit(e, c) = Append(before, CMD_PUT_COLOR(c))
    BY <1>7 DEF Emit, before
  <2>2. ApplyAll(r, Emit(e, c)) = Apply(at, CMD_PUT_COLOR(c))
    BY <1>2, <1>3, <1>5, <2>1, ApplyAllAppend
  <2>3. Apply(at, CMD_PUT_COLOR(c)) = PutPixel([at EXCEPT !.color = c])
    BY <1>2, <1>3, <1>5, ApplyType
  <2> QED
    BY <1>6, <1>7, <2>2, <2>3 DEF rd
<1>8. ASSUME c = e.color PROVE Follow(rd, e, c) = PutPixel(at)
  <2>1. ac = at
    BY <1>5, <1>8 DEF Registers
  <2> QED
    BY <1>6, <2>1
<1>9. CASE c = e.color /\ ~e.repeat
  <2>1. Emit(e, c) = Append(before, CMD_PUT_REPEAT(1))
    BY <1>9 DEF Emit, before
  <2>2. ApplyAll(r, Emit(e, c)) = Apply(at, CMD_PUT_REPEAT(1))
    BY <1>2, <1>3, <1>5, <2>1, ApplyAllAppend
  <2>3. Apply(at, CMD_PUT_REPEAT(1)) = Repeat(at, 1)
    BY <1>2, <1>3, <1>5, ApplyType
  <2>4. Repeat(at, 1) = PutPixel(at)
    <3>1. Repeat(at, 0) = at /\ Repeat(at, 0 + 1) = PutPixel(Repeat(at, 0))
      BY <1>5, RepeatNext
    <3> QED
      BY <3>1
  <2> QED
    BY <1>8, <1>9, <2>2, <2>3, <2>4 DEF rd
<1>10. CASE c = e.color /\ e.repeat
  <2>1. e.skipped = 0
    BY <1>10, EmitCounts
  <2>2. PICK s \in Seq(Drawing), l \in Drawing, m \in Drawing :
           /\ e.cmds = Append(s, l) /\ Emit(e, c) = Append(s, m)
           /\ l.cmd = "PUT_REPEAT" /\ m.cmd = "PUT_REPEAT"
           /\ l.count \in Nat /\ m.count = l.count + 1
    BY <1>10, EmitCounts
  <2> DEFINE a == ApplyAll(r, s)
  <2>7. s \in Seq(Harmless) /\ l \in Harmless /\ m \in Harmless
    BY <1>2, SeqMonotonic
  <2>8. /\ a \in Registers /\ rd = Apply(a, l)
        /\ ApplyAll(r, Emit(e, c)) = Apply(a, m)
    BY <2>2, <2>7, ApplyAllAppend DEF rd
  <2> HIDE DEF a
  <2>9. Apply(a, l) = Repeat(a, l.count) /\ Apply(a, m) = Repeat(a, l.count + 1)
    <3>1. Apply(a, l) = Repeat(a, l.count)
      BY <2>2, <2>7, <2>8, ApplyType
    <3>2. Apply(a, m) = Repeat(a, m.count)
      BY <2>2, <2>7, <2>8, ApplyType
    <3> QED
      BY <2>2, <3>1, <3>2
  <2>10. Repeat(a, l.count + 1) = PutPixel(Repeat(a, l.count))
    BY <2>2, <2>8, RepeatNext
  <2>11. at = rd
    BY <2>1 DEF at
  <2>12. Repeat(a, l.count) = rd
    BY <2>8, <2>9
  <2>13. Follow(rd, e, c) = PutPixel(rd)
    BY <1>8, <1>10, <2>11
  <2> QED
    BY <2>8, <2>9, <2>10, <2>12, <2>13 DEF rd
<1> QED
  BY <1>1, <1>7, <1>9, <1>10

-----------------------------------------------------------------------------
(* Command by command.                                                     *)

\* The states a reader goes through while it executes a sequence.
IsExecution(h, r, s) ==
    /\ h \in [0 .. Len(s) -> Registers] /\ h[0] = r
    /\ \A k \in 1 .. Len(s) : h[k] = Apply(h[k - 1], s[k])

\* In none of them another colour is drawn at a position of Q.
Keeps(r, s, Q) ==
    \E h : /\ IsExecution(h, r, s)
           /\ \A k \in 0 .. Len(s), q \in Q : h[k].fb[q] = r.fb[q]

\* The last of these states is that of ApplyAll.
LEMMA ExecutionEnds ==
    ASSUME NEW r \in Registers, NEW s \in Seq(Harmless), NEW h,
           IsExecution(h, r, s)
    PROVE  h[Len(s)] = ApplyAll(r, s)
<1>1. PICK a \in [0 .. Len(s) -> Registers] :
         /\ a[0] = r /\ \A k \in 1 .. Len(s) : a[k] = Apply(a[k - 1], s[k])
         /\ ApplyAll(r, s) = a[Len(s)]
  BY ApplyAllRun
<1> DEFINE n == Len(s)
           Same == {k \in 0 .. n : h[k] = a[k]}
<1>2. n \in Nat
  OBVIOUS
<1> HIDE DEF n
<1>3. 0 \in Same
  BY <1>1, <1>2 DEF IsExecution
<1>4. ASSUME NEW k \in 0 .. n - 1, k \in Same PROVE k + 1 \in Same
  <2>1. k + 1 \in 1 .. n /\ (k + 1) - 1 = k /\ k + 1 \in 0 .. n
    BY <1>2
  <2>2. h[k + 1] = a[k + 1]
    BY <1>1, <1>4, <2>1 DEF IsExecution, n
  <2> QED
    BY <2>1, <2>2
<1>5. \A k \in 0 .. n : k \in Same
  <2> HIDE DEF Same
  <2> QED
    BY <1>2, <1>3, <1>4, CountUp
<1> QED
  BY <1>1, <1>2, <1>5 DEF n

\* A longer sequence has the states of the shorter one and one more.
LEMMA ExecutionGrows ==
    ASSUME NEW r \in Registers, NEW s \in Seq(Harmless), NEW h,
           IsExecution(h, r, s), NEW c \in Harmless
    PROVE  IsExecution([k \in 0 .. Len(s) + 1 |->
                            IF k \in 0 .. Len(s) THEN h[k]
                            ELSE Apply(h[Len(s)], c)], r, Append(s, c))
<1> DEFINE n == Len(s)
           t == Append(s, c)
           f == [k \in 0 .. n + 1 |-> IF k \in 0 .. n THEN h[k]
                                      ELSE Apply(h[n], c)]
<1>1. /\ n \in Nat /\ t \in Seq(Harmless) /\ Len(t) = n + 1 /\ t[n + 1] = c
      /\ \A k \in 1 .. n : t[k] = s[k]
  BY AppendProperties
<1>2. /\ h \in [0 .. n -> Registers] /\ h[0] = r
      /\ \A k \in 1 .. n : h[k] = Apply(h[k - 1], s[k])
  BY DEF IsExecution
<1> HIDE DEF n, t
<1>3. h[n] \in Registers /\ Apply(h[n], c) \in Registers
  <2>1. h[n] \in Registers
    BY <1>1, <1>2
  <2> QED
    BY <2>1, ApplyType
<1>4. f \in [0 .. n + 1 -> Registers] /\ f[0] = r
  BY <1>1, <1>2, <1>3
<1>5. ASSUME NEW k \in 1 .. n + 1 PROVE f[k] = Apply(f[k - 1], t[k])
  <2>1. CASE k \in 1 .. n
    <3>1. k \in 0 .. n /\ k - 1 \in 0 .. n /\ k - 1 \in 0 .. n + 1
      BY <1>1, <2>1
    <3> QED
      BY <1>1, <1>2, <2>1, <3>1
  <2>2. CASE k = n + 1
    <3>1. k \notin 0 .. n /\ k - 1 = n /\ n \in 0 .. n /\ n \in 0 .. n + 1
      BY <1>1, <2>2
    <3> QED
      BY <1>1, <2>2, <3>1
  <2> QED
    BY <1>1, <2>1, <2>2
<1> HIDE DEF f
<1>6. IsExecution(f, r, t)
  BY <1>1, <1>4, <1>5 DEF IsExecution
<1> QED
  BY <1>6 DEF f, n, t

\* What is kept, command by command.
LEMMA KeepsSteps ==
    ASSUME NEW r \in Registers, NEW s \in Seq(Harmless), NEW Q
    PROVE  /\ Keeps(r, <<>>, Q)
           /\ \A c \in Harmless : Keeps(r, Append(s, c), Q) => Keeps(r, s, Q)
           /\ \A c \in Harmless :
                 /\ Keeps(r, s, Q)
                 /\ \A q \in Q : ApplyAll(r, Append(s, c)).fb[q] = r.fb[q]
                 => Keeps(r, Append(s, c), Q)
<1> DEFINE n == Len(s)
<1>0. n \in Nat
  OBVIOUS
<1>1. Keeps(r, <<>>, Q)
  <2> DEFINE h == [k \in 0 .. 0 |-> r]
  <2>1. Len(<<>>) = 0 /\ 0 \in 0 .. 0 /\ \A k \in 0 .. 0 : k = 0
    OBVIOUS
  <2>2. IsExecution(h, r, <<>>)
    BY <2>1 DEF IsExecution
  <2> QED
    BY <2>1, <2>2 DEF Keeps
<1>2. ASSUME NEW c \in Harmless, Keeps(r, Append(s, c), Q) PROVE Keeps(r, s, Q)
  <2> DEFINE t == Append(s, c)
  <2>1. /\ Len(t) = n + 1 /\ \A k \in 1 .. n : t[k] = s[k]
    BY AppendProperties
  <2>2. PICK h : /\ IsExecution(h, r, t)
                 /\ \A k \in 0 .. Len(t), q \in Q : h[k].fb[q] = r.fb[q]
    BY <1>2 DEF Keeps
  <2> HIDE DEF n, t
  <2>3. /\ h \in [0 .. n + 1 -> Registers] /\ h[0] = r
        /\ \A k \in 1 .. n + 1 : h[k] = Apply(h[k - 1], t[k])
        /\ \A k \in 0 .. n + 1, q \in Q : h[k].fb[q] = r.fb[q]
    BY <2>1, <2>2 DEF IsExecution
  <2> DEFINE f == [k \in 0 .. n |-> h[k]]
  <2>4. f \in [0 .. n -> Registers] /\ f[0] = r
    BY <1>0, <2>3
  <2>5. ASSUME NEW k \in 1 .. n PROVE f[k] = Apply(f[k - 1], s[k])
    <3>1. k \in 0 .. n /\ k - 1 \in 0 .. n /\ k \in 1 .. n + 1
      BY <1>0
    <3> QED
      BY <2>1, <2>3, <3>1
  <2>6. \A k \in 0 .. n, q \in Q : f[k].fb[q] = r.fb[q]
    <3>1. \A k \in 0 .. n : k \in 0 .. n + 1
      BY <1>0
    <3> QED
      BY <2>3, <3>1
  <2> HIDE DEF f
  <2>7. IsExecution(f, r, s)
    BY <2>4, <2>5 DEF IsExecution, n
  <2> QED
    BY <2>6, <2>7 DEF Keeps, n
<1>3. ASSUME NEW c \in Harmless, Keeps(r, s, Q),
             \A q \in Q : ApplyAll(r, Append(s, c)).fb[q] = r.fb[q]
      PROVE  Keeps(r, Append(s, c), Q)
  <2> DEFINE t == Append(s, c)
  <2>1. PICK h : /\ IsExecution(h, r, s)
                 /\ \A k \in 0 .. n, q \in Q : h[k].fb[q] = r.fb[q]
    BY <1>3 DEF Keeps
  <2> DEFINE f == [k \in 0 .. n + 1 |-> IF k \in 0 .. n THEN h[k]
                                        ELSE Apply(h[n], c)]
  <2>2. IsExecution(f, r, t) /\ t \in Seq(Harmless) /\ Len(t) = n + 1
    BY <2>1, ExecutionGrows, AppendProperties
  <2>3. f[n + 1] = ApplyAll(r, t)
    <3> HIDE DEF f, t
    <3>1. f[Len(t)] = ApplyAll(r, t)
      BY <2>2, ExecutionEnds
    <3> QED
      BY <2>2, <3>1
  <2>4. \A k \in 0 .. n : f[k] = h[k] /\ k \in 0 .. n + 1
    BY <1>0
  <2> HIDE DEF f, n
  <2>5. ASSUME NEW k \in 0 .. n + 1, NEW q \in Q PROVE f[k].fb[q] = r.fb[q]
    <3>1. CASE k \in 0 .. n
      BY <2>1, <2>4, <3>1
    <3>2. CASE k = n + 1
      BY <1>3, <2>3, <3>2
    <3> QED
      BY <1>0, <3>1, <3>2
  <2> QED
    BY <2>2, <2>5 DEF Keeps
<1> QED
  BY <1>1, <1>2, <1>3

\* What a pixel adds to the buffer keeps, on the way, what it keeps in the end.
LEMMA EmitKeeps ==
    ASSUME NEW e \in LoopState(Drawing), Countable(e), NEW c \in Colors,
           NEW r \in Registers, NEW Q, Q \subseteq Pixel, Keeps(r, e.cmds, Q),
           \A q \in Q : /\ ApplyAll(r, e.cmds).fb[q] = r.fb[q]
                        /\ ApplyAll(r, Emit(e, c)).fb[q] = r.fb[q]
    PROVE  Keeps(r, Emit(e, c), Q)
<1> DEFINE before == IF e.skipped > 0 THEN Append(e.cmds, CMD_SKIP(e.skipped))
                                      ELSE e.cmds
<1>1. /\ e.skipped \in Nat /\ e.cmds \in Seq(Drawing)
      /\ e.cmds \in Seq(Harmless) /\ Drawing \subseteq Harmless
  <2>1. e.cmds \in Seq(Drawing) /\ Drawing \subseteq Harmless
    BY DEF LoopState, Drawing, Harmless
  <2> QED
    BY <2>1, SeqMonotonic DEF LoopState
<1>2. before \in Seq(Harmless) /\ Keeps(r, before, Q)
  <2>1. CASE e.skipped > 0
    <3> DEFINE s == CMD_SKIP(e.skipped)
               rd == ApplyAll(r, e.cmds)
    <3>1. s \in Harmless /\ s.cmd = "SKIP" /\ s.count = e.skipped
      BY <1>1 DEF Harmless, Command, CMD_SKIP
    <3> HIDE DEF s
    <3>2. rd \in Registers /\ ApplyAll(r, Append(e.cmds, s)) = Apply(rd, s)
      BY <1>1, <3>1, ApplyAllAppend
    <3> HIDE DEF rd
    <3>3. Apply(rd, s) = SkipPixels(rd, e.skipped)
      <4>1. Apply(rd, s) = SkipPixels(rd, s.count)
        BY <3>1, <3>2, ApplyType
      <4> QED
        BY <3>1, <4>1
    <3>4. SkipPixels(rd, e.skipped).fb = rd.fb
      BY <3>2 DEF SkipPixels, Registers
    <3>5. \A q \in Q : ApplyAll(r, Append(e.cmds, s)).fb[q] = r.fb[q]
      BY <3>2, <3>3, <3>4 DEF rd
    <3>6. Keeps(r, Append(e.cmds, s), Q) /\ Append(e.cmds, s) \in Seq(Harmless)
      BY <1>1, <3>1, <3>5, KeepsSteps, AppendProperties
    <3> QED
      BY <2>1, <3>6 DEF s
  <2>2. CASE ~(e.skipped > 0)
    BY <1>1, <2>2
  <2> QED
    BY <2>1, <2>2
<1> HIDE DEF before
<1>3. CASE ~(c = e.color /\ e.repeat)
  <2> DEFINE x == IF c # e.color THEN CMD_PUT_COLOR(c) ELSE CMD_PUT_REPEAT(1)
  <2>1. x \in Harmless
    BY DEF Harmless, Command, CMD_PUT_COLOR, CMD_PUT_REPEAT
  <2>2. Emit(e, c) = Append(before, x)
    BY <1>3 DEF Emit, before
  <2> HIDE DEF x
  <2> QED
    BY <1>2, <2>1, <2>2, KeepsSteps
<1>4. CASE c = e.color /\ e.repeat
  <2>1. PICK s \in Seq(Drawing), l \in Drawing, m \in Drawing :
           e.cmds = Append(s, l) /\ Emit(e, c) = Append(s, m)
    BY <1>4, EmitCounts
  <2>2. s \in Seq(Harmless) /\ l \in Harmless /\ m \in Harmless
    BY <1>1, <2>1, SeqMonotonic
  <2>3. Keeps(r, s, Q)
    BY <2>1, <2>2, KeepsSteps
  <2> QED
    BY <2>1, <2>2, <2>3, KeepsSteps
<1> QED
  BY <1>3, <1>4

-----------------------------------------------------------------------------
(* The invariant of the loop.                                              *)

\* It holds before the first pixel, once the reader has its position.
LEMMA LoopBegins ==
    ASSUME NEW m \in Call
    PROVE  LoopHolds(m, DiffStart(m.region, m.color),
                     <<m.region.left, m.region.top>>,
                     [m.reader EXCEPT !.x = m.region.left, !.y = m.region.top])
<1> DEFINE left == m.region.left   right == Right(m.region)
           top  == m.region.top    bottom == Bottom(m.region)
           p    == <<m.region.left, m.region.top>>
           d    == DiffStart(m.region, m.color)
           rd   == [m.reader EXCEPT !.x = m.region.left, !.y = m.region.top]
<1>1. /\ m.region \in Region /\ OnScreen(m.region) /\ m.color \in Colors
      /\ m.reader \in Registers
  BY CallTypes
<1>2. /\ left \in 0 .. W - 1 /\ top \in 0 .. H - 1
      /\ right \in Nat /\ bottom \in Nat
      /\ left < right /\ top < bottom /\ right <= W /\ bottom <= H
  BY <1>1, ScreenAssumption DEF Region, OnScreen, Right, Bottom
<1>5. /\ rd.x = left /\ rd.y = top /\ rd.color = m.reader.color
      /\ rd.fb = m.reader.fb /\ rd.panel = m.reader.panel
  BY <1>1 DEF Registers
<1>6. rd \in Registers
  <2>1. m.region.left \in Nat /\ m.region.top \in Nat
    BY <1>2
  <2>2. [m.reader EXCEPT !.x = m.region.left] \in Registers
    BY <1>1, <2>1 DEF Registers
  <2>3. [[m.reader EXCEPT !.x = m.region.left] EXCEPT !.y = m.region.top]
           \in Registers
    BY <2>1, <2>2 DEF Registers
  <2> QED
    BY <2>3
<1>7. /\ d.skipped = 0 /\ d.repeat = FALSE /\ d.color = m.color
      /\ d.x1 = right - 1 /\ d.y1 = bottom - 1 /\ d.x2 = left /\ d.y2 = top
      /\ d.cmds = <<CMD_RESET_POSITION(left, top)>>
  BY DEF DiffStart
<1>8. CMD_RESET_POSITION(left, top) \in Drawing
  BY <1>2 DEF Drawing, Command, CMD_RESET_POSITION
<1> HIDE DEF left, right, top, bottom
<1>9. /\ d.cmds \in Seq(Drawing) /\ Len(d.cmds) = 1
  BY <1>7, <1>8
<1>10. d \in LoopState(Drawing)
  <2>1. d.x1 \in Nat /\ d.y1 \in Nat /\ d.x2 \in Nat /\ d.y2 \in Nat
    BY <1>2, <1>7
  <2>2. d.skipped \in Nat /\ d.color \in Colors
    BY <1>1, <1>7
  <2>4. d.repeat \in BOOLEAN
    BY <1>7, Zenon
  <2>3. d = [skipped |-> d.skipped, repeat |-> d.repeat, color |-> d.color,
             x1 |-> d.x1, y1 |-> d.y1, x2 |-> d.x2, y2 |-> d.y2,
             cmds |-> d.cmds]
    BY DEF DiffStart
  <2> QED
    BY ONLY <1>9, <2>1, <2>2, <2>3, <2>4 DEF LoopState
<1>11. p[1] = left /\ p[2] = top
  BY DEF left, top
<1>12. p \in (left .. right - 1) \X (top .. bottom)
  BY <1>2 DEF left, top
<1> HIDE DEF p, d, rd
<1>13. LoopTypes(m, d, p, rd)
  BY <1>6, <1>10, <1>12 DEF LoopTypes, left, right, top, bottom
<1>14. InStep(m, d, p, rd)
  BY <1>2, <1>5, <1>7, <1>11, ScreenAssumption DEF InStep, Offset, bottom
<1>15. Countable(d)
  BY <1>7, <1>9 DEF Countable
<1>16. Done(m, p) = {}
  <2> SUFFICES ASSUME NEW q \in Cells(m.region) PROVE ~Before(q, p)
    BY DEF Done, ToDraw
  <2>1. q[1] \in left .. right - 1 /\ q[2] \in top .. bottom - 1
    BY DEF Cells, left, right, top, bottom
  <2> QED
    BY <1>2, <1>11, <2>1 DEF Before
<1>17. Boxed(m, d, p)
  BY <1>2, <1>7, <1>16 DEF Boxed, left, right, top, bottom
<1>18. Kept(m, d, rd) /\ Linked(m, d, rd) /\ Drawn(m, p, rd) /\ Spared(m, p, rd)
  BY <1>1, <1>5, <1>7, <1>16 DEF Kept, Linked, Drawn, Spared
<1>19. Short(m, d, p)
  <2>1. Offset(p) = Offset(<<m.region.left, m.region.top>>)
    BY DEF p
  <2>2. Offset(p) \in Nat
    BY <1>2, <1>11, ScreenAssumption DEF Offset
  <2> QED
    BY <1>7, <1>9, <2>1, <2>2 DEF Short
<1> QED
  BY <1>13, <1>14, <1>15, <1>17, <1>18, <1>19 DEF LoopHolds, p, d, rd

\* What the commands emitted for a changed pixel of colour c do to the
\* reader: it draws the pixel the loop is at, and is then at the next one.
LEMMA FollowDraws ==
    ASSUME NEW m \in Call, NEW d, NEW p, NEW rd,
           LoopTypes(m, d, p, rd), InStep(m, d, p, rd),
           p[2] < Bottom(m.region), NEW c \in Colors
    PROVE  LET f  == Follow(rd, d, c)
               rc == IF c # d.color THEN c ELSE rd.color
           IN  /\ f \in Registers
               /\ \A q \in Pixel : f.fb[q] = IF q = p THEN rc ELSE rd.fb[q]
               /\ f.color = rc /\ f.panel = rd.panel
               /\ f.x \in 0 .. W - 1 /\ f.y \in 0 .. H - 1
               /\ \/ p[1] = W - 1 /\ p[2] = H - 1
                  \/ f.y * W + f.x = Offset(p) + 1
<1> DEFINE at == IF d.skipped > 0 THEN SkipPixels(rd, d.skipped) ELSE rd
           rc == IF c # d.color THEN c ELSE rd.color
           ac == [at EXCEPT !.color = IF c # d.color THEN c ELSE @]
<1>1. /\ rd \in Registers /\ d.skipped \in Nat
      /\ p[1] \in 0 .. W - 1 /\ p[2] \in 0 .. H - 1
      /\ p[1] \in Nat /\ p[2] \in Nat /\ p = <<p[1], p[2]>>
      /\ rd.x \in Nat /\ rd.y \in Nat
  <2>1. /\ rd \in Registers /\ d.skipped \in Nat
        /\ m.region \in Region /\ OnScreen(m.region)
        /\ p \in (m.region.left .. Right(m.region) - 1)
                 \X (m.region.top .. Bottom(m.region))
    BY DEF Call, LoopTypes, LoopState
  <2>2. rd.x \in Nat /\ rd.y \in Nat
    BY <2>1 DEF Registers
  <2> QED
    BY <2>1, <2>2, ScreenAssumption DEF Region, OnScreen, Right, Bottom
<1>2. /\ rd.x \in 0 .. W - 1 /\ rd.y \in 0 .. H - 1
      /\ rd.y * W + rd.x + d.skipped = p[2] * W + p[1]
  BY DEF InStep, Offset
<1>3. /\ at \in Registers /\ at.x = p[1] /\ at.y = p[2]
      /\ at.fb = rd.fb /\ at.color = rd.color /\ at.panel = rd.panel
  <2>1. CASE d.skipped > 0
    <3>1. /\ (d.skipped + rd.x) % W = p[1]
          /\ rd.y + (d.skipped + rd.x) \div W = p[2]
      <4> DEFINE n == d.skipped   a == rd.x   b == rd.y
                 u == p[1]        v == p[2]
      <4>1. /\ W \in Nat \ {0} /\ n \in Nat
            /\ b \in Nat /\ a \in 0 .. W - 1 /\ v \in Nat /\ u \in 0 .. W - 1
            /\ b * W + a + n = v * W + u
        BY <1>1, <1>2, ScreenAssumption
      <4> HIDE DEF n, a, b, u, v
      <4>2. (n + a) % W = u /\ b + (n + a) \div W = v
        BY ONLY <4>1, SkipReaches
      <4> QED
        BY <4>2 DEF n, a, b, u, v
    <3>2. at = [rd EXCEPT !.x = p[1], !.y = p[2]]
      BY <2>1, <3>1 DEF SkipPixels
    <3> QED
      BY <1>1, <3>2 DEF Registers
  <2>2. CASE ~(d.skipped > 0)
    <3>1. rd.y * W + rd.x = p[2] * W + p[1]
      <4>1. d.skipped = 0
        BY <1>1, <2>2
      <4>2. rd.y * W + rd.x \in Nat
        BY <1>1, ScreenAssumption
      <4> QED
        BY <1>2, <4>1, <4>2
    <3>2. rd.x = p[1] /\ rd.y = p[2]
      BY <1>1, <1>2, <3>1, ScreenAssumption, SameOffset
    <3> QED
      BY <1>1, <2>2, <3>2
  <2> QED
    BY <2>1, <2>2
<1>4. /\ ac \in Registers /\ ac.x = p[1] /\ ac.y = p[2]
      /\ ac.fb = rd.fb /\ ac.color = rc /\ ac.panel = rd.panel
  BY <1>3 DEF Registers
<1>5. Follow(rd, d, c) = PutPixel(ac)
  BY DEF Follow
<1> HIDE DEF at, ac
<1>6. \A q \in Pixel : PutPixel(ac).fb[q] =
         IF q[1] = p[1] /\ q[2] = p[2] THEN rc ELSE rd.fb[q]
  BY <1>1, <1>4, PutPixelDraws
<1>7. \A q \in Pixel : (q = p) <=> (q[1] = p[1] /\ q[2] = p[2])
  BY <1>1 DEF Pixel
<1>8. /\ PutPixel(ac) \in Registers
      /\ PutPixel(ac).color = rc /\ PutPixel(ac).panel = rd.panel
      /\ PutPixel(ac).x \in 0 .. W - 1 /\ PutPixel(ac).y \in 0 .. H - 1
      /\ \/ p[1] = W - 1 /\ p[2] = H - 1
         \/ PutPixel(ac).y * W + PutPixel(ac).x = p[2] * W + p[1] + 1
  BY <1>1, <1>4, PutPixelDraws
<1> QED
  BY <1>5, <1>6, <1>7, <1>8 DEF Offset

\* What one iteration does, whichever way it goes: the pixel is drawn if it
\* changed, and either way the reader and what is skipped advance together.
Iteration(m, d, p, rd, d2, rd2) ==
    LET e  == m.prev[p] # m.next[p]
        rc == IF m.next[p] # d.color THEN m.next[p] ELSE rd.color
    IN  /\ d2 \in LoopState(Drawing) /\ rd2 \in Registers
        /\ rd2.panel = rd.panel
        /\ rd2.x \in 0 .. W - 1 /\ rd2.y \in 0 .. H - 1
        /\ Countable(d2)
        /\ e => /\ d2.skipped = Jump(m.region, p) /\ d2.color = m.next[p]
                /\ rd2.color = rc
                /\ \A q \in Pixel :
                      rd2.fb[q] = IF q = p THEN rc ELSE rd.fb[q]
                /\ \/ p[1] = W - 1 /\ p[2] = H - 1
                   \/ rd2.y * W + rd2.x = Offset(p) + 1
                /\ Len(d2.cmds) <= Len(d.cmds) + 1
                                   + (IF d.skipped > 0 THEN 1 ELSE 0)
                /\ d2.x1 = Lower(d.x1, p[1]) /\ d2.y1 = Lower(d.y1, p[2])
                /\ d2.x2 = Higher(d.x2, p[1]) /\ d2.y2 = Higher(d.y2, p[2])
        /\ ~e => /\ d2.skipped = d.skipped + 1 + Jump(m.region, p)
                 /\ rd2 = rd /\ d2.color = d.color /\ d2.cmds = d.cmds
                 /\ d2.x1 = d.x1 /\ d2.y1 = d.y1
                 /\ d2.x2 = d.x2 /\ d2.y2 = d.y2

LEMMA ScanStep ==
    ASSUME NEW m \in Call, NEW d, NEW p, NEW rd,
           LoopHolds(m, d, p, rd), p[2] < Bottom(m.region)
    PROVE  Iteration(m, d, p, rd, DiffPixel(d, m.region, m.prev, m.next, p),
                     Followed(m, d, p, rd))
<1> DEFINE d2  == DiffPixel(d, m.region, m.prev, m.next, p)
           rd2 == Followed(m, d, p, rd)
           rc == IF m.next[p] # d.color THEN m.next[p] ELSE rd.color
<1>1. /\ LoopTypes(m, d, p, rd) /\ InStep(m, d, p, rd)
      /\ d \in LoopState(Drawing) /\ rd \in Registers
      /\ m.region \in Region /\ OnScreen(m.region) /\ m.next \in Image
      /\ p \in (m.region.left .. Right(m.region) - 1)
               \X (m.region.top .. Bottom(m.region))
  BY CallTypes DEF LoopHolds, LoopTypes
<1>2. p \in Pixel /\ Jump(m.region, p) \in Nat /\ p[1] \in Nat /\ p[2] \in Nat
  BY <1>1, AdvanceMoves DEF Pixel
<1>3. m.next[p] \in Colors
  BY <1>1, <1>2 DEF Image
<1>4. /\ rd.x \in 0 .. W - 1 /\ rd.y \in 0 .. H - 1
      /\ Countable(d)
  BY <1>1 DEF LoopHolds, InStep
<1>5. CASE m.prev[p] # m.next[p]
  <2> DEFINE e == ChangedPixel(d, p, m.next[p])
             k == IF d.skipped > 0 THEN 1 ELSE 0
  <2>1. /\ e \in LoopState(Drawing) /\ e.skipped = 0 /\ e.color = m.next[p]
        /\ Countable(e) /\ Len(e.cmds) <= Len(d.cmds) + 1 + k
        /\ e.x1 = Lower(d.x1, p[1])  /\ e.y1 = Lower(d.y1, p[2])
        /\ e.x2 = Higher(d.x2, p[1]) /\ e.y2 = Higher(d.y2, p[2])
    BY <1>1, <1>2, <1>3, <1>4, ChangedPixelState
  <2>2. d2 = EndOfLine(e, m.region, p) /\ rd2 = Follow(rd, d, m.next[p])
    BY <1>5 DEF DiffPixel, Followed
  <2> HIDE DEF e, d2, rd2
  <2>3. /\ d2 \in LoopState(Drawing) /\ d2.skipped = e.skipped + Jump(m.region, p)
        /\ d2.repeat => e.repeat /\ Jump(m.region, p) = 0
        /\ d2.color = e.color /\ d2.cmds = e.cmds
        /\ d2.x1 = e.x1 /\ d2.y1 = e.y1 /\ d2.x2 = e.x2 /\ d2.y2 = e.y2
    BY <1>2, <2>1, <2>2, EndOfLineState
  <2>4. d2.skipped = Jump(m.region, p)
    BY <1>2, <2>1, <2>3
  <2>5. /\ rd2 \in Registers
        /\ \A q \in Pixel : rd2.fb[q] = IF q = p THEN rc ELSE rd.fb[q]
        /\ rd2.color = rc /\ rd2.panel = rd.panel
        /\ rd2.x \in 0 .. W - 1 /\ rd2.y \in 0 .. H - 1
        /\ \/ p[1] = W - 1 /\ p[2] = H - 1
           \/ rd2.y * W + rd2.x = Offset(p) + 1
    BY <1>1, <1>3, <2>2, FollowDraws
  <2>6. Countable(d2)
    BY <2>1, <2>3, <2>4 DEF Countable
  <2>7. Iteration(m, d, p, rd, d2, rd2)
    BY <1>5, <2>1, <2>3, <2>4, <2>5, <2>6 DEF Iteration
  <2> QED
    BY <2>7 DEF d2, rd2
<1>6. CASE m.prev[p] = m.next[p]
  <2> DEFINE e == SkipMore(d, 1)
  <2>1. /\ e \in LoopState(Drawing) /\ e.skipped = d.skipped + 1 /\ ~e.repeat
        /\ e.color = d.color /\ e.cmds = d.cmds
        /\ e.x1 = d.x1 /\ e.y1 = d.y1 /\ e.x2 = d.x2 /\ e.y2 = d.y2
    BY <1>1, SkipMoreState
  <2>2. d2 = EndOfLine(e, m.region, p) /\ rd2 = rd
    BY <1>6 DEF DiffPixel, Followed
  <2> HIDE DEF e, d2, rd2
  <2>3. /\ d2 \in LoopState(Drawing) /\ d2.skipped = e.skipped + Jump(m.region, p)
        /\ d2.repeat => e.repeat /\ Jump(m.region, p) = 0
        /\ d2.color = e.color /\ d2.cmds = e.cmds
        /\ d2.x1 = e.x1 /\ d2.y1 = e.y1 /\ d2.x2 = e.x2 /\ d2.y2 = e.y2
    BY <1>2, <2>1, <2>2, EndOfLineState
  <2>4. Countable(d2)
    BY <1>4, <2>1, <2>3 DEF Countable
  <2>5. d2.skipped = d.skipped + 1 + Jump(m.region, p)
    BY <2>1, <2>3
  <2>7. Iteration(m, d, p, rd, d2, rd2)
    BY <1>1, <1>4, <1>6, <2>1, <2>2, <2>3, <2>4, <2>5 DEF Iteration
  <2> QED
    BY <2>7 DEF d2, rd2
<1> QED
  BY <1>5, <1>6

\* One iteration preserves it.
LEMMA LoopGoesOn ==
    ASSUME NEW m \in Call, NEW d, NEW p, NEW rd,
           LoopHolds(m, d, p, rd), p[2] < Bottom(m.region)
    PROVE  LoopHolds(m, DiffPixel(d, m.region, m.prev, m.next, p),
                     Advance(m.region, p), Followed(m, d, p, rd))
<1> DEFINE d2  == DiffPixel(d, m.region, m.prev, m.next, p)
           p2  == Advance(m.region, p)
           rd2 == Followed(m, d, p, rd)
           changed == m.prev[p] # m.next[p]
           rc == IF m.next[p] # d.color THEN m.next[p] ELSE rd.color
<1>1. /\ LoopTypes(m, d, p, rd) /\ InStep(m, d, p, rd) /\ Countable(d)
      /\ Boxed(m, d, p) /\ Kept(m, d, rd) /\ Linked(m, d, rd)
      /\ Drawn(m, p, rd) /\ Spared(m, p, rd) /\ Short(m, d, p)
      /\ m.region \in Region /\ OnScreen(m.region)
      /\ p \in (m.region.left .. Right(m.region) - 1)
               \X (m.region.top .. Bottom(m.region))
  BY CallTypes DEF LoopHolds, LoopTypes
<1>2. /\ Jump(m.region, p) \in Nat /\ p \in Cells(m.region) /\ p \in Pixel
      /\ p2 \in (m.region.left .. Right(m.region) - 1)
                \X (m.region.top .. Bottom(m.region))
      /\ Offset(p2) = Offset(p) + 1 + Jump(m.region, p)
      /\ p[1] = W - 1 /\ p[2] = H - 1 => p2[2] = Bottom(m.region)
  BY <1>1, AdvanceMoves
<1>3. Done(m, p2) = Done(m, p) \cup ({p} \cap ToDraw(m))
  <2>1. \A q \in Cells(m.region) : Before(q, p2) <=> Before(q, p) \/ q = p
    BY <1>1, AdvanceMoves
  <2> HIDE DEF p2
  <2> QED
    BY <2>1 DEF Done, ToDraw
<1> HIDE DEF d2, rd2
<1>0. Iteration(m, d, p, rd, d2, rd2)
  BY ScanStep DEF d2, rd2
<1>4. /\ d2 \in LoopState(Drawing) /\ rd2 \in Registers
      /\ rd2.panel = rd.panel
      /\ rd2.x \in 0 .. W - 1 /\ rd2.y \in 0 .. H - 1
      /\ Countable(d2)
  BY <1>0 DEF Iteration
<1>5. changed =>
         /\ d2.skipped = Jump(m.region, p) /\ d2.color = m.next[p] /\ rd2.color = rc
         /\ \A q \in Pixel : rd2.fb[q] = IF q = p THEN rc ELSE rd.fb[q]
         /\ \/ p[1] = W - 1 /\ p[2] = H - 1
            \/ rd2.y * W + rd2.x = Offset(p) + 1
         /\ Len(d2.cmds) <= Len(d.cmds) + 1 + (IF d.skipped > 0 THEN 1 ELSE 0)
         /\ d2.x1 = Lower(d.x1, p[1])  /\ d2.y1 = Lower(d.y1, p[2])
         /\ d2.x2 = Higher(d.x2, p[1]) /\ d2.y2 = Higher(d.y2, p[2])
  BY <1>0 DEF Iteration
<1>6. ~changed =>
         /\ d2.skipped = d.skipped + 1 + Jump(m.region, p)
         /\ rd2 = rd /\ d2.color = d.color /\ d2.cmds = d.cmds
         /\ d2.x1 = d.x1 /\ d2.y1 = d.y1 /\ d2.x2 = d.x2 /\ d2.y2 = d.y2
  BY <1>0 DEF Iteration
<1>7. /\ changed => Done(m, p2) = Done(m, p) \cup {p}
      /\ ~changed => Done(m, p2) = Done(m, p)
      /\ Done(m, p) \subseteq Pixel
  <2>1. changed <=> p \in ToDraw(m)
    BY <1>2 DEF ToDraw
  <2>2. Cells(m.region) \subseteq Pixel
    BY <1>1, ScreenAssumption
       DEF Cells, Pixel, Region, OnScreen, Right, Bottom
  <2> QED
    BY <1>3, <2>1, <2>2 DEF Done, ToDraw
<1> HIDE DEF changed, p2
<1>8. /\ Offset(p) \in Nat /\ d.skipped \in Nat
      /\ Offset(<<m.region.left, m.region.top>>) \in Nat
      /\ Len(d.cmds) \in Nat /\ Len(d2.cmds) \in Nat
  <2>1. p[1] \in Nat /\ p[2] \in Nat
    BY <1>2, ScreenAssumption DEF Pixel
  <2>2. m.region.left \in Nat /\ m.region.top \in Nat
    BY <1>1, ScreenAssumption DEF Region
  <2>3. d.skipped \in Nat /\ d.cmds \in Seq(Drawing) /\ d2.cmds \in Seq(Drawing)
    BY <1>1, <1>4 DEF LoopTypes, LoopState
  <2>4. Offset(p) \in Nat
    BY <2>1, ScreenAssumption DEF Offset
  <2>5. Offset(<<m.region.left, m.region.top>>) \in Nat
    BY <2>2, ScreenAssumption DEF Offset
  <2>6. Len(d.cmds) \in Nat /\ Len(d2.cmds) \in Nat
    BY <2>3
  <2> QED
    BY <2>3, <2>4, <2>5, <2>6
<1>9. LoopTypes(m, d2, p2, rd2)
  BY <1>2, <1>4 DEF LoopTypes
<1>10. InStep(m, d2, p2, rd2)
  <2> SUFFICES ASSUME p2[2] < Bottom(m.region)
               PROVE  rd2.y * W + rd2.x + d2.skipped = Offset(p2)
    BY <1>4 DEF InStep
  <2>1. CASE changed
    <3>1. rd2.y * W + rd2.x = Offset(p) + 1
      BY <1>2, <1>5, <1>9, <2>1 DEF LoopTypes, Region, Bottom
    <3> QED
      BY <1>2, <1>5, <1>8, <2>1, <3>1
  <2>2. CASE ~changed
    <3>1. rd.y * W + rd.x + d.skipped = Offset(p)
      BY <1>1 DEF InStep
    <3>2. rd.y * W + rd.x \in Nat
      BY <1>1, ScreenAssumption DEF LoopTypes, Registers
    <3> QED
      BY <1>2, <1>6, <1>8, <2>2, <3>1, <3>2
  <2> QED
    BY <2>1, <2>2
<1>12. Boxed(m, d2, p2)
  <2>1. /\ {d.x1, d.x2} \subseteq m.region.left .. Right(m.region) - 1
        /\ {d.y1, d.y2} \subseteq m.region.top .. Bottom(m.region) - 1
        /\ p[1] \in m.region.left .. Right(m.region) - 1
        /\ p[2] \in m.region.top .. Bottom(m.region) - 1
    BY <1>1, <1>2 DEF Boxed, Cells
  <2>2. /\ m.region.left \in Int /\ m.region.top \in Int
        /\ Right(m.region) \in Int /\ Bottom(m.region) \in Int
    BY <1>1, ScreenAssumption DEF Region, Right, Bottom
  <2>3. CASE changed
    <3>1. /\ {d2.x1, d2.x2} \subseteq m.region.left .. Right(m.region) - 1
          /\ {d2.y1, d2.y2} \subseteq m.region.top .. Bottom(m.region) - 1
          /\ d2.x1 <= d.x1 /\ d2.x1 <= p[1] /\ d.x2 <= d2.x2 /\ p[1] <= d2.x2
          /\ d2.y1 <= d.y1 /\ d2.y1 <= p[2] /\ d.y2 <= d2.y2 /\ p[2] <= d2.y2
      <4>1. /\ d2.x1 = Lower(d.x1, p[1])  /\ d2.y1 = Lower(d.y1, p[2])
            /\ d2.x2 = Higher(d.x2, p[1]) /\ d2.y2 = Higher(d.y2, p[2])
        BY <1>5, <2>3
      <4>2. /\ d.x1 \in m.region.left .. Right(m.region) - 1
            /\ d.x2 \in m.region.left .. Right(m.region) - 1
            /\ d.y1 \in m.region.top .. Bottom(m.region) - 1
            /\ d.y2 \in m.region.top .. Bottom(m.region) - 1
            /\ p[1] \in m.region.left .. Right(m.region) - 1
            /\ p[2] \in m.region.top .. Bottom(m.region) - 1
        BY <2>1
      <4>3. /\ Right(m.region) - 1 \in Int /\ Bottom(m.region) - 1 \in Int
        BY <2>2
      <4>4. /\ d2.x1 \in m.region.left .. Right(m.region) - 1
            /\ d2.x1 <= d.x1 /\ d2.x1 <= p[1]
        BY ONLY <2>2, <4>1, <4>2, <4>3 DEF Lower
      <4>5. /\ d2.x2 \in m.region.left .. Right(m.region) - 1
            /\ d.x2 <= d2.x2 /\ p[1] <= d2.x2
        BY ONLY <2>2, <4>1, <4>2, <4>3 DEF Higher
      <4>6. /\ d2.y1 \in m.region.top .. Bottom(m.region) - 1
            /\ d2.y1 <= d.y1 /\ d2.y1 <= p[2]
        BY ONLY <2>2, <4>1, <4>2, <4>3 DEF Lower
      <4>7. /\ d2.y2 \in m.region.top .. Bottom(m.region) - 1
            /\ d.y2 <= d2.y2 /\ p[2] <= d2.y2
        BY ONLY <2>2, <4>1, <4>2, <4>3 DEF Higher
      <4> QED
        BY <4>4, <4>5, <4>6, <4>7
    <3>2. ASSUME NEW q \in Done(m, p) \cup {p}
          PROVE  /\ d2.x1 <= q[1] /\ q[1] <= d2.x2
                 /\ d2.y1 <= q[2] /\ q[2] <= d2.y2
      <4>1. CASE q = p
        BY <3>1, <4>1
      <4>2. CASE q \in Done(m, p)
        <5>1. /\ d.x1 <= q[1] /\ q[1] <= d.x2
              /\ d.y1 <= q[2] /\ q[2] <= d.y2
          BY <1>1, <4>2 DEF Boxed
        <5>2. q[1] \in Int /\ q[2] \in Int
          BY <1>7, <4>2 DEF Pixel
        <5> QED
          BY <2>1, <2>2, <3>1, <5>1, <5>2
      <4> QED
        BY <4>1, <4>2
    <3> QED
      BY <1>7, <2>3, <3>1, <3>2 DEF Boxed
  <2>4. CASE ~changed
    BY <1>1, <1>6, <1>7, <2>4 DEF Boxed
  <2> QED
    BY <2>3, <2>4
<1>13. Kept(m, d2, rd2)
  <2>1. CASE changed
    <3>1. NeedSend(d2)
      <4>1. /\ d.x1 \in Int /\ d.x2 \in Int /\ d.y1 \in Int /\ d.y2 \in Int
            /\ p[1] \in Int /\ p[2] \in Int
        BY <1>1, <1>2 DEF LoopTypes, LoopState, Pixel
      <4> QED
        BY <1>5, <2>1, <4>1 DEF NeedSend, Lower, Higher
    <3> QED
      BY <1>1, <1>4, <3>1 DEF Kept
  <2>2. CASE ~changed
    BY <1>1, <1>4, <1>6, <2>2 DEF Kept, NeedSend
  <2> QED
    BY <2>1, <2>2
<1>14. Linked(m, d2, rd2)
  <2>1. CASE changed
    BY <1>1, <1>5, <2>1 DEF Linked
  <2>2. CASE ~changed
    BY <1>1, <1>6, <2>2 DEF Linked
  <2> QED
    BY <2>1, <2>2
<1>15. Drawn(m, p2, rd2)
  <2> SUFFICES ASSUME NEW q \in Done(m, p2)
               PROVE  \/ rd2.fb[q] = m.next[q]
                      \/ m.next[q] = m.color /\ rd2.fb[q] = m.reader.color
    BY DEF Drawn
  <2>1. CASE q = p /\ changed
    <3>1. rd2.fb[q] = rc
      BY <1>2, <1>5, <2>1
    <3>2. rc = m.next[q] \/ (m.next[q] = m.color /\ rc = m.reader.color)
      BY <1>1, <2>1 DEF Linked
    <3> QED
      BY <3>1, <3>2
  <2>2. CASE ~(q = p /\ changed)
    <3>1. q \in Done(m, p) /\ q \in Pixel
      BY <1>7, <2>2
    <3>2. rd2.fb[q] = rd.fb[q]
      BY <1>5, <1>6, <2>2, <3>1
    <3> QED
      BY <1>1, <3>1, <3>2 DEF Drawn
  <2> QED
    BY <2>1, <2>2
<1>16. Spared(m, p2, rd2)
  <2> SUFFICES ASSUME NEW q \in Pixel, q \notin Done(m, p2)
               PROVE  rd2.fb[q] = m.reader.fb[q]
    BY DEF Spared
  <2>1. q \notin Done(m, p) /\ (changed => q # p)
    BY <1>7
  <2>2. rd2.fb[q] = rd.fb[q]
    BY <1>5, <1>6, <2>1
  <2> QED
    BY <1>1, <2>1, <2>2 DEF Spared
<1>18. Short(m, d2, p2)
  <2> DEFINE start == Offset(<<m.region.left, m.region.top>>)
             k == IF d.skipped > 0 THEN 1 ELSE 0
             l == IF d2.skipped > 0 THEN 1 ELSE 0
  <2> SUFFICES Len(d2.cmds) - 1 + l <= Offset(p2) - start
    BY DEF Short
  <2>1. Len(d.cmds) - 1 + k <= Offset(p) - start
    BY <1>1 DEF Short
  <2>2. start \in Nat /\ Offset(p2) \in Nat
    BY <1>2, <1>8
  <2>3. /\ k \in Nat /\ l \in Nat /\ l <= 1
        /\ Jump(m.region, p) \in Nat /\ Offset(p2) = Offset(p) + 1 + Jump(m.region, p)
    BY <1>2
  <2>4. CASE changed
    <3>1. l <= Jump(m.region, p)
      BY <1>2, <1>5, <2>4
    <3>2. Len(d2.cmds) <= Len(d.cmds) + 1 + k
      BY <1>5, <2>4
    <3> HIDE DEF start, k, l
    <3> QED
      BY ONLY <1>8, <2>1, <2>2, <2>3, <3>1, <3>2
  <2>5. CASE ~changed
    <3>1. Len(d2.cmds) = Len(d.cmds)
      BY <1>6, <2>5
    <3> HIDE DEF start, k, l
    <3> QED
      BY ONLY <1>8, <2>1, <2>2, <2>3, <3>1
  <2> QED
    BY <2>4, <2>5
<1> QED
  BY <1>4, <1>9, <1>10, <1>12, <1>13, <1>14, <1>15, <1>16, <1>18
     DEF LoopHolds, d2, p2, rd2

\* The reader f after a message whose loop ended in the state d: what was to
\* draw is drawn and refreshed, nothing else is drawn, and the refresh stays
\* in the region.
Sent(m, d, f) ==
    /\ f \in Registers
    /\ \A q \in ToDraw(m) :
          /\ f.fb[q] = m.next[q] \/ (m.next[q] = m.color
                                     /\ f.fb[q] = m.reader.color)
          /\ f.panel[q] = f.fb[q]
    /\ \A q \in Pixel \ ToDraw(m) : f.fb[q] = m.reader.fb[q]
    /\ \A q \in Pixel : f.panel[q] \in {f.fb[q], m.reader.panel[q]}
    /\ \A q \in Pixel \ Cells(m.region) : f.panel[q] = m.reader.panel[q]
    /\ Linked(m, d, f)

\* At the end of the loop the box holds all the pixels to draw, or there is
\* none and the remembered colour is as it was.
LEMMA LoopEnds ==
    ASSUME NEW m \in Call, NEW d, NEW p, NEW rd,
           LoopHolds(m, d, p, rd), p[2] = Bottom(m.region)
    PROVE  /\ Done(m, p) = ToDraw(m)
           /\ NeedSend(d) => Sent(m, d, Flush(rd, d.x1, d.y1, d.x2 - d.x1 + 1,
                                              d.y2 - d.y1 + 1))
           /\ ~NeedSend(d) => ToDraw(m) = {} /\ d.color = m.color
<1>1. /\ m.region \in Region /\ OnScreen(m.region) /\ m.reader \in Registers
      /\ Boxed(m, d, p) /\ Kept(m, d, rd) /\ Linked(m, d, rd)
      /\ Drawn(m, p, rd) /\ Spared(m, p, rd)
      /\ d \in LoopState(Drawing) /\ rd \in Registers
  BY CallTypes DEF LoopHolds, LoopTypes
<1>2. /\ d.x1 \in Nat /\ d.y1 \in Nat /\ d.x2 \in Nat /\ d.y2 \in Nat
  BY <1>1 DEF LoopState
<1>3. Done(m, p) = ToDraw(m)
  BY <1>1, ScreenAssumption DEF Done, ToDraw, Before, Cells, Region, Bottom
<1>4. \A q \in ToDraw(m) : /\ d.x1 <= q[1] /\ q[1] <= d.x2
                           /\ d.y1 <= q[2] /\ q[2] <= d.y2
                           /\ q \in Pixel
  <2>1. Cells(m.region) \subseteq Pixel
    BY <1>1, ScreenAssumption
       DEF Cells, Pixel, Region, OnScreen, Right, Bottom
  <2> QED
    BY <1>1, <1>3, <2>1 DEF Boxed, ToDraw
<1>5. ASSUME ~NeedSend(d) PROVE ToDraw(m) = {} /\ d.color = m.color
  <2>1. \A q \in ToDraw(m) : NeedSend(d)
    <3> SUFFICES ASSUME NEW q \in ToDraw(m) PROVE NeedSend(d)
      OBVIOUS
    <3>1. q[1] \in Int /\ q[2] \in Int
      BY <1>4 DEF Pixel
    <3> QED
      BY <1>2, <1>4, <3>1 DEF NeedSend
  <2> QED
    BY <1>1, <1>5, <2>1 DEF Kept
<1>6. ASSUME NeedSend(d)
      PROVE  Sent(m, d, Flush(rd, d.x1, d.y1, d.x2 - d.x1 + 1,
                              d.y2 - d.y1 + 1))
  <2> DEFINE w == d.x2 - d.x1 + 1
             h == d.y2 - d.y1 + 1
             f == Flush(rd, d.x1, d.y1, w, h)
  <2>1. /\ w \in Nat /\ h \in Nat
        /\ d.x1 + w - 1 = d.x2 /\ d.y1 + h - 1 = d.y2
    BY <1>2, <1>6 DEF NeedSend
  <2> HIDE DEF w, h
  <2>2. ShowsRectangle(f, rd, d.x1, d.y1, w, h)
    BY <1>1, <1>2, <2>1, FlushShows
  <2> HIDE DEF f
  <2>3. /\ f \in Registers /\ f.fb = rd.fb /\ f.color = rd.color
        /\ \A q \in Pixel :
              f.panel[q] = IF q[1] \in d.x1 .. d.x2 /\ q[2] \in d.y1 .. d.y2
                           THEN rd.fb[q] ELSE rd.panel[q]
    BY <2>1, <2>2 DEF ShowsRectangle
  <2>4. \A q \in Pixel : q = <<q[1], q[2]>> /\ q[1] \in Int /\ q[2] \in Int
    BY DEF Pixel
  <2>5. ASSUME NEW q \in ToDraw(m)
        PROVE  /\ f.fb[q] = m.next[q] \/ (m.next[q] = m.color
                                          /\ f.fb[q] = m.reader.color)
               /\ f.panel[q] = f.fb[q]
    <3>1. f.panel[q] = rd.fb[q]
      BY <1>2, <1>4, <2>3, <2>4
    <3> QED
      BY <1>1, <1>3, <2>3, <3>1 DEF Drawn
  <2>6. ASSUME NEW q \in Pixel \ ToDraw(m) PROVE f.fb[q] = m.reader.fb[q]
    BY <1>1, <1>3, <2>3 DEF Spared
  <2>7. ASSUME NEW q \in Pixel
        PROVE  /\ f.panel[q] \in {f.fb[q], m.reader.panel[q]}
               /\ q \notin Cells(m.region) => f.panel[q] = m.reader.panel[q]
    <3>1. q \notin Cells(m.region) =>
             ~(q[1] \in d.x1 .. d.x2 /\ q[2] \in d.y1 .. d.y2)
      <4>1. /\ m.region.left <= d.x1 /\ d.x2 <= Right(m.region) - 1
            /\ m.region.top <= d.y1 /\ d.y2 <= Bottom(m.region) - 1
        BY <1>1 DEF Boxed
      <4>2. q \notin Cells(m.region) =>
               ~(/\ q[1] \in m.region.left .. Right(m.region) - 1
                 /\ q[2] \in m.region.top .. Bottom(m.region) - 1)
        BY <2>4 DEF Cells
      <4>3. /\ m.region.left \in Int /\ Right(m.region) \in Int
            /\ m.region.top \in Int /\ Bottom(m.region) \in Int
        BY <1>1, ScreenAssumption DEF Region, Right, Bottom
      <4> QED
        BY <1>2, <2>4, <4>1, <4>2, <4>3
    <3> QED
      BY <1>1, <2>3, <3>1 DEF Kept
  <2>8. Linked(m, d, f)
    BY <1>1, <2>3 DEF Linked
  <2>9. Sent(m, d, f)
    BY <2>3, <2>5, <2>6, <2>7, <2>8 DEF Sent
  <2> QED
    BY <2>9 DEF f, w, h
<1> QED
  BY <1>3, <1>5, <1>6

-----------------------------------------------------------------------------
(* The whole function.                                                     *)

\* The number of pixels of a region, and the position before the pixel k + 1.
PixelCount(r) == r.width * r.height
PositionAt(r, k) == <<r.left + (k % r.width), r.top + (k \div r.width)>>

\* Quotient and remainder are what they are recognised by.
LEMMA DivModOf ==
    ASSUME NEW w \in Nat \ {0}, NEW n \in Nat,
           NEW k \in Nat, NEW r \in 0 .. w - 1, n = k * w + r
    PROVE  n \div w = k /\ n % w = r
  BY DivMod

\* The loop counters go through the region in row-major order.
LEMMA Positions ==
    ASSUME NEW r \in Region
    PROVE  /\ PixelCount(r) \in Nat
           /\ PositionAt(r, 0) = <<r.left, r.top>>
           /\ PositionAt(r, PixelCount(r))[2] = Bottom(r)
           /\ \A k \in 0 .. PixelCount(r) - 1 :
                 /\ PositionAt(r, k)[2] < Bottom(r)
                 /\ PositionAt(r, k + 1) = Advance(r, PositionAt(r, k))
                 /\ RowMajor(r.left, r.top, r.width, r.height)[k + 1]
                       = PositionAt(r, k)
<1> DEFINE w == r.width   h == r.height
<1>1. /\ w \in Nat \ {0} /\ h \in Nat \ {0} /\ r.left \in Nat /\ r.top \in Nat
  BY ScreenAssumption DEF Region
<1>2. PixelCount(r) = w * h
  BY DEF PixelCount
<1> HIDE DEF w, h
<1>3. w * h \in Nat
  BY <1>1
<1>4. 0 % w = 0 /\ 0 \div w = 0 /\ (w * h) \div w = h
  BY <1>1, SMT
<1>5. ASSUME NEW k \in 0 .. w * h - 1
      PROVE  /\ k \in Nat /\ k \div w \in Nat /\ k % w \in 0 .. w - 1
             /\ k \div w < h
             /\ (k % w) + 1 = w => (k + 1) % w = 0
                                 /\ (k + 1) \div w = k \div w + 1
             /\ (k % w) + 1 # w => (k + 1) % w = (k % w) + 1
                                 /\ (k + 1) \div w = k \div w
  <2> DEFINE a == k \div w   b == k % w
  <2>1. k \in Nat /\ k + 1 \in Nat
    BY <1>3
  <2>2. a \in Nat /\ b \in 0 .. w - 1 /\ k = a * w + b
    BY <1>1, <2>1, SMT
  <2> HIDE DEF a, b
  <2>3. a < h
    <3> SUFFICES ASSUME h <= a PROVE FALSE
      BY <1>1, <2>2
    <3>1. w * h <= a * w
      BY <1>1, <2>2, SMT
    <3>2. k < w * h /\ a * w \in Nat
      BY <1>1, <1>3, <2>2
    <3> QED
      BY <1>3, <2>1, <2>2, <3>1, <3>2
  <2>4. ASSUME b + 1 = w PROVE (k + 1) % w = 0 /\ (k + 1) \div w = a + 1
    <3>1. k + 1 = (a + 1) * w + 0
      BY <1>1, <2>2, <2>4, SMT
    <3>2. a + 1 \in Nat /\ 0 \in 0 .. w - 1
      BY <1>1, <2>2
    <3> QED
      BY ONLY <1>1, <2>1, <3>1, <3>2, DivModOf
  <2>5. ASSUME b + 1 # w PROVE (k + 1) % w = b + 1 /\ (k + 1) \div w = a
    <3>1. k + 1 = a * w + (b + 1)
      BY <1>1, <2>2, SMT
    <3>2. b + 1 \in 0 .. w - 1
      BY <1>1, <2>2, <2>5
    <3> QED
      BY ONLY <1>1, <2>1, <2>2, <3>1, <3>2, DivModOf
  <2> QED
    BY <2>1, <2>2, <2>3, <2>4, <2>5 DEF a, b
<1>6. Right(r) = r.left + w /\ Bottom(r) = r.top + h
  BY DEF Right, Bottom, w, h
<1>8. ASSUME NEW k \in 0 .. w * h - 1
      PROVE  /\ PositionAt(r, k)[2] < Bottom(r)
             /\ PositionAt(r, k + 1) = Advance(r, PositionAt(r, k))
  <2> DEFINE a == k \div w   a2 == (k + 1) \div w
             b == k % w      b2 == (k + 1) % w
  <2>1. /\ a \in Nat /\ b \in 0 .. w - 1 /\ a < h
        /\ b + 1 = w => b2 = 0 /\ a2 = a + 1
        /\ b + 1 # w => b2 = b + 1 /\ a2 = a
    BY <1>5
  <2>2. /\ PositionAt(r, k) = <<r.left + b, r.top + a>>
        /\ PositionAt(r, k + 1) = <<r.left + b2, r.top + a2>>
    BY DEF PositionAt, w
  <2> HIDE DEF a, b, a2, b2
  <2>3. PositionAt(r, k)[2] < Bottom(r)
    BY <1>1, <1>6, <2>1, <2>2
  <2>4. Advance(r, PositionAt(r, k)) =
           IF r.left + b + 1 = Right(r) THEN <<r.left, r.top + a + 1>>
                                        ELSE <<r.left + b + 1, r.top + a>>
    BY <2>2 DEF Advance
  <2>5. CASE b + 1 = w
    <3>1. /\ r.left + b + 1 = Right(r)
          /\ r.left + b2 = r.left /\ r.top + a2 = r.top + a + 1
      BY <1>1, <1>6, <2>1, <2>5
    <3> QED
      BY <2>2, <2>3, <2>4, <3>1
  <2>6. CASE b + 1 # w
    <3>1. /\ r.left + b + 1 # Right(r)
          /\ r.left + b2 = r.left + b + 1 /\ r.top + a2 = r.top + a
      BY <1>1, <1>6, <2>1, <2>6
    <3> QED
      BY <2>2, <2>3, <2>4, <3>1
  <2> QED
    BY <2>5, <2>6
<1>9. ASSUME NEW k \in 0 .. w * h - 1
      PROVE  RowMajor(r.left, r.top, r.width, r.height)[k + 1] = PositionAt(r, k)
  <2>1. k + 1 \in 1 .. w * h /\ (k + 1) - 1 = k
    BY <1>3
  <2> QED
    BY <2>1 DEF RowMajor, PositionAt, w, h
<1>10. PositionAt(r, 0) = <<r.left, r.top>>
  <2>1. r.left + 0 = r.left /\ r.top + 0 = r.top
    BY <1>1
  <2> QED
    BY <1>4, <2>1 DEF PositionAt, w
<1>11. PositionAt(r, w * h)[2] = Bottom(r)
  BY <1>4, <1>6 DEF PositionAt, w
<1> QED
  BY <1>2, <1>3, <1>8, <1>9, <1>10, <1>11

\* The states of the loop, in order.
IsDiffRun(m, h) ==
    /\ h[0] = DiffStart(m.region, m.color)
    /\ \A k \in 1 .. PixelCount(m.region) :
          h[k] = DiffPixel(h[k - 1], m.region, m.prev, m.next,
                           PositionAt(m.region, k - 1))

\* Every iteration gives a state in which the next one can go on.
LEMMA DiffPixelType ==
    ASSUME NEW m \in Call, NEW e \in LoopState(Drawing), Countable(e),
           NEW p \in Cells(m.region)
    PROVE  /\ DiffPixel(e, m.region, m.prev, m.next, p) \in LoopState(Drawing)
           /\ Countable(DiffPixel(e, m.region, m.prev, m.next, p))
<1>1. /\ m.region \in Region /\ OnScreen(m.region) /\ m.next \in Image
  BY CallTypes
<1>2. /\ p \in (m.region.left .. Right(m.region) - 1)
               \X (m.region.top .. Bottom(m.region))
      /\ p[2] < Bottom(m.region)
  BY <1>1, ScreenAssumption DEF Cells, Region, Right, Bottom
<1>3. p \in Pixel /\ Jump(m.region, p) \in Nat
  BY <1>1, <1>2, AdvanceMoves
<1>4. m.next[p] \in Colors
  BY <1>1, <1>3 DEF Image
<1> DEFINE f == IF m.prev[p] # m.next[p] THEN ChangedPixel(e, p, m.next[p])
                                         ELSE SkipMore(e, 1)
<1>5. f \in LoopState(Drawing) /\ Countable(f)
  <2>1. CASE m.prev[p] # m.next[p]
    BY <1>3, <1>4, <2>1, ChangedPixelState
  <2>2. CASE m.prev[p] = m.next[p]
    <3>1. f \in LoopState(Drawing) /\ ~f.repeat /\ f.cmds = e.cmds
      BY <2>2, SkipMoreState
    <3> HIDE DEF f
    <3> QED
      BY <3>1 DEF Countable
  <2> QED
    BY <2>1, <2>2
<1>6. DiffPixel(e, m.region, m.prev, m.next, p) = EndOfLine(f, m.region, p)
  BY DEF DiffPixel
<1> HIDE DEF f
<1> DEFINE g == EndOfLine(f, m.region, p)
<1>7. /\ g \in LoopState(Drawing) /\ g.skipped = f.skipped + Jump(m.region, p)
      /\ g.repeat => f.repeat /\ Jump(m.region, p) = 0
      /\ g.cmds = f.cmds
  BY <1>3, <1>5, EndOfLineState
<1> HIDE DEF g
<1>8. Countable(g)
  BY <1>5, <1>7 DEF Countable
<1> QED
  BY <1>6, <1>7, <1>8 DEF g

\* SendDiff runs the loop to its end.
LEMMA DiffRun ==
    ASSUME NEW m \in Call
    PROVE  \E h : /\ IsDiffRun(m, h)
                  /\ SendDiff(m.prev, m.next, m.region, m.color)
                        = DiffEnd(h[PixelCount(m.region)])
<1> DEFINE n == PixelCount(m.region)
           T == {e \in LoopState(Drawing) : Countable(e)}
           start == DiffStart(m.region, m.color)
           row == RowMajor(m.region.left, m.region.top, m.region.width,
                           m.region.height)
           F(e, p) == DiffPixel(e, m.region, m.prev, m.next, p)
           IsIter(it) == it = [S \in SUBSET DOMAIN row |->
                 IF S = {} THEN start ELSE LET x == Max(S) IN F(it[S \ {x}], row[x])]
           g == [t \in T \X (1 .. n) |-> F(t[1], row[t[2]])]
           f == CHOOSE it : IsIter(it)
<1>1. /\ m.region \in Region /\ n \in Nat /\ DOMAIN row = 1 .. n
      /\ \A k \in 1 .. n : /\ row[k] = PositionAt(m.region, k - 1)
                           /\ row[k] \in Cells(m.region)
  <2>1. m.region \in Region /\ n \in Nat
    BY CallTypes, Positions
  <2>2. DOMAIN row = 1 .. n
    BY DEF RowMajor, PixelCount
  <2>3. ASSUME NEW k \in 1 .. n
        PROVE  /\ row[k] = PositionAt(m.region, k - 1)
               /\ row[k] \in Cells(m.region)
    <3> DEFINE j == k - 1
               left == m.region.left   w == m.region.width
               top  == m.region.top    h == m.region.height
    <3>1. j \in 0 .. n - 1 /\ j + 1 = k
      BY <2>1
    <3>2. /\ row[j + 1] = PositionAt(m.region, j)
          /\ PositionAt(m.region, j)[2] < Bottom(m.region)
      BY <2>1, <3>1, Positions
    <3>3. /\ left \in Nat /\ top \in Nat /\ w \in Nat \ {0} /\ h \in Nat
          /\ Right(m.region) = left + w /\ Bottom(m.region) = top + h
      BY <2>1, ScreenAssumption DEF Region, Right, Bottom
    <3>4. /\ PositionAt(m.region, j) = <<left + (j % w), top + (j \div w)>>
      BY DEF PositionAt
    <3>5. j % w \in 0 .. w - 1 /\ j \div w \in Nat
      BY <3>1, <3>3, <2>1
    <3> HIDE DEF j, left, top, w, h
    <3>6. PositionAt(m.region, j) \in (left .. Right(m.region) - 1)
                                      \X (top .. Bottom(m.region) - 1)
      BY <3>2, <3>3, <3>4, <3>5
    <3> QED
      BY <3>1, <3>2, <3>6 DEF Cells, j, left, top
  <2> QED
    BY <2>1, <2>2, <2>3
<1>2. start \in T
  <2>1. LoopHolds(m, start, <<m.region.left, m.region.top>>,
                  [m.reader EXCEPT !.x = m.region.left, !.y = m.region.top])
    BY LoopBegins
  <2> QED
    BY <2>1 DEF LoopHolds, LoopTypes
<1>3. \A e \in T, k \in 1 .. n : F(e, row[k]) \in T
  BY <1>1, DiffPixelType
<1> HIDE DEF T, n, row, start, F
<1>4. g \in [T \X (1 .. n) -> T]
  BY <1>3
<1>5. \E it : IsIter(it)
  <2> HIDE DEF g
  <2>1. PICK it \in [SUBSET (1 .. n) -> T] : IsFold(it, start, g, n)
    BY <1>1, <1>2, <1>4, FoldExists
  <2>2. ASSUME NEW S \in SUBSET (1 .. n)
        PROVE  it[S] = IF S = {} THEN start
                       ELSE F(it[S \ {Max(S)}], row[Max(S)])
    <3>1. CASE S = {}
      BY <2>1, <3>1 DEF IsFold
    <3>2. CASE S # {}
      <4>1. it[S] = g[<<it[S \ {Max(S)}], Max(S)>>]
        BY <2>1, <3>2 DEF IsFold
      <4>2. it[S \ {Max(S)}] \in T
        BY <2>1
      <4>3. Max(S) \in 1 .. n
        BY <1>1, <3>2, GreatestIsIndex
      <4> QED
        BY <4>1, <4>2, <4>3, <3>2 DEF g
    <3> QED
      BY <3>1, <3>2
  <2> QED
    BY <1>1, <2>1, <2>2
<1>6. IsIter(f)
  BY <1>5
<1>7. SendDiff(m.prev, m.next, m.region, m.color) = DiffEnd(f[1 .. n])
  <2>1. SendDiff(m.prev, m.next, m.region, m.color) = DiffEnd(f[DOMAIN row])
    BY DEF SendDiff, FoldLeft, MapThenFoldSet, row, start, F
  <2> HIDE DEF f
  <2> QED
    BY <1>1, <2>1
<1>8. /\ f[{}] = start
      /\ \A k \in 1 .. n : f[1 .. k] = F(f[1 .. k - 1], row[k])
  <2>1. f = [S \in SUBSET (1 .. n) |-> IF S = {} THEN start
                   ELSE LET x == Max(S) IN F(f[S \ {x}], row[x])]
    BY <1>1, <1>6
  <2> HIDE DEF f
  <2>2. ASSUME NEW k \in 1 .. n PROVE f[1 .. k] = F(f[1 .. k - 1], row[k])
    <3>1. 1 .. k \in SUBSET (1 .. n) /\ k \in Nat \ {0}
      BY <1>1
    <3>2. Max(1 .. k) = k /\ (1 .. k) \ {k} = 1 .. k - 1 /\ 1 .. k # {}
      BY <3>1, UpTo
    <3> QED
      BY <2>1, <3>1, <3>2
  <2> QED
    BY <2>1, <2>2
<1> HIDE DEF f
<1>9. IsChain(f, T, g, n)
  BY <1>2, <1>8 DEF IsChain
<1> HIDE DEF g
<1>10. PICK h \in [0 .. n -> T] : IsRun(h, f, g, n)
  BY <1>1, <1>4, <1>9, FoldRun
<1>11. ASSUME NEW k \in 1 .. n PROVE h[k] = F(h[k - 1], row[k])
  <2>1. h[k - 1] \in T
    BY <1>1, <1>10
  <2> QED
    BY <1>10, <2>1 DEF g, IsRun
<1>12. IsDiffRun(m, h)
  BY <1>1, <1>8, <1>10, <1>11 DEF IsDiffRun, IsRun, n, start, F
<1> QED
  BY <1>7, <1>10, <1>12 DEF IsRun, n

\* An iteration adds commands to the buffer only for a changed pixel.
LEMMA DiffPixelCommands ==
    ASSUME NEW m \in Call, NEW d \in LoopState(Drawing), Countable(d),
           NEW p \in (m.region.left .. Right(m.region) - 1)
                     \X (m.region.top .. Bottom(m.region)),
           p[2] < Bottom(m.region)
    PROVE  /\ p \in Pixel /\ m.next[p] \in Colors
           /\ DiffPixel(d, m.region, m.prev, m.next, p).cmds =
                 IF m.prev[p] # m.next[p] THEN Emit(d, m.next[p]) ELSE d.cmds
<1> DEFINE r == m.region
           f == IF m.prev[p] # m.next[p] THEN ChangedPixel(d, p, m.next[p])
                                         ELSE SkipMore(d, 1)
<1>1. p \in Pixel /\ Jump(r, p) \in Nat
  BY CallTypes, AdvanceMoves
<1>2. m.next[p] \in Colors
  BY <1>1, CallTypes DEF Image
<1>3. /\ f \in LoopState(Drawing)
      /\ f.cmds = IF m.prev[p] # m.next[p] THEN Emit(d, m.next[p]) ELSE d.cmds
  <2>1. CASE m.prev[p] # m.next[p]
    BY <1>1, <1>2, <2>1, ChangedPixelState DEF ChangedPixel
  <2>2. CASE m.prev[p] = m.next[p]
    BY <2>2, SkipMoreState
  <2> QED
    BY <2>1, <2>2
<1>4. DiffPixel(d, r, m.prev, m.next, p) = EndOfLine(f, r, p)
  BY DEF DiffPixel
<1> HIDE DEF f
<1>5. EndOfLine(f, r, p).cmds = f.cmds
  BY <1>1, <1>3, EndOfLineState
<1> QED
  BY <1>1, <1>2, <1>3, <1>4, <1>5

\* What an iteration adds to the buffer, executed, is what the reader follows.
LEMMA DiffPixelFollows ==
    ASSUME NEW m \in Call, NEW d, NEW p, NEW rd,
           LoopHolds(m, d, p, rd), p[2] < Bottom(m.region)
    PROVE  ApplyAll(m.reader, DiffPixel(d, m.region, m.prev, m.next, p).cmds)
              = Followed(m, d, p, ApplyAll(m.reader, d.cmds))
<1>1. /\ d \in LoopState(Drawing) /\ Countable(d) /\ m.reader \in Registers
      /\ p \in (m.region.left .. Right(m.region) - 1)
               \X (m.region.top .. Bottom(m.region))
  BY CallTypes DEF LoopHolds, LoopTypes
<1>2. /\ m.next[p] \in Colors
      /\ DiffPixel(d, m.region, m.prev, m.next, p).cmds =
            IF m.prev[p] # m.next[p] THEN Emit(d, m.next[p]) ELSE d.cmds
  BY <1>1, DiffPixelCommands
<1>3. ApplyAll(m.reader, Emit(d, m.next[p]))
         = Follow(ApplyAll(m.reader, d.cmds), d, m.next[p])
  BY <1>1, <1>2, EmitFollows
<1> QED
  BY <1>2, <1>3 DEF Followed

\* An iteration draws nothing else than pixels that changed, not even in
\* between.
LEMMA DiffPixelKeeps ==
    ASSUME NEW m \in Call, NEW d, NEW p,
           LoopHolds(m, d, p, ApplyAll(m.reader, d.cmds)),
           p[2] < Bottom(m.region),
           Keeps(m.reader, d.cmds, Pixel \ ToDraw(m))
    PROVE  Keeps(m.reader, DiffPixel(d, m.region, m.prev, m.next, p).cmds,
                 Pixel \ ToDraw(m))
<1> DEFINE rd == ApplyAll(m.reader, d.cmds)
           e  == DiffPixel(d, m.region, m.prev, m.next, p)
<1>1. /\ d \in LoopState(Drawing) /\ Countable(d) /\ m.reader \in Registers
      /\ p \in (m.region.left .. Right(m.region) - 1)
               \X (m.region.top .. Bottom(m.region))
      /\ Spared(m, p, rd)
  BY CallTypes DEF LoopHolds, LoopTypes
<1>2. /\ m.next[p] \in Colors
      /\ e.cmds = IF m.prev[p] # m.next[p] THEN Emit(d, m.next[p]) ELSE d.cmds
  BY <1>1, DiffPixelCommands
<1>3. ApplyAll(m.reader, e.cmds) = Followed(m, d, p, rd)
  BY DiffPixelFollows
<1>4. Spared(m, Advance(m.region, p), Followed(m, d, p, rd))
  BY LoopGoesOn DEF LoopHolds
<1> HIDE DEF rd, e
<1>5. \A q \in Pixel \ ToDraw(m) :
         /\ rd.fb[q] = m.reader.fb[q]
         /\ ApplyAll(m.reader, e.cmds).fb[q] = m.reader.fb[q]
  BY <1>1, <1>3, <1>4 DEF Spared, Done
<1>6. CASE m.prev[p] # m.next[p]
  <2> DEFINE Q == Pixel \ ToDraw(m)
  <2>1. Q \subseteq Pixel
    OBVIOUS
  <2> HIDE DEF Q
  <2>2. Keeps(m.reader, Emit(d, m.next[p]), Q)
    BY <1>1, <1>2, <1>5, <1>6, <2>1, EmitKeeps DEF Q, rd
  <2> QED
    BY <1>2, <1>6, <2>2 DEF Q, e
<1>7. CASE m.prev[p] = m.next[p]
  BY <1>2, <1>7 DEF e
<1> QED
  BY <1>6, <1>7

\* The end of the function adds the refresh, or nothing.
LEMMA DiffEndFollows ==
    ASSUME NEW r \in Registers, NEW d \in LoopState(Drawing)
    PROVE  LET e == DiffEnd(d)
           IN  /\ e.color = d.color /\ e.x1 = d.x1 /\ e.x2 = d.x2
               /\ e.y1 = d.y1 /\ e.y2 = d.y2
               /\ NeedSend(d) =>
                     /\ IsMessage(e.cmds)
                     /\ \E c \in Harmless : e.cmds = Append(d.cmds, c)
                     /\ ApplyAll(r, e.cmds)
                           = Flush(ApplyAll(r, d.cmds), d.x1, d.y1,
                                   d.x2 - d.x1 + 1, d.y2 - d.y1 + 1)
               /\ ~NeedSend(d) => e = d
<1> DEFINE e == DiffEnd(d)
           w == d.x2 - d.x1 + 1
           l == d.y2 - d.y1 + 1
           c == CMD_PARTIAL_UPDATE(d.x1, d.y1, w, l)
           rd == ApplyAll(r, d.cmds)
<1>1. /\ d.cmds \in Seq(Drawing) /\ d.cmds \in Seq(Harmless)
      /\ d.x1 \in Nat /\ d.y1 \in Nat /\ d.x2 \in Nat /\ d.y2 \in Nat
  <2>1. d.cmds \in Seq(Drawing) /\ Drawing \subseteq Harmless
    BY DEF LoopState, Drawing, Harmless
  <2> QED
    BY <2>1, SeqMonotonic DEF LoopState
<1>2. CASE NeedSend(d)
  <2>1. w \in Nat /\ l \in Nat
    BY <1>1, <1>2 DEF NeedSend
  <2>2. e = [d EXCEPT !.cmds = Append(d.cmds, c)]
    BY <1>2 DEF DiffEnd
  <2> HIDE DEF w, l
  <2>3. /\ c \in Harmless /\ c.cmd = "PARTIAL_UPDATE"
        /\ c.x = d.x1 /\ c.y = d.y1 /\ c.w = w /\ c.h = l
    BY <1>1, <2>1 DEF Harmless, Command, CMD_PARTIAL_UPDATE
  <2> HIDE DEF c, e
  <2>4. /\ e.color = d.color /\ e.cmds = Append(d.cmds, c)
        /\ e.x1 = d.x1 /\ e.x2 = d.x2 /\ e.y1 = d.y1 /\ e.y2 = d.y2
    BY <2>2 DEF LoopState
  <2>5. IsMessage(e.cmds)
    BY <1>1, <2>3, <2>4 DEF IsMessage, Update
  <2>6. ApplyAll(r, e.cmds) = Apply(rd, c) /\ rd \in Registers
    BY <1>1, <2>3, <2>4, ApplyAllAppend
  <2> HIDE DEF rd
  <2>7. Apply(rd, c) = Flush(rd, c.x, c.y, c.w, c.h)
    BY <2>3, <2>6, ApplyType
  <2>8. ApplyAll(r, e.cmds) = Flush(rd, d.x1, d.y1, w, l)
    BY <2>3, <2>6, <2>7
  <2> QED
    BY <1>2, <2>3, <2>4, <2>5, <2>8 DEF e, w, l, rd
<1>3. CASE ~NeedSend(d)
  BY <1>3 DEF DiffEnd
<1> QED
  BY <1>2, <1>3

\* The reader that executes the message of a region draws what changed in it
\* and nothing else, and a region without a message has not changed.
THEOREM SendDiffDraws ==
    ASSUME NEW m \in Call
    PROVE  LET d == SendDiff(m.prev, m.next, m.region, m.color)
           IN  /\ d.color \in Colors
               /\ NeedSend(d) => /\ IsMessage(d.cmds)
                                 /\ Sent(m, d, ApplyAll(m.reader, d.cmds))
                                 /\ Keeps(m.reader, d.cmds, Pixel \ ToDraw(m))
               /\ ~NeedSend(d) => ToDraw(m) = {} /\ d.color = m.color
<1> DEFINE r == m.region
           n == PixelCount(r)
           e == SendDiff(m.prev, m.next, r, m.color)
<1>1. PICK h : IsDiffRun(m, h) /\ e = DiffEnd(h[n])
  BY DiffRun
<1> HIDE DEF e
<1>2. n \in Nat /\ r \in Region
  BY CallTypes, Positions
<1> DEFINE Executed(k) == ApplyAll(m.reader, h[k].cmds)
           Q == Pixel \ ToDraw(m)
           Good == {k \in 0 .. n :
                       /\ LoopHolds(m, h[k], PositionAt(r, k), Executed(k))
                       /\ Keeps(m.reader, h[k].cmds, Q)}
<1>3. 0 \in Good
  <2> DEFINE c == CMD_RESET_POSITION(r.left, r.top)
             s == DiffStart(r, m.color)
  <2>1. /\ h[0] = s /\ PositionAt(r, 0) = <<r.left, r.top>>
        /\ s.cmds = <<c>> /\ <<c>> = Append(<<>>, c)
    BY <1>1, <1>2, Positions DEF IsDiffRun, DiffStart
  <2>2. /\ c \in Harmless /\ c.cmd = "RESET_POSITION"
        /\ c.x = r.left /\ c.y = r.top
    <3>1. r.left \in Nat /\ r.top \in Nat
      BY <1>2, ScreenAssumption DEF Region
    <3> QED
      BY <3>1 DEF Harmless, Command, CMD_RESET_POSITION
  <2>3. m.reader \in Registers /\ <<>> \in Seq(Harmless)
    BY CallTypes
  <2>4. Executed(0) = Apply(m.reader, c)
    <3>1. ApplyAll(m.reader, Append(<<>>, c)) = Apply(ApplyAll(m.reader, <<>>), c)
      BY <2>2, <2>3, ApplyAllAppend
    <3>2. ApplyAll(m.reader, <<>>) = m.reader
      BY <2>3, ApplyAllAppend
    <3> QED
      BY <2>1, <3>1, <3>2
  <2>5. Apply(m.reader, c) = [m.reader EXCEPT !.x = r.left, !.y = r.top]
    <3> HIDE DEF c
    <3>1. Apply(m.reader, c) = [m.reader EXCEPT !.x = c.x, !.y = c.y]
      BY <2>2, <2>3, ApplyType
    <3> QED
      BY <2>2, <3>1
  <2>6. LoopHolds(m, s, <<r.left, r.top>>,
                  [m.reader EXCEPT !.x = r.left, !.y = r.top])
    BY LoopBegins
  <2> HIDE DEF s, Executed
  <2>7. LoopHolds(m, h[0], PositionAt(r, 0), Executed(0))
    BY <2>1, <2>4, <2>5, <2>6
  <2>8. Keeps(m.reader, h[0].cmds, Q)
    <3> HIDE DEF Q, c
    <3>1. Keeps(m.reader, <<>>, Q)
      BY <2>3, KeepsSteps
    <3>2. ApplyAll(m.reader, Append(<<>>, c)).fb = m.reader.fb
      <4>1. [m.reader EXCEPT !.x = r.left, !.y = r.top].fb = m.reader.fb
        BY <2>3 DEF Registers
      <4> QED
        BY <2>1, <2>4, <2>5, <4>1 DEF Executed, s
    <3>3. Keeps(m.reader, Append(<<>>, c), Q)
      BY <2>2, <2>3, <3>1, <3>2, KeepsSteps
    <3> QED
      BY <2>1, <3>3 DEF s
  <2> QED
    BY <1>2, <2>7, <2>8
<1>4. ASSUME NEW k \in 0 .. n - 1, k \in Good PROVE k + 1 \in Good
  <2> DEFINE p == PositionAt(r, k)
             d == h[k]
  <2>1. /\ LoopHolds(m, d, p, Executed(k)) /\ p[2] < Bottom(r)
        /\ PositionAt(r, k + 1) = Advance(r, p)
        /\ k + 1 \in 1 .. n /\ k + 1 \in 0 .. n /\ (k + 1) - 1 = k
    BY <1>2, <1>4, Positions
  <2>2. h[k + 1] = DiffPixel(d, r, m.prev, m.next, p)
    BY <1>1, <2>1 DEF IsDiffRun
  <2> HIDE DEF p, d
  <2>3. LoopHolds(m, DiffPixel(d, r, m.prev, m.next, p), Advance(r, p),
                  Followed(m, d, p, Executed(k)))
    BY <2>1, LoopGoesOn
  <2>4. Executed(k + 1) = Followed(m, d, p, Executed(k))
    BY <2>1, <2>2, DiffPixelFollows DEF d
  <2> HIDE DEF Executed
  <2>5. LoopHolds(m, h[k + 1], PositionAt(r, k + 1), Executed(k + 1))
    BY <2>1, <2>2, <2>3, <2>4
  <2>6. Keeps(m.reader, h[k + 1].cmds, Q)
    <3>1. Keeps(m.reader, d.cmds, Q)
      BY <1>4 DEF d
    <3>2. LoopHolds(m, d, p, ApplyAll(m.reader, d.cmds))
      BY <2>1 DEF d, Executed
    <3>3. Keeps(m.reader, DiffPixel(d, r, m.prev, m.next, p).cmds, Q)
      BY <2>1, <3>1, <3>2, DiffPixelKeeps
    <3> QED
      BY <2>2, <3>3
  <2> QED
    BY <2>1, <2>5, <2>6
<1>5. /\ LoopHolds(m, h[n], PositionAt(r, n), Executed(n))
      /\ Keeps(m.reader, h[n].cmds, Q)
  <2> HIDE DEF Good
  <2>1. \A k \in 0 .. n : k \in Good
    BY <1>2, <1>3, <1>4, CountUp
  <2> QED
    BY <1>2, <2>1 DEF Good
<1> DEFINE d == h[n]
           rd == Executed(n)
<1>6. /\ d \in LoopState(Drawing) /\ PositionAt(r, n)[2] = Bottom(r)
      /\ d.color \in Colors
  BY <1>2, <1>5, Positions DEF LoopHolds, LoopTypes, LoopState
<1> HIDE DEF d
<1>7. /\ e.color = d.color /\ e.x1 = d.x1 /\ e.x2 = d.x2
      /\ e.y1 = d.y1 /\ e.y2 = d.y2
      /\ NeedSend(d) => /\ IsMessage(e.cmds)
                        /\ \E c \in Harmless : e.cmds = Append(d.cmds, c)
                        /\ ApplyAll(m.reader, e.cmds)
                              = Flush(rd, d.x1, d.y1, d.x2 - d.x1 + 1,
                                      d.y2 - d.y1 + 1)
  BY <1>1, <1>6, CallTypes, DiffEndFollows DEF d
<1>8. NeedSend(e) <=> NeedSend(d)
  BY <1>7 DEF NeedSend
<1>9. /\ NeedSend(d) => Sent(m, d, ApplyAll(m.reader, e.cmds))
      /\ ~NeedSend(d) => ToDraw(m) = {} /\ d.color = m.color
  BY <1>5, <1>6, <1>7, LoopEnds DEF d
<1>10. NeedSend(d) => Sent(m, e, ApplyAll(m.reader, e.cmds))
  BY <1>7, <1>9 DEF Sent, Linked
<1>11. NeedSend(d) => Keeps(m.reader, e.cmds, Q)
  <2> SUFFICES ASSUME NeedSend(d) PROVE Keeps(m.reader, e.cmds, Q)
    OBVIOUS
  <2>1. PICK c \in Harmless : e.cmds = Append(d.cmds, c)
    BY <1>7
  <2>2. d.cmds \in Seq(Harmless) /\ m.reader \in Registers
    <3>1. d.cmds \in Seq(Drawing) /\ Drawing \subseteq Harmless
      BY <1>6 DEF LoopState, Drawing, Harmless
    <3> QED
      BY <3>1, SeqMonotonic, CallTypes
  <2>3. \A q \in Q : ApplyAll(m.reader, e.cmds).fb[q] = m.reader.fb[q]
    BY <1>9 DEF Sent
  <2>4. Keeps(m.reader, d.cmds, Q)
    BY <1>5 DEF d
  <2> HIDE DEF Q
  <2> QED
    BY <2>1, <2>2, <2>3, <2>4, KeepsSteps
<1> QED
  BY <1>6, <1>7, <1>8, <1>9, <1>10, <1>11 DEF e

-----------------------------------------------------------------------------
(* The first frame.                                                        *)

\* The positions of the whole screen, and their numbers.
LEMMA ScreenRows ==
    /\ W * H \in Nat \ {0}
    /\ \A k \in 0 .. W * H - 1 :
          /\ RowMajor(0, 0, W, H)[k + 1] \in Pixel
          /\ Offset(RowMajor(0, 0, W, H)[k + 1]) = k
    /\ \A q \in Pixel : Offset(q) \in 0 .. W * H - 1
    /\ \A q1, q2 \in Pixel : Offset(q1) = Offset(q2) => q1 = q2
    /\ <<W - 1, H - 1>> \in Pixel /\ Offset(<<W - 1, H - 1>>) = W * H - 1
<1>0. W \in Nat \ {0} /\ H \in Nat \ {0}
  BY ScreenAssumption
<1>1. W * H \in Nat \ {0}
  BY <1>0, SMT
<1>2. ASSUME NEW k \in 0 .. W * H - 1
      PROVE  /\ RowMajor(0, 0, W, H)[k + 1] \in Pixel
             /\ Offset(RowMajor(0, 0, W, H)[k + 1]) = k
  <2> DEFINE a == k \div W   b == k % W
  <2>1. k \in Nat /\ k + 1 \in 1 .. W * H /\ (k + 1) - 1 = k
    BY <1>1
  <2>2. a \in Nat /\ b \in 0 .. W - 1 /\ k = a * W + b
    BY <1>0, <2>1, SMT
  <2>3. RowMajor(0, 0, W, H)[k + 1] = <<0 + b, 0 + a>>
    BY <2>1 DEF RowMajor
  <2> HIDE DEF a, b
  <2>4. 0 + b = b /\ 0 + a = a
    BY <1>0, <2>2
  <2>5. a < H
    <3> SUFFICES ASSUME H <= a PROVE FALSE
      BY <1>0, <2>2
    <3>1. W * H <= a * W
      BY <1>0, <2>2, SMT
    <3>2. k < W * H /\ a * W \in Nat
      BY <1>0, <1>1, <2>2
    <3> QED
      BY <1>0, <1>1, <2>1, <2>2, <3>1, <3>2
  <2>6. <<b, a>> \in Pixel
    BY <1>0, <2>2, <2>5 DEF Pixel
  <2>7. Offset(<<b, a>>) = k
    BY <2>2 DEF Offset
  <2> QED
    BY <2>3, <2>4, <2>6, <2>7
<1>3. ASSUME NEW q \in Pixel PROVE Offset(q) \in 0 .. W * H - 1
  <2> DEFINE x == q[1]   y == q[2]
  <2>1. x \in 0 .. W - 1 /\ y \in 0 .. H - 1
    BY DEF Pixel
  <2>2. Offset(q) = y * W + x
    BY DEF Offset
  <2> HIDE DEF x, y
  <2>3. y * W <= (H - 1) * W /\ y * W \in Nat
    BY <1>0, <2>1, SMT
  <2>4. (H - 1) * W = W * H - W
    BY <1>0, SMT
  <2> QED
    BY <1>0, <1>1, <2>1, <2>2, <2>3, <2>4
<1>4. ASSUME NEW q1 \in Pixel, NEW q2 \in Pixel, Offset(q1) = Offset(q2)
      PROVE  q1 = q2
  <2>1. /\ q1[1] \in 0 .. W - 1 /\ q1[2] \in Nat /\ q1 = <<q1[1], q1[2]>>
        /\ q2[1] \in 0 .. W - 1 /\ q2[2] \in Nat /\ q2 = <<q2[1], q2[2]>>
        /\ q1[2] * W + q1[1] = q2[2] * W + q2[1]
    BY <1>0, <1>4 DEF Pixel, Offset
  <2>2. q1[2] = q2[2] /\ q1[1] = q2[1]
    BY ONLY <1>0, <2>1, SameOffset
  <2> QED
    BY <2>1, <2>2
<1>5. <<W - 1, H - 1>> \in Pixel /\ Offset(<<W - 1, H - 1>>) = W * H - 1
  <2>1. W - 1 \in 0 .. W - 1 /\ H - 1 \in 0 .. H - 1
    BY <1>0
  <2>2. (H - 1) * W + (W - 1) = W * H - 1
    BY <1>0, SMT
  <2> QED
    BY <2>1, <2>2 DEF Pixel, Offset
<1> QED
  BY <1>1, <1>2, <1>3, <1>4, <1>5

\* The commands of a first frame: a colour for every position.
LEMMA SendAllCommands ==
    ASSUME NEW f \in Image
    PROVE  /\ SendAll(f) \in Seq(Harmless) /\ Len(SendAll(f)) = W * H + 2
           /\ SendAll(f)[1] = CMD_RESET_POSITION(0, 0)
           /\ \A k \in 0 .. W * H - 1 :
                 SendAll(f)[k + 2]
                    = CMD_PUT_COLOR(f[RowMajor(0, 0, W, H)[k + 1]])
           /\ SendAll(f)[W * H + 2] = CMD_SOFT_UPDATE
           /\ IsMessage(SendAll(f))
<1> DEFINE N == W * H
           row == RowMajor(0, 0, W, H)
           first == <<CMD_RESET_POSITION(0, 0)>>
           colors == [k \in 1 .. N |-> CMD_PUT_COLOR(f[row[k]])]
           last == CMD_SOFT_UPDATE
           s == first \o colors
<1>1. N \in Nat \ {0} /\ \A k \in 0 .. N - 1 : row[k + 1] \in Pixel
  BY ScreenRows
<1>2. SendAll(f) = s \o <<last>>
  BY DEF SendAll
<1>3. first \in Seq(Drawing) /\ Len(first) = 1
  BY DEF Drawing, Command, CMD_RESET_POSITION
<1> HIDE DEF N, row
<1>4. colors \in Seq(Drawing) /\ Len(colors) = N
  <2>1. ASSUME NEW k \in 1 .. N PROVE CMD_PUT_COLOR(f[row[k]]) \in Drawing
    <3>1. k - 1 \in 0 .. N - 1 /\ (k - 1) + 1 = k
      BY <1>1
    <3>2. row[k] \in Pixel
      BY <1>1, <3>1
    <3>3. f[row[k]] \in Colors
      BY <3>2 DEF Image
    <3> QED
      BY <3>3 DEF Drawing, Command, CMD_PUT_COLOR
  <2>2. colors \in [1 .. N -> Drawing]
    BY <2>1
  <2> HIDE DEF colors
  <2> QED
    BY <1>1, <2>2, IsASeq, LenProperties
<1>5. last \in Harmless /\ last.cmd \in Update
  BY DEF Harmless, Command, CMD_SOFT_UPDATE, Update
<1>6. Drawing \subseteq Harmless
  BY DEF Drawing, Harmless
<1>7. \A k \in 1 .. N : colors[k] = CMD_PUT_COLOR(f[row[k]])
  OBVIOUS
<1>8. first[1] = CMD_RESET_POSITION(0, 0)
  OBVIOUS
<1> HIDE DEF first, colors, last
<1>9. /\ s \in Seq(Drawing) /\ Len(s) = N + 1 /\ s[1] = first[1]
      /\ \A k \in 1 .. N : s[k + 1] = colors[k]
  <2>1. s \in Seq(Drawing) /\ Len(s) = 1 + N
    BY <1>3, <1>4, ConcatProperties
  <2>2. \A k \in 1 .. 1 + N : s[k] = IF k <= 1 THEN first[k] ELSE colors[k - 1]
    <3>1. \A k \in 1 .. Len(first) + Len(colors) :
             s[k] = IF k <= Len(first) THEN first[k]
                                       ELSE colors[k - Len(first)]
      BY <1>3, <1>4, ConcatProperties
    <3> HIDE DEF s
    <3> QED
      BY <1>3, <1>4, <3>1
  <2>3. ASSUME NEW k \in 1 .. N PROVE s[k + 1] = colors[k]
    <3>1. k + 1 \in 1 .. 1 + N /\ ~(k + 1 <= 1) /\ (k + 1) - 1 = k
      BY <1>1
    <3> QED
      BY <2>2, <3>1
  <2>4. 1 \in 1 .. 1 + N /\ 1 + N = N + 1 /\ 1 <= 1
    BY <1>1
  <2> HIDE DEF s
  <2> QED
    BY <2>1, <2>2, <2>3, <2>4
<1> HIDE DEF s
<1>10. s \in Seq(Harmless) /\ SendAll(f) = Append(s, last)
  <2>1. s \in Seq(Harmless)
    BY <1>6, <1>9, SeqMonotonic
  <2> QED
    BY <1>2, <1>5, <2>1, AppendIsConcat
<1>11. /\ SendAll(f) \in Seq(Harmless) /\ Len(SendAll(f)) = N + 2
       /\ SendAll(f)[N + 2] = last
       /\ \A k \in 1 .. N + 1 : SendAll(f)[k] = s[k]
  <2>1. /\ Append(s, last) \in Seq(Harmless)
        /\ Len(Append(s, last)) = (N + 1) + 1
        /\ Append(s, last)[(N + 1) + 1] = last
        /\ \A k \in 1 .. N + 1 : Append(s, last)[k] = s[k]
    BY <1>5, <1>9, <1>10, AppendProperties
  <2>2. (N + 1) + 1 = N + 2
    BY <1>1
  <2> QED
    BY <1>10, <2>1, <2>2
<1>12. ASSUME NEW k \in 0 .. N - 1
       PROVE  SendAll(f)[k + 2] = CMD_PUT_COLOR(f[row[k + 1]])
  <2>1. k + 1 \in 1 .. N /\ k + 2 \in 1 .. N + 1 /\ k + 2 = (k + 1) + 1
    BY <1>1
  <2>2. SendAll(f)[k + 2] = colors[k + 1]
    BY <1>9, <1>11, <2>1
  <2> QED
    BY <1>7, <2>1, <2>2
<1>13. SendAll(f)[1] = CMD_RESET_POSITION(0, 0)
  <2>1. 1 \in 1 .. N + 1
    BY <1>1
  <2> QED
    BY <1>8, <1>9, <1>11, <2>1
<1>14. IsMessage(SendAll(f))
  BY <1>5, <1>9, <1>10 DEF IsMessage
<1> QED
  BY <1>11, <1>12, <1>13, <1>14 DEF N, row, last

\* Whatever a reader showed, it shows the first frame after its message, and
\* remembers the colour of its last pixel.
THEOREM SendAllDraws ==
    ASSUME NEW r \in Registers, NEW f \in Image
    PROVE  LET e == ApplyAll(r, SendAll(f))
           IN  /\ IsMessage(SendAll(f)) /\ e \in Registers
               /\ e.fb = f /\ e.panel = f /\ e.color = f[<<W - 1, H - 1>>]
<1> DEFINE N == W * H
           row == RowMajor(0, 0, W, H)
           s == SendAll(f)
<1>1. /\ N \in Nat \ {0}
      /\ \A k \in 0 .. N - 1 : row[k + 1] \in Pixel /\ Offset(row[k + 1]) = k
      /\ \A q \in Pixel : Offset(q) \in 0 .. N - 1
      /\ \A q1, q2 \in Pixel : Offset(q1) = Offset(q2) => q1 = q2
      /\ <<W - 1, H - 1>> \in Pixel /\ Offset(<<W - 1, H - 1>>) = N - 1
  BY ScreenRows
<1>2. /\ s \in Seq(Harmless) /\ Len(s) = N + 2
      /\ s[1] = CMD_RESET_POSITION(0, 0)
      /\ \A k \in 0 .. N - 1 : s[k + 2] = CMD_PUT_COLOR(f[row[k + 1]])
      /\ s[N + 2] = CMD_SOFT_UPDATE /\ IsMessage(s)
  BY SendAllCommands
<1>3. W \in Nat \ {0} /\ H \in Nat \ {0}
  BY ScreenAssumption
<1> HIDE DEF N, row, s
<1>4. PICK h \in [0 .. N + 2 -> Registers] :
         /\ h[0] = r /\ \A k \in 1 .. N + 2 : h[k] = Apply(h[k - 1], s[k])
         /\ ApplyAll(r, s) = h[N + 2]
  <2>1. \E h \in [0 .. Len(s) -> Registers] :
           /\ h[0] = r /\ \A k \in 1 .. Len(s) : h[k] = Apply(h[k - 1], s[k])
           /\ ApplyAll(r, s) = h[Len(s)]
    BY <1>2, ApplyAllRun
  <2> QED
    BY <1>2, <2>1
<1> DEFINE Drew(k) ==
              /\ h[k + 1].x \in 0 .. W - 1 /\ h[k + 1].y \in 0 .. H - 1
              /\ \A q \in Pixel : Offset(q) < k => h[k + 1].fb[q] = f[q]
              /\ k < N => h[k + 1].y * W + h[k + 1].x = k
              /\ k > 0 => h[k + 1].color = f[row[k]]
           Good == {k \in 0 .. N : Drew(k)}
<1>5. 0 \in Good
  <2> DEFINE c == CMD_RESET_POSITION(0, 0)
  <2>1. c \in Harmless /\ c.cmd = "RESET_POSITION" /\ c.x = 0 /\ c.y = 0
    BY DEF Harmless, Command, CMD_RESET_POSITION
  <2>2. h[1] = Apply(r, c)
    <3>1. 1 \in 1 .. N + 2 /\ 1 - 1 = 0
      BY <1>1
    <3>2. h[1] = Apply(h[1 - 1], s[1])
      BY <1>4, <3>1
    <3> QED
      BY <1>2, <1>4, <3>1, <3>2
  <2> HIDE DEF c
  <2>3. Apply(r, c) = [r EXCEPT !.x = c.x, !.y = c.y]
    BY <2>1, ApplyType
  <2>4. h[0 + 1].x = 0 /\ h[0 + 1].y = 0
    <3>1. h[1] = [r EXCEPT !.x = 0, !.y = 0] /\ 0 + 1 = 1
      BY <2>1, <2>2, <2>3
    <3> QED
      BY <3>1 DEF Registers
  <2>5. \A q \in Pixel : ~(Offset(q) < 0)
    BY <1>1
  <2>6. 0 \in 0 .. W - 1 /\ 0 \in 0 .. H - 1 /\ 0 * W + 0 = 0 /\ 0 \in 0 .. N
    BY <1>1, <1>3
  <2> QED
    BY <2>4, <2>5, <2>6
<1>6. ASSUME NEW k \in 0 .. N - 1, k \in Good PROVE k + 1 \in Good
  <2> DEFINE c == CMD_PUT_COLOR(f[row[k + 1]])
             a == h[k + 1]
             b == [a EXCEPT !.color = f[row[k + 1]]]
             e == h[(k + 1) + 1]
  <2>1. /\ k \in Nat /\ k < N /\ k + 1 \in 0 .. N /\ k + 1 \in 0 .. N + 2
        /\ k + 2 \in 1 .. N + 2 /\ k + 2 = (k + 1) + 1 /\ (k + 2) - 1 = k + 1
    BY <1>1
  <2>2. f[row[k + 1]] \in Colors
    BY <1>1 DEF Image
  <2>3. /\ c \in Harmless /\ c.cmd = "PUT_COLOR" /\ c.color = f[row[k + 1]]
    BY <2>2 DEF Harmless, Command, CMD_PUT_COLOR
  <2>4. a \in Registers
    BY <1>4, <2>1
  <2>5. e = Apply(a, c)
    BY <1>2, <1>4, <2>1
  <2>6. /\ a.x \in 0 .. W - 1 /\ a.y \in 0 .. H - 1 /\ a.y * W + a.x = k
        /\ \A q \in Pixel : Offset(q) < k => a.fb[q] = f[q]
    BY <1>6, <2>1
  <2> HIDE DEF Good, c, a, e
  <2>7. e = PutPixel(b)
    <3>1. Apply(a, c) = PutPixel([a EXCEPT !.color = c.color])
      BY <2>3, <2>4, ApplyType
    <3> QED
      BY <2>3, <2>5, <3>1
  <2>8. /\ b \in Registers /\ b.x = a.x /\ b.y = a.y /\ b.fb = a.fb
        /\ b.color = f[row[k + 1]]
    BY <2>2, <2>4 DEF Registers
  <2> HIDE DEF b
  <2>9. /\ \A q \in Pixel : e.fb[q] =
               IF q[1] = b.x /\ q[2] = b.y THEN b.color ELSE b.fb[q]
        /\ e.color = b.color
        /\ e.x \in 0 .. W - 1 /\ e.y \in 0 .. H - 1
        /\ \/ b.x = W - 1 /\ b.y = H - 1
           \/ e.y * W + e.x = b.y * W + b.x + 1
    BY <2>6, <2>7, <2>8, PutPixelDraws
  <2>10. row[k + 1] \in Pixel /\ Offset(row[k + 1]) = k
    BY <1>1
  <2>11. <<a.x, a.y>> = row[k + 1]
    <3>1. <<a.x, a.y>> \in Pixel /\ Offset(<<a.x, a.y>>) = k
      BY <2>6 DEF Pixel, Offset
    <3> QED
      BY <1>1, <2>10, <3>1
  <2>12. ASSUME NEW q \in Pixel, Offset(q) < k + 1 PROVE e.fb[q] = f[q]
    <3>1. CASE q = row[k + 1]
      <4>1. q[1] = b.x /\ q[2] = b.y
        BY <2>8, <2>11, <3>1
      <4> QED
        BY <2>8, <2>9, <3>1, <4>1
    <3>2. CASE q # row[k + 1]
      <4>1. Offset(q) # k /\ Offset(q) \in 0 .. N - 1
        BY <1>1, <2>10, <3>2
      <4>2. Offset(q) < k
        BY <1>1, <2>1, <2>12, <4>1
      <4>3. ~(q[1] = b.x /\ q[2] = b.y)
        <5>1. q = <<q[1], q[2]>>
          BY DEF Pixel
        <5> QED
          BY <2>8, <2>11, <3>2, <5>1
      <4> QED
        BY <2>6, <2>8, <2>9, <4>2, <4>3
    <3> QED
      BY <3>1, <3>2
  <2>13. k + 1 < N => e.y * W + e.x = k + 1
    <3> SUFFICES ASSUME k + 1 < N PROVE e.y * W + e.x = k + 1
      OBVIOUS
    <3>1. ~(b.x = W - 1 /\ b.y = H - 1)
      <4> SUFFICES ASSUME b.x = W - 1, b.y = H - 1 PROVE FALSE
        OBVIOUS
      <4>1. row[k + 1] = <<W - 1, H - 1>>
        BY <2>8, <2>11
      <4>2. k = N - 1
        BY <1>1, <2>10, <4>1
      <4> QED
        BY <1>1, <2>1, <4>2
    <3>2. e.y * W + e.x = b.y * W + b.x + 1
      BY <2>9, <3>1
    <3> QED
      BY <2>6, <2>8, <3>2
  <2>14. e.color = f[row[k + 1]]
    BY <2>8, <2>9
  <2>15. Drew(k + 1)
    BY <2>9, <2>12, <2>13, <2>14 DEF e
  <2> QED
    BY <2>1, <2>15 DEF Good
<1>7. Drew(N)
  <2> HIDE DEF Good
  <2>1. \A k \in 0 .. N : k \in Good
    BY <1>1, <1>5, <1>6, CountUp
  <2>2. N \in 0 .. N
    BY <1>1
  <2> QED
    BY <2>1, <2>2 DEF Good
<1> DEFINE a == h[N + 1]
           e == h[N + 2]
           c == CMD_SOFT_UPDATE
<1>8. a \in Registers /\ e \in Registers /\ e = Apply(a, c)
  <2>1. /\ N + 1 \in 0 .. N + 2 /\ N + 2 \in 0 .. N + 2
        /\ N + 2 \in 1 .. N + 2 /\ (N + 2) - 1 = N + 1
    BY <1>1
  <2> QED
    BY <1>2, <1>4, <2>1
<1>9. a.fb = f
  <2>1. a.fb \in Image
    BY <1>8 DEF Registers
  <2>2. \A q \in Pixel : a.fb[q] = f[q]
    <3>1. \A q \in Pixel : Offset(q) < N
      BY <1>1
    <3> QED
      BY <1>7, <3>1
  <2> HIDE DEF a
  <2> QED
    BY <2>1, <2>2 DEF Image
<1>10. a.color = f[<<W - 1, H - 1>>]
  <2>1. N - 1 \in 0 .. N - 1 /\ (N - 1) + 1 = N /\ N > 0
    BY <1>1
  <2>2. row[N] = <<W - 1, H - 1>>
    BY <1>1, <2>1
  <2> QED
    BY <1>7, <2>1, <2>2
<1> HIDE DEF a, e
<1>11. e = [a EXCEPT !.panel = a.fb]
  <2>1. c \in Harmless /\ c.cmd = "SOFT_UPDATE"
    BY DEF Harmless, Command, CMD_SOFT_UPDATE
  <2> QED
    BY <1>8, <2>1, ApplyType
<1>12. e.fb = f /\ e.panel = f /\ e.color = f[<<W - 1, H - 1>>]
  BY <1>8, <1>9, <1>10, <1>11 DEF Registers
<1> QED
  BY <1>2, <1>4, <1>8, <1>12 DEF e, s
=============================================================================
