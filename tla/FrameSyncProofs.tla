--------------------------- MODULE FrameSyncProofs ---------------------------
(***************************************************************************)
(* A session, for every screen size, division into regions, socket buffer  *)
(* and set of frames, and for as many sessions as there are: the reader    *)
(* finds its way in the bytes, confirmations answer messages one to one,   *)
(* the panel shows the frames and FrameSync implements ReaderMirror.       *)
(***************************************************************************)
EXTENDS FrameSync, TransferProofs

-----------------------------------------------------------------------------
(* Sequences.                                                              *)

\* A sequence grows from its beginning one element at a time.
LEMMA Beginnings ==
    ASSUME NEW S, NEW t \in Seq(S)
    PROVE  /\ Len(t) \in Nat /\ SubSeq(t, 1, 0) = <<>>
           /\ SubSeq(t, 1, Len(t)) = t
           /\ \A k \in 0 .. Len(t) - 1 :
                 /\ SubSeq(t, 1, k) \in Seq(S) /\ t[k + 1] \in S
                 /\ SubSeq(t, 1, k + 1) = Append(SubSeq(t, 1, k), t[k + 1])
<1>1. Len(t) \in Nat /\ SubSeq(t, 1, 0) = <<>> /\ SubSeq(t, 1, Len(t)) = t
  BY SubSeqFull, SubSeqEmpty
<1>2. ASSUME NEW k \in 0 .. Len(t) - 1
      PROVE  /\ SubSeq(t, 1, k) \in Seq(S) /\ t[k + 1] \in S
             /\ SubSeq(t, 1, k + 1) = Append(SubSeq(t, 1, k), t[k + 1])
  <2>1. /\ k \in Int /\ 1 \in 1 .. Len(t) /\ k + 1 \in 1 .. Len(t)
        /\ (k + 1) - 1 = k
    BY <1>1
  <2>2. t[k + 1] \in S /\ \A i \in 1 .. k : t[i] \in S
    BY <1>1, <2>1, ElementOfSeq
  <2>3. SubSeq(t, 1, k) \in Seq(S)
    BY <2>1, <2>2, SubSeqProperties
  <2>4. SubSeq(t, 1, k + 1) = SubSeq(t, 1, k) \o <<t[k + 1]>>
    BY <2>1, SubSeqRecursiveSecond
  <2> QED
    BY <2>2, <2>3, <2>4, AppendIsConcat
<1> QED
  BY <1>1, <1>2

\* A set that holds the empty sequence and, with every sequence, those with
\* an element more, holds all.
LEMMA GrowUp ==
    ASSUME NEW S, NEW P, <<>> \in P,
           \A s \in Seq(S), e \in S : s \in P => Append(s, e) \in P,
           NEW t \in Seq(S)
    PROVE  t \in P
<1> DEFINE n == Len(t)
           Good == {k \in 0 .. n : SubSeq(t, 1, k) \in P}
<1>1. /\ n \in Nat /\ SubSeq(t, 1, 0) = <<>> /\ SubSeq(t, 1, n) = t
      /\ 0 \in 0 .. n /\ n \in 0 .. n
  BY Beginnings
<1>2. ASSUME NEW k \in 0 .. n - 1
      PROVE  /\ SubSeq(t, 1, k) \in Seq(S) /\ t[k + 1] \in S
             /\ SubSeq(t, 1, k + 1) = Append(SubSeq(t, 1, k), t[k + 1])
  BY Beginnings
<1> HIDE DEF n
<1>3. 0 \in Good
  BY <1>1
<1>4. ASSUME NEW k \in 0 .. n - 1, k \in Good PROVE k + 1 \in Good
  <2>1. k + 1 \in 0 .. n
    BY <1>1
  <2> QED
    BY <1>2, <1>4, <2>1
<1>5. \A k \in 0 .. n : k \in Good
  <2> HIDE DEF Good
  <2> QED
    BY <1>1, <1>3, <1>4, CountUp
<1> QED
  BY <1>1, <1>5

\* An element more at the end of a concatenation.
LEMMA ConcatAppend ==
    ASSUME NEW S, NEW s \in Seq(S), NEW t \in Seq(S), NEW e \in S
    PROVE  s \o Append(t, e) = Append(s \o t, e)
<1>1. s \o t \in Seq(S) /\ <<e>> \in Seq(S)
  BY ConcatProperties
<1>2. Append(t, e) = t \o <<e>> /\ Append(s \o t, e) = (s \o t) \o <<e>>
  BY <1>1, AppendIsConcat
<1> QED
  BY <1>1, <1>2, ConcatAssociative

\* If two concatenations are equal, so is what follows the shorter beginning.
LEMMA ConcatRest ==
    ASSUME NEW S, NEW a \in Seq(S), NEW b \in Seq(S),
           NEW x \in Seq(S), NEW y \in Seq(S),
           a \o b = x \o y, Len(x) <= Len(a)
    PROVE  /\ SubSeq(a, Len(x) + 1, Len(a)) \in Seq(S)
           /\ SubSeq(a, Len(x) + 1, Len(a)) \o b = y
           /\ \A k \in 1 .. Len(x) : a[k] = x[k]
<1> DEFINE n == Len(x)
           u == SubSeq(a, 1, n)
           v == SubSeq(a, n + 1, Len(a))
<1>1. n \in Nat /\ Len(a) \in Nat /\ Len(b) \in Nat /\ Len(y) \in Nat
  OBVIOUS
<1>2. ASSUME NEW k \in 1 .. n PROVE a[k] = x[k]
  <2>1. k <= Len(a) /\ k <= n /\ k \in 1 .. Len(a) + Len(b)
        /\ k \in 1 .. n + Len(y)
    BY <1>1
  <2>2. (a \o b)[k] = a[k] /\ (x \o y)[k] = x[k]
    BY <2>1, ConcatProperties
  <2> QED
    BY <2>2
<1>3. u = x /\ u \in Seq(S)
  <2>1. \A k \in 1 .. n : a[k] \in S
    BY <1>1, ElementOfSeq
  <2>2. 1 \in Int /\ n \in Int /\ n - 1 + 1 = n
    BY <1>1
  <2>3. /\ u \in Seq(S) /\ Len(u) = IF 1 <= n THEN n - 1 + 1 ELSE 0
        /\ \A k \in 1 .. n - 1 + 1 : u[k] = a[1 + k - 1]
    BY <2>1, <2>2, SubSeqProperties
  <2>4. Len(u) = n /\ \A k \in 1 .. n : u[k] = x[k]
    <3>1. \A k \in 1 .. n : 1 + k - 1 = k
      BY <1>1
    <3> HIDE DEF u
    <3> QED
      BY <1>1, <1>2, <2>2, <2>3, <3>1
  <2> HIDE DEF u
  <2> QED
    BY <2>3, <2>4, SeqEqual
<1>4. v \in Seq(S)
  <2>1. \A k \in n + 1 .. Len(a) : a[k] \in S
    BY <1>1, ElementOfSeq
  <2> QED
    BY <1>1, <2>1, SubSeqProperties
<1>5. u \o v = a
  <2>1. SubSeq(a, 1, Len(a)) = a
    BY SubSeqFull
  <2>2. 1 \in 1 .. Len(a) + 1 /\ n \in 1 - 1 .. Len(a)
        /\ Len(a) \in n .. Len(a)
    BY <1>1
  <2> QED
    BY <2>1, <2>2, ConcatAdjacentSubSeq
<1> HIDE DEF u, v
<1>6. x \o (v \o b) = x \o y /\ v \o b \in Seq(S)
  <2>1. (u \o v) \o b = u \o (v \o b)
    BY <1>3, <1>4, ConcatAssociative
  <2> QED
    BY <1>3, <1>4, <1>5, <2>1, ConcatProperties
<1>7. v \o b = y
  BY <1>6, ConcatSimplifications
<1> QED
  BY <1>2, <1>4, <1>7 DEF v, n

-----------------------------------------------------------------------------
(* Bytes.                                                                  *)

Byte == Command \cup {ArgByte, NulByte, RES_CONFIRM}

\* A command begins with its first byte, and other bytes begin none.
LEMMA EncodeType ==
    ASSUME NEW c \in Command
    PROVE  /\ Size(c) \in Nat \ {0}
           /\ Encode(c) \in Seq(Byte) /\ Len(Encode(c)) = Size(c)
           /\ Encode(c)[1] = c
           /\ \A k \in 2 .. Size(c) : Encode(c)[k] \in {ArgByte, NulByte}
<1> DEFINE n == Size(c)
           e == [k \in 1 .. n |->
                   CASE k = 1                             -> c
                     [] k = n /\ c.cmd = "SHOW_ERROR"     -> NulByte
                     [] OTHER                             -> ArgByte]
<1>1. n \in Nat \ {0} /\ (c.cmd = "SHOW_ERROR" => n # 1)
  BY DEF Command, Size, COORD_SIZE, COLOR_SIZE, COUNT_SIZE
<1>2. Encode(c) = e
  BY DEF Encode
<1> HIDE DEF n
<1>3. ASSUME NEW k \in 1 .. n
      PROVE  e[k] = IF k = 1 THEN c
                    ELSE IF k = n /\ c.cmd = "SHOW_ERROR" THEN NulByte
                    ELSE ArgByte
  BY <1>1
<1>4. e \in [1 .. n -> Byte]
  <2>1. DOMAIN e = 1 .. n /\ e = [k \in 1 .. n |-> e[k]]
    OBVIOUS
  <2> HIDE DEF e
  <2> QED
    BY <1>3, <2>1 DEF Byte
<1> HIDE DEF e
<1>5. e \in Seq(Byte) /\ Len(e) = n
  <2>1. e \in Seq(Byte)
    BY <1>1, <1>4, SeqDef
  <2>2. DOMAIN e = 1 .. n /\ DOMAIN e = 1 .. Len(e) /\ Len(e) \in Nat
    BY <1>4, <2>1, LenProperties
  <2> QED
    BY <1>1, <2>1, <2>2
<1>6. e[1] = c /\ \A k \in 2 .. n : e[k] \in {ArgByte, NulByte}
  BY <1>1, <1>3
<1> QED
  BY <1>1, <1>2, <1>5, <1>6 DEF n

\* FlattenSeq concatenates from the left.
LEMMA FlattenRun ==
    ASSUME NEW S, NEW ss \in Seq(Seq(S))
    PROVE  \E h \in [0 .. Len(ss) -> Seq(S)] :
              /\ h[0] = <<>> /\ \A k \in 1 .. Len(ss) : h[k] = h[k - 1] \o ss[k]
              /\ FlattenSeq(ss) = h[Len(ss)]
<1> DEFINE n == Len(ss)
           T == Seq(S)
           g == [t \in T \X (1 .. n) |-> t[1] \o ss[t[2]]]
           IsFlat(f) == f = [k \in 1 .. n |-> IF k = 1 THEN ss[k]
                                              ELSE f[k - 1] \o ss[k]]
           flat == CHOOSE f : IsFlat(f)
<1>1. n \in Nat /\ \A k \in 1 .. n : ss[k] \in T
  BY ElementOfSeq
<1>2. <<>> \in T
  OBVIOUS
<1>3. g \in [T \X (1 .. n) -> T]
  <2> SUFFICES ASSUME NEW t \in T \X (1 .. n) PROVE t[1] \o ss[t[2]] \in T
    OBVIOUS
  <2>1. t[1] \in T /\ ss[t[2]] \in T
    BY <1>1
  <2> QED
    BY <2>1, ConcatProperties
<1> HIDE DEF n, T, g
<1>4. PICK it \in [SUBSET (1 .. n) -> T] : IsFold(it, <<>>, g, n)
  BY <1>1, <1>2, <1>3, FoldExists
<1> DEFINE h == [k \in 0 .. n |-> it[1 .. k]]
<1>5. h \in [0 .. n -> T]
  <2>1. \A k \in 0 .. n : 1 .. k \in SUBSET (1 .. n)
    BY <1>1
  <2> QED
    BY <1>4, <2>1
<1>6. h[0] = <<>>
  <2>1. 1 .. 0 = {} /\ {} \in SUBSET (1 .. n) /\ 0 \in 0 .. n
    BY <1>1
  <2> QED
    BY <1>4, <2>1 DEF IsFold
<1>7. ASSUME NEW k \in 1 .. n PROVE h[k] = h[k - 1] \o ss[k]
  <2>1. /\ k \in 0 .. n /\ k - 1 \in 0 .. n /\ 1 .. k \in SUBSET (1 .. n)
        /\ k \in Nat \ {0}
    BY <1>1
  <2>2. Max(1 .. k) = k /\ (1 .. k) \ {k} = 1 .. k - 1 /\ 1 .. k # {}
    BY <2>1, UpTo
  <2>3. it[1 .. k] = g[<<it[1 .. k - 1], k>>]
    BY <1>4, <2>1, <2>2 DEF IsFold
  <2>4. h[k - 1] \in T /\ h[k - 1] = it[1 .. k - 1] /\ h[k] = it[1 .. k]
    BY <1>5, <2>1
  <2> HIDE DEF h
  <2> QED
    BY <2>3, <2>4 DEF g
<1> HIDE DEF h
<1>8. CASE n = 0
  <2>1. ss = <<>> /\ FlattenSeq(ss) = ss
    BY <1>8, EmptySeq DEF n, FlattenSeq
  <2> QED
    BY <1>5, <1>6, <1>7, <1>8, <2>1 DEF n, T
<1>9. CASE n # 0
  <2> DEFINE f == [k \in 1 .. n |-> h[k]]
  <2>1. IsFlat(f)
    <3> SUFFICES ASSUME NEW k \in 1 .. n
                 PROVE  f[k] = IF k = 1 THEN ss[k] ELSE f[k - 1] \o ss[k]
      OBVIOUS
    <3>1. CASE k = 1
      <4>1. <<>> \o ss[k] = ss[k] /\ k - 1 = 0
        BY <1>1, <3>1, ConcatEmptySeq DEF T
      <4> QED
        BY <1>6, <1>7, <3>1, <4>1
    <3>2. CASE k # 1
      <4>1. k - 1 \in 1 .. n
        BY <1>1, <3>2
      <4> QED
        BY <1>7, <3>2, <4>1
    <3> QED
      BY <3>1, <3>2
  <2>2. IsFlat(flat)
    BY <2>1
  <2>3. FlattenSeq(ss) = flat[n]
    BY <1>9 DEF FlattenSeq, n
  <2> HIDE DEF flat, f
  <2>4. \A k \in 1 .. n : flat[k] = IF k = 1 THEN ss[k]
                                    ELSE flat[k - 1] \o ss[k]
    BY <2>2
  <2> DEFINE Same == {k \in 0 .. n : k > 0 => flat[k] = h[k]}
  <2>5. 0 \in Same
    BY <1>1
  <2>6. ASSUME NEW k \in 0 .. n - 1, k \in Same PROVE k + 1 \in Same
    <3>1. k + 1 \in 1 .. n /\ (k + 1) - 1 = k /\ k + 1 \in 0 .. n
      BY <1>1
    <3>2. h[k + 1] = h[k] \o ss[k + 1]
      BY <1>7, <3>1
    <3>3. CASE k = 0
      <4>1. <<>> \o ss[1] = ss[1] /\ 1 \in 1 .. n /\ k + 1 = 1
        BY <1>1, <3>1, <3>3, ConcatEmptySeq DEF T
      <4>2. flat[1] = ss[1]
        BY <2>4, <4>1
      <4>3. h[1] = ss[1]
        BY <1>6, <3>2, <3>3, <4>1
      <4> HIDE DEF Same
      <4>4. flat[k + 1] = h[k + 1]
        BY <4>1, <4>2, <4>3
      <4> QED
        BY <3>1, <4>4 DEF Same
    <3>4. CASE k # 0
      <4>1. flat[k + 1] = flat[k] \o ss[k + 1] /\ k > 0
        <5>1. k + 1 # 1 /\ k > 0
          BY <1>1, <3>4
        <5>2. flat[k + 1] = flat[(k + 1) - 1] \o ss[k + 1]
          BY <2>4, <3>1, <5>1
        <5> QED
          BY <3>1, <5>1, <5>2
      <4> QED
        BY <2>6, <3>1, <3>2, <4>1
    <3> QED
      BY <3>3, <3>4
  <2>7. flat[n] = h[n]
    <3> HIDE DEF Same
    <3>1. \A k \in 0 .. n : k \in Same
      BY <1>1, <2>5, <2>6, CountUp
    <3>2. n \in 0 .. n /\ n > 0
      BY <1>1, <1>9
    <3> QED
      BY <3>1, <3>2 DEF Same
  <2> QED
    BY <1>5, <1>6, <1>7, <2>3, <2>7 DEF n, T
<1> QED
  BY <1>8, <1>9

\* The bytes of a sequence of commands, command by command.
LEMMA EncodeRun ==
    ASSUME NEW s \in Seq(Command)
    PROVE  \E h \in [0 .. Len(s) -> Seq(Byte)] :
              /\ h[0] = <<>>
              /\ \A k \in 1 .. Len(s) : h[k] = h[k - 1] \o Encode(s[k])
              /\ EncodeAll(s) = h[Len(s)]
<1> DEFINE n == Len(s)
           ss == [k \in 1 .. n |-> Encode(s[k])]
<1>1. n \in Nat /\ DOMAIN s = 1 .. n /\ \A k \in 1 .. n : s[k] \in Command
  BY ElementOfSeq, LenProperties
<1>2. ss \in Seq(Seq(Byte)) /\ Len(ss) = n
  <2>1. \A k \in 1 .. n : Encode(s[k]) \in Seq(Byte)
    BY <1>1, EncodeType
  <2> HIDE DEF n
  <2>2. ss \in [1 .. n -> Seq(Byte)]
    BY <2>1
  <2> HIDE DEF ss
  <2>3. ss \in Seq(Seq(Byte))
    BY <1>1, <2>2, SeqDef
  <2>4. DOMAIN ss = 1 .. n /\ DOMAIN ss = 1 .. Len(ss) /\ Len(ss) \in Nat
    BY <2>2, <2>3, LenProperties
  <2> QED
    BY <1>1, <2>3, <2>4
<1>3. EncodeAll(s) = FlattenSeq(ss)
  BY <1>1 DEF EncodeAll
<1>4. \A k \in 1 .. n : ss[k] = Encode(s[k])
  OBVIOUS
<1> HIDE DEF ss, n
<1>5. PICK h \in [0 .. Len(ss) -> Seq(Byte)] :
         /\ h[0] = <<>> /\ \A k \in 1 .. Len(ss) : h[k] = h[k - 1] \o ss[k]
         /\ FlattenSeq(ss) = h[Len(ss)]
  BY <1>2, FlattenRun
<1> QED
  BY <1>2, <1>3, <1>4, <1>5 DEF n

\* One command more is its bytes more.
LEMMA EncodeSteps ==
    ASSUME NEW s \in Seq(Command)
    PROVE  /\ EncodeAll(<<>>) = <<>> /\ EncodeAll(s) \in Seq(Byte)
           /\ \A c \in Command :
                 EncodeAll(Append(s, c)) = EncodeAll(s) \o Encode(c)
<1> DEFINE n == Len(s)
<1>0. n \in Nat
  OBVIOUS
<1>1. EncodeAll(<<>>) = <<>>
  <2>1. <<>> \in Seq(Command) /\ Len(<<>>) = 0
    OBVIOUS
  <2> QED
    BY <2>1, EncodeRun
<1>2. PICK a \in [0 .. n -> Seq(Byte)] :
         /\ a[0] = <<>> /\ \A k \in 1 .. n : a[k] = a[k - 1] \o Encode(s[k])
         /\ EncodeAll(s) = a[n]
  BY EncodeRun
<1>3. ASSUME NEW c \in Command
      PROVE  EncodeAll(Append(s, c)) = EncodeAll(s) \o Encode(c)
  <2> DEFINE t == Append(s, c)
  <2>1. /\ t \in Seq(Command) /\ Len(t) = n + 1 /\ t[n + 1] = c
        /\ \A k \in 1 .. n : t[k] = s[k]
    BY AppendProperties
  <2> HIDE DEF t, n
  <2>2. PICK b \in [0 .. n + 1 -> Seq(Byte)] :
           /\ b[0] = <<>>
           /\ \A k \in 1 .. n + 1 : b[k] = b[k - 1] \o Encode(t[k])
           /\ EncodeAll(t) = b[n + 1]
    <3>1. \E b \in [0 .. Len(t) -> Seq(Byte)] :
             /\ b[0] = <<>>
             /\ \A k \in 1 .. Len(t) : b[k] = b[k - 1] \o Encode(t[k])
             /\ EncodeAll(t) = b[Len(t)]
      BY <2>1, EncodeRun
    <3> QED
      BY <2>1, <3>1
  <2> DEFINE Same == {k \in 0 .. n : a[k] = b[k]}
  <2>3. 0 \in Same
    BY <1>0, <1>2, <2>2
  <2>4. ASSUME NEW k \in 0 .. n - 1, k \in Same PROVE k + 1 \in Same
    <3>1. /\ k + 1 \in 1 .. n /\ k + 1 \in 1 .. n + 1 /\ (k + 1) - 1 = k
          /\ k + 1 \in 0 .. n
      BY <1>0
    <3>2. a[k + 1] = a[k] \o Encode(s[k + 1]) /\ t[k + 1] = s[k + 1]
      BY <1>2, <2>1, <3>1
    <3>3. b[k + 1] = b[k] \o Encode(t[k + 1])
      BY <2>2, <3>1
    <3> QED
      BY <2>4, <3>1, <3>2, <3>3
  <2>5. a[n] = b[n]
    <3> HIDE DEF Same
    <3>1. \A k \in 0 .. n : k \in Same
      BY <1>0, <2>3, <2>4, CountUp
    <3> QED
      BY <1>0, <3>1 DEF Same
  <2>6. b[n + 1] = b[n] \o Encode(c)
    <3>1. n + 1 \in 1 .. n + 1 /\ (n + 1) - 1 = n
      BY <1>0
    <3> QED
      BY <2>1, <2>2, <3>1
  <2> QED
    BY <1>2, <2>2, <2>5, <2>6 DEF t
<1>4. EncodeAll(s) \in Seq(Byte)
  BY <1>0, <1>2
<1> QED
  BY <1>1, <1>3, <1>4

\* The bytes of two sequences one after the other.
LEMMA EncodeConcat ==
    ASSUME NEW s \in Seq(Command), NEW t \in Seq(Command)
    PROVE  EncodeAll(s \o t) = EncodeAll(s) \o EncodeAll(t)
<1> DEFINE Good == {u \in Seq(Command) :
                      EncodeAll(s \o u) = EncodeAll(s) \o EncodeAll(u)}
<1>1. EncodeAll(s) \in Seq(Byte) /\ EncodeAll(<<>>) = <<>>
  BY EncodeSteps
<1>2. <<>> \in Good
  <2>1. s \o <<>> = s
    BY ConcatEmptySeq
  <2>2. EncodeAll(s) \o <<>> = EncodeAll(s)
    BY <1>1, ConcatEmptySeq
  <2> QED
    BY <1>1, <2>1, <2>2
<1>3. ASSUME NEW u \in Seq(Command), NEW c \in Command, u \in Good
      PROVE  Append(u, c) \in Good
  <2>1. /\ s \o u \in Seq(Command) /\ EncodeAll(u) \in Seq(Byte)
        /\ Encode(c) \in Seq(Byte)
    BY ConcatProperties, EncodeSteps, EncodeType
  <2>2. s \o Append(u, c) = Append(s \o u, c)
    BY ConcatAppend
  <2>3. EncodeAll(Append(s \o u, c)) = EncodeAll(s \o u) \o Encode(c)
    BY <2>1, EncodeSteps
  <2>4. EncodeAll(Append(u, c)) = EncodeAll(u) \o Encode(c)
    BY EncodeSteps
  <2>5. EncodeAll(s) \o (EncodeAll(u) \o Encode(c))
           = (EncodeAll(s) \o EncodeAll(u)) \o Encode(c)
    <3> DEFINE a == EncodeAll(s)
               b == EncodeAll(u)
               e == Encode(c)
    <3>1. a \in Seq(Byte) /\ b \in Seq(Byte) /\ e \in Seq(Byte)
      BY <1>1, <2>1
    <3> HIDE DEF a, b, e
    <3>2. (a \o b) \o e = a \o (b \o e)
      BY <3>1, ConcatAssociative
    <3> QED
      BY <3>2 DEF a, b, e
  <2>6. Append(u, c) \in Seq(Command)
    BY AppendProperties
  <2> QED
    BY <1>3, <2>2, <2>3, <2>4, <2>5, <2>6
<1>4. t \in Good
  <2> HIDE DEF Good
  <2> QED
    BY <1>2, <1>3, GrowUp
<1> QED
  BY <1>4

\* The bytes of the first command come first.
LEMMA EncodeFirst ==
    ASSUME NEW s \in Seq(Command), s # <<>>
    PROVE  /\ s[1] \in Command /\ Tail(s) \in Seq(Command)
           /\ Len(s) \in Nat \ {0} /\ Len(Tail(s)) = Len(s) - 1
           /\ \A k \in 1 .. Len(s) - 1 : Tail(s)[k] = s[k + 1]
           /\ EncodeAll(Tail(s)) \in Seq(Byte)
           /\ EncodeAll(s) = Encode(s[1]) \o EncodeAll(Tail(s))
<1> DEFINE n == Len(s)
           c == s[1]
           r == Tail(s)
<1>1. n \in Nat \ {0} /\ n \in 1 .. n /\ 1 \in 1 .. n
  BY EmptySeq
<1>2. c \in Command
  BY <1>1, ElementOfSeq
<1>3. /\ r \in Seq(Command) /\ Len(r) = n - 1
      /\ \A k \in 1 .. n - 1 : r[k] = s[k + 1]
  BY HeadTailProperties
<1>4. s = <<c>> \o r
  <2>1. SubSeq(s, 1, n) = <<s[1]>> \o SubSeq(s, 1 + 1, n)
    BY <1>1, SubSeqRecursiveFirst
  <2>2. SubSeq(s, 1, n) = s /\ r = SubSeq(s, 2, n) /\ 1 + 1 = 2
    BY SubSeqFull, TailIsSubSeq
  <2> QED
    BY <2>1, <2>2
<1> HIDE DEF c, r, n
<1>5. EncodeAll(<<c>>) = Encode(c)
  <2>1. <<>> \in Seq(Command) /\ <<c>> = Append(<<>>, c)
    BY <1>2
  <2>2. EncodeAll(<<c>>) = EncodeAll(<<>>) \o Encode(c) /\ EncodeAll(<<>>) = <<>>
    BY <1>2, <2>1, EncodeSteps
  <2>3. Encode(c) \in Seq(Byte)
    BY <1>2, EncodeType
  <2> QED
    BY <2>2, <2>3, ConcatEmptySeq
<1>6. <<c>> \in Seq(Command)
  BY <1>2
<1>7. EncodeAll(<<c>> \o r) = EncodeAll(<<c>>) \o EncodeAll(r)
  BY <1>3, <1>6, EncodeConcat
<1>8. EncodeAll(r) \in Seq(Byte)
  BY <1>3, EncodeSteps
<1> QED
  BY <1>1, <1>2, <1>3, <1>4, <1>5, <1>7, <1>8 DEF c, r, n

\* No bytes, no commands.
LEMMA EncodeEmpty ==
    ASSUME NEW s \in Seq(Command)
    PROVE  EncodeAll(s) = <<>> <=> s = <<>>
<1>1. EncodeAll(<<>>) = <<>>
  BY EncodeSteps
<1>2. ASSUME s # <<>>, EncodeAll(s) = <<>> PROVE FALSE
  <2> DEFINE e == Encode(s[1])
             r == EncodeAll(Tail(s))
  <2>1. /\ e \in Seq(Byte) /\ Len(e) \in Nat \ {0}
        /\ r \in Seq(Byte) /\ e \o r = <<>>
    BY <1>2, EncodeFirst, EncodeType
  <2> HIDE DEF e, r
  <2>2. e = <<>>
    BY <2>1, ConcatSimplifications
  <2> QED
    BY <2>1, <2>2
<1> QED
  BY <1>1, <1>2

-----------------------------------------------------------------------------
(* Refreshes among the bytes.                                              *)

\* One byte more: it begins a refresh or not.
LEMMA RefreshesAppend ==
    ASSUME NEW s \in Seq(Byte), NEW b \in Byte
    PROVE  /\ Refreshes(<<>>) = 0 /\ Refreshes(s) \in Nat
           /\ Refreshes(Append(s, b))
                 = Refreshes(s) + (IF b.cmd \in Update THEN 1 ELSE 0)
<1> DEFINE n == Len(s)
           R(t) == {k \in DOMAIN t : t[k].cmd \in Update}
           t == Append(s, b)
<1>1. n \in Nat /\ DOMAIN s = 1 .. n
  BY LenProperties
<1>2. /\ t \in Seq(Byte) /\ DOMAIN t = 1 .. n + 1 /\ t[n + 1] = b
      /\ \A k \in 1 .. n : t[k] = s[k]
  BY AppendProperties, LenProperties
<1>3. IsFiniteSet(R(s))
  <2>1. IsFiniteSet(1 .. n)
    BY <1>1, FS_Interval
  <2> QED
    BY <1>1, <2>1, FS_Subset
<1>4. R(t) = IF b.cmd \in Update THEN R(s) \cup {n + 1} ELSE R(s)
  <2> HIDE DEF t, n
  <2>1. n + 1 \in 1 .. n + 1 /\ 1 .. n + 1 = (1 .. n) \cup {n + 1}
    BY <1>1
  <2> QED
    BY <1>1, <1>2, <2>1
<1>5. n + 1 \notin R(s)
  BY <1>1
<1>6. Cardinality({}) = 0 /\ R(<<>>) = {}
  BY FS_EmptySet
<1>7. Cardinality(R(s)) \in Nat
  BY <1>3, FS_CardinalityType
<1>8. Cardinality(R(s) \cup {n + 1}) = Cardinality(R(s)) + 1
  BY <1>3, <1>5, FS_AddElement
<1>9. Refreshes(s) = Cardinality(R(s)) /\ Refreshes(t) = Cardinality(R(t))
      /\ Refreshes(<<>>) = Cardinality(R(<<>>))
  BY DEF Refreshes
<1> HIDE DEF R, t, n
<1>10. Refreshes(t) = Refreshes(s) + (IF b.cmd \in Update THEN 1 ELSE 0)
  BY <1>4, <1>7, <1>8, <1>9
<1> QED
  BY <1>6, <1>7, <1>9, <1>10 DEF t

\* Bytes one after the other.
LEMMA RefreshesConcat ==
    ASSUME NEW s \in Seq(Byte), NEW t \in Seq(Byte)
    PROVE  Refreshes(s \o t) = Refreshes(s) + Refreshes(t)
<1> DEFINE Good == {u \in Seq(Byte) :
                      Refreshes(s \o u) = Refreshes(s) + Refreshes(u)}
<1>1. Refreshes(s) \in Nat /\ Refreshes(<<>>) = 0
  <2>1. ArgByte \in Byte
    BY DEF Byte
  <2> QED
    BY <2>1, RefreshesAppend
<1>2. <<>> \in Good
  <2>1. s \o <<>> = s
    BY ConcatEmptySeq
  <2> QED
    BY <1>1, <2>1
<1>3. ASSUME NEW u \in Seq(Byte), NEW b \in Byte, u \in Good
      PROVE  Append(u, b) \in Good
  <2> DEFINE i == IF b.cmd \in Update THEN 1 ELSE 0
  <2>1. s \o u \in Seq(Byte) /\ Append(u, b) \in Seq(Byte)
    BY ConcatProperties, AppendProperties
  <2>2. s \o Append(u, b) = Append(s \o u, b)
    BY ConcatAppend
  <2>3. Refreshes(Append(s \o u, b)) = Refreshes(s \o u) + i
    BY <2>1, RefreshesAppend
  <2>4. Refreshes(Append(u, b)) = Refreshes(u) + i /\ Refreshes(u) \in Nat
    BY RefreshesAppend
  <2>5. i \in Nat
    OBVIOUS
  <2>6. Refreshes(s \o u) = Refreshes(s) + Refreshes(u)
    BY <1>3
  <2>7. (Refreshes(s) + Refreshes(u)) + i = Refreshes(s) + (Refreshes(u) + i)
    <3> HIDE DEF i
    <3> QED
      BY <1>1, <2>4, <2>5
  <2>8. Refreshes(s \o Append(u, b)) = Refreshes(s) + Refreshes(Append(u, b))
    <3> HIDE DEF i
    <3> QED
      BY <2>2, <2>3, <2>4, <2>6, <2>7
  <2> QED
    BY <2>1, <2>8
<1>4. t \in Good
  <2> HIDE DEF Good
  <2> QED
    BY <1>2, <1>3, GrowUp
<1> QED
  BY <1>4

\* A command is a refresh or not.
LEMMA RefreshesEncode ==
    ASSUME NEW s \in Seq(Command), NEW c \in Command
    PROVE  /\ Refreshes(EncodeAll(<<>>)) = 0
           /\ Refreshes(EncodeAll(s)) \in Nat
           /\ Refreshes(EncodeAll(Append(s, c)))
                 = Refreshes(EncodeAll(s))
                   + (IF c.cmd \in Update THEN 1 ELSE 0)
<1> DEFINE n == Size(c)
           e == Encode(c)
           R == {k \in DOMAIN e : e[k].cmd \in Update}
<1>1. /\ n \in Nat \ {0} /\ e \in Seq(Byte) /\ Len(e) = n /\ e[1] = c
      /\ \A k \in 2 .. n : e[k] \in {ArgByte, NulByte}
  BY EncodeType
<1>2. DOMAIN e = 1 .. n
  BY <1>1, LenProperties
<1>3. R = IF c.cmd \in Update THEN {1} ELSE {}
  <2> HIDE DEF e, n
  <2>1. 1 \in 1 .. n /\ \A k \in 1 .. n : k = 1 \/ k \in 2 .. n
    BY <1>1
  <2>2. \A k \in 2 .. n : e[k].cmd \notin Update
    BY <1>1 DEF ArgByte, NulByte, Update
  <2>3. 1 \notin 2 .. n
    OBVIOUS
  <2> QED
    BY <1>1, <1>2, <2>1, <2>2, <2>3
<1>4. Refreshes(e) = IF c.cmd \in Update THEN 1 ELSE 0
  <2>1. Cardinality({1}) = 1 /\ Cardinality({}) = 0
    BY FS_EmptySet, FS_Singleton
  <2>2. Refreshes(e) = Cardinality(R)
    BY DEF Refreshes
  <2> HIDE DEF R, e
  <2> QED
    BY <1>3, <2>1, <2>2
<1>5. /\ EncodeAll(s) \in Seq(Byte) /\ EncodeAll(<<>>) = <<>>
      /\ EncodeAll(Append(s, c)) = EncodeAll(s) \o e
  BY EncodeSteps
<1>6. Refreshes(EncodeAll(s)) \in Nat /\ Refreshes(<<>>) = 0
  <2>1. ArgByte \in Byte
    BY DEF Byte
  <2> QED
    BY <1>5, <2>1, RefreshesAppend
<1>7. Refreshes(EncodeAll(s) \o e) = Refreshes(EncodeAll(s)) + Refreshes(e)
  <2> HIDE DEF e
  <2> QED
    BY <1>1, <1>5, RefreshesConcat
<1> HIDE DEF e
<1> QED
  BY <1>4, <1>5, <1>6, <1>7

-----------------------------------------------------------------------------
(* Executions.                                                             *)

\* A sequence over a set is one over a larger set.
LEMMA WiderSeq ==
    ASSUME NEW A, NEW B, A \subseteq B, NEW s \in Seq(A)
    PROVE  s \in Seq(B)
<1>1. Len(s) \in Nat /\ DOMAIN s = 1 .. Len(s) /\ s \in [1 .. Len(s) -> A]
  BY LenProperties, SeqDef
<1>2. s \in [1 .. Len(s) -> B]
  BY <1>1
<1> QED
  BY <1>1, <1>2, SeqDef

\* Commands that do not reach the panel, among them those of an idle server.
Quiet  == {c \in Harmless : c.cmd \notin Update}
Checks == {c \in Harmless : c.cmd = "CONN_CHECK"}

LEMMA QuietCommands ==
    /\ Checks \subseteq Quiet /\ Drawing \subseteq Quiet
    /\ Quiet \subseteq Harmless /\ Harmless \subseteq Command
    /\ CONN_CHECK \in Checks
BY DEF Checks, Quiet, Drawing, Harmless, Command, CONN_CHECK, Update

\* No iteration of PUT_REPEAT reaches the panel.
LEMMA RepeatKeepsPanel ==
    ASSUME NEW r \in Registers, NEW n \in Nat
    PROVE  Repeat(r, n).panel = r.panel
<1> DEFINE Good == {k \in 0 .. n : Repeat(r, k).panel = r.panel}
<1>1. 0 \in Good
  BY RepeatNext
<1>2. ASSUME NEW k \in 0 .. n - 1, k \in Good PROVE k + 1 \in Good
  <2>1. k \in Nat /\ k + 1 \in 0 .. n
    OBVIOUS
  <2>2. Repeat(r, k) \in Registers /\ Repeat(r, k + 1) = PutPixel(Repeat(r, k))
    BY <2>1, RepeatNext
  <2> DEFINE a == Repeat(r, k)
  <2> HIDE DEF a
  <2>3. PutPixel(a).panel = a.panel
    <3>1. a \in Registers
      BY <2>2 DEF a
    <3> QED
      BY <3>1 DEF PutPixel, Registers
  <2>4. a.panel = r.panel
    BY <1>2 DEF a
  <2>5. Repeat(r, k + 1).panel = r.panel
    BY <2>2, <2>3, <2>4 DEF a
  <2> QED
    BY <2>1, <2>5
<1>3. \A k \in 0 .. n : k \in Good
  <2> HIDE DEF Good
  <2> QED
    BY <1>1, <1>2, CountUp
<1> QED
  BY <1>3

\* Only a refresh changes the panel, and a check of the connection nothing.
LEMMA QuietKeepsPanel ==
    ASSUME NEW r \in Registers, NEW c \in Quiet
    PROVE  /\ c \in Harmless /\ Apply(r, c) \in Registers
           /\ Apply(r, c).panel = r.panel
           /\ c \in Checks => Apply(r, c) = r
<1>1. c \in Harmless /\ c.cmd \notin Update
  BY DEF Quiet
<1>2. Apply(r, c) \in Registers
  BY <1>1, ApplyType
<1>3. c \in Checks => Apply(r, c) = r
  BY <1>1, ApplyType DEF Checks
<1>4. Apply(r, c).panel = r.panel
  <2>1. CASE c.cmd = "RESET_POSITION"
    <3>1. Apply(r, c) = [r EXCEPT !.x = c.x, !.y = c.y]
      BY <1>1, <2>1, ApplyType
    <3> QED
      BY <3>1 DEF Registers
  <2>2. CASE c.cmd = "SKIP"
    <3>1. Apply(r, c) = SkipPixels(r, c.count)
      BY <1>1, <2>2, ApplyType
    <3> QED
      BY <3>1 DEF SkipPixels, Registers
  <2>3. CASE c.cmd = "PUT_REPEAT"
    <3>1. Apply(r, c) = Repeat(r, c.count) /\ c.count \in Nat
      BY <1>1, <2>3, ApplyType, HarmlessKinds
    <3> QED
      BY <3>1, RepeatKeepsPanel
  <2>4. CASE c.cmd = "PUT_COLOR"
    <3>1. Apply(r, c) = PutPixel([r EXCEPT !.color = c.color])
      BY <1>1, <2>4, ApplyType
    <3> QED
      BY <3>1 DEF PutPixel, Registers
  <2>5. CASE c.cmd = "CONN_CHECK"
    BY <1>1, <2>5, ApplyType
  <2> QED
    BY <1>1, <2>1, <2>2, <2>3, <2>4, <2>5, HarmlessKinds DEF Update
<1> QED
  BY <1>1, <1>2, <1>3, <1>4

\* What is kept on the way is kept in the end.
LEMMA KeepsEnds ==
    ASSUME NEW r \in Registers, NEW s \in Seq(Harmless), NEW Q, Keeps(r, s, Q)
    PROVE  \A q \in Q : ApplyAll(r, s).fb[q] = r.fb[q]
<1>1. PICK h : /\ IsExecution(h, r, s)
               /\ \A k \in 0 .. Len(s), q \in Q : h[k].fb[q] = r.fb[q]
  BY DEF Keeps
<1>2. h[Len(s)] = ApplyAll(r, s)
  BY <1>1, ExecutionEnds
<1>3. Len(s) \in 0 .. Len(s)
  BY LenProperties
<1> QED
  BY <1>1, <1>2, <1>3

\* The reader that has executed the first command is on its way through the
\* others.
LEMMA ExecutesFirst ==
    ASSUME NEW r \in Registers, NEW c \in Harmless, NEW Q,
           NEW t \in Seq(Harmless)
    PROVE  /\ Apply(r, c) \in Registers
           /\ <<c>> \o t \in Seq(Harmless)
           /\ ApplyAll(r, <<c>> \o t) = ApplyAll(Apply(r, c), t)
           /\ Keeps(r, <<c>> \o t, Q) =>
                 /\ Keeps(Apply(r, c), t, Q)
                 /\ \A q \in Q : Apply(r, c).fb[q] = r.fb[q]
<1> DEFINE b == Apply(r, c)
           Good == {u \in Seq(Harmless) :
                      /\ ApplyAll(r, <<c>> \o u) = ApplyAll(b, u)
                      /\ Keeps(r, <<c>> \o u, Q) =>
                            /\ Keeps(b, u, Q)
                            /\ \A q \in Q : b.fb[q] = r.fb[q]}
<1>1. b \in Registers
  BY ApplyType
<1>2. <<c>> \in Seq(Harmless) /\ <<>> \in Seq(Harmless)
  OBVIOUS
<1> HIDE DEF b
<1>3. <<>> \in Good
  <2>1. <<c>> \o <<>> = <<c>> /\ <<c>> = Append(<<>>, c)
    BY <1>2
  <2>2. ApplyAll(r, Append(<<>>, c)) = Apply(ApplyAll(r, <<>>), c)
    BY <1>2, ApplyAllAppend
  <2>3. ApplyAll(r, <<>>) = r /\ ApplyAll(b, <<>>) = b
    BY <1>1, <1>2, ApplyAllAppend
  <2>4. Keeps(b, <<>>, Q)
    BY <1>1, <1>2, KeepsSteps
  <2>5. ApplyAll(r, <<c>>) = b
    BY <2>1, <2>2, <2>3 DEF b
  <2>6. ASSUME Keeps(r, <<c>>, Q) PROVE \A q \in Q : b.fb[q] = r.fb[q]
    BY <1>2, <2>5, <2>6, KeepsEnds
  <2> QED
    BY <1>2, <2>1, <2>3, <2>4, <2>5, <2>6
<1>4. ASSUME NEW u \in Seq(Harmless), NEW e \in Harmless, u \in Good
      PROVE  Append(u, e) \in Good
  <2>1. <<c>> \o u \in Seq(Harmless) /\ Append(u, e) \in Seq(Harmless)
    BY <1>2, ConcatProperties, AppendProperties
  <2>2. <<c>> \o Append(u, e) = Append(<<c>> \o u, e)
    BY <1>2, ConcatAppend
  <2>3. ApplyAll(r, Append(<<c>> \o u, e)) = Apply(ApplyAll(r, <<c>> \o u), e)
    BY <2>1, ApplyAllAppend
  <2>4. ApplyAll(b, Append(u, e)) = Apply(ApplyAll(b, u), e)
    BY <1>1, ApplyAllAppend
  <2>5. ApplyAll(r, <<c>> \o Append(u, e)) = ApplyAll(b, Append(u, e))
    BY <1>4, <2>2, <2>3, <2>4
  <2>6. ASSUME Keeps(r, <<c>> \o Append(u, e), Q)
        PROVE  Keeps(b, Append(u, e), Q) /\ \A q \in Q : b.fb[q] = r.fb[q]
    <3>1. Keeps(r, <<c>> \o u, Q)
      BY <2>1, <2>2, <2>6, KeepsSteps
    <3>2. Keeps(b, u, Q) /\ \A q \in Q : b.fb[q] = r.fb[q]
      BY <1>4, <3>1
    <3>3. Append(<<c>> \o u, e) \in Seq(Harmless)
      BY <2>1, AppendProperties
    <3>4. \A q \in Q : ApplyAll(r, Append(<<c>> \o u, e)).fb[q] = r.fb[q]
      BY <2>2, <2>6, <3>3, KeepsEnds
    <3>5. \A q \in Q : ApplyAll(b, Append(u, e)).fb[q] = b.fb[q]
      BY <2>2, <2>5, <3>2, <3>4
    <3>6. Keeps(b, Append(u, e), Q)
      BY <1>1, <3>2, <3>5, KeepsSteps
    <3> QED
      BY <3>2, <3>6
  <2> QED
    BY <2>1, <2>5, <2>6
<1>5. t \in Good
  <2> HIDE DEF Good
  <2> QED
    BY <1>3, <1>4, GrowUp
<1>6. <<c>> \o t \in Seq(Harmless)
  BY <1>2, ConcatProperties
<1> QED
  BY <1>1, <1>5, <1>6 DEF b

\* Checks of the connection on the way do not matter.
LEMMA ChecksFirst ==
    ASSUME NEW r \in Registers, NEW u \in Seq(Checks), NEW Q,
           NEW t \in Seq(Harmless)
    PROVE  /\ u \o t \in Seq(Harmless)
           /\ ApplyAll(r, u \o t) = ApplyAll(r, t)
           /\ Keeps(r, t, Q) => Keeps(r, u \o t, Q)
<1>0. u \in Seq(Harmless) /\ Checks \subseteq Harmless
      /\ <<>> \in Seq(Harmless)
  BY QuietCommands, WiderSeq DEF Checks
<1>1. ApplyAll(r, u) = r /\ Keeps(r, u, Q)
  <2> DEFINE Good == {v \in Seq(Checks) : /\ v \in Seq(Harmless)
                                          /\ ApplyAll(r, v) = r
                                          /\ Keeps(r, v, Q)}
  <2>1. <<>> \in Good
    BY <1>0, ApplyAllAppend, KeepsSteps
  <2>2. ASSUME NEW v \in Seq(Checks), NEW c \in Checks, v \in Good
        PROVE  Append(v, c) \in Good
    <3>1. c \in Harmless /\ c \in Quiet
      BY QuietCommands
    <3>2. ApplyAll(r, Append(v, c)) = Apply(r, c)
      BY <2>2, <3>1, ApplyAllAppend
    <3>3. Apply(r, c) = r
      BY <3>1, QuietKeepsPanel
    <3>4. Append(v, c) \in Seq(Harmless) /\ Append(v, c) \in Seq(Checks)
      BY <2>2, <3>1, AppendProperties
    <3>5. \A q \in Q : ApplyAll(r, Append(v, c)).fb[q] = r.fb[q]
      BY <3>2, <3>3
    <3>6. Keeps(r, Append(v, c), Q)
      BY <2>2, <3>1, <3>5, KeepsSteps
    <3> QED
      BY <3>2, <3>3, <3>4, <3>6
  <2>3. u \in Good
    <3> HIDE DEF Good
    <3> QED
      BY <2>1, <2>2, GrowUp
  <2> QED
    BY <2>3
<1> DEFINE Good == {v \in Seq(Harmless) :
                      /\ ApplyAll(r, u \o v) = ApplyAll(r, v)
                      /\ Keeps(r, v, Q) => Keeps(r, u \o v, Q)}
<1>2. <<>> \in Good
  <2>1. u \o <<>> = u
    BY ConcatEmptySeq
  <2> QED
    BY <1>0, <1>1, <2>1, ApplyAllAppend
<1>3. ASSUME NEW v \in Seq(Harmless), NEW e \in Harmless, v \in Good
      PROVE  Append(v, e) \in Good
  <2>1. u \o v \in Seq(Harmless) /\ Append(v, e) \in Seq(Harmless)
    BY <1>0, ConcatProperties, AppendProperties
  <2>2. u \o Append(v, e) = Append(u \o v, e)
    BY <1>0, ConcatAppend
  <2>3. ApplyAll(r, Append(u \o v, e)) = Apply(ApplyAll(r, u \o v), e)
    BY <2>1, ApplyAllAppend
  <2>4. ApplyAll(r, Append(v, e)) = Apply(ApplyAll(r, v), e)
    BY ApplyAllAppend
  <2>5. ApplyAll(r, u \o Append(v, e)) = ApplyAll(r, Append(v, e))
    BY <1>3, <2>2, <2>3, <2>4
  <2>6. ASSUME Keeps(r, Append(v, e), Q) PROVE Keeps(r, u \o Append(v, e), Q)
    <3>1. Keeps(r, v, Q)
      BY <2>6, KeepsSteps
    <3>2. Keeps(r, u \o v, Q)
      BY <1>3, <3>1
    <3>3. \A q \in Q : ApplyAll(r, Append(v, e)).fb[q] = r.fb[q]
      BY <2>1, <2>6, KeepsEnds
    <3>4. \A q \in Q : ApplyAll(r, Append(u \o v, e)).fb[q] = r.fb[q]
      BY <2>2, <2>5, <3>3
    <3> QED
      BY <2>1, <2>2, <3>2, <3>4, KeepsSteps
  <2> QED
    BY <2>1, <2>5, <2>6
<1>4. t \in Good
  <2> HIDE DEF Good
  <2> QED
    BY <1>2, <1>3, GrowUp
<1> QED
  BY <1>0, <1>4, ConcatProperties

-----------------------------------------------------------------------------
(* The regions.                                                            *)

\* n strips of the width w \div n, side by side, do not reach beyond w.
LEMMA Strips ==
    ASSUME NEW w \in Nat \ {0}, NEW n \in 1 .. w, NEW j \in 0 .. n - 1
    PROVE  /\ w \div n \in 1 .. w /\ j * (w \div n) \in 0 .. w - 1
           /\ j * (w \div n) + (w \div n) <= w
<1> DEFINE b == w \div n
<1>1. n \in Nat \ {0} /\ w \in Nat /\ j \in Nat /\ j + 1 <= n
  OBVIOUS
<1>2. b \in Nat /\ n * b <= w /\ w < n * b + n
  BY <1>1
<1> HIDE DEF b
<1>3. b >= 1
  <2>1. b = 0 => n * b = 0
    BY <1>1
  <2> QED
    BY <1>2, <2>1
<1>4. j * b + b <= n * b /\ j * b \in Nat /\ n * b \in Nat
  BY ONLY <1>1, <1>2
<1>5. b <= n * b
  BY ONLY <1>1, <1>2
<1>6. b \in 1 .. w /\ j * b \in 0 .. w - 1 /\ j * b + b <= w
  BY <1>2, <1>3, <1>4, <1>5
<1> QED
  BY <1>6 DEF b

LEMMA RegionTypes ==
    /\ Len(Regions) \in Nat \ {0} /\ DOMAIN Regions = 1 .. Len(Regions)
    /\ \A k \in 1 .. Len(Regions) :
          /\ Regions[k] \in Region /\ OnScreen(Regions[k])
          /\ Cells(Regions[k]) \subseteq Covered
    /\ Covered \subseteq Pixel
    /\ \A q \in Covered : \E k \in 1 .. Len(Regions) : q \in Cells(Regions[k])
<1> DEFINE n == width_divisor * height_divisor
<1>1. /\ W \in Nat \ {0} /\ H \in Nat \ {0}
      /\ width_divisor \in 1 .. W /\ height_divisor \in 1 .. H
      /\ width_divisor \in Nat \ {0} /\ height_divisor \in Nat \ {0}
  BY ScreenAssumption, DivisorAssumption
<1>2. n \in Nat \ {0}
  <2>1. \A a, b \in Nat \ {0} : a * b \in Nat \ {0}
    OBVIOUS
  <2> QED
    BY <1>1, <2>1
<1>3. DOMAIN Regions = 1 .. n
  BY DEF Regions
<1>4. Len(Regions) = n
  <2> HIDE DEF n
  <2>1. Regions \in Seq({Regions[k] : k \in 1 .. n})
    <3>1. Regions = [k \in 1 .. n |-> Regions[k]]
      BY <1>3 DEF Regions, n
    <3>2. Regions \in [1 .. n -> {Regions[k] : k \in 1 .. n}]
      BY <3>1
    <3> QED
      BY <1>2, <3>2, SeqDef
  <2>2. DOMAIN Regions = 1 .. Len(Regions) /\ Len(Regions) \in Nat
    BY <2>1, LenProperties
  <2> QED
    BY <1>2, <1>3, <2>2
<1>5. ASSUME NEW k \in 1 .. n
      PROVE  Regions[k] \in Region /\ OnScreen(Regions[k])
  <2> DEFINE i == (k - 1) \div width_divisor
             j == (k - 1) % width_divisor
  <2>1. k - 1 \in Nat /\ k - 1 < n
    BY <1>2
  <2>2. j \in 0 .. width_divisor - 1 /\ i \in Nat
        /\ k - 1 = i * width_divisor + j
    <3>1. \A a \in Nat, w \in Nat \ {0} : a % w \in 0 .. w - 1 /\ a \div w \in Nat
             /\ a = (a \div w) * w + (a % w)
      OBVIOUS
    <3> QED
      BY <1>1, <2>1, <3>1
  <2>3. Regions[k] = [left |-> j * region_width, top |-> i * region_height,
                      width |-> region_width, height |-> region_height]
    BY <1>2 DEF Regions, RegionAt
  <2> HIDE DEF i, j
  <2>4. i \in 0 .. height_divisor - 1
    <3>1. \A a, w, h, b \in Nat : a * w + b < w * h => a < h
      <4> SUFFICES ASSUME NEW a \in Nat, NEW w \in Nat, NEW h \in Nat,
                          NEW b \in Nat, a >= h
                   PROVE  a * w + b >= w * h
        OBVIOUS
      <4>1. a * w >= h * w
        OBVIOUS
      <4> QED
        BY <4>1
    <3>2. i * width_divisor + j < width_divisor * height_divisor
      BY <2>1, <2>2
    <3> QED
      BY <1>1, <2>2, <3>1, <3>2
  <2>5. /\ region_width \in 1 .. W /\ j * region_width \in 0 .. W - 1
        /\ j * region_width + region_width <= W
    BY <1>1, <2>2, Strips DEF region_width
  <2>6. /\ region_height \in 1 .. H /\ i * region_height \in 0 .. H - 1
        /\ i * region_height + region_height <= H
    BY <1>1, <2>4, Strips DEF region_height
  <2> DEFINE l == j * region_width
             t == i * region_height
  <2> HIDE DEF l, t
  <2>7. /\ Regions[k] = [left |-> l, top |-> t,
                         width |-> region_width, height |-> region_height]
        /\ l \in 0 .. W - 1 /\ t \in 0 .. H - 1
        /\ l + region_width <= W /\ t + region_height <= H
    BY <2>3, <2>5, <2>6 DEF l, t
  <2> QED
    BY <2>5, <2>6, <2>7 DEF Region, OnScreen
<1> HIDE DEF n
<1>6. ASSUME NEW k \in 1 .. n PROVE Cells(Regions[k]) \subseteq Pixel
  <2>1. Regions[k] \in Region /\ OnScreen(Regions[k])
    BY <1>5
  <2> QED
    BY <1>1, <2>1 DEF Region, OnScreen, Cells, Right, Bottom, Pixel
<1> QED
  BY <1>2, <1>3, <1>4, <1>5, <1>6 DEF Covered

-----------------------------------------------------------------------------
(* What a reader shows.  A session is a record: its first frame, the frame *)
(* the server believes to be shown, the one it sends, the static color and *)
(* the value that color had when the session began.                        *)

Sessions == [first : Frames, image : Frames, next : Frames,
             color : Colors, blind : Colors]
LastPixel == <<W - 1, H - 1>>

\* A pixel of colour c can stand for one of colour e.
StandsFor(c, e, s) == c = e \/ (e = s.blind /\ c = s.first[LastPixel])
Shown(r, f, q, s)  == r.panel[q] = r.fb[q] /\ StandsFor(r.fb[q], f[q], s)

\* The pixels outside the regions show the first frame, and the colours that
\* the two sides remember are the same, or were never compared.
Outside(r, s) ==
    \A q \in Pixel \ Covered :
        r.fb[q] = s.first[q] /\ r.panel[q] = s.first[q]
Joined(r, s) == \/ r.color = s.color
                \/ r.color = s.first[LastPixel] /\ s.color = s.blind

\* The reader shows a frame; it shows the regions before k of the next one;
\* it shows the first one.
Whole(r, s) ==
    Outside(r, s) /\ Joined(r, s) /\ \A q \in Covered : Shown(r, s.image, q, s)
Between(r, k, s) ==
    /\ Outside(r, s) /\ Joined(r, s)
    /\ \A q \in Covered :
          \/ Shown(r, s.next, q, s)
          \/ /\ Shown(r, s.image, q, s)
             /\ \A j \in 1 .. k - 1 : q \notin Cells(Regions[j])
FirstShown(r, s) ==
    /\ r.fb = s.first /\ r.panel = s.first /\ r.color = s.first[LastPixel]
    /\ s.color = s.blind /\ s.image = s.first

\* The reader has executed the message of region k, 0 for the first frame.
Arrived(r, k, s) == IF k = 0 THEN FirstShown(r, s) ELSE Between(r, k + 1, s)

\* A reader that executes cmds gets there, and does what ReaderMirror allows.
Repaints(r, e, s) ==
    \A q \in Pixel : e.panel[q] # r.panel[q] =>
        q \in Covered /\ StandsFor(e.panel[q], s.next[q], s)
Lands(r, cmds, k, s) ==
    /\ Arrived(ApplyAll(r, cmds), k, s)
    /\ k > 0 => /\ Outside(r, s) /\ Keeps(r, cmds, Pixel \ Covered)
                /\ Repaints(r, ApplyAll(r, cmds), s)

LEMMA ReadersTypes ==
    ASSUME NEW r \in Registers, NEW s \in Sessions
    PROVE  /\ r.fb \in Image /\ r.panel \in Image /\ r.color \in Colors
           /\ s.first \in Image /\ s.image \in Image /\ s.next \in Image
           /\ s.color \in Colors /\ s.blind \in Colors
BY FramesAssumption DEF Registers, Sessions

\* The message of a region carries the reader from the regions before it to
\* those with it, and so does no message if nothing in it changed.
LEMMA RegionLands ==
    ASSUME NEW r \in Registers, NEW s \in Sessions, NEW t \in Sessions,
           NEW k \in 1 .. Len(Regions), Between(r, k, s),
           t.first = s.first, t.image = s.image, t.next = s.next,
           t.blind = s.blind,
           t.color = SendDiff(s.image, s.next, Regions[k], s.color).color
    PROVE  LET d == SendDiff(s.image, s.next, Regions[k], s.color)
           IN  /\ NeedSend(d) => IsMessage(d.cmds) /\ Lands(r, d.cmds, k, t)
               /\ ~NeedSend(d) => Between(r, k + 1, t)
<1> DEFINE g == Regions[k]
           m == [prev |-> s.image, next |-> s.next, region |-> g,
                 color |-> s.color, reader |-> r]
           d == SendDiff(s.image, s.next, g, s.color)
           e == ApplyAll(r, d.cmds)
<1>1. /\ g \in Region /\ OnScreen(g) /\ Cells(g) \subseteq Covered
      /\ Covered \subseteq Pixel /\ k \in Nat \ {0} /\ k + 1 # 0
  BY RegionTypes
<1>2. /\ r.fb \in Image /\ r.panel \in Image /\ r.color \in Colors
      /\ s.image \in Image /\ s.next \in Image /\ s.color \in Colors
  BY ReadersTypes
<1>3. m \in Call /\ m.reader = r /\ m.region = g /\ m.color = s.color
      /\ m.prev = s.image /\ m.next = s.next
  BY <1>1, <1>2 DEF Call
<1>4. /\ NeedSend(d) => /\ IsMessage(d.cmds) /\ Sent(m, d, e)
                        /\ Keeps(r, d.cmds, Pixel \ ToDraw(m))
      /\ ~NeedSend(d) => ToDraw(m) = {} /\ d.color = s.color
  <2> HIDE DEF m, g
  <2>1. d = SendDiff(m.prev, m.next, m.region, m.color)
    BY <1>3
  <2> HIDE DEF d
  <2> QED
    BY <1>3, <2>1, SendDiffDraws
<1>5. ToDraw(m) = {q \in Cells(g) : s.image[q] # s.next[q]}
  BY DEF ToDraw
<1>6. t.color = d.color
  OBVIOUS
<1> HIDE DEF m, d
<1>7. ASSUME NEW f \in Registers, Sent(m, d, f)
      PROVE  Between(f, k + 1, t) /\ Repaints(r, f, t)
  <2>1. /\ \A q \in ToDraw(m) :
              /\ f.fb[q] = s.next[q] \/ (s.next[q] = s.color
                                         /\ f.fb[q] = r.color)
              /\ f.panel[q] = f.fb[q]
        /\ \A q \in Pixel \ ToDraw(m) : f.fb[q] = r.fb[q]
        /\ \A q \in Pixel : f.panel[q] \in {f.fb[q], r.panel[q]}
        /\ \A q \in Pixel \ Cells(g) : f.panel[q] = r.panel[q]
        /\ \/ f.color = d.color
           \/ f.color = r.color /\ d.color = s.color
    BY <1>3, <1>7 DEF Sent, Linked
  <2>2. Outside(r, s) /\ Joined(r, s)
    BY DEF Between
  <2> HIDE DEF g
  <2>3. Outside(f, t)
    <3> SUFFICES ASSUME NEW q \in Pixel \ Covered
                 PROVE  f.fb[q] = t.first[q] /\ f.panel[q] = t.first[q]
      BY DEF Outside
    <3>1. q \in Pixel \ Cells(g) /\ q \in Pixel \ ToDraw(m)
      BY <1>1, <1>5
    <3> QED
      BY <2>1, <2>2, <3>1 DEF Outside
  <2>4. Joined(f, t)
    BY <1>6, <2>1, <2>2 DEF Joined
  <2>5. ASSUME NEW q \in ToDraw(m) PROVE Shown(f, t.next, q, t)
    <3>1. f.panel[q] = f.fb[q]
      BY <2>1
    <3>2. StandsFor(f.fb[q], s.next[q], s)
      BY <2>1, <2>2 DEF StandsFor, Joined
    <3> QED
      BY <3>1, <3>2 DEF Shown, StandsFor
  <2>6. ASSUME NEW q \in Covered \ ToDraw(m)
        PROVE  f.fb[q] = r.fb[q] /\ f.panel[q] = r.panel[q]
               /\ r.panel[q] = r.fb[q]
    <3>1. q \in Pixel \ ToDraw(m) /\ q \in Pixel
      BY <1>1
    <3>2. r.panel[q] = r.fb[q]
      BY DEF Between, Shown
    <3> QED
      BY <2>1, <3>1, <3>2
  <2>7. ASSUME NEW q \in Covered
        PROVE  \/ Shown(f, t.next, q, t)
               \/ /\ Shown(f, t.image, q, t)
                  /\ \A j \in 1 .. (k + 1) - 1 : q \notin Cells(Regions[j])
    <3>1. CASE q \in ToDraw(m)
      BY <2>5, <3>1
    <3>2. CASE q \notin ToDraw(m) /\ Shown(r, s.next, q, s)
      BY <2>6, <3>2 DEF Shown, StandsFor
    <3>3. CASE q \notin ToDraw(m) /\ ~Shown(r, s.next, q, s)
      <4>1. /\ Shown(r, s.image, q, s)
            /\ \A j \in 1 .. k - 1 : q \notin Cells(Regions[j])
        BY <3>3 DEF Between
      <4>2. CASE q \in Cells(g)
        <5>1. s.image[q] = s.next[q]
          BY <1>5, <3>3, <4>2
        <5> QED
          BY <3>3, <4>1, <5>1 DEF Shown
      <4>3. CASE q \notin Cells(g)
        <5>1. \A j \in 1 .. (k + 1) - 1 : j = k \/ j \in 1 .. k - 1
          BY <1>1
        <5>2. \A j \in 1 .. (k + 1) - 1 : q \notin Cells(Regions[j])
          BY <4>1, <4>3, <5>1 DEF g
        <5>3. Shown(f, t.image, q, t)
          BY <2>6, <3>3, <4>1 DEF Shown, StandsFor
        <5> QED
          BY <5>2, <5>3
      <4> QED
        BY <4>2, <4>3
    <3> QED
      BY <3>1, <3>2, <3>3
  <2>8. Between(f, k + 1, t)
    BY <2>3, <2>4, <2>7 DEF Between
  <2>9. Repaints(r, f, t)
    <3> SUFFICES ASSUME NEW q \in Pixel, f.panel[q] # r.panel[q]
                 PROVE  q \in Covered /\ StandsFor(f.panel[q], t.next[q], t)
      BY DEF Repaints
    <3>1. q \in Cells(g) /\ q \in Covered
      BY <1>1, <2>1
    <3>2. q \in ToDraw(m)
      BY <2>6, <3>1
    <3> QED
      BY <2>5, <3>1, <3>2 DEF Shown
  <2> QED
    BY <2>8, <2>9
<1>8. CASE NeedSend(d)
  <2>1. e \in Registers /\ Between(e, k + 1, t) /\ Repaints(r, e, t)
    <3>1. e \in Registers
      BY <1>4, <1>8 DEF Sent
    <3> QED
      BY <1>4, <1>7, <1>8, <3>1
  <2>2. Outside(r, t)
    BY DEF Between, Outside
  <2>3. Keeps(r, d.cmds, Pixel \ Covered)
    <3>1. \A q \in Pixel \ Covered : q \in Pixel \ ToDraw(m)
      BY <1>1, <1>5
    <3> QED
      BY <1>4, <1>8, <3>1 DEF Keeps
  <2>4. Lands(r, d.cmds, k, t)
    <3> HIDE DEF e
    <3>1. Arrived(e, k, t)
      BY <1>1, <2>1 DEF Arrived
    <3> QED
      BY <2>1, <2>2, <2>3, <3>1 DEF Lands, e
  <2> QED
    BY <1>4, <1>8, <2>4 DEF d
<1>9. CASE ~NeedSend(d)
  <2>1. ToDraw(m) = {} /\ d.color = s.color
    BY <1>4, <1>9
  <2>2. Sent(m, d, r)
    BY <1>3, <2>1 DEF Sent, Linked
  <2> QED
    BY <1>7, <1>9, <2>2 DEF d
<1> QED
  BY <1>8, <1>9 DEF d

\* The first message carries any reader to the first frame.
LEMMA FirstLands ==
    ASSUME NEW r \in Registers, NEW s \in Sessions,
           s.color = s.blind, s.image = s.first
    PROVE  IsMessage(SendAll(s.first)) /\ Lands(r, SendAll(s.first), 0, s)
<1>1. s.first \in Image
  BY ReadersTypes
<1> DEFINE e == ApplyAll(r, SendAll(s.first))
<1>2. /\ IsMessage(SendAll(s.first)) /\ e \in Registers
      /\ e.fb = s.first /\ e.panel = s.first
      /\ e.color = s.first[<<W - 1, H - 1>>]
  BY <1>1, SendAllDraws
<1> HIDE DEF e
<1>3. FirstShown(e, s)
  BY <1>2 DEF FirstShown, LastPixel
<1> QED
  BY <1>2, <1>3 DEF Lands, Arrived, e

-----------------------------------------------------------------------------
(* What is under way: nothing but checks of the connection; an error       *)
(* message behind them; or a message of drawing commands that ends in the  *)
(* only refresh.                                                           *)

Idle(cmds)    == cmds \in Seq(Checks)
Failing(cmds) ==
    \E u \in Seq(Checks), c \in Command :
        c.cmd = "SHOW_ERROR" /\ cmds = Append(u, c)
Refreshing(cmds)  ==
    \E u \in Seq(Quiet), c \in Harmless :
        c.cmd \in Update /\ cmds = Append(u, c)
Bound(cmds, r, k, s) == Refreshing(cmds) /\ Lands(r, cmds, k, s)

\* The first of a sequence that grew at its end.
LEMMA FirstOfAppend ==
    ASSUME NEW A, NEW u \in Seq(A), NEW B, NEW c \in B
    PROVE  LET s == Append(u, c)
           IN  /\ s # <<>>
               /\ u = <<>> => s[1] = c /\ Tail(s) = <<>>
               /\ u # <<>> => /\ s[1] \in A /\ Tail(u) \in Seq(A)
                              /\ Tail(s) = Append(Tail(u), c)
<1> DEFINE s == Append(u, c)
           n == Len(u)
<1>1. n \in Nat /\ u \in Seq(A \cup B) /\ c \in A \cup B
  BY WiderSeq
<1>2. /\ s \in Seq(A \cup B) /\ Len(s) = n + 1 /\ s[n + 1] = c
      /\ \A k \in 1 .. n : s[k] = u[k]
  BY <1>1, AppendProperties
<1>3. s # <<>>
  BY <1>1, <1>2
<1>4. ASSUME u = <<>> PROVE s[1] = c /\ Tail(s) = <<>>
  BY <1>4
<1>5. ASSUME u # <<>>
      PROVE  s[1] \in A /\ Tail(u) \in Seq(A) /\ Tail(s) = Append(Tail(u), c)
  <2>1. n \in Nat \ {0} /\ 1 \in 1 .. n
    BY <1>1, <1>5, EmptySeq
  <2>2. s[1] = u[1] /\ u[1] \in A
    BY <1>2, <2>1, ElementOfSeq
  <2>3. /\ Tail(u) \in Seq(A) /\ Len(Tail(u)) = n - 1
        /\ \A k \in 1 .. n - 1 : Tail(u)[k] = u[k + 1]
    BY <1>5, HeadTailProperties
  <2>4. /\ Tail(s) \in Seq(A \cup B) /\ Len(Tail(s)) = n
        /\ \A k \in 1 .. n : Tail(s)[k] = s[k + 1]
    <3>1. /\ Tail(s) \in Seq(A \cup B) /\ Len(Tail(s)) = Len(s) - 1
          /\ \A k \in 1 .. Len(s) - 1 : Tail(s)[k] = s[k + 1]
      BY <1>2, <1>3, HeadTailProperties
    <3>2. Len(s) - 1 = n
      BY <1>1, <1>2
    <3> HIDE DEF s
    <3> QED
      BY <3>1, <3>2
  <2>5. Tail(u) \in Seq(A \cup B)
    BY <2>3, WiderSeq
  <2> DEFINE v == Append(Tail(u), c)
  <2>6. /\ v \in Seq(A \cup B) /\ Len(v) = (n - 1) + 1 /\ v[(n - 1) + 1] = c
        /\ \A k \in 1 .. n - 1 : v[k] = Tail(u)[k]
    BY <1>1, <2>3, <2>5, AppendProperties
  <2> HIDE DEF v, s, n
  <2>7. Len(v) = n /\ v[n] = c
    BY <1>1, <2>6
  <2>8. ASSUME NEW k \in 1 .. n PROVE Tail(s)[k] = v[k]
    <3>1. CASE k = n
      BY <1>1, <1>2, <2>1, <2>4, <2>7, <3>1
    <3>2. CASE k # n
      <4>1. k \in 1 .. n - 1 /\ k + 1 \in 1 .. n
        BY <1>1, <3>2
      <4> QED
        BY <1>2, <2>3, <2>4, <2>6, <4>1
    <3> QED
      BY <3>1, <3>2
  <2>9. Tail(s) = v
    BY <2>4, <2>6, <2>7, <2>8, SeqEqual
  <2> QED
    BY <2>2, <2>3, <2>9 DEF v
<1> QED
  BY <1>3, <1>4, <1>5

\* A sequence is its first element and the others.
LEMMA FirstAndRest ==
    ASSUME NEW A, NEW s \in Seq(A), s # <<>>
    PROVE  s = <<s[1]>> \o Tail(s) /\ s[1] \in A /\ Tail(s) \in Seq(A)
<1> DEFINE n == Len(s)
<1>1. n \in Nat \ {0} /\ n \in 1 .. n /\ 1 \in 1 .. n
  BY EmptySeq
<1>2. SubSeq(s, 1, n) = <<s[1]>> \o SubSeq(s, 1 + 1, n)
  BY <1>1, SubSeqRecursiveFirst
<1>3. SubSeq(s, 1, n) = s /\ Tail(s) = SubSeq(s, 2, n) /\ 1 + 1 = 2
  BY SubSeqFull, TailIsSubSeq
<1>4. s[1] \in A /\ Tail(s) \in Seq(A)
  BY <1>1, ElementOfSeq, HeadTailProperties
<1> HIDE DEF n
<1> QED
  BY <1>2, <1>3, <1>4

\* How many refreshes there are.
LEMMA QuietRefreshes ==
    ASSUME NEW u \in Seq(Quiet)
    PROVE  u \in Seq(Command) /\ Refreshes(EncodeAll(u)) = 0
<1> DEFINE Good == {v \in Seq(Quiet) : /\ v \in Seq(Command)
                                       /\ Refreshes(EncodeAll(v)) = 0}
<1>1. <<>> \in Good
  <2>1. <<>> \in Seq(Command) /\ <<>> \in Seq(Quiet)
    OBVIOUS
  <2>2. CONN_CHECK \in Command
    BY QuietCommands
  <2>3. Refreshes(EncodeAll(<<>>)) = 0
    BY <2>1, <2>2, RefreshesEncode
  <2> QED
    BY <2>1, <2>3
<1>2. ASSUME NEW v \in Seq(Quiet), NEW c \in Quiet, v \in Good
      PROVE  Append(v, c) \in Good
  <2>1. c \in Command /\ c.cmd \notin Update
    BY QuietCommands DEF Quiet
  <2>2. Refreshes(EncodeAll(Append(v, c))) = 0 + 0
    BY <1>2, <2>1, RefreshesEncode
  <2>3. Append(v, c) \in Seq(Quiet) /\ Append(v, c) \in Seq(Command)
    BY <1>2, <2>1, AppendProperties
  <2> QED
    BY <2>2, <2>3
<1>3. u \in Good
  <2> HIDE DEF Good
  <2> QED
    BY <1>1, <1>2, GrowUp
<1> QED
  BY <1>3

LEMMA UnderWay ==
    ASSUME NEW cmds
    PROVE  /\ Idle(cmds) => cmds \in Seq(Command)
                            /\ Refreshes(EncodeAll(cmds)) = 0
           /\ Failing(cmds) => cmds \in Seq(Command)
                               /\ Refreshes(EncodeAll(cmds)) = 0
           /\ Refreshing(cmds) => cmds \in Seq(Command) /\ cmds \in Seq(Harmless)
                              /\ Refreshes(EncodeAll(cmds)) = 1
<1>1. ASSUME Idle(cmds)
      PROVE  cmds \in Seq(Command) /\ Refreshes(EncodeAll(cmds)) = 0
  <2>1. cmds \in Seq(Quiet)
    BY <1>1, QuietCommands, WiderSeq DEF Idle
  <2> QED
    BY <2>1, QuietRefreshes
<1>2. ASSUME Failing(cmds)
      PROVE  cmds \in Seq(Command) /\ Refreshes(EncodeAll(cmds)) = 0
  <2>1. PICK u \in Seq(Checks), c \in Command :
           c.cmd = "SHOW_ERROR" /\ cmds = Append(u, c)
    BY <1>2 DEF Failing
  <2>2. u \in Seq(Quiet)
    BY QuietCommands, WiderSeq
  <2>3. u \in Seq(Command) /\ Refreshes(EncodeAll(u)) = 0
    BY <2>2, QuietRefreshes
  <2>4. c.cmd \notin Update
    BY <2>1 DEF Update
  <2>5. Refreshes(EncodeAll(Append(u, c))) = 0 + 0
    BY <2>3, <2>4, RefreshesEncode
  <2>6. Append(u, c) \in Seq(Command)
    BY <2>3, AppendProperties
  <2> QED
    BY <2>1, <2>5, <2>6
<1>3. ASSUME Refreshing(cmds)
      PROVE  cmds \in Seq(Command) /\ cmds \in Seq(Harmless)
             /\ Refreshes(EncodeAll(cmds)) = 1
  <2>1. PICK u \in Seq(Quiet), c \in Harmless :
           c.cmd \in Update /\ cmds = Append(u, c)
    BY <1>3 DEF Refreshing
  <2>2. u \in Seq(Command) /\ Refreshes(EncodeAll(u)) = 0 /\ c \in Command
    BY QuietRefreshes, QuietCommands
  <2>3. Refreshes(EncodeAll(Append(u, c))) = 0 + 1
    BY <2>1, <2>2, RefreshesEncode
  <2>4. Append(u, c) \in Seq(Command)
    BY <2>2, AppendProperties
  <2>5. Append(u, c) \in Seq(Harmless)
    <3>1. u \in Seq(Harmless)
      BY QuietCommands, WiderSeq
    <3> QED
      BY <3>1, AppendProperties
  <2> QED
    BY <2>1, <2>3, <2>4, <2>5
<1> QED
  BY <1>1, <1>2, <1>3

\* What the server adds to an idle connection.
LEMMA Joins ==
    ASSUME NEW u, Idle(u)
    PROVE  /\ Idle(Append(u, CONN_CHECK))
           /\ \A c \in Command : c.cmd = "SHOW_ERROR" => Failing(Append(u, c))
           /\ \A m, k, s : \A r \in Registers :
                 IsMessage(m) /\ Lands(r, m, k, s) => Bound(u \o m, r, k, s)
<1>1. u \in Seq(Checks)
  BY DEF Idle
<1>2. Idle(Append(u, CONN_CHECK))
  BY <1>1, QuietCommands, AppendProperties DEF Idle
<1>3. ASSUME NEW m, NEW k, NEW s, NEW r \in Registers,
             IsMessage(m), Lands(r, m, k, s)
      PROVE  Bound(u \o m, r, k, s)
  <2>1. PICK v \in Seq(Drawing), c \in Harmless :
           c.cmd \in Update /\ m = Append(v, c)
    BY <1>3 DEF IsMessage
  <2>2. v \in Seq(Quiet) /\ u \in Seq(Quiet)
    BY <1>1, QuietCommands, WiderSeq
  <2>3. u \o v \in Seq(Quiet)
    BY <2>2, ConcatProperties
  <2>4. /\ u \in Seq(Harmless) /\ v \in Seq(Harmless)
        /\ m \in Seq(Harmless)
    <3>1. u \in Seq(Harmless) /\ v \in Seq(Harmless)
      BY <2>2, QuietCommands, WiderSeq
    <3> QED
      BY <2>1, <3>1, AppendProperties
  <2>5. u \o m = Append(u \o v, c)
    BY <2>1, <2>4, ConcatAppend
  <2>6. Refreshing(u \o m)
    BY <2>1, <2>3, <2>5 DEF Refreshing
  <2>7. ApplyAll(r, u \o m) = ApplyAll(r, m)
        /\ (Keeps(r, m, Pixel \ Covered) => Keeps(r, u \o m, Pixel \ Covered))
    BY <1>1, <2>4, ChecksFirst
  <2>8. Lands(r, u \o m, k, s)
    BY <1>3, <2>7 DEF Lands
  <2> QED
    BY <2>6, <2>8 DEF Bound
<1> QED
  BY <1>1, <1>2, <1>3 DEF Failing

\* What the reader takes from it.
LEMMA TakesFirst ==
    ASSUME NEW cmds \in Seq(Command), cmds # <<>>,
           NEW r \in Registers, NEW k \in Nat, NEW s
    PROVE  LET c == cmds[1]
               t == Tail(cmds)
           IN  /\ Idle(cmds) => c \in Checks /\ Idle(t)
               /\ Failing(cmds) => \/ c.cmd = "SHOW_ERROR"
                                   \/ c \in Checks /\ Failing(t)
               /\ Bound(cmds, r, k, s) =>
                     \/ /\ c \in Quiet /\ Bound(t, Apply(r, c), k, s)
                        /\ k > 0 => Outside(Apply(r, c), s)
                     \/ /\ c \in Harmless /\ c.cmd \in Update /\ t = <<>>
                        /\ Arrived(Apply(r, c), k, s)
                        /\ k > 0 => Repaints(r, Apply(r, c), s)
<1> DEFINE c == cmds[1]
           t == Tail(cmds)
<1>1. ASSUME Idle(cmds) PROVE c \in Checks /\ Idle(t)
  BY <1>1, FirstAndRest DEF Idle
<1>2. ASSUME Failing(cmds)
      PROVE  c.cmd = "SHOW_ERROR" \/ (c \in Checks /\ Failing(t))
  <2>1. PICK u \in Seq(Checks), e \in Command :
           e.cmd = "SHOW_ERROR" /\ cmds = Append(u, e)
    BY <1>2 DEF Failing
  <2>2. /\ u = <<>> => c = e
        /\ u # <<>> => c \in Checks /\ Tail(u) \in Seq(Checks)
                       /\ t = Append(Tail(u), e)
    BY <2>1, FirstOfAppend
  <2> HIDE DEF c, t
  <2> QED
    BY <2>1, <2>2 DEF Failing
<1>3. ASSUME Bound(cmds, r, k, s)
      PROVE  \/ /\ c \in Quiet /\ Bound(t, Apply(r, c), k, s)
                /\ k > 0 => Outside(Apply(r, c), s)
             \/ /\ c \in Harmless /\ c.cmd \in Update /\ t = <<>>
                /\ Arrived(Apply(r, c), k, s)
                /\ k > 0 => Repaints(r, Apply(r, c), s)
  <2> DEFINE b == Apply(r, c)
  <2>0. Refreshing(cmds) /\ Lands(r, cmds, k, s)
    BY <1>3 DEF Bound
  <2>1. PICK u \in Seq(Quiet), e \in Harmless :
           e.cmd \in Update /\ cmds = Append(u, e)
    BY <2>0 DEF Refreshing
  <2>2. /\ u = <<>> => c = e /\ t = <<>>
        /\ u # <<>> => c \in Quiet /\ Tail(u) \in Seq(Quiet)
                       /\ t = Append(Tail(u), e)
    BY <2>1, FirstOfAppend
  <2>3. cmds \in Seq(Harmless)
    BY <2>0, UnderWay
  <2>4. cmds = <<c>> \o t /\ c \in Harmless /\ t \in Seq(Harmless)
    BY <2>3, FirstAndRest
  <2> HIDE DEF c, t
  <2>5. /\ b \in Registers /\ ApplyAll(r, cmds) = ApplyAll(b, t)
        /\ Keeps(r, cmds, Pixel \ Covered) =>
              /\ Keeps(b, t, Pixel \ Covered)
              /\ \A q \in Pixel \ Covered : b.fb[q] = r.fb[q]
    BY <2>4, ExecutesFirst
  <2>6. CASE u = <<>>
    <3>1. c = e /\ t = <<>>
      BY <2>2, <2>6
    <3>2. ApplyAll(b, <<>>) = b
      <4>1. <<>> \in Seq(Harmless)
        OBVIOUS
      <4> QED
        BY <2>5, <4>1, ApplyAllAppend
    <3>3. ApplyAll(r, cmds) = b
      BY <2>5, <3>1, <3>2
    <3> HIDE DEF b
    <3>4. Arrived(b, k, s) /\ (k > 0 => Repaints(r, b, s))
      BY <2>0, <3>3 DEF Lands
    <3> QED
      BY <2>1, <2>4, <3>1, <3>4 DEF b
  <2>7. CASE u # <<>>
    <3>1. c \in Quiet /\ Refreshing(t)
      BY <2>1, <2>2, <2>7 DEF Refreshing
    <3>2. b.panel = r.panel
      BY <3>1, QuietKeepsPanel
    <3> HIDE DEF b
    <3>3. Arrived(ApplyAll(b, t), k, s)
      BY <2>0, <2>5 DEF Lands
    <3>4. ASSUME k > 0
          PROVE  /\ Outside(b, s) /\ Keeps(b, t, Pixel \ Covered)
                 /\ Repaints(b, ApplyAll(b, t), s)
      <4>1. /\ Outside(r, s) /\ Keeps(r, cmds, Pixel \ Covered)
            /\ Repaints(r, ApplyAll(r, cmds), s)
        BY <2>0, <3>4 DEF Lands
      <4>2. Outside(b, s)
        BY <2>5, <3>2, <4>1 DEF Outside
      <4>3. Repaints(b, ApplyAll(b, t), s)
        BY <2>5, <3>2, <4>1 DEF Repaints
      <4> QED
        BY <2>5, <4>1, <4>2, <4>3
    <3>5. Bound(t, b, k, s)
      BY <3>1, <3>3, <3>4 DEF Bound, Lands
    <3> QED
      BY <3>1, <3>4, <3>5 DEF b
  <2> QED
    BY <2>6, <2>7
<1> QED
  BY <1>1, <1>2, <1>3

-----------------------------------------------------------------------------
(* The receive buffer.                                                     *)

\* What follows the first m elements, and those before it.
Behind(s, m) == SubSeq(s, m + 1, Len(s))

LEMMA Cut ==
    ASSUME NEW S, NEW s \in Seq(S), NEW m \in 0 .. Len(s)
    PROVE  /\ Behind(s, m) \in Seq(S) /\ Len(Behind(s, m)) = Len(s) - m
           /\ \A i \in 1 .. Len(s) - m : Behind(s, m)[i] = s[m + i]
           /\ SubSeq(s, 1, m) \in Seq(S) /\ Len(SubSeq(s, 1, m)) = m
           /\ SubSeq(s, 1, m) \o Behind(s, m) = s
<1> DEFINE n == Len(s)
           b == Behind(s, m)
           p == SubSeq(s, 1, m)
<1>1. n \in Nat /\ m \in Nat /\ m <= n /\ m + 1 \in Int /\ 1 \in Int /\ m \in Int
      /\ n \in Int
  BY LenProperties
<1>2. b \in Seq(S) /\ Len(b) = (IF m + 1 <= n THEN n - (m + 1) + 1 ELSE 0)
      /\ \A i \in 1 .. n - (m + 1) + 1 : b[i] = s[m + 1 + i - 1]
  <2>1. \A i \in m + 1 .. n : s[i] \in S
    BY <1>1, ElementOfSeq
  <2> QED
    BY <1>1, <2>1, SubSeqProperties DEF Behind
<1>3. p \in Seq(S) /\ Len(p) = (IF 1 <= m THEN m - 1 + 1 ELSE 0)
  <2>1. \A i \in 1 .. m : s[i] \in S
    BY <1>1, ElementOfSeq
  <2> QED
    BY <1>1, <2>1, SubSeqProperties
<1>4. p \o b = s
  <2>1. SubSeq(s, 1, n) = s
    BY SubSeqFull
  <2>2. 1 \in 1 .. n + 1 /\ m \in 1 - 1 .. n /\ n \in m .. n
    BY <1>1
  <2> QED
    BY <2>1, <2>2, ConcatAdjacentSubSeq DEF Behind
<1> HIDE DEF b, p, n
<1>5. /\ Len(b) = n - m /\ Len(p) = m
      /\ n - (m + 1) + 1 = n - m
      /\ \A i \in 1 .. n - m : m + 1 + i - 1 = m + i
  BY <1>1, <1>2, <1>3
<1>6. \A i \in 1 .. n - m : b[i] = s[m + i]
  BY <1>2, <1>5
<1> QED
  BY <1>2, <1>3, <1>4, <1>5, <1>6 DEF b, p, n

\* What follows the first k of what follows the first m.
LEMMA CutAgain ==
    ASSUME NEW S, NEW s \in Seq(S), NEW m \in 0 .. Len(s),
           NEW k \in 0 .. Len(s) - m
    PROVE  Behind(Behind(s, m), k) = Behind(s, m + k)
<1> DEFINE n == Len(s)
           b == Behind(s, m)
           c == Behind(b, k)
           d == Behind(s, m + k)
<1>1. n \in Nat /\ m \in Nat /\ k \in Nat /\ m + k \in 0 .. n
      /\ (n - m) - k = n - (m + k)
  BY LenProperties
<1>2. b \in Seq(S) /\ Len(b) = n - m /\ \A i \in 1 .. n - m : b[i] = s[m + i]
  BY Cut
<1>3. d \in Seq(S) /\ Len(d) = n - (m + k)
      /\ \A i \in 1 .. n - (m + k) : d[i] = s[(m + k) + i]
  BY <1>1, Cut
<1> HIDE DEF b, n
<1>4. c \in Seq(S) /\ Len(c) = (n - m) - k
      /\ \A i \in 1 .. (n - m) - k : c[i] = b[k + i]
  <2>1. k \in 0 .. Len(b)
    BY <1>1, <1>2 DEF n
  <2>2. c \in Seq(S) /\ Len(c) = Len(b) - k
        /\ \A i \in 1 .. Len(b) - k : c[i] = b[k + i]
    BY <1>2, <2>1, Cut
  <2> HIDE DEF c
  <2> QED
    BY <1>2, <2>2
<1> HIDE DEF c, d
<1>5. ASSUME NEW i \in 1 .. n - (m + k) PROVE c[i] = d[i]
  <2>1. k + i \in 1 .. n - m /\ m + (k + i) = (m + k) + i
        /\ i \in 1 .. (n - m) - k
    BY <1>1
  <2> QED
    BY <1>2, <1>3, <1>4, <2>1
<1>6. c = d
  BY <1>1, <1>3, <1>4, <1>5, SeqEqual
<1> QED
  BY <1>6 DEF b, c, d, n

\* The confirmation byte is written over what is executed.
LEMMA Overwritten ==
    ASSUME NEW s \in Seq(Byte), NEW m \in 1 .. Len(s)
    PROVE  LET t == [s EXCEPT ![1] = RES_CONFIRM]
           IN  /\ t \in Seq(Byte) /\ Len(t) = Len(s)
               /\ Behind(t, m) = Behind(s, m)
<1> DEFINE n == Len(s)
           t == [s EXCEPT ![1] = RES_CONFIRM]
<1>1. n \in Nat /\ m \in Nat /\ DOMAIN s = 1 .. n /\ s \in [1 .. n -> Byte]
      /\ m \in 0 .. n /\ 1 \in 1 .. n
  BY LenProperties, SeqDef
<1>2. RES_CONFIRM \in Byte
  BY DEF Byte
<1>3. /\ t \in [1 .. n -> Byte] /\ DOMAIN t = 1 .. n
      /\ \A i \in 1 .. n : i # 1 => t[i] = s[i]
  <2> HIDE DEF n
  <2> QED
    BY <1>1, <1>2
<1> HIDE DEF t
<1>4. t \in Seq(Byte)
  BY <1>1, <1>3, SeqDef
<1>5. Len(t) = n
  <2>1. DOMAIN t = 1 .. Len(t) /\ Len(t) \in Nat
    BY <1>4, LenProperties
  <2> HIDE DEF n
  <2> QED
    BY <1>1, <1>3, <2>1
<1> DEFINE b == Behind(s, m)
           c == Behind(t, m)
<1>6. b \in Seq(Byte) /\ Len(b) = n - m
      /\ \A i \in 1 .. n - m : b[i] = s[m + i]
  BY <1>1, Cut
<1> HIDE DEF n
<1>7. c \in Seq(Byte) /\ Len(c) = n - m
      /\ \A i \in 1 .. n - m : c[i] = t[m + i]
  <2>1. m \in 0 .. Len(t)
    BY <1>1, <1>5
  <2> HIDE DEF c
  <2>2. c \in Seq(Byte) /\ Len(c) = Len(t) - m
        /\ \A i \in 1 .. Len(t) - m : c[i] = t[m + i]
    BY <1>4, <2>1, Cut DEF c
  <2> QED
    BY <1>5, <2>2
<1> HIDE DEF b, c
<1>8. ASSUME NEW i \in 1 .. n - m PROVE b[i] = c[i]
  <2>1. m + i \in 1 .. n /\ m + i # 1
    <3>1. m >= 1
      OBVIOUS
    <3> QED
      BY <1>1, <3>1
  <2> QED
    BY <1>3, <1>6, <1>7, <2>1
<1>9. b = c
  BY <1>6, <1>7, <1>8, SeqEqual
<1> QED
  BY <1>4, <1>5, <1>9 DEF b, c, t, n

\* Where the bytes of commands begin, the reader finds the first one; when
\* all its bytes have come, the bytes of the others follow it.
LEMMA Decodes ==
    ASSUME NEW cmds \in Seq(Command), NEW b \in Seq(Byte),
           NEW p \in 0 .. Len(b) - 1, NEW w \in Seq(Byte),
           Behind(b, p) \o w = EncodeAll(cmds)
    PROVE  /\ cmds # <<>> /\ b[p + 1] = cmds[1] /\ b[p + 1].cmd \in Known
           /\ cmds[1] \in Command /\ Tail(cmds) \in Seq(Command)
           /\ Complete(b, p + 1) /\ cmds[1].cmd # "SHOW_ERROR" =>
                 LET n == p + Size(cmds[1])
                 IN  /\ n \in 1 .. Len(b)
                     /\ Behind(b, n) \o w = EncodeAll(Tail(cmds))
<1> DEFINE c == cmds[1]
           a == Behind(b, p)
           x == Encode(c)
           y == EncodeAll(Tail(cmds))
<1>1. Len(b) \in Nat /\ p \in Nat /\ p \in 0 .. Len(b) /\ Len(b) - p \in Nat \ {0}
  BY LenProperties
<1>2. a \in Seq(Byte) /\ Len(a) = Len(b) - p
      /\ \A i \in 1 .. Len(b) - p : a[i] = b[p + i]
  BY <1>1, Cut
<1> HIDE DEF a
<1>3. cmds # <<>>
  <2>1. a # <<>>
    BY <1>1, <1>2
  <2>2. a \o w # <<>>
    BY <1>2, <2>1, ConcatSimplifications
  <2> QED
    BY <2>2, EncodeEmpty DEF a
<1>4. /\ c \in Command /\ Tail(cmds) \in Seq(Command) /\ y \in Seq(Byte)
      /\ a \o w = x \o y
  BY <1>3, EncodeFirst DEF a
<1>5. /\ Size(c) \in Nat \ {0} /\ x \in Seq(Byte) /\ Len(x) = Size(c)
      /\ x[1] = c
  BY <1>4, EncodeType
<1> HIDE DEF c, x, y
<1>6. b[p + 1] = c
  <2>1. 1 \in 1 .. Len(a) /\ 1 \in 1 .. Len(a) + Len(w)
        /\ 1 \in 1 .. Len(x) /\ 1 \in 1 .. Len(x) + Len(y)
        /\ 1 \in 1 .. Len(b) - p /\ 1 <= Len(a) /\ 1 <= Len(x)
    <3>1. Len(w) \in Nat /\ Len(y) \in Nat
      BY <1>4, LenProperties
    <3> QED
      BY <1>1, <1>2, <1>5, <3>1
  <2>2. (a \o w)[1] = a[1] /\ (x \o y)[1] = x[1]
    BY <1>2, <1>4, <1>5, <2>1, ConcatProperties
  <2> QED
    BY <1>2, <1>4, <1>5, <2>1, <2>2
<1>7. c.cmd \in Known
  BY <1>4 DEF Command, Known, Update
<1>8. ASSUME Complete(b, p + 1), c.cmd # "SHOW_ERROR"
      PROVE  p + Size(c) \in 1 .. Len(b) /\ Behind(b, p + Size(c)) \o w = y
  <2>1. (p + 1) + Size(c) - 1 <= Len(b)
    BY <1>6, <1>8 DEF Complete
  <2>2. Size(c) \in 0 .. Len(b) - p /\ p + Size(c) \in 1 .. Len(b)
        /\ Len(x) <= Len(a)
    BY <1>1, <1>2, <1>5, <2>1
  <2>3. SubSeq(a, Len(x) + 1, Len(a)) \o w = y
    <3>1. /\ a \in Seq(Byte) /\ w \in Seq(Byte)
          /\ x \in Seq(Byte) /\ y \in Seq(Byte)
          /\ a \o w = x \o y /\ Len(x) <= Len(a)
      BY <1>2, <1>4, <1>5, <2>2
    <3> QED
      BY ONLY <3>1, ConcatRest
  <2>4. Behind(a, Size(c)) \o w = y
    BY <1>5, <2>3 DEF Behind
  <2>5. Behind(a, Size(c)) = Behind(b, p + Size(c))
    BY <1>1, <2>2, CutAgain DEF a
  <2> QED
    BY <2>2, <2>4, <2>5
<1> QED
  BY <1>3, <1>4, <1>6, <1>7, <1>8 DEF c, y

-----------------------------------------------------------------------------
(* The inductive invariant.                                                *)

Session == [first |-> first, image |-> image, next |-> next,
            color |-> color, blind |-> color0]

\* The server sends a message; it sends an error; it is owed a confirmation.
Sending  == pc = "write" /\ after = "confirm"
Refusing == pc = "write" /\ after = "accept"
Waiting  == Sending \/ (pc = "confirm" /\ acks = 0)

Types ==
    /\ TypeOK /\ Understood /\ out \in Seq(Byte) /\ wire \in Seq(Byte) /\ buf \in Seq(Byte)
    /\ acks \in Nat /\ at \in 0 .. Len(buf)

\* Either side knows of the connection what it has to.
Control ==
    /\ status = "on" <=> conn \in {"up", "srvClosed"}
    /\ pc = "accept" <=> conn \in {"none", "srvClosed"}
    /\ pc = "write" <=> out # <<>>
    /\ status # "on" => buf = <<>> /\ at = 0 /\ wire = <<>>
    /\ pc = "first" => region = 0
    /\ pc = "region" => region > 0
    /\ pc = "confirm" \/ Sending => region <= Len(Regions)

\* While the server is in a session: what the reader shows, if the server is
\* not waiting to know.
Stage ==
    conn \in {"up", "cliClosed"} =>
        /\ pc = "first" => acks = 0 /\ color = color0
        /\ Refusing => acks = 0 /\ (region > 0 => Outside(rd, Session))
        /\ pc \in {"frame", "shot"} \/ (pc = "write" /\ after = "shot") =>
              acks = 0 /\ Whole(rd, Session)
        /\ pc = "region" => acks = 0 /\ Between(rd, region, Session)
        /\ Sending => acks = 0
        /\ pc = "confirm" =>
              acks = 0 \/ (acks = 1 /\ Arrived(rd, region, Session))

\* What has been received and not executed, what is on its way and the rest,
\* which is still to be written or lost, are the bytes of whole commands.
Carries(cmds, rest) ==
    /\ Pending \o (wire \o rest) = EncodeAll(cmds)
    /\ conn = "up" => /\ rest = out
                      /\ Refusing => Failing(cmds)
                      /\ Waiting => Bound(cmds, rd, region, Session)
                      /\ ~Refusing /\ ~Waiting => Idle(cmds)
    /\ conn = "srvClosed" => \/ Idle(cmds) \/ Failing(cmds)
                             \/ Bound(cmds, rd, region, Session)
InFlight ==
    status = "on" =>
        \E cmds \in Seq(Command), rest \in Seq(Byte) : Carries(cmds, rest)

IInv == Types /\ Control /\ Stage /\ InFlight

-----------------------------------------------------------------------------
(* The parts of a step.                                                    *)

LEMMA SessionTypes ==
    ASSUME Types
    PROVE  /\ Session \in Sessions /\ rd \in Registers /\ region \in Nat
           /\ Session.first = first /\ Session.image = image
           /\ Session.next = next /\ Session.color = color
           /\ Session.blind = color0
<1>1. Len(Regions) \in Nat
  BY RegionTypes
<1> QED
  BY <1>1 DEF Types, TypeOK, Understood, Session, Sessions

LEMMA SessionStays ==
    ASSUME UNCHANGED <<first, image, next, color, color0>>
    PROVE  Session' = Session
BY DEF Session

\* What is in the receive buffer.
LEMMA PendingType ==
    ASSUME Types
    PROVE  /\ Pending \in Seq(Byte) /\ Pending = Behind(buf, at)
           /\ Pending \o wire \in Seq(Byte)
<1>1. Pending = Behind(buf, at)
  BY DEF Pending, Behind
<1>2. Pending \in Seq(Byte)
  BY <1>1, Cut DEF Types
<1> QED
  BY <1>1, <1>2, ConcatProperties DEF Types

\* The bytes of a command, as those of a sequence of one.
LEMMA OneCommand ==
    ASSUME NEW c \in Command
    PROVE  /\ EncodeAll(<<c>>) = Encode(c) /\ <<c>> \in Seq(Command)
           /\ Encode(c) # <<>> /\ Encode(c) \in Seq(Byte)
<1>1. <<>> \in Seq(Command) /\ <<c>> = Append(<<>>, c) /\ <<c>> \in Seq(Command)
  OBVIOUS
<1>2. EncodeAll(<<c>>) = EncodeAll(<<>>) \o Encode(c) /\ EncodeAll(<<>>) = <<>>
  BY <1>1, EncodeSteps
<1>3. Encode(c) \in Seq(Byte) /\ Len(Encode(c)) # 0
  BY EncodeType
<1>4. <<>> \o Encode(c) = Encode(c)
  BY <1>3, ConcatEmptySeq
<1>5. Encode(c) # <<>>
  BY <1>3
<1> QED
  BY <1>1, <1>2, <1>3, <1>4, <1>5

LEMMA CheckBytes == Encode(CONN_CHECK) = <<CONN_CHECK>>
BY DEF Encode, Size, CONN_CHECK

LEMMA MessageBytes ==
    ASSUME NEW m, IsMessage(m)
    PROVE  /\ m \in Seq(Command) /\ EncodeAll(m) \in Seq(Byte)
           /\ EncodeAll(m) # <<>>
<1>1. PICK s \in Seq(Drawing), c \in Harmless :
         c.cmd \in Update /\ m = Append(s, c)
  BY DEF IsMessage
<1>2. s \in Seq(Command) /\ c \in Command
  BY QuietCommands, WiderSeq
<1>3. m \in Seq(Command) /\ m # <<>>
  BY <1>1, <1>2, AppendProperties
<1> QED
  BY <1>3, EncodeSteps, EncodeEmpty

\* A write follows what is under way.
LEMMA WriteFollows ==
    ASSUME NEW p \in Seq(Byte), NEW w \in Seq(Byte),
           NEW cmds \in Seq(Command), NEW m \in Seq(Command),
           p \o w = EncodeAll(cmds)
    PROVE  /\ p \o (w \o EncodeAll(m)) = EncodeAll(cmds \o m)
           /\ cmds \o m \in Seq(Command)
<1> DEFINE e == EncodeAll(m)
<1>1. e \in Seq(Byte)
  BY EncodeSteps
<1>2. EncodeAll(cmds \o m) = EncodeAll(cmds) \o e
  BY EncodeConcat
<1> HIDE DEF e
<1>3. (p \o w) \o e = p \o (w \o e)
  <2>1. p \in Seq(Byte) /\ w \in Seq(Byte) /\ e \in Seq(Byte)
    BY <1>1
  <2> QED
    BY ONLY <2>1, ConcatAssociative
<1>4. cmds \o m \in Seq(Command)
  BY ConcatProperties
<1> QED
  BY <1>2, <1>3, <1>4 DEF e

\* When the server begins a step outside a write, nothing is left to write.
LEMMA Turn ==
    ASSUME Types, Control, InFlight, pc \notin {"accept", "write"}
    PROVE  /\ out = <<>> /\ conn \in {"up", "cliClosed"}
           /\ status = "on" =>
                /\ conn = "up"
                /\ \E cmds \in Seq(Command) :
                      /\ Pending \o wire = EncodeAll(cmds)
                      /\ Waiting => Bound(cmds, rd, region, Session)
                      /\ ~Waiting => Idle(cmds)
<1>1. out = <<>> /\ conn \in {"up", "cliClosed"} /\ (status = "on" => conn = "up")
  BY DEF Control, Types, TypeOK
<1>2. ASSUME status = "on"
      PROVE  \E cmds \in Seq(Command) :
                /\ Pending \o wire = EncodeAll(cmds)
                /\ Waiting => Bound(cmds, rd, region, Session)
                /\ ~Waiting => Idle(cmds)
  <2>1. PICK cmds \in Seq(Command), rest \in Seq(Byte) : Carries(cmds, rest)
    BY <1>2 DEF InFlight
  <2>2. /\ Pending \o (wire \o <<>>) = EncodeAll(cmds) /\ ~Refusing
        /\ Waiting => Bound(cmds, rd, region, Session)
        /\ ~Waiting => Idle(cmds)
    BY <1>1, <1>2, <2>1 DEF Carries, Refusing
  <2>3. wire \o <<>> = wire
    BY ConcatEmptySeq DEF Types
  <2> QED
    BY <2>2, <2>3
<1> QED
  BY <1>1, <1>2

\* The reader at a command of those under way.
LEMMA ExecStep ==
    ASSUME Types, ClientExec, NEW cmds \in Seq(Command), NEW w \in Seq(Byte),
           Pending \o w = EncodeAll(cmds)
    PROVE  LET c == cmds[1]
           IN  /\ cmds # <<>> /\ c \in Command /\ Tail(cmds) \in Seq(Command)
               /\ c.cmd = "SHOW_ERROR" =>
                     /\ rd' = rd /\ acks' = acks /\ status' = "error" /\ HangUp
               /\ c.cmd # "SHOW_ERROR" =>
                     /\ rd' = Apply(rd, c) /\ UNCHANGED <<wire, status, conn>>
                     /\ buf' \in Seq(Byte) /\ at' \in 0 .. Len(buf')
                     /\ Pending' \o w = EncodeAll(Tail(cmds))
                     /\ acks' = IF conn = "up" /\ c.cmd \in Update
                                THEN acks + 1 ELSE acks
<1> DEFINE c == cmds[1]
           n == at + Size(c)
           s0 == [rd |-> rd, buf |-> buf, at |-> at, acks |-> 0, stop |-> "no"]
           st == ExecCommand(s0)
<1>1. /\ status = "on" /\ HasCommand /\ rd' = st.rd
      /\ acks' = (IF conn = "up" THEN acks + st.acks ELSE acks)
      /\ \/ /\ st.stop = "no" /\ buf' = st.buf /\ at' = st.at
            /\ UNCHANGED <<wire, status, conn>>
         \/ /\ st.stop \in {"error", "unsupported"}
            /\ status' = st.stop /\ HangUp
  BY DEF ClientExec
<1>2. buf \in Seq(Byte) /\ at \in 0 .. Len(buf) - 1 /\ acks \in Nat
      /\ Behind(buf, at) \o w = EncodeAll(cmds)
  <2>1. at < Len(buf)
    BY <1>1 DEF HasCommand
  <2> QED
    BY <2>1, PendingType DEF Types
<1>3. /\ cmds # <<>> /\ buf[at + 1] = c /\ c.cmd \in Known
      /\ c \in Command /\ Tail(cmds) \in Seq(Command)
      /\ Complete(buf, at + 1) /\ c.cmd # "SHOW_ERROR" =>
            n \in 1 .. Len(buf) /\ Behind(buf, n) \o w = EncodeAll(Tail(cmds))
  BY <1>2, Decodes
<1>4. Complete(buf, at + 1)
  BY <1>1, <1>3 DEF HasCommand
<1>5. s0.at + 1 = at + 1 /\ s0.buf = buf
  OBVIOUS
<1>6. CASE c.cmd = "SHOW_ERROR"
  <2>1. st = [s0 EXCEPT !.stop = "error", !.at = EndOfMessage(buf, at + 1) - 1]
    <3> HIDE DEF c
    <3> QED
      BY <1>3, <1>4, <1>6 DEF ExecCommand, Known, Update
  <2>2. st.rd = rd /\ st.acks = 0 /\ st.stop = "error"
    BY <2>1
  <2> HIDE DEF st
  <2> QED
    BY <1>1, <1>2, <1>3, <1>6, <2>2
<1>7. CASE c.cmd # "SHOW_ERROR" /\ c.cmd \notin Update
  <2>1. st = [s0 EXCEPT !.rd = Apply(@, c), !.at = @ + Size(c)]
    <3> HIDE DEF c
    <3> QED
      BY <1>3, <1>4, <1>7 DEF ExecCommand, Known, Update
  <2>2. /\ st.rd = Apply(rd, c) /\ st.acks = 0 /\ st.stop = "no"
        /\ st.buf = buf /\ st.at = n
    BY <2>1
  <2> HIDE DEF st
  <2>3. /\ buf' = buf /\ at' = n /\ rd' = Apply(rd, c) /\ acks' = acks
        /\ UNCHANGED <<wire, status, conn>>
    BY <1>1, <1>2, <2>2
  <2> HIDE DEF n
  <2>4. Pending' = Behind(buf, n)
    BY <2>3 DEF Pending, Behind
  <2>5. n \in 0 .. Len(buf)
    BY <1>3, <1>4, <1>7
  <2> QED
    BY <1>2, <1>3, <1>4, <1>7, <2>3, <2>4, <2>5
<1>8. CASE c.cmd \in Update
  <2>0. c.cmd # "SHOW_ERROR"
    BY <1>8 DEF Update
  <2> DEFINE b == [buf EXCEPT ![1] = RES_CONFIRM]
  <2>1. st = [s0 EXCEPT !.rd = Apply(@, c), !.at = @ + Size(c),
                        !.acks = @ + 1, !.buf[1] = RES_CONFIRM]
    <3> HIDE DEF c
    <3> QED
      BY <1>3, <1>4, <1>8 DEF ExecCommand, Known, Update
  <2>2. /\ st.rd = Apply(rd, c) /\ st.acks = 1 /\ st.stop = "no"
        /\ st.buf = b /\ st.at = n
    <3> DEFINE x == Apply(rd, c)
               s1 == [s0 EXCEPT !.rd = x]
               s2 == [s1 EXCEPT !.at = n]
               s3 == [s2 EXCEPT !.acks = 1]
               s4 == [s3 EXCEPT !.buf = [s3.buf EXCEPT ![1] = RES_CONFIRM]]
    <3>1. /\ s3.rd = Apply(rd, c) /\ s3.acks = 1 /\ s3.stop = "no"
          /\ s3.buf = buf /\ s3.at = n
          /\ DOMAIN s3 = {"rd", "buf", "at", "acks", "stop"}
          /\ s3 = [f \in DOMAIN s3 |-> s3[f]]
      <4> HIDE DEF n, c, x
      <4>1. s1 = [rd |-> x, buf |-> buf, at |-> at, acks |-> 0, stop |-> "no"]
        OBVIOUS
      <4> HIDE DEF s1
      <4>2. s2 = [rd |-> x, buf |-> buf, at |-> n, acks |-> 0, stop |-> "no"]
        BY <4>1
      <4> HIDE DEF s2
      <4>3. s3 = [rd |-> x, buf |-> buf, at |-> n, acks |-> 1, stop |-> "no"]
        BY <4>2
      <4> HIDE DEF s3
      <4>4. /\ s3.rd = x /\ s3.acks = 1 /\ s3.stop = "no"
            /\ s3.buf = buf /\ s3.at = n
            /\ DOMAIN s3 = {"rd", "buf", "at", "acks", "stop"}
            /\ s3 = [f \in DOMAIN s3 |-> s3[f]]
        BY <4>3
      <4> QED
        BY <4>4 DEF x
    <3>2. st = s4
      BY <2>1
    <3> HIDE DEF s3, st, n, c
    <3> QED
      BY <3>1, <3>2
  <2> HIDE DEF st
  <2>3. n \in 1 .. Len(buf) /\ Behind(buf, n) \o w = EncodeAll(Tail(cmds))
    BY <1>3, <1>4, <2>0
  <2> HIDE DEF n
  <2>4. b \in Seq(Byte) /\ Len(b) = Len(buf) /\ Behind(b, n) = Behind(buf, n)
    BY <1>2, <2>3, Overwritten
  <2> HIDE DEF b
  <2>5. /\ buf' = b /\ at' = n /\ rd' = Apply(rd, c)
        /\ acks' = (IF conn = "up" THEN acks + 1 ELSE acks)
        /\ UNCHANGED <<wire, status, conn>>
    BY <1>1, <2>2
  <2>6. Pending' = Behind(b, n)
    BY <2>5 DEF Pending, Behind
  <2>7. n \in 0 .. Len(b)
    BY <2>3, <2>4
  <2> QED
    BY <1>3, <1>8, <2>0, <2>3, <2>4, <2>5, <2>6, <2>7
<1> QED
  BY <1>6, <1>7, <1>8

-----------------------------------------------------------------------------
(* The steps.                                                              *)

\* The server writes what it has prepared behind an idle connection.
LEMMA StartsWrite ==
    ASSUME Types, Control, InFlight, pc \notin {"accept", "write"}, ~Waiting,
           UNCHANGED <<client, net>>, pc' = "write",
           NEW m \in Seq(Command), out' = EncodeAll(m),
           \A cmds : Idle(cmds) =>
              /\ after' = "accept" => Failing(cmds \o m)
              /\ after' = "confirm" =>
                    Bound(cmds \o m, rd', region', Session')
              /\ after' \notin {"accept", "confirm"} => Idle(cmds \o m)
    PROVE  InFlight'
<1> SUFFICES ASSUME status' = "on"
             PROVE  \E cmds \in Seq(Command), rest \in Seq(Byte) :
                       Carries(cmds, rest)'
  BY DEF InFlight
<1>1. status = "on" /\ wire' = wire /\ conn' = conn /\ Pending' = Pending
  BY DEF client, net, Pending
<1>2. /\ conn = "up"
      /\ \E cmds \in Seq(Command) : /\ Pending \o wire = EncodeAll(cmds)
                                    /\ Idle(cmds)
  BY <1>1, Turn
<1>3. PICK cmds \in Seq(Command) : /\ Pending \o wire = EncodeAll(cmds)
                                   /\ Idle(cmds)
  BY <1>2
<1>4. Pending \in Seq(Byte) /\ wire \in Seq(Byte)
  BY PendingType DEF Types
<1>5. /\ Pending \o (wire \o EncodeAll(m)) = EncodeAll(cmds \o m)
      /\ cmds \o m \in Seq(Command)
  BY <1>3, <1>4, WriteFollows
<1>6. Carries(cmds \o m, EncodeAll(m))'
  BY <1>1, <1>2, <1>3, <1>5 DEF Carries, Refusing, Waiting, Sending
<1>7. EncodeAll(m) \in Seq(Byte)
  BY EncodeSteps
<1> QED
  BY <1>5, <1>6, <1>7

\* The server goes on without writing.
LEMMA StaysIdle ==
    ASSUME Types, Control, InFlight, pc \notin {"accept", "write"}, ~Waiting,
           UNCHANGED <<client, out, wire, conn>>,
           pc' \notin {"accept", "write", "confirm"}
    PROVE  InFlight'
<1> SUFFICES ASSUME status' = "on"
             PROVE  \E cmds \in Seq(Command), rest \in Seq(Byte) :
                       Carries(cmds, rest)'
  BY DEF InFlight
<1>1. status = "on" /\ Pending' = Pending
  BY DEF client, Pending
<1>2. /\ conn = "up" /\ out = <<>>
      /\ \E cmds \in Seq(Command) : /\ Pending \o wire = EncodeAll(cmds)
                                    /\ Idle(cmds)
  BY <1>1, Turn
<1>3. PICK cmds \in Seq(Command) : /\ Pending \o wire = EncodeAll(cmds)
                                   /\ Idle(cmds)
  BY <1>2
<1>4. wire \o <<>> = wire /\ <<>> \in Seq(Byte)
  BY ConcatEmptySeq DEF Types
<1>5. Carries(cmds, <<>>)'
  BY <1>1, <1>2, <1>3, <1>4 DEF Carries, Refusing, Waiting, Sending
<1> QED
  BY <1>4, <1>5

LEMMA InitHolds == Init => IInv
<1> SUFFICES ASSUME Init PROVE IInv
  OBVIOUS
<1>1. rd \in Registers
  BY ScreenAssumption, ColorsAssumption
     DEF Init, InitReader, Registers, Image, Pixel
<1>2. Blank \in Frames
  BY FramesAssumption DEF Blank
<1>3. Len(Regions) \in Nat /\ <<>> \in Seq(Byte) /\ Len(<<>>) = 0
  BY RegionTypes
<1>4. SockBuf \in Nat
  BY SockBufAssumption
<1>5. Types
  BY <1>1, <1>2, <1>3, <1>4, ColorsAssumption DEF Init, Types, TypeOK, Understood
<1>6. Control
  BY DEF Init, Control, Sending
<1>7. Stage /\ InFlight
  BY DEF Init, Stage, InFlight
<1> QED
  BY <1>5, <1>6, <1>7 DEF IInv

LEMMA ConnectHolds == ASSUME IInv, Connect PROVE IInv'
<1>1. /\ pc = "accept" /\ pc' = "first" /\ region' = 0
      /\ rd' = InitReader(0) /\ buf' = <<>> /\ at' = 0 /\ status' = "on"
      /\ wire' = <<>> /\ acks' = 0 /\ conn' = "up" /\ color0' = color
      /\ UNCHANGED <<out, after, image, next, color, first>>
  BY DEF Connect
<1>2. rd' \in Registers
  BY <1>1, ScreenAssumption, ColorsAssumption
     DEF InitReader, Registers, Image, Pixel
<1>3. Len(Regions) \in Nat /\ <<>> \in Seq(Byte) /\ Len(<<>>) = 0
  BY RegionTypes
<1>4. Types'
  BY <1>1, <1>2, <1>3, SockBufAssumption DEF IInv, Types, TypeOK, Understood
<1>5. out = <<>>
  BY <1>1 DEF IInv, Control
<1>6. Control'
  BY <1>1, <1>5 DEF Control, Sending
<1>7. Stage'
  BY <1>1 DEF Stage, Refusing, Sending
<1>8. InFlight'
  <2>1. Pending' = <<>>
    BY <1>1 DEF Pending
  <2>2. <<>> \in Seq(Command) /\ Idle(<<>>) /\ EncodeAll(<<>>) = <<>>
    <3>1. <<>> \in Seq(Command) /\ <<>> \in Seq(Checks)
      OBVIOUS
    <3> QED
      BY <3>1, EncodeSteps DEF Idle
  <2>3. <<>> \o (<<>> \o <<>>) = <<>>
    BY <1>3, ConcatEmptySeq
  <2>4. Carries(<<>>, <<>>)'
    BY <1>1, <1>5, <2>1, <2>2, <2>3 DEF Carries, Refusing, Waiting, Sending
  <2> QED
    BY <1>3, <2>2, <2>4 DEF InFlight
<1> QED
  BY <1>4, <1>6, <1>7, <1>8 DEF IInv

LEMMA SendFirstHolds == ASSUME IInv, SendFirst PROVE IInv'
<1>1. PICK f \in Frames : /\ image' = f /\ first' = f /\ pc' = "write"
                          /\ out' = EncodeAll(SendAll(f)) /\ after' = "confirm"
  BY DEF SendFirst, StartWrite
<1>2. /\ pc = "first" /\ UNCHANGED <<region, next, color, client, net, color0>>
      /\ UNCHANGED <<rd, buf, at, status, wire, acks, conn>>
  BY DEF SendFirst, client, net
<1>3. Types /\ Control /\ Stage /\ InFlight
  BY DEF IInv
<1>4. conn \in {"up", "cliClosed"} /\ region = 0 /\ acks = 0 /\ color = color0
  BY <1>2, <1>3, Turn DEF Control, Stage
<1>5. /\ Session' \in Sessions /\ Session'.first = f /\ Session'.image = f
      /\ Session'.color = Session'.blind /\ rd \in Registers
  <2>1. Session' = [first |-> f, image |-> f, next |-> next,
                    color |-> color, blind |-> color0]
    BY <1>1, <1>2 DEF Session
  <2> QED
    BY <1>3, <1>4, <2>1, SessionTypes DEF Sessions, Session
<1>6. IsMessage(SendAll(f)) /\ Lands(rd, SendAll(f), 0, Session')
  BY <1>5, FirstLands
<1>7. /\ SendAll(f) \in Seq(Command) /\ out' \in Seq(Byte) /\ out' # <<>>
  BY <1>1, <1>6, MessageBytes
<1>8. Types'
  BY <1>1, <1>2, <1>3, <1>7 DEF Types, TypeOK, Understood
<1>9. Control'
  BY <1>1, <1>2, <1>3, <1>4, <1>7, RegionTypes DEF Control, Sending
<1>10. Stage'
  BY <1>1, <1>2, <1>4 DEF Stage, Refusing, Sending
<1>11. InFlight'
  <2>1. ~Waiting
    BY <1>2 DEF Waiting, Sending
  <2>2. \A cmds : Idle(cmds) =>
           Bound(cmds \o SendAll(f), rd', region', Session')
    BY <1>2, <1>4, <1>5, <1>6, Joins
  <2> QED
    BY <1>1, <1>2, <1>3, <1>7, <2>1, <2>2, StartsWrite
<1> QED
  BY <1>8, <1>9, <1>10, <1>11 DEF IInv

LEMMA CheckConnectionHolds == ASSUME IInv, CheckConnection PROVE IInv'
<1>1. /\ pc = "frame" /\ pc' = "write" /\ after' = "shot"
      /\ out' = <<CONN_CHECK>>
      /\ UNCHANGED <<region, image, next, color, client, net, hist>>
      /\ UNCHANGED <<rd, buf, at, status, wire, acks, conn, first, color0>>
  BY DEF CheckConnection, StartWrite, client, net, hist
<1>2. Types /\ Control /\ Stage /\ InFlight
  BY DEF IInv
<1>3. Session' = Session
  BY <1>1, SessionStays
<1>4. CONN_CHECK \in Command
  BY QuietCommands
<1>5. /\ <<CONN_CHECK>> \in Seq(Command)
      /\ out' = EncodeAll(<<CONN_CHECK>>) /\ out' \in Seq(Byte) /\ out' # <<>>
  BY <1>1, <1>4, OneCommand, CheckBytes
<1>6. Types'
  BY <1>1, <1>2, <1>5 DEF Types, TypeOK, Understood
<1>7. Control'
  BY <1>1, <1>2, <1>5 DEF Control, Sending
<1>8. Stage'
  BY <1>1, <1>2, <1>3 DEF Stage, Refusing, Sending
<1>9. InFlight'
  <2>1. ~Waiting
    BY <1>1 DEF Waiting, Sending
  <2>2. ASSUME NEW cmds, Idle(cmds) PROVE Idle(cmds \o <<CONN_CHECK>>)
    <3>1. cmds \in Seq(Command)
      BY <2>2, UnderWay
    <3>2. Append(cmds, CONN_CHECK) = cmds \o <<CONN_CHECK>>
      BY <1>4, <3>1, AppendIsConcat
    <3> QED
      BY <2>2, <3>2, Joins
  <2> QED
    BY <1>1, <1>2, <1>5, <2>1, <2>2, StartsWrite
<1> QED
  BY <1>6, <1>7, <1>8, <1>9 DEF IInv

LEMMA ShotHolds == ASSUME IInv, Shot PROVE IInv'
<1>1. /\ pc = "shot" /\ next' \in Frames /\ pc' = "region" /\ region' = 1
      /\ UNCHANGED <<out, after, image, color, client, net, hist>>
      /\ UNCHANGED <<rd, buf, at, status, wire, acks, conn, first, color0>>
  BY DEF Shot, client, net, hist
<1>2. Types /\ Control /\ Stage /\ InFlight
  BY DEF IInv
<1>3. /\ Session'.first = Session.first /\ Session'.image = Session.image
      /\ Session'.color = Session.color /\ Session'.blind = Session.blind
  BY <1>1 DEF Session
<1>4. Len(Regions) \in Nat \ {0}
  BY RegionTypes
<1>5. Types'
  BY <1>1, <1>2, <1>4 DEF Types, TypeOK, Understood
<1>6. Control'
  BY <1>1, <1>2 DEF Control, Sending
<1>7. acks = 0 /\ Whole(rd, Session) /\ conn \in {"up", "cliClosed"}
  BY <1>1, <1>2, Turn DEF Stage
<1>8. Between(rd, 1, Session')
  <2>1. Outside(rd, Session') /\ Joined(rd, Session')
    BY <1>3, <1>7 DEF Whole, Outside, Joined
  <2>2. ASSUME NEW q \in Covered PROVE Shown(rd, Session'.image, q, Session')
    BY <1>3, <1>7 DEF Whole, Shown, StandsFor
  <2> QED
    BY <2>1, <2>2 DEF Between
<1>9. Stage'
  BY <1>1, <1>7, <1>8 DEF Stage, Refusing, Sending
<1>10. InFlight'
  <2>1. ~Waiting
    BY <1>1 DEF Waiting, Sending
  <2> QED
    BY <1>1, <1>2, <2>1, StaysIdle
<1> QED
  BY <1>5, <1>6, <1>9, <1>10 DEF IInv

\* The static color is one that a frame has, or that it was.
LEMMA RegionColor ==
    ASSUME NEW r \in Registers, NEW s \in Sessions, NEW k \in 1 .. Len(Regions)
    PROVE  SendDiff(s.image, s.next, Regions[k], s.color).color \in Colors
<1> DEFINE g == Regions[k]
           m == [prev |-> s.image, next |-> s.next, region |-> g,
                 color |-> s.color, reader |-> r]
<1>1. g \in Region /\ OnScreen(g)
  BY RegionTypes
<1>2. s.image \in Image /\ s.next \in Image /\ s.color \in Colors
  BY ReadersTypes
<1>3. m \in Call /\ m.region = g /\ m.color = s.color
      /\ m.prev = s.image /\ m.next = s.next
  BY <1>1, <1>2 DEF Call
<1> HIDE DEF m
<1>4. SendDiff(m.prev, m.next, m.region, m.color).color \in Colors
  BY <1>3, SendDiffDraws
<1> QED
  BY <1>3, <1>4

LEMMA SendRegionHolds == ASSUME IInv, SendRegion PROVE IInv'
<1> DEFINE d == SendDiff(image, next, Regions[region], color)
<1>1. /\ pc = "region" /\ region \in DOMAIN Regions /\ color' = d.color
      /\ \/ /\ NeedSend(d) /\ pc' = "write" /\ out' = EncodeAll(d.cmds)
            /\ after' = "confirm" /\ UNCHANGED region
         \/ /\ ~NeedSend(d) /\ region' = region + 1
            /\ UNCHANGED <<pc, out, after>>
      /\ UNCHANGED <<image, next, client, net, hist>>
      /\ UNCHANGED <<rd, buf, at, status, wire, acks, conn, first, color0>>
  BY DEF SendRegion, StartWrite, client, net, hist
<1>2. Types /\ Control /\ Stage /\ InFlight
  BY DEF IInv
<1>3. region \in 1 .. Len(Regions) /\ Len(Regions) \in Nat
  BY <1>1, RegionTypes
<1>4. /\ Session \in Sessions /\ rd \in Registers
      /\ Session.first = first /\ Session.image = image
      /\ Session.next = next /\ Session.color = color
      /\ Session.blind = color0
  BY <1>2, SessionTypes
<1>5. d.color \in Colors
  BY <1>3, <1>4, RegionColor
<1> HIDE DEF d
<1>6. /\ Session' \in Sessions /\ Session'.first = Session.first
      /\ Session'.image = Session.image /\ Session'.next = Session.next
      /\ Session'.blind = Session.blind /\ Session'.color = d.color
  <2>1. Session' = [first |-> first, image |-> image, next |-> next,
                    color |-> d.color, blind |-> color0]
    BY <1>1 DEF Session
  <2> QED
    BY <1>4, <1>5, <2>1 DEF Sessions
<1>7. conn \in {"up", "cliClosed"} /\ acks = 0 /\ Between(rd, region, Session)
  BY <1>1, <1>2, Turn DEF Stage
<1>8. /\ NeedSend(d) => IsMessage(d.cmds) /\ Lands(rd, d.cmds, region, Session')
      /\ ~NeedSend(d) => Between(rd, region + 1, Session')
  <2>1. d = SendDiff(Session.image, Session.next, Regions[region],
                     Session.color)
    BY <1>4 DEF d
  <2> QED
    BY <1>3, <1>4, <1>6, <1>7, <2>1, RegionLands
<1>9. ~Waiting
  BY <1>1 DEF Waiting, Sending
<1>10. CASE NeedSend(d)
  <2>1. /\ pc' = "write" /\ out' = EncodeAll(d.cmds) /\ after' = "confirm"
        /\ region' = region
    BY <1>1, <1>10
  <2>2. /\ IsMessage(d.cmds) /\ Lands(rd, d.cmds, region, Session')
        /\ d.cmds \in Seq(Command) /\ out' \in Seq(Byte) /\ out' # <<>>
    BY <1>8, <1>10, <2>1, MessageBytes
  <2>3. Types'
    BY <1>1, <1>2, <1>5, <2>1, <2>2 DEF Types, TypeOK, Understood
  <2>4. Control'
    BY <1>1, <1>2, <1>3, <2>1, <2>2 DEF Control, Sending
  <2>5. Stage'
    BY <1>1, <1>7, <2>1 DEF Stage, Refusing, Sending
  <2>6. InFlight'
    <3>1. \A cmds : Idle(cmds) =>
             Bound(cmds \o d.cmds, rd', region', Session')
      BY <1>1, <1>4, <2>1, <2>2, Joins
    <3> QED
      BY <1>1, <1>2, <1>9, <2>1, <2>2, <3>1, StartsWrite
  <2> QED
    BY <2>3, <2>4, <2>5, <2>6 DEF IInv
<1>11. CASE ~NeedSend(d)
  <2>1. region' = region + 1 /\ UNCHANGED <<pc, out, after>>
    BY <1>1, <1>11
  <2>2. Between(rd, region + 1, Session')
    BY <1>8, <1>11
  <2>3. Types'
    BY <1>1, <1>2, <1>3, <1>5, <2>1 DEF Types, TypeOK, Understood
  <2>4. Control'
    BY <1>1, <1>2, <1>3, <2>1 DEF Control, Sending
  <2>5. Stage'
    BY <1>1, <1>7, <2>1, <2>2 DEF Stage, Refusing, Sending
  <2>6. InFlight'
    BY <1>1, <1>2, <1>9, <2>1, StaysIdle
  <2> QED
    BY <2>3, <2>4, <2>5, <2>6 DEF IInv
<1> QED
  BY <1>10, <1>11

LEMMA EndFrameHolds == ASSUME IInv, EndFrame PROVE IInv'
<1>1. /\ pc = "region" /\ region \notin DOMAIN Regions
      /\ image' = next /\ pc' = "frame"
      /\ UNCHANGED <<out, after, region, next, color, client, net, hist>>
      /\ UNCHANGED <<rd, buf, at, status, wire, acks, conn, first, color0>>
  BY DEF EndFrame, client, net, hist
<1>2. Types /\ Control /\ Stage /\ InFlight
  BY DEF IInv
<1>3. region = Len(Regions) + 1 /\ Len(Regions) \in Nat
  BY <1>1, <1>2, RegionTypes DEF Types, TypeOK, Understood, Control
<1>4. /\ Session'.first = Session.first /\ Session'.image = Session.next
      /\ Session'.color = Session.color /\ Session'.blind = Session.blind
  BY <1>1 DEF Session
<1>5. conn \in {"up", "cliClosed"} /\ acks = 0 /\ Between(rd, region, Session)
  BY <1>1, <1>2, Turn DEF Stage
<1>6. Whole(rd, Session')
  <2>1. Outside(rd, Session') /\ Joined(rd, Session')
    BY <1>4, <1>5 DEF Between, Outside, Joined
  <2>2. ASSUME NEW q \in Covered PROVE Shown(rd, Session'.image, q, Session')
    <3>1. PICK k \in 1 .. Len(Regions) : q \in Cells(Regions[k])
      BY RegionTypes
    <3>2. k \in 1 .. region - 1
      BY <1>3
    <3>3. Shown(rd, Session.next, q, Session)
      BY <1>5, <3>1, <3>2 DEF Between
    <3> QED
      BY <1>4, <3>3 DEF Shown, StandsFor
  <2> QED
    BY <2>1, <2>2 DEF Whole
<1>7. Types'
  BY <1>1, <1>2 DEF Types, TypeOK, Understood
<1>8. Control'
  BY <1>1, <1>2 DEF Control, Sending
<1>9. Stage'
  BY <1>1, <1>5, <1>6 DEF Stage, Refusing, Sending
<1>10. InFlight'
  <2>1. ~Waiting
    BY <1>1 DEF Waiting, Sending
  <2> QED
    BY <1>1, <1>2, <2>1, StaysIdle
<1> QED
  BY <1>7, <1>8, <1>9, <1>10 DEF IInv

LEMMA ShotFailsHolds == ASSUME IInv, ShotFails PROVE IInv'
<1> DEFINE c == CMD_SHOW_ERROR(ErrorLength)
<1>1. /\ pc \in {"first", "shot"} /\ pc' = "write" /\ after' = "accept"
      /\ out' = Encode(c)
      /\ UNCHANGED <<region, image, next, color, client, net, hist>>
      /\ UNCHANGED <<rd, buf, at, status, wire, acks, conn, first, color0>>
  BY DEF ShotFails, StartWrite, client, net, hist
<1>2. Types /\ Control /\ Stage /\ InFlight
  BY DEF IInv
<1>3. Session' = Session
  BY <1>1, SessionStays
<1>4. c \in Command /\ c.cmd = "SHOW_ERROR"
  BY SockBufAssumption DEF CMD_SHOW_ERROR, Command
<1> HIDE DEF c
<1>5. /\ <<c>> \in Seq(Command) /\ out' = EncodeAll(<<c>>)
      /\ out' \in Seq(Byte) /\ out' # <<>>
  BY <1>1, <1>4, OneCommand
<1>6. /\ conn \in {"up", "cliClosed"} /\ acks = 0
      /\ region > 0 => Outside(rd, Session)
  BY <1>1, <1>2, Turn DEF Stage, Control, Whole
<1>7. Types'
  BY <1>1, <1>2, <1>5 DEF Types, TypeOK, Understood
<1>8. Control'
  BY <1>1, <1>2, <1>5 DEF Control, Sending
<1>9. Stage'
  BY <1>1, <1>3, <1>6 DEF Stage, Refusing, Sending
<1>10. InFlight'
  <2>1. ~Waiting
    BY <1>1 DEF Waiting, Sending
  <2>2. ASSUME NEW cmds, Idle(cmds) PROVE Failing(cmds \o <<c>>)
    <3>1. cmds \in Seq(Command)
      BY <2>2, UnderWay
    <3>2. Append(cmds, c) = cmds \o <<c>>
      BY <1>4, <3>1, AppendIsConcat
    <3> QED
      BY <1>4, <2>2, <3>2, Joins
  <2> QED
    BY <1>1, <1>2, <1>5, <2>1, <2>2, StartsWrite
<1> QED
  BY <1>7, <1>8, <1>9, <1>10 DEF IInv

LEMMA RecvConfirmHolds == ASSUME IInv, RecvConfirm PROVE IInv'
<1>1. /\ pc = "confirm" /\ acks > 0 /\ acks' = acks - 1
      /\ \/ region = 0 /\ pc' = "frame" /\ UNCHANGED region
         \/ region > 0 /\ pc' = "region" /\ region' = region + 1
      /\ UNCHANGED <<out, after, image, next, color, client, wire, conn, hist>>
      /\ UNCHANGED <<rd, buf, at, status, first, color0>>
  BY DEF RecvConfirm, client, hist
<1>2. Types /\ Control /\ Stage /\ InFlight
  BY DEF IInv
<1>3. Session' = Session
  BY <1>1, SessionStays
<1>4. conn \in {"up", "cliClosed"} /\ acks = 1 /\ Arrived(rd, region, Session)
  <2>1. acks # 0
    BY <1>1
  <2> QED
    BY <1>1, <1>2, <2>1, Turn DEF Stage
<1>5. acks' = 0 /\ region \in 0 .. Len(Regions) /\ Len(Regions) \in Nat
  BY <1>1, <1>2, <1>4, RegionTypes DEF Types, TypeOK, Understood, Control
<1>6. Types'
  BY <1>1, <1>2, <1>5 DEF Types, TypeOK, Understood
<1>7. Control'
  BY <1>1, <1>2, <1>5 DEF Control, Sending
<1>8. region = 0 => Whole(rd, Session)
  <2> SUFFICES ASSUME region = 0 PROVE Whole(rd, Session)
    OBVIOUS
  <2>1. FirstShown(rd, Session)
    BY <1>4 DEF Arrived
  <2>2. Outside(rd, Session) /\ Joined(rd, Session)
    BY <2>1 DEF FirstShown, Outside, Joined
  <2>3. \A q \in Covered : Shown(rd, Session.image, q, Session)
    BY <2>1 DEF FirstShown, Shown, StandsFor
  <2> QED
    BY <2>2, <2>3 DEF Whole
<1>9. region > 0 => Between(rd, region + 1, Session)
  BY <1>4 DEF Arrived
<1>10. Stage'
  BY <1>1, <1>3, <1>5, <1>8, <1>9 DEF Stage, Refusing, Sending
<1>11. InFlight'
  <2>1. ~Waiting
    BY <1>1, <1>4 DEF Waiting, Sending
  <2> QED
    BY <1>1, <1>2, <2>1, StaysIdle
<1> QED
  BY <1>6, <1>7, <1>10, <1>11 DEF IInv

\* The server leaves, and what it has not written is lost.
LEMMA LeaveHolds ==
    ASSUME IInv, pc # "accept", Leave,
           UNCHANGED <<region, image, next, color, client, wire, hist>>
    PROVE  IInv'
<1>1. /\ pc' = "accept" /\ out' = <<>> /\ after' = "accept" /\ acks' = 0
      /\ conn' = (IF conn = "up" THEN "srvClosed" ELSE "none")
      /\ UNCHANGED <<rd, buf, at, status, first, color0>>
      /\ UNCHANGED <<region, image, next, color, wire>>
  BY DEF Leave, client, hist
<1>2. Types /\ Control /\ Stage /\ InFlight
  BY DEF IInv
<1>3. conn \in {"up", "cliClosed"}
  BY <1>2 DEF Types, TypeOK, Understood, Control
<1>4. Session' = Session
  BY <1>1, SessionStays
<1>5. Types'
  <2>1. <<>> \in Seq(Byte)
    OBVIOUS
  <2> QED
    BY <1>1, <1>2, <2>1 DEF Types, TypeOK, Understood
<1>6. Control'
  BY <1>1, <1>2, <1>3 DEF Control, Sending
<1>7. Stage'
  BY <1>1 DEF Stage
<1>8. InFlight'
  <2> SUFFICES ASSUME status' = "on"
               PROVE  \E cmds \in Seq(Command), rest \in Seq(Byte) :
                         Carries(cmds, rest)'
    BY DEF InFlight
  <2>1. conn = "up" /\ Pending' = Pending
    BY <1>1, <1>2, <1>3 DEF Control, Pending
  <2>2. PICK cmds \in Seq(Command), rest \in Seq(Byte) : Carries(cmds, rest)
    BY <1>1, <1>2 DEF InFlight
  <2>3. Carries(cmds, rest)'
    BY <1>1, <1>4, <2>1, <2>2 DEF Carries
  <2> QED
    BY <2>3
<1> QED
  BY <1>5, <1>6, <1>7, <1>8 DEF IInv

LEMMA KickHolds == ASSUME IInv, Kick PROVE IInv'
BY LeaveHolds DEF Kick

LEMMA TransferFailsHolds == ASSUME IInv, TransferFails PROVE IInv'
BY LeaveHolds DEF TransferFails

LEMMA WriteHolds == ASSUME IInv, NEW n \in 1 .. SockBuf, Write(n) PROVE IInv'
<1> DEFINE pre  == SubSeq(out, 1, n)
           post == Behind(out, n)
<1>1. /\ pc = "write" /\ n <= Len(out)
      /\ \/ /\ conn = "up" /\ Len(wire) + n <= SockBuf
            /\ wire' = wire \o pre
         \/ conn = "cliClosed" /\ UNCHANGED wire
      /\ \/ /\ n < Len(out) /\ out' = post
            /\ UNCHANGED <<pc, after, acks, conn>>
         \/ /\ n = Len(out) /\ after # "accept"
            /\ out' = <<>> /\ pc' = after
            /\ UNCHANGED <<after, acks, conn>>
         \/ /\ n = Len(out) /\ after = "accept"
            /\ pc' = "accept" /\ out' = <<>> /\ after' = "accept"
            /\ acks' = 0
            /\ conn' = (IF conn = "up" THEN "srvClosed" ELSE "none")
      /\ UNCHANGED <<region, image, next, color, rd, buf, at, status,
                     first, color0>>
  BY DEF Write, Leave, client, hist, Behind
<1>2. Types /\ Control /\ Stage /\ InFlight
  BY DEF IInv
<1>3. Session' = Session
  BY <1>1, SessionStays
<1>4. /\ out \in Seq(Byte) /\ wire \in Seq(Byte) /\ Len(out) \in Nat
      /\ n \in 0 .. Len(out) /\ n \in Nat \ {0} /\ Len(wire) \in Nat
      /\ SockBuf \in Nat
  BY <1>1, <1>2, SockBufAssumption DEF Types
<1>5. /\ post \in Seq(Byte) /\ Len(post) = Len(out) - n
      /\ pre \in Seq(Byte) /\ Len(pre) = n /\ pre \o post = out
  BY <1>4, Cut
<1> HIDE DEF pre, post
<1>6. /\ n < Len(out) => post # <<>>
      /\ n = Len(out) => post = <<>>
  <2>1. Len(<<>>) = 0
    OBVIOUS
  <2>2. n = Len(out) => Len(post) = 0
    BY <1>4, <1>5
  <2>3. n < Len(out) => Len(post) # 0
    BY <1>4, <1>5
  <2>4. Len(post) = 0 => post = <<>>
    BY <1>5, EmptySeq
  <2> QED
    BY <2>1, <2>2, <2>3, <2>4
<1>7. out' = post
  BY <1>1, <1>6
<1>8. wire' \in Seq(Byte) /\ Len(wire') <= SockBuf
  <2>1. wire \o pre \in Seq(Byte) /\ Len(wire \o pre) = Len(wire) + n
    BY <1>4, <1>5, ConcatProperties
  <2>2. CASE wire' = wire \o pre /\ Len(wire) + n <= SockBuf
    BY <2>1, <2>2
  <2>3. CASE wire' = wire
    BY <1>2, <1>4, <2>3 DEF Types, TypeOK, Understood
  <2> QED
    BY <1>1, <2>2, <2>3
<1>9. Types'
  <2>1. after \in {"accept", "shot", "confirm"}
    BY <1>2 DEF Types, TypeOK, Understood
  <2> QED
    BY <1>1, <1>2, <1>5, <1>7, <1>8, <2>1 DEF Types, TypeOK, Understood
<1>10. status = "on" <=> conn = "up"
  BY <1>1, <1>2 DEF Control, Types, TypeOK
<1>11. Control'
  <2>1. status # "on" => wire' = wire
    BY <1>1, <1>10
  <2>2. after \in {"accept", "shot", "confirm"}
    BY <1>2 DEF Types, TypeOK, Understood
  <2> QED
    BY <1>1, <1>2, <1>6, <1>7, <1>10, <2>1, <2>2 DEF Control, Sending
<1>12. Stage'
  <2>1. CASE pc' = "write" /\ UNCHANGED <<after, acks, conn>>
    BY <1>1, <1>2, <1>3, <2>1 DEF Stage, Refusing, Sending
  <2>2. CASE /\ after # "accept" /\ pc' = after
             /\ UNCHANGED <<after, acks, conn>>
    <3>1. after \in {"shot", "confirm"}
      BY <1>2, <2>2 DEF Types, TypeOK, Understood
    <3> QED
      BY <1>1, <1>2, <1>3, <2>2, <3>1 DEF Stage, Refusing, Sending
  <2>3. CASE pc' = "accept"
    BY <1>11, <2>3 DEF Stage, Control
  <2> QED
    BY <1>1, <2>1, <2>2, <2>3
<1>13. InFlight'
  <2> SUFFICES ASSUME status' = "on"
               PROVE  \E cmds \in Seq(Command), rest \in Seq(Byte) :
                         Carries(cmds, rest)'
    BY DEF InFlight
  <2>1. conn = "up" /\ Pending' = Pending /\ wire' = wire \o pre
    BY <1>1, <1>10 DEF Pending
  <2>2. PICK cmds \in Seq(Command), rest \in Seq(Byte) : Carries(cmds, rest)
    BY <1>2, <1>10, <2>1 DEF InFlight
  <2>3. /\ Pending \o (wire \o out) = EncodeAll(cmds)
        /\ Refusing => Failing(cmds)
        /\ Waiting => Bound(cmds, rd, region, Session)
        /\ ~Refusing /\ ~Waiting => Idle(cmds)
    BY <2>1, <2>2 DEF Carries
  <2>4. (wire \o pre) \o post = wire \o (pre \o post)
    <3>1. wire \in Seq(Byte) /\ pre \in Seq(Byte) /\ post \in Seq(Byte)
      BY <1>4, <1>5
    <3> QED
      BY ONLY <3>1, ConcatAssociative
  <2> PICK b \in Seq(Byte) : b = post
    BY <1>5
  <2>5. Pending' \o (wire' \o b) = EncodeAll(cmds)
    BY <1>5, <2>1, <2>3, <2>4
  <2>6. CASE pc' = "write" /\ UNCHANGED <<after, acks, conn>>
    <3>1. Carries(cmds, b)'
      BY <1>1, <1>3, <1>7, <2>1, <2>3, <2>5, <2>6
         DEF Carries, Refusing, Waiting, Sending
    <3> QED
      BY <3>1
  <2>7. CASE /\ after # "accept" /\ pc' = after
             /\ UNCHANGED <<after, acks, conn>>
    <3>1. after \in {"shot", "confirm"}
      BY <1>2, <2>7 DEF Types, TypeOK, Understood
    <3>2. after = "confirm" => acks = 0
      BY <1>1, <1>2 DEF Stage, Sending
    <3>3. Carries(cmds, b)'
      BY <1>1, <1>3, <1>7, <2>1, <2>3, <2>5, <2>7, <3>1, <3>2
         DEF Carries, Refusing, Waiting, Sending
    <3> QED
      BY <3>3
  <2>8. CASE after = "accept" /\ conn' = "srvClosed"
    <3>1. Carries(cmds, b)'
      BY <1>1, <1>3, <2>1, <2>3, <2>5, <2>8 DEF Carries, Refusing
    <3> QED
      BY <3>1
  <2> QED
    BY <1>1, <2>1, <2>6, <2>7, <2>8
<1> QED
  BY <1>9, <1>11, <1>12, <1>13 DEF IInv

\* The reader leaves, and what was on its way to it is lost.
LEMMA HangUpHolds ==
    ASSUME IInv, status = "on", HangUp,
           status' \in {"off", "error"},
           UNCHANGED <<server, rd, acks, hist>>
    PROVE  IInv'
<1>1. /\ conn' = (IF conn = "up" THEN "cliClosed" ELSE "none")
      /\ wire' = <<>> /\ buf' = <<>> /\ at' = 0
      /\ UNCHANGED <<pc, out, after, region, image, next, color>>
      /\ UNCHANGED <<first, color0>>
  BY DEF HangUp, server, hist
<1>2. Types /\ Control /\ Stage /\ InFlight
  BY DEF IInv
<1>3. conn \in {"up", "srvClosed"}
  BY <1>2 DEF Control
<1>4. Session' = Session
  BY <1>1, SessionStays
<1>5. Types'
  <2>1. <<>> \in Seq(Byte) /\ Len(<<>>) = 0 /\ SockBuf \in Nat
    BY SockBufAssumption
  <2> QED
    BY <1>1, <1>2, <2>1 DEF Types, TypeOK, Understood
<1>6. Control'
  BY <1>1, <1>2, <1>3 DEF Control, Sending
<1>7. Stage'
  BY <1>1, <1>2, <1>3, <1>4 DEF Stage, Refusing, Sending
<1>8. InFlight'
  BY DEF InFlight
<1> QED
  BY <1>5, <1>6, <1>7, <1>8 DEF IInv

LEMMA ClientEndHolds == ASSUME IInv, ClientEnd PROVE IInv'
BY HangUpHolds DEF ClientEnd

LEMMA ClientLeaveHolds == ASSUME IInv, ClientLeave PROVE IInv'
BY HangUpHolds DEF ClientLeave

LEMMA ClientReadHolds ==
    ASSUME IInv, NEW n \in 1 .. SockBuf, ClientRead(n) PROVE IInv'
<1> DEFINE pre  == SubSeq(wire, 1, n)
           post == Behind(wire, n)
<1>1. /\ status = "on" /\ n <= Len(wire) /\ at' = 0
      /\ buf' = Pending \o pre /\ wire' = post
      /\ UNCHANGED <<pc, out, after, region, image, next, color, rd, status,
                     acks, conn, first, color0>>
  BY DEF ClientRead, server, hist, Pending, Behind
<1>2. Types /\ Control /\ Stage /\ InFlight
  BY DEF IInv
<1>3. Session' = Session
  BY <1>1, SessionStays
<1>4. /\ wire \in Seq(Byte) /\ Len(wire) \in Nat /\ n \in 0 .. Len(wire)
      /\ n \in Nat /\ SockBuf \in Nat /\ Len(wire) <= SockBuf
      /\ Pending \in Seq(Byte)
  BY <1>1, <1>2, PendingType, SockBufAssumption DEF Types, TypeOK, Understood
<1>5. /\ post \in Seq(Byte) /\ Len(post) = Len(wire) - n
      /\ pre \in Seq(Byte) /\ pre \o post = wire
  BY <1>4, Cut
<1> HIDE DEF pre, post
<1>6. /\ buf' \in Seq(Byte) /\ Len(buf') \in Nat /\ at' \in 0 .. Len(buf')
      /\ Len(post) <= SockBuf
  <2>1. Pending \o pre \in Seq(Byte)
    BY <1>4, <1>5, ConcatProperties
  <2>2. buf' \in Seq(Byte) /\ Len(buf') \in Nat
    BY <1>1, <2>1, LenProperties
  <2> QED
    BY <1>1, <1>4, <1>5, <2>2
<1>7. Types'
  BY <1>1, <1>2, <1>5, <1>6 DEF Types, TypeOK, Understood
<1>8. Control'
  BY <1>1, <1>2 DEF Control, Sending
<1>9. Stage'
  BY <1>1, <1>2, <1>3 DEF Stage, Refusing, Sending
<1>10. InFlight'
  <2>1. PICK cmds \in Seq(Command), rest \in Seq(Byte) : Carries(cmds, rest)
    BY <1>1, <1>2 DEF InFlight
  <2>2. Pending' = Pending \o pre
    <3>1. Pending' = SubSeq(buf', 1, Len(buf'))
      BY <1>1 DEF Pending
    <3>2. SubSeq(buf', 1, Len(buf')) = buf'
      BY <1>6, SubSeqFull
    <3> QED
      BY <1>1, <3>1, <3>2
  <2>3. (Pending \o pre) \o (post \o rest) = Pending \o (wire \o rest)
    <3> DEFINE p == Pending
    <3>1. /\ p \in Seq(Byte) /\ pre \in Seq(Byte) /\ post \in Seq(Byte)
          /\ rest \in Seq(Byte) /\ post \o rest \in Seq(Byte)
      BY <1>4, <1>5, ConcatProperties
    <3> HIDE DEF p
    <3>2. (p \o pre) \o (post \o rest) = p \o (pre \o (post \o rest))
      <4> DEFINE e == post \o rest
      <4>1. p \in Seq(Byte) /\ pre \in Seq(Byte) /\ e \in Seq(Byte)
        BY <3>1
      <4> HIDE DEF e
      <4>2. (p \o pre) \o e = p \o (pre \o e)
        BY ONLY <4>1, ConcatAssociative
      <4> QED
        BY <4>2 DEF e
    <3>3. (pre \o post) \o rest = pre \o (post \o rest)
      BY ONLY <3>1, ConcatAssociative
    <3> QED
      BY <1>5, <3>2, <3>3 DEF p
  <2>4. Pending' \o (wire' \o rest) = EncodeAll(cmds)
    BY <1>1, <2>1, <2>2, <2>3 DEF Carries
  <2>5. Carries(cmds, rest)'
    BY <1>1, <1>3, <2>1, <2>4 DEF Carries, Refusing, Waiting, Sending
  <2> QED
    BY <2>5 DEF InFlight
<1> QED
  BY <1>7, <1>8, <1>9, <1>10 DEF IInv

\* What a command does to the panel: nothing, or all that its message is to
\* do, when the server waits for that or has left.
Paints ==
    \/ rd'.panel = rd.panel
    \/ /\ conn = "srvClosed" \/ (conn = "up" /\ pc = "confirm")
       /\ conn' = conn
       /\ region = 0 => rd'.panel = first
       /\ region > 0 => Repaints(rd, rd', Session)

LEMMA ClientExecHolds == ASSUME IInv, ClientExec PROVE IInv' /\ Paints
<1>1. /\ status = "on"
      /\ UNCHANGED <<pc, out, after, region, image, next, color,
                     first, color0>>
  BY DEF ClientExec, server, hist
<1>2. Types /\ Control /\ Stage /\ InFlight
  BY DEF IInv
<1>3. Session' = Session
  BY <1>1, SessionStays
<1>4. conn \in {"up", "srvClosed"} /\ rd \in Registers /\ region \in Nat
      /\ acks \in Nat
  BY <1>1, <1>2, SessionTypes DEF Control, Types
<1> PICK cmds \in Seq(Command), rest \in Seq(Byte) : Carries(cmds, rest)
  BY <1>1, <1>2 DEF InFlight
<1> DEFINE c == cmds[1]
           t == Tail(cmds)
           w == wire \o rest
<1>5. w \in Seq(Byte) /\ Pending \o w = EncodeAll(cmds)
  BY <1>2, ConcatProperties DEF Carries, Types
<1>6. /\ cmds # <<>> /\ c \in Command /\ t \in Seq(Command)
      /\ c.cmd = "SHOW_ERROR" =>
            rd' = rd /\ acks' = acks /\ status' = "error" /\ HangUp
      /\ c.cmd # "SHOW_ERROR" =>
            /\ rd' = Apply(rd, c) /\ UNCHANGED <<wire, status, conn>>
            /\ buf' \in Seq(Byte) /\ at' \in 0 .. Len(buf')
            /\ Pending' \o w = EncodeAll(t)
            /\ acks' = IF conn = "up" /\ c.cmd \in Update
                       THEN acks + 1 ELSE acks
  <2> HIDE DEF w
  <2> QED
    BY <1>2, <1>5, ExecStep
<1>7. /\ Idle(cmds) => c \in Checks /\ Idle(t)
      /\ Failing(cmds) => \/ c.cmd = "SHOW_ERROR"
                          \/ c \in Checks /\ Failing(t)
      /\ Bound(cmds, rd, region, Session) =>
            \/ /\ c \in Quiet /\ Bound(t, Apply(rd, c), region, Session)
               /\ region > 0 => Outside(Apply(rd, c), Session)
            \/ /\ c \in Harmless /\ c.cmd \in Update /\ t = <<>>
               /\ Arrived(Apply(rd, c), region, Session)
               /\ region > 0 => Repaints(rd, Apply(rd, c), Session)
  BY <1>4, <1>6, TakesFirst
<1>8. CASE c.cmd = "SHOW_ERROR"
  <2>1. rd' = rd /\ acks' = acks /\ status' = "error" /\ HangUp
    BY <1>6, <1>8
  <2>2. UNCHANGED <<server, rd, acks, hist>>
    BY <1>1, <2>1 DEF server, hist
  <2>3. IInv'
    BY <1>1, <2>1, <2>2, HangUpHolds
  <2> QED
    BY <2>1, <2>3 DEF Paints
<1>9. CASE c.cmd # "SHOW_ERROR"
  <2> HIDE DEF c, t, w
  <2>1. /\ rd' = Apply(rd, c) /\ UNCHANGED <<wire, status, conn>>
        /\ buf' \in Seq(Byte) /\ at' \in 0 .. Len(buf')
        /\ Pending' \o w = EncodeAll(t)
        /\ acks' = IF conn = "up" /\ c.cmd \in Update THEN acks + 1 ELSE acks
    BY <1>6, <1>9
  <2>2. c \in Harmless
    BY <1>6, <1>9 DEF Harmless
  <2>3. Types'
    <3>1. rd' \in Registers
      BY <1>4, <2>1, <2>2, ApplyType
    <3>2. acks' \in Nat
      BY <1>4, <2>1
    <3> QED
      BY <1>1, <1>2, <2>1, <3>1, <3>2 DEF Types, TypeOK, Understood
  <2>4. Control'
    BY <1>1, <1>2, <2>1 DEF Control, Sending
  <2>5. Pending' \o (wire' \o rest) = EncodeAll(t)
    BY <2>1 DEF w
  <2>6. ASSUME c \in Checks PROVE rd' = rd /\ acks' = acks /\ c \in Quiet
    <3>1. c \in Quiet
      BY <2>6, QuietCommands
    <3> QED
      BY <1>4, <2>1, <2>6, <3>1, QuietKeepsPanel DEF Quiet
  <2>7. ASSUME c \in Quiet
        PROVE  acks' = acks /\ rd'.panel = rd.panel /\ Paints
    BY <1>4, <2>1, <2>7, QuietKeepsPanel DEF Quiet, Paints
  <2>8. CASE Idle(cmds) /\ ~(conn = "up" /\ (Waiting \/ Refusing))
    <3>1. c \in Checks /\ Idle(t) /\ rd' = rd /\ acks' = acks /\ Paints
      BY <1>7, <2>6, <2>7, <2>8
    <3>2. Stage'
      BY <1>1, <1>2, <1>3, <2>1, <3>1 DEF Stage, Refusing, Sending
    <3>3. Carries(t, rest)'
      BY <1>1, <2>1, <2>5, <2>8, <3>1
         DEF Carries, Refusing, Waiting, Sending
    <3>4. InFlight'
      BY <1>6, <3>3 DEF InFlight
    <3> QED
      BY <2>3, <2>4, <3>1, <3>2, <3>4 DEF IInv
  <2>9. CASE Failing(cmds) /\ ~(conn = "up" /\ ~Refusing)
    <3>1. c \in Checks /\ Failing(t) /\ rd' = rd /\ acks' = acks /\ Paints
      BY <1>7, <1>9, <2>6, <2>7, <2>9
    <3>2. Stage'
      BY <1>1, <1>2, <1>3, <2>1, <3>1 DEF Stage, Refusing, Sending
    <3>3. Carries(t, rest)'
      BY <1>1, <2>1, <2>5, <2>9, <3>1
         DEF Carries, Refusing, Waiting, Sending
    <3>4. InFlight'
      BY <1>6, <3>3 DEF InFlight
    <3> QED
      BY <2>3, <2>4, <3>1, <3>2, <3>4 DEF IInv
  <2>10. CASE Bound(cmds, rd, region, Session) /\ ~(conn = "up" /\ ~Waiting)
    <3>1. CASE c \in Quiet /\ Bound(t, Apply(rd, c), region, Session)
      <4>1. Bound(t, rd', region', Session') /\ acks' = acks /\ Paints
        BY <1>1, <1>3, <2>1, <2>7, <3>1
      <4>2. Stage'
        <5>1. CASE conn = "up"
          <6>1. Waiting /\ conn' = "up"
            BY <2>1, <2>10, <5>1
          <6> QED
            BY <1>1, <1>2, <1>3, <2>1, <4>1, <5>1, <6>1
               DEF Stage, Refusing, Sending, Waiting
        <5>2. CASE conn = "srvClosed"
          <6>1. conn' = "srvClosed"
            BY <2>1, <5>2
          <6> QED
            BY <1>1, <1>2, <6>1 DEF Stage
        <5> QED
          BY <1>4, <5>1, <5>2
      <4>3. Carries(t, rest)'
        BY <1>1, <1>2, <2>1, <2>5, <2>10, <4>1
           DEF Carries, Refusing, Waiting, Sending
      <4>4. InFlight'
        BY <1>6, <4>3 DEF InFlight
      <4> QED
        BY <2>3, <2>4, <4>1, <4>2, <4>4 DEF IInv
    <3>2. CASE /\ c.cmd \in Update /\ t = <<>>
               /\ Arrived(Apply(rd, c), region, Session)
               /\ region > 0 => Repaints(rd, Apply(rd, c), Session)
      <4>1. Pending' \o (wire' \o rest) = <<>>
        BY <2>5, <3>2, EncodeSteps
      <4>2. rest = <<>>
        <5> DEFINE p == Pending'
                   v == wire'
        <5>1. p \in Seq(Byte) /\ v \in Seq(Byte) /\ v \o rest \in Seq(Byte)
          <6>1. v \in Seq(Byte)
            BY <1>2, <2>1 DEF Types
          <6>2. p \in Seq(Byte)
            <7>1. p = Behind(buf', at')
              BY DEF Pending, Behind
            <7> QED
              BY <2>1, <7>1, Cut
          <6> QED
            BY <6>1, <6>2, ConcatProperties
        <5>2. p \o (v \o rest) = <<>>
          BY <4>1
        <5> HIDE DEF p, v
        <5>3. v \o rest = <<>>
          BY <5>1, <5>2, ConcatSimplifications
        <5> QED
          BY <5>1, <5>3, ConcatSimplifications
      <4>3. conn = "up" => pc = "confirm" /\ acks = 0 /\ acks' = 1
        <5> SUFFICES ASSUME conn = "up"
                     PROVE  pc = "confirm" /\ acks = 0 /\ acks' = 1
          OBVIOUS
        <5>1. rest = out
          BY DEF Carries
        <5>2. pc # "write"
          BY <1>2, <4>2, <5>1 DEF Control
        <5>3. pc = "confirm" /\ acks = 0
          BY <2>10, <5>2 DEF Waiting, Sending
        <5> QED
          BY <2>1, <3>2, <5>3
      <4>4. Arrived(rd', region', Session') /\ Idle(t)
        <5>1. <<>> \in Seq(Checks)
          OBVIOUS
        <5> QED
          BY <1>1, <1>3, <2>1, <3>2, <5>1 DEF Idle
      <4>5. Stage'
        BY <1>1, <1>4, <2>1, <4>3, <4>4 DEF Stage, Refusing, Sending
      <4>6. Carries(t, rest)'
        BY <1>1, <2>1, <2>5, <4>3, <4>4
           DEF Carries, Refusing, Waiting, Sending
      <4>7. InFlight'
        BY <1>6, <4>6 DEF InFlight
      <4>8. Paints
        <5>1. region = 0 => rd'.panel = first
          BY <1>2, <2>1, <3>2, SessionTypes DEF Arrived, FirstShown
        <5> QED
          BY <1>4, <2>1, <3>2, <4>3, <5>1 DEF Paints
      <4> QED
        BY <2>3, <2>4, <4>5, <4>7, <4>8 DEF IInv
    <3> QED
      BY <1>7, <2>10, <3>1, <3>2
  <2> QED
    BY <1>4, <2>8, <2>9, <2>10 DEF Carries, Waiting, Refusing, Sending
<1> QED
  BY <1>8, <1>9

LEMMA StutterHolds == ASSUME IInv, UNCHANGED vars PROVE IInv'
<1>1. /\ UNCHANGED <<pc, out, after, region, image, next, color>>
      /\ UNCHANGED <<rd, buf, at, status, wire, acks, conn, first, color0>>
  BY DEF vars, server, client, net, hist
<1>2. Session' = Session
  BY <1>1, SessionStays
<1>3. Types' /\ Control' /\ Stage'
  BY <1>1, <1>2 DEF IInv, Types, TypeOK, Understood, Control, Stage, Refusing,
                    Sending
<1>4. Pending' = Pending
  BY <1>1 DEF Pending
<1>5. InFlight'
  BY <1>1, <1>2, <1>4
     DEF IInv, InFlight, Carries, Refusing, Waiting, Sending
<1> QED
  BY <1>3, <1>5 DEF IInv

\* Every step of the session preserves the invariant.
LEMMA StepHolds == IInv /\ [Next]_vars => IInv'
<1> SUFFICES ASSUME IInv, [Next]_vars PROVE IInv'
  OBVIOUS
<1>1. CASE Connect
  BY <1>1, ConnectHolds
<1>2. CASE SendFirst
  BY <1>2, SendFirstHolds
<1>3. CASE CheckConnection
  BY <1>3, CheckConnectionHolds
<1>4. CASE Shot
  BY <1>4, ShotHolds
<1>5. CASE SendRegion
  BY <1>5, SendRegionHolds
<1>6. CASE EndFrame
  BY <1>6, EndFrameHolds
<1>7. CASE ShotFails
  BY <1>7, ShotFailsHolds
<1>8. CASE ServerWrite
  BY <1>8, WriteHolds DEF ServerWrite
<1>9. CASE RecvConfirm
  BY <1>9, RecvConfirmHolds
<1>10. CASE TransferFails
  BY <1>10, TransferFailsHolds
<1>11. CASE Kick
  BY <1>11, KickHolds
<1>12. CASE ClientReads
  BY <1>12, ClientReadHolds DEF ClientReads
<1>13. CASE ClientExec
  BY <1>13, ClientExecHolds
<1>14. CASE ClientEnd
  BY <1>14, ClientEndHolds
<1>15. CASE ClientLeave
  BY <1>15, ClientLeaveHolds
<1>16. CASE UNCHANGED vars
  BY <1>16, StutterHolds
<1> QED
  BY <1>1, <1>2, <1>3, <1>4, <1>5, <1>6, <1>7, <1>8, <1>9, <1>10, <1>11,
     <1>12, <1>13, <1>14, <1>15, <1>16 DEF Next, Server, Client

THEOREM Invariance == Spec => []IInv
<1>1. Init => IInv
  BY InitHolds
<1>2. IInv /\ [Next]_vars => IInv'
  BY StepHolds
<1> QED
  BY <1>1, <1>2, PTL DEF Spec

-----------------------------------------------------------------------------
(* What the invariant gives.                                               *)

\* Every variable keeps its type, and the bytes on the way fit the buffer of
\* the connection.
THEOREM TypeCorrect == Spec => []TypeOK
<1>1. IInv => TypeOK
  BY DEF IInv, Types
<1> QED
  BY <1>1, Invariance, PTL

\* However the streams are cut into reads and whatever confirmations have
\* written over the receive buffer, client_exec never takes a byte in the
\* middle of a command for the first one of another.
THEOREM AlwaysUnderstood == Spec => []Understood
<1>1. IInv => Understood
  BY DEF IInv, Types
<1> QED
  BY <1>1, Invariance, PTL

\* When the server is between two frames, the panel shows where the regions
\* reach the frame that image_data holds, save for the one colour a session
\* may confuse.
THEOREM FramesArrive == Spec => []Picture
<1>1. IInv => Picture
  <2> SUFFICES ASSUME IInv, pc = "frame", NEW q \in Covered
               PROVE  /\ rd.panel[q] = rd.fb[q]
                      /\ \/ rd.fb[q] = image[q]
                         \/ image[q] = color0 /\ rd.fb[q] = Corner
    BY DEF Picture
  <2>1. Types /\ Control /\ Stage
    BY DEF IInv
  <2>2. conn \in {"up", "cliClosed"}
    BY <2>1 DEF Control, Types, TypeOK
  <2>3. Shown(rd, Session.image, q, Session)
    BY <2>1, <2>2 DEF Stage, Whole
  <2> QED
    BY <2>1, <2>3, SessionTypes DEF Shown, StandsFor, LastPixel, Corner
<1> QED
  BY <1>1, Invariance, PTL

\* From the first confirmation on, no message draws or refreshes a pixel that
\* the division into regions leaves out.
THEOREM OutsideUntouched == Spec => []Untouched
<1>1. IInv => Untouched
  <2> SUFFICES ASSUME IInv, conn = "up",
                      pc \in {"frame", "shot", "region"} \/ region > 0
               PROVE  Outside(rd, Session)
    BY SessionTypes DEF Untouched, Outside, IInv
  <2>1. Types /\ Control /\ Stage /\ InFlight
    BY DEF IInv
  <2>2. CASE pc \in {"frame", "shot", "region"}
    BY <2>1, <2>2 DEF Stage, Whole, Between
  <2>3. CASE pc \notin {"frame", "shot", "region"}
    <3>1. region > 0 /\ (pc = "write" \/ pc = "confirm")
      BY <2>1, <2>3 DEF Control, Types, TypeOK
    <3>2. CASE Waiting
      <4>1. PICK cmds \in Seq(Command), rest \in Seq(Byte) : Carries(cmds, rest)
        BY <2>1 DEF Control, InFlight
      <4> QED
        BY <3>1, <3>2, <4>1 DEF Carries, Bound, Lands
    <3>3. CASE pc = "confirm" /\ ~Waiting
      <4>1. Arrived(rd, region, Session)
        BY <2>1, <3>3 DEF Waiting, Stage
      <4> QED
        BY <3>1, <4>1 DEF Arrived, Between
    <3>4. CASE pc = "write" /\ ~Waiting
      <4>1. after \in {"accept", "shot"}
        BY <2>1, <3>4 DEF Waiting, Sending, Types, TypeOK
      <4>2. Refusing \/ (pc = "write" /\ after = "shot")
        BY <3>4, <4>1 DEF Refusing
      <4> QED
        BY <2>1, <3>1, <4>2 DEF Stage, Whole
    <3> QED
      BY <3>1, <3>2, <3>3, <3>4
  <2> QED
    BY <2>2, <2>3
<1> QED
  BY <1>1, Invariance, PTL

\* A confirmation answers the last message: while the server waits, exactly
\* one refresh or its confirmation is under way, and otherwise none.
THEOREM ConfirmsAnswer == Spec => []OneConfirm
<1>1. IInv => OneConfirm
  <2> DEFINE a == Refreshes(Pending)
             b == Refreshes(wire)
             o == Refreshes(out)
  <2> SUFFICES ASSUME IInv, conn = "up"
               PROVE  acks + b + a = (IF pc = "confirm" THEN 1 ELSE 0)
                                     + (IF Sending THEN 1 - o ELSE 0)
    BY DEF OneConfirm, Outstanding, Sending
  <2>1. Types /\ Control /\ Stage /\ InFlight
    BY DEF IInv
  <2>2. PICK cmds \in Seq(Command), rest \in Seq(Byte) : Carries(cmds, rest)
    BY <2>1 DEF Control, InFlight
  <2>3. a \in Nat /\ b \in Nat /\ o \in Nat /\ acks \in Nat
    <3>1. ArgByte \in Byte
      BY DEF Byte
    <3>2. Pending \in Seq(Byte) /\ wire \in Seq(Byte) /\ out \in Seq(Byte)
      BY <2>1, PendingType DEF Types
    <3> QED
      BY <2>1, <3>1, <3>2, RefreshesAppend DEF Types
  <2>4. a + (b + o) = Refreshes(EncodeAll(cmds))
    <3>1. Pending \in Seq(Byte) /\ wire \in Seq(Byte) /\ out \in Seq(Byte)
          /\ wire \o out \in Seq(Byte)
      BY <2>1, PendingType, ConcatProperties DEF Types
    <3>2. Refreshes(Pending \o (wire \o out)) = a + Refreshes(wire \o out)
          /\ Refreshes(wire \o out) = b + o
      BY <3>1, RefreshesConcat
    <3>3. Pending \o (wire \o out) = EncodeAll(cmds)
      BY <2>2 DEF Carries
    <3> QED
      BY <3>2, <3>3
  <2>5. o = 0 \/ pc = "write"
    <3>1. Refreshes(<<>>) = 0
      <4>1. ArgByte \in Byte
        BY DEF Byte
      <4> QED
        BY <4>1, RefreshesAppend
    <3> QED
      BY <2>1, <3>1 DEF Control
  <2>6. /\ ~Waiting => a + (b + o) = 0
        /\ Waiting => a + (b + o) = 1
    BY <2>2, <2>4, UnderWay DEF Carries, Bound, Waiting, Refusing, Sending
  <2>7. /\ pc = "confirm" /\ ~Waiting => acks = 1
        /\ pc # "confirm" \/ Waiting => acks = 0
    <3>1. pc # "accept"
      BY <2>1 DEF Control
    <3> QED
      BY <2>1, <3>1 DEF Stage, Waiting, Sending, Refusing, Types, TypeOK
  <2> HIDE DEF a, b, o
  <2>8. CASE pc = "confirm"
    BY <2>3, <2>5, <2>6, <2>7, <2>8 DEF Sending
  <2>9. CASE Sending
    BY <2>3, <2>6, <2>7, <2>9 DEF Sending, Waiting
  <2>10. CASE pc # "confirm" /\ ~Sending
    BY <2>3, <2>6, <2>7, <2>10 DEF Waiting
  <2> QED
    BY <2>8, <2>9, <2>10
<1> QED
  BY <1>1, Invariance, PTL

-----------------------------------------------------------------------------
(* FrameSync implements ReaderMirror: every step is one of the mirror's, or *)
(* changes nothing that it shows.                                           *)

\* The phase of the mirror at each place of server_handle_client.
Showing  == pc \in {"frame", "shot"} \/ (pc = "write" /\ after = "shot")
Places ==
    /\ conn # "up" \/ Refusing => Phase = "apart"
    /\ conn = "up" /\ pc = "first" => Phase = "meeting"
    /\ conn = "up" /\ region = 0 /\ (pc = "confirm" \/ Sending)
          => Phase = "first"
    /\ conn = "up" /\ Showing => Phase = "showing"
    /\ conn = "up" /\ (pc = "region" \/ (region > 0 /\ (pc = "confirm" \/ Sending)))
          => Phase = "changing"

LEMMA PhaseAt == ASSUME Control PROVE Places
<1> USE DEF Phase, Refusing, Sending, Showing
<1>1. conn # "up" \/ Refusing => Phase = "apart"
  OBVIOUS
<1>2. conn = "up" /\ pc = "first" => Phase = "meeting"
  OBVIOUS
<1>3. conn = "up" /\ region = 0 /\ (pc = "confirm" \/ Sending)
         => Phase = "first"
  OBVIOUS
<1>4. conn = "up" /\ Showing => Phase = "showing"
  OBVIOUS
<1>5. conn = "up" /\ (pc = "region" \/ (region > 0 /\ (pc = "confirm" \/ Sending)))
         => Phase = "changing"
  BY DEF Control
<1> QED
  BY <1>1, <1>2, <1>3, <1>4, <1>5 DEF Places

LEMMA PhaseAfter == ASSUME Control' PROVE Places'
<1> USE DEF Phase, Refusing, Sending, Showing
<1>1. (conn # "up" \/ Refusing => Phase = "apart")'
  OBVIOUS
<1>2. (conn = "up" /\ pc = "first" => Phase = "meeting")'
  OBVIOUS
<1>3. (conn = "up" /\ region = 0 /\ (pc = "confirm" \/ Sending)
         => Phase = "first")'
  OBVIOUS
<1>4. (conn = "up" /\ Showing => Phase = "showing")'
  OBVIOUS
<1>5. (conn = "up" /\ (pc = "region" \/ (region > 0 /\ (pc = "confirm" \/ Sending)))
         => Phase = "changing")'
  BY DEF Control
<1> QED
  BY <1>1, <1>2, <1>3, <1>4, <1>5 DEF Places

\* The panel and the frames have the mirror's types.
LEMMA MirrorTypes ==
    ASSUME Types
    PROVE  /\ rd.panel \in [Pixel -> Colors] /\ color0 \in Colors
           /\ first \in Frames /\ image \in Frames /\ next \in Frames
BY DEF Types, TypeOK, Registers, Image

\* A step on which the mirror stays as it is.
Unseen == UNCHANGED <<Phase, rd, first, image, next, color0>>

LEMMA UnseenStutters == ASSUME Unseen PROVE [Mirror!Next]_(Mirror!vars)
BY DEF Unseen, Mirror!vars

LEMMA InitMirrors == Init => Mirror!Init
<1> SUFFICES ASSUME Init PROVE Mirror!Init
  OBVIOUS
<1>1. IInv
  BY InitHolds
<1>2. Phase = "apart"
  BY <1>1, PhaseAt DEF IInv, Init, Places
<1> QED
  BY <1>1, <1>2, MirrorTypes DEF IInv, Mirror!Init

LEMMA ConnectMirrors ==
    ASSUME IInv, IInv', Connect PROVE [Mirror!Next]_(Mirror!vars)
<1>1. Phase = "apart" /\ Phase' = "meeting"
  BY PhaseAt, PhaseAfter DEF IInv, Connect, Places
<1>2. (rd.panel \in [Pixel -> Colors] /\ color0 \in Colors)'
  BY MirrorTypes DEF IInv, Types, TypeOK, Registers, Image
<1>3. UNCHANGED <<first, image, next>>
  BY DEF Connect
<1> QED
  BY <1>1, <1>2, <1>3 DEF Mirror!Next, Mirror!Meet

LEMMA SendFirstMirrors ==
    ASSUME IInv, IInv', SendFirst PROVE [Mirror!Next]_(Mirror!vars)
<1>1. /\ pc = "first" /\ pc' = "write" /\ after' = "confirm"
      /\ UNCHANGED <<region, next, rd, conn, color0>>
      /\ first' = image' /\ image' \in Frames
  BY DEF SendFirst, StartWrite, client, net
<1>2. region = 0 /\ next \in Frames
  BY <1>1, MirrorTypes DEF IInv, Control
<1>3. CASE conn = "up"
  <2>1. Phase = "meeting" /\ Phase' = "first"
    BY <1>1, <1>2, <1>3, PhaseAt, PhaseAfter DEF IInv, Places, Sending
  <2> QED
    BY <1>1, <2>1 DEF Mirror!Next, Mirror!CaptureFirst
<1>4. CASE conn # "up"
  <2>1. Phase = "apart" /\ Phase' = "apart"
    BY <1>1, <1>4, PhaseAt, PhaseAfter DEF IInv, Places
  <2> QED
    BY <1>1, <1>2, <2>1 DEF Mirror!Next, Mirror!CaptureAlone
<1> QED
  BY <1>3, <1>4

LEMMA CheckConnectionMirrors ==
    ASSUME IInv, IInv', CheckConnection PROVE [Mirror!Next]_(Mirror!vars)
<1>1. /\ pc = "frame" /\ pc' = "write" /\ after' = "shot"
      /\ UNCHANGED <<rd, conn, first, image, next, color0>>
  BY DEF CheckConnection, StartWrite, client, net, hist
<1>2. Phase' = Phase
  BY <1>1, PhaseAt, PhaseAfter DEF IInv, Places, Showing
<1> QED
  BY <1>1, <1>2, UnseenStutters DEF Unseen

LEMMA ShotMirrors ==
    ASSUME IInv, IInv', Shot PROVE [Mirror!Next]_(Mirror!vars)
<1>1. /\ pc = "shot" /\ pc' = "region" /\ next' \in Frames
      /\ UNCHANGED <<rd, conn, first, image, color0>>
      /\ first \in Frames /\ image \in Frames
  BY MirrorTypes DEF Shot, client, net, hist, IInv
<1>2. CASE conn = "up"
  <2>1. Phase = "showing" /\ Phase' = "changing"
    BY <1>1, <1>2, PhaseAt, PhaseAfter DEF IInv, Places, Showing
  <2> QED
    BY <1>1, <2>1 DEF Mirror!Next, Mirror!Capture
<1>3. CASE conn # "up"
  <2>1. Phase = "apart" /\ Phase' = "apart"
    BY <1>1, <1>3, PhaseAt, PhaseAfter DEF IInv, Places
  <2> QED
    BY <1>1, <2>1 DEF Mirror!Next, Mirror!CaptureAlone
<1> QED
  BY <1>2, <1>3

LEMMA SendRegionMirrors ==
    ASSUME IInv, IInv', SendRegion PROVE [Mirror!Next]_(Mirror!vars)
<1>1. /\ pc = "region" /\ (pc' = "region" \/ (pc' = "write" /\ after' = "confirm"))
      /\ UNCHANGED <<rd, conn, first, image, next, color0>>
  BY DEF SendRegion, StartWrite, client, net, hist
<1>2. region > 0 /\ region' > 0
  <2>1. region \in Nat /\ region > 0 /\ (region' = region \/ region' = region + 1)
    BY <1>1, SessionTypes DEF IInv, Control, SendRegion
  <2> QED
    BY <2>1
<1>3. Phase' = Phase
  BY <1>1, <1>2, PhaseAt, PhaseAfter DEF IInv, Places, Sending
<1> QED
  BY <1>1, <1>3, UnseenStutters DEF Unseen

LEMMA EndFrameMirrors ==
    ASSUME IInv, IInv', EndFrame PROVE [Mirror!Next]_(Mirror!vars)
<1>1. /\ pc = "region" /\ region \notin DOMAIN Regions /\ pc' = "frame"
      /\ image' = next /\ UNCHANGED <<rd, conn, first, next, color0>>
      /\ first \in Frames /\ next \in Frames
  BY MirrorTypes DEF EndFrame, client, net, hist, IInv
<1>2. Types /\ Control /\ Stage
  BY DEF IInv
<1>3. CASE conn = "up"
  <2>1. Phase = "changing" /\ Phase' = "showing"
    BY <1>1, <1>3, PhaseAt, PhaseAfter DEF IInv, Places, Showing
  <2>2. Between(rd, region, Session)
    BY <1>1, <1>2, <1>3 DEF Stage
  <2>3. ASSUME NEW q \in Covered PROVE Shown(rd, next, q, Session)
    <3>1. PICK j \in 1 .. Len(Regions) : q \in Cells(Regions[j])
      BY RegionTypes
    <3>2. region = Len(Regions) + 1 /\ Len(Regions) \in Nat
      BY <1>1, <1>2, RegionTypes DEF Types, TypeOK, Control
    <3>3. j \in 1 .. region - 1
      BY <3>2
    <3> QED
      BY <1>2, <2>2, <3>1, <3>3, SessionTypes DEF Between
  <2>4. Mirror!Mirrors(next)
    <3> SUFFICES ASSUME NEW q \in Pixel
                 PROVE  IF q \in Covered
                        THEN \/ rd.panel[q] = next[q]
                             \/ next[q] = color0 /\ rd.panel[q] = first[LastPixel]
                        ELSE rd.panel[q] = first[q]
      BY DEF Mirror!Mirrors, Mirror!StandsFor, LastPixel
    <3>1. CASE q \in Covered
      BY <1>2, <2>3, <3>1, SessionTypes DEF Shown, StandsFor
    <3>2. CASE q \notin Covered
      BY <1>2, <2>2, <3>2, SessionTypes DEF Between, Outside
    <3> QED
      BY <3>1, <3>2
  <2> QED
    BY <1>1, <2>1, <2>4 DEF Mirror!Next, Mirror!Done
<1>4. CASE conn # "up"
  <2>1. Phase = "apart" /\ Phase' = "apart"
    BY <1>1, <1>4, PhaseAt, PhaseAfter DEF IInv, Places
  <2> QED
    BY <1>1, <2>1 DEF Mirror!Next, Mirror!CaptureAlone
<1> QED
  BY <1>3, <1>4

\* A session that ends, or is refused, on either side.
LEMMA PartMirrors ==
    ASSUME Phase' = "apart", UNCHANGED <<rd, first, image, next, color0>>
    PROVE  [Mirror!Next]_(Mirror!vars)
<1>1. CASE Phase = "apart"
  BY <1>1, UnseenStutters DEF Unseen
<1>2. CASE Phase # "apart"
  BY <1>2 DEF Mirror!Next, Mirror!Part
<1> QED
  BY <1>1, <1>2

LEMMA ShotFailsMirrors ==
    ASSUME IInv, IInv', ShotFails PROVE [Mirror!Next]_(Mirror!vars)
<1>1. /\ pc' = "write" /\ after' = "accept"
      /\ UNCHANGED <<rd, first, image, next, color0>>
  BY DEF ShotFails, StartWrite, client, net, hist
<1>2. Phase' = "apart"
  BY <1>1, PhaseAfter DEF IInv, Places, Refusing
<1> QED
  BY <1>1, <1>2, PartMirrors

LEMMA LeaveMirrors ==
    ASSUME IInv', Leave, UNCHANGED <<image, next, client, hist>>
    PROVE  [Mirror!Next]_(Mirror!vars)
<1>1. conn' # "up" /\ UNCHANGED <<rd, first, image, next, color0>>
  BY DEF Leave, client, hist
<1>2. Phase' = "apart"
  BY <1>1, PhaseAfter DEF IInv, Places
<1> QED
  BY <1>1, <1>2, PartMirrors

LEMMA WriteMirrors ==
    ASSUME IInv, IInv', NEW n \in 1 .. SockBuf, Write(n)
    PROVE  [Mirror!Next]_(Mirror!vars)
<1>1. /\ pc = "write"
      /\ UNCHANGED <<region, image, next, color, client, hist>>
      /\ UNCHANGED <<rd, first, color0>>
  BY DEF Write, client, hist
<1>2. CASE UNCHANGED <<pc, after, acks, conn>>
  <2>1. Phase' = Phase
    BY <1>1, <1>2 DEF Phase
  <2> QED
    BY <1>1, <2>1, UnseenStutters DEF Unseen
<1>3. CASE after # "accept" /\ pc' = after /\ UNCHANGED <<after, acks, conn>>
  <2>1. after \in {"shot", "confirm"}
    BY <1>3 DEF IInv, Types, TypeOK
  <2>2. region \in Nat
    BY SessionTypes DEF IInv
  <2>3. Phase' = Phase
    BY <1>1, <1>3, <2>1, <2>2, PhaseAt, PhaseAfter
       DEF IInv, Places, Sending, Showing
  <2> QED
    BY <1>1, <2>3, UnseenStutters DEF Unseen
<1>4. CASE Leave
  BY <1>1, <1>4, LeaveMirrors
<1> QED
  BY <1>2, <1>3, <1>4 DEF Write

LEMMA RecvConfirmMirrors ==
    ASSUME IInv, IInv', RecvConfirm PROVE [Mirror!Next]_(Mirror!vars)
<1>1. /\ pc = "confirm" /\ acks > 0
      /\ UNCHANGED <<rd, conn, first, image, next, color0>>
      /\ \/ region = 0 /\ pc' = "frame"
         \/ region > 0 /\ pc' = "region" /\ region' = region + 1
  BY DEF RecvConfirm, client, hist
<1>2. Types /\ Control /\ Stage
  BY DEF IInv
<1>3. CASE conn # "up"
  <2>1. Phase' = Phase
    BY <1>1, <1>3, PhaseAt, PhaseAfter DEF IInv, Places
  <2> QED
    BY <1>1, <2>1, UnseenStutters DEF Unseen
<1>4. CASE conn = "up" /\ region > 0 /\ pc' = "region"
  <2>1. Phase' = Phase
    BY <1>1, <1>4, PhaseAt, PhaseAfter DEF IInv, Places
  <2> QED
    BY <1>1, <2>1, UnseenStutters DEF Unseen
<1>5. CASE conn = "up" /\ region = 0 /\ pc' = "frame"
  <2>1. Phase = "first" /\ Phase' = "showing"
    BY <1>1, <1>5, PhaseAt, PhaseAfter DEF IInv, Places, Showing
  <2>2. FirstShown(rd, Session)
    BY <1>1, <1>2, <1>5 DEF Stage, Arrived
  <2>3. rd.panel = first /\ image = first
    BY <1>2, <2>2, SessionTypes DEF FirstShown
  <2>4. Mirror!Mirrors(image)
    BY <2>3 DEF Mirror!Mirrors, Mirror!StandsFor
  <2> QED
    BY <1>1, <2>1, <2>4 DEF Mirror!Next, Mirror!Begin
<1> QED
  BY <1>1, <1>3, <1>4, <1>5

LEMMA ClientReadMirrors ==
    ASSUME IInv, IInv', NEW n \in 1 .. SockBuf, ClientRead(n)
    PROVE  [Mirror!Next]_(Mirror!vars)
<1>1. UNCHANGED <<pc, after, region, image, next, rd, conn, first, color0>>
  BY DEF ClientRead, server, hist
<1>2. Phase' = Phase
  BY <1>1 DEF Phase
<1> QED
  BY <1>1, <1>2, UnseenStutters DEF Unseen

LEMMA ClientExecMirrors ==
    ASSUME IInv, IInv', ClientExec PROVE [Mirror!Next]_(Mirror!vars)
<1>1. Paints
  BY ClientExecHolds
<1>2. /\ UNCHANGED <<pc, after, region, image, next, first, color0>>
      /\ conn' = conn \/ conn' # "up"
  BY DEF ClientExec, HangUp, server, hist
<1>3. Types /\ Control /\ rd'.panel \in [Pixel -> Colors]
  BY DEF IInv, Types, TypeOK, Registers, Image
<1>4. conn' = conn => Phase' = Phase
  BY <1>2 DEF Phase
<1>5. CASE rd'.panel = rd.panel
  <2>1. CASE conn' = conn
    BY <1>2, <1>4, <1>5, <2>1 DEF Mirror!vars
  <2>2. CASE conn' # "up"
    <3>1. Phase' = "apart"
      BY <2>2, PhaseAfter DEF IInv, Places
    <3>2. CASE Phase = "apart"
      BY <1>2, <1>5, <3>1, <3>2 DEF Mirror!vars
    <3>3. CASE Phase # "apart"
      BY <1>2, <1>5, <3>1, <3>3 DEF Mirror!Next, Mirror!Part
    <3> QED
      BY <3>2, <3>3
  <2> QED
    BY <1>2, <2>1, <2>2
<1>6. CASE /\ conn = "srvClosed" \/ (conn = "up" /\ pc = "confirm")
           /\ conn' = conn
           /\ region = 0 => rd'.panel = first
           /\ region > 0 => Repaints(rd, rd', Session)
  <2>1. Phase' = Phase
    BY <1>4, <1>6
  <2>2. CASE region = 0
    <3>1. Phase \in {"first", "apart"} /\ rd'.panel = first
      BY <1>3, <1>6, <2>2, PhaseAt DEF Places
    <3> QED
      BY <1>2, <2>1, <3>1 DEF Mirror!Next, Mirror!ShowFirst
  <2>3. CASE region > 0
    <3>1. Phase \in {"changing", "apart"}
      BY <1>3, <1>6, <2>3, PhaseAt DEF Places
    <3>2. ASSUME NEW q \in Pixel, rd'.panel[q] # rd.panel[q]
          PROVE  /\ q \in Covered
                 /\ \/ rd'.panel[q] = next[q]
                    \/ next[q] = color0 /\ rd'.panel[q] = first[LastPixel]
      BY <1>3, <1>6, <2>3, <3>2, SessionTypes DEF Repaints, StandsFor
    <3>3. Mirror!Repaint
      BY <1>2, <1>3, <2>1, <3>2 DEF Mirror!Repaint, Mirror!StandsFor, LastPixel
    <3> QED
      BY <3>1, <3>3 DEF Mirror!Next
  <2>4. region = 0 \/ region > 0
    BY <1>3, SessionTypes
  <2> QED
    BY <2>2, <2>3, <2>4
<1> QED
  BY <1>1, <1>5, <1>6 DEF Paints

LEMMA HangUpMirrors ==
    ASSUME IInv', HangUp, UNCHANGED <<server, rd, hist>>
    PROVE  [Mirror!Next]_(Mirror!vars)
<1>1. conn' # "up" /\ UNCHANGED <<rd, first, image, next, color0>>
  BY DEF HangUp, server, hist
<1>2. Phase' = "apart"
  BY <1>1, PhaseAfter DEF IInv, Places
<1> QED
  BY <1>1, <1>2, PartMirrors

LEMMA StepMirrors ==
    ASSUME IInv, IInv', [Next]_vars PROVE [Mirror!Next]_(Mirror!vars)
<1>1. CASE Connect
  BY <1>1, ConnectMirrors
<1>2. CASE SendFirst
  BY <1>2, SendFirstMirrors
<1>3. CASE CheckConnection
  BY <1>3, CheckConnectionMirrors
<1>4. CASE Shot
  BY <1>4, ShotMirrors
<1>5. CASE SendRegion
  BY <1>5, SendRegionMirrors
<1>6. CASE EndFrame
  BY <1>6, EndFrameMirrors
<1>7. CASE ShotFails
  BY <1>7, ShotFailsMirrors
<1>8. CASE ServerWrite
  BY <1>8, WriteMirrors DEF ServerWrite
<1>9. CASE RecvConfirm
  BY <1>9, RecvConfirmMirrors
<1>10. CASE TransferFails
  BY <1>10, LeaveMirrors DEF TransferFails
<1>11. CASE Kick
  BY <1>11, LeaveMirrors DEF Kick
<1>12. CASE ClientReads
  BY <1>12, ClientReadMirrors DEF ClientReads
<1>13. CASE ClientExec
  BY <1>13, ClientExecMirrors
<1>14. CASE ClientEnd
  BY <1>14, HangUpMirrors DEF ClientEnd
<1>15. CASE ClientLeave
  BY <1>15, HangUpMirrors DEF ClientLeave
<1>16. CASE UNCHANGED vars
  <2>1. UNCHANGED <<pc, after, region, conn, rd, first, image, next, color0>>
    BY <1>16 DEF vars, server, client, net, hist
  <2>2. Phase' = Phase
    BY <2>1 DEF Phase
  <2> QED
    BY <2>1, <2>2, UnseenStutters DEF Unseen
<1> QED
  BY <1>1, <1>2, <1>3, <1>4, <1>5, <1>6, <1>7, <1>8, <1>9, <1>10, <1>11,
     <1>12, <1>13, <1>14, <1>15, <1>16 DEF Next, Server, Client

\* What someone who looks at the reader sees is a run of ReaderMirror: the
\* panel changes from each frame to the next one captured, and no frame is
\* captured before the panel shows the last.
THEOREM Mirrored == Spec => FollowsTheScreen
<1>1. Init => Mirror!Init
  BY InitMirrors
<1>2. IInv /\ IInv' /\ [Next]_vars => [Mirror!Next]_(Mirror!vars)
  BY StepMirrors
<1> QED
  BY <1>1, <1>2, Invariance, PTL DEF Spec, FollowsTheScreen, Mirror!Spec
==============================================================================
