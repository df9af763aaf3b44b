------------------------- MODULE DaemonConfigProofs -------------------------
(***************************************************************************)
(* For any passwords and any configuration files.  Whom a daemon admits,   *)
(* whatever passwd commands write or leave unwritten: the comparison is    *)
(* equality of strings of bytes, although it ends where two bytes have no  *)
(* bit in common.  That a daemon that comes up runs with the settings its  *)
(* file wrote, and no others.  And that it grabs, and answers, the keys    *)
(* that the file asked for: the loop over the submasks of the extra        *)
(* modifiers meets every one.                                              *)
(***************************************************************************)
EXTENDS DaemonConfig, WellFoundedInduction, SequenceTheorems, TLAPS

\* Zero has no bit set, and any other byte has one.
LEMMA BitsOfZero == Ones(0) = {}
<1>1. ASSUME NEW k \in 1 .. 8 PROVE (0 \div Weights[k]) % 2 = 0
  BY DEF Weights
<1> QED
  BY <1>1 DEF Ones

LEMMA BitsOfByte == \A b \in 1 .. 255 : Ones(b) # {}
<1> SUFFICES ASSUME NEW b \in 1 .. 255, Ones(b) = {} PROVE FALSE
  OBVIOUS
<1>1. \A k \in 1 .. 8 : (b \div Weights[k]) % 2 # 1
  BY DEF Ones
<1>2. /\ b % 2 # 1 /\ (b \div 2) % 2 # 1
      /\ (b \div 4) % 2 # 1 /\ (b \div 8) % 2 # 1
      /\ (b \div 16) % 2 # 1 /\ (b \div 32) % 2 # 1
      /\ (b \div 64) % 2 # 1 /\ (b \div 128) % 2 # 1
  BY <1>1 DEF Weights
<1> QED
  BY <1>2, SMTT(60)

LEMMA BitsOfText ==
    ASSUME NEW s \in Seq(1 .. 255), NEW i \in DOMAIN s
    PROVE  At(s, i) = s[i] /\ Ones(At(s, i)) # {}
<1>1. i \in 1 .. Len(s)
  OBVIOUS
<1>2. s[i] \in 1 .. 255
  BY <1>1, ElementOfSeq, Zenon
<1> QED
  BY <1>2, BitsOfByte DEF At

\* The comparison of server/security.c is equality.
LEMMA StableIsEqual ==
    ASSUME NEW a \in Seq(1 .. 255), NEW b \in Seq(1 .. 255)
    PROVE  are_strings_equal_stable(a, b) <=> a = b
<1> DEFINE n == Len(a) + 1
<1>1. ASSUME NEW end \in 1 .. n,
             \A i \in 1 .. end - 1 :
                Common(a, b, i) # {} /\ At(a, i) = At(b, i),
             Ones(At(a, end)) \cup Ones(At(b, end)) = {}
      PROVE  a = b
  <2>1. end \notin DOMAIN a /\ end \notin DOMAIN b
    BY <1>1, BitsOfText
  <2>2. end = n
    BY <2>1
  <2>3. ASSUME Len(b) >= n PROVE FALSE
    BY <2>1, <2>2, <2>3
  <2>4. ASSUME Len(b) < Len(a) PROVE FALSE
    <3>1. Len(b) + 1 \in 1 .. end - 1 /\ Len(b) + 1 \notin DOMAIN b
      BY <2>2, <2>4
    <3>2. At(b, Len(b) + 1) = 0
      BY <3>1 DEF At
    <3> QED
      BY <1>1, <3>1, <3>2, BitsOfZero DEF Common
  <2>5. Len(a) = Len(b)
    BY <2>3, <2>4
  <2>6. ASSUME NEW i \in 1 .. Len(a) PROVE a[i] = b[i]
    BY <1>1, <2>2, <2>5 DEF At
  <2> QED
    BY <2>5, <2>6
<1>2. ASSUME a = b PROVE are_strings_equal_stable(a, b)
  <2>1. n \in 1 .. n /\ At(a, n) = 0 /\ At(b, n) = 0
    BY <1>2 DEF At
  <2>2. Ones(At(a, n)) \cup Ones(At(b, n)) = {}
    BY <2>1, BitsOfZero
  <2>3. ASSUME NEW i \in 1 .. n - 1
        PROVE  Common(a, b, i) # {} /\ At(a, i) = At(b, i)
    <3>1. i \in DOMAIN a
      OBVIOUS
    <3> QED
      BY <1>2, <3>1, BitsOfText DEF Common
  <2> QED
    BY <2>1, <2>2, <2>3 DEF are_strings_equal_stable
<1> QED
  BY <1>1, <1>2 DEF are_strings_equal_stable

-----------------------------------------------------------------------------
LEMMA PasswordsAreTexts ==
    \A p \in Secrets \cup Plain : p \in Seq(1 .. 255) /\ p # <<>>
BY SecretsAssumption DEF Text

\* How a stored string stands for a password.
StandsFor(s, p) ==
    /\ p \in Secrets \cup Plain
    /\ s = crypt(p) \/ (s = p /\ p[1] # Dollar)

\* The file is of use or not at all; what a daemon has read was of use, and
\* stays so when the file is emptied behind its back.
PasswordInvariant ==
    /\ passwd \in Secrets \cup {<<>>}
    /\ secretFile \in {Absent, <<>>} \/ StandsFor(secretFile, lastSet)
    /\ inForce = <<>> \/ StandsFor(expected, inForce)
    /\ daemon # "down" => inForce # <<>>

LEMMA PasswordInit == Init => PasswordInvariant
<1> SUFFICES ASSUME Init PROVE PasswordInvariant
  OBVIOUS
<1>1. secretFile = Absent \/ StandsFor(secretFile, lastSet)
  BY SecretsAssumption DEF Init, StandsFor
<1> QED
  BY <1>1 DEF Init, PasswordInvariant

LEMMA PasswordNext ==
    PasswordInvariant /\ [Next]_vars => PasswordInvariant'
<1> SUFFICES ASSUME PasswordInvariant, [Next]_vars PROVE PasswordInvariant'
  OBVIOUS
<1> USE DEF PasswordInvariant, StandsFor
<1>1. CASE Passwd
  BY <1>1 DEF Passwd
<1>2. CASE PasswdWrites
  <2>1. passwd \in Secrets
    BY <1>2 DEF PasswdWrites
  <2> QED
    BY <1>2, <2>1 DEF PasswdWrites
<1>3. CASE PasswdDies
  BY <1>3 DEF PasswdDies
<1>4. CASE LoadPassword
  <2>1. StandsFor(secretFile, lastSet) /\ lastSet # <<>>
    BY <1>4, SecretsAssumption DEF LoadPassword, Text
  <2> QED
    BY <1>4, <2>1 DEF LoadPassword
<1>5. CASE LoadConfig
  BY <1>5 DEF LoadConfig
<1>6. CASE GrabHotkeys
  BY <1>6 DEF GrabHotkeys
<1>7. CASE Stop
  BY <1>7 DEF Stop
<1>8. CASE EditConfig
  BY <1>8 DEF EditConfig
<1>9. CASE UNCHANGED vars
  BY <1>9 DEF vars
<1> QED
  BY <1>1, <1>2, <1>3, <1>4, <1>5, <1>6, <1>7, <1>8, <1>9 DEF Next

\* A hash stands for one password.
LEMMA CryptInjective ==
    ASSUME NEW p \in Seq(1 .. 255), NEW q \in Seq(1 .. 255)
    PROVE  /\ crypt(p) \in Seq(1 .. 255) /\ crypt(p)[1] = Dollar
           /\ crypt(p) = crypt(q) => p = q
<1>1. \A r \in Seq(1 .. 255) :
          /\ crypt(r) \in Seq(1 .. 255) /\ Len(crypt(r)) = Len(r) + 1
          /\ crypt(r)[1] = Dollar
          /\ \A i \in 1 .. Len(r) : r[i] = crypt(r)[i + 1]
  BY DEF crypt, Dollar
<1>2. ASSUME crypt(p) = crypt(q) PROVE p = q
  <2>1. Len(p) = Len(q)
    BY <1>1, <1>2
  <2>2. ASSUME NEW i \in 1 .. Len(p) PROVE p[i] = q[i]
    BY <1>1, <1>2, <2>1
  <2> QED
    BY <2>1, <2>2
<1> QED
  BY <1>1, <1>2

\* What is compared, for the password in force and any other.
LEMMA PasswordChecked ==
    ASSUME PasswordInvariant, inForce # <<>>, NEW p \in Seq(1 .. 255)
    PROVE  security_check_password(p) <=> p = inForce
<1>1. inForce \in Seq(1 .. 255)
  BY PasswordsAreTexts DEF PasswordInvariant, StandsFor
<1>2. 1 \in DOMAIN inForce
  BY <1>1
<1>3. CASE expected = crypt(inForce)
  <2>1. At(expected, 1) = Dollar
    BY <1>1, <1>3, CryptInjective DEF At, crypt, Dollar
  <2>2. security_check_password(p) <=> crypt(p) = crypt(inForce)
    BY <1>1, <1>3, <2>1, CryptInjective, StableIsEqual
       DEF security_check_password
  <2> QED
    BY <1>1, <2>2, CryptInjective
<1>4. CASE expected = inForce /\ inForce[1] # Dollar
  <2>1. At(expected, 1) # Dollar
    BY <1>2, <1>4 DEF At
  <2> QED
    BY <1>1, <1>4, <2>1, StableIsEqual DEF security_check_password
<1> QED
  BY <1>3, <1>4 DEF PasswordInvariant, StandsFor

\* Whatever passwords there are, a daemon that is up admits exactly those who
\* send the one that was in its file, set in full, when it started.
THEOREM RightReaders == Spec => []Admission
<1>1. PasswordInvariant => Admission
  <2> SUFFICES ASSUME PasswordInvariant, daemon = "up",
                      NEW p \in Secrets \cup {<<>>}
               PROVE  inForce # <<>>
                      /\ (security_check_password(p) <=> p = inForce)
    BY DEF Admission, PasswordInvariant
  <2>1. inForce # <<>>
    BY DEF PasswordInvariant
  <2>2. p \in Seq(1 .. 255)
    <3>1. <<>> \in Seq(1 .. 255)
      OBVIOUS
    <3> QED
      BY <3>1, PasswordsAreTexts
  <2> QED
    BY <2>1, <2>2, PasswordChecked
<1> QED
  BY <1>1, PasswordInit, PasswordNext, PTL DEF Spec

-----------------------------------------------------------------------------
(* Numbers, and the loop over the lines of a file.                         *)

LessThan == {ss \in Nat \X Nat : ss[1] < ss[2]}

LEMMA LessThanWellFounded == IsWellFoundedOn(LessThan, Nat)
<1>1. LessThan = OpToRel(<, Nat)
  BY DEF LessThan, OpToRel
<1> QED
  BY <1>1, NatLessThanWellFounded

\* A set that holds 0 and, with every number below n, the next one, holds n.
LEMMA CountUp ==
    ASSUME NEW n \in Nat, NEW S, 0 \in S,
           \A k \in 0 .. n - 1 : k \in S => k + 1 \in S
    PROVE  n \in S
<1> DEFINE Bad == {k \in 0 .. n : k \notin S}
<1> SUFFICES ASSUME n \notin S PROVE FALSE
  OBVIOUS
<1>1. Bad \in SUBSET Nat /\ n \in Bad
  OBVIOUS
<1>2. PICK k \in Bad : \A j \in Bad : ~ (<<j, k>> \in LessThan)
  <2> HIDE DEF Bad
  <2> QED
    BY <1>1, LessThanWellFounded, WFMin
<1>3. k \in 1 .. n /\ k - 1 \in 0 .. n - 1 /\ k \notin S
  BY <1>2
<1>4. <<k - 1, k>> \in LessThan
  BY <1>3 DEF LessThan
<1>5. k - 1 \in S
  BY <1>2, <1>3, <1>4
<1> QED
  BY <1>3, <1>5

\* A set of numbers up to m that holds m has m as its greatest.
LEMMA GreatestOf ==
    ASSUME NEW m \in Nat, NEW S \in SUBSET (1 .. m), m \in S
    PROVE  Max(S) = m /\ Ini!Max(S) = m
<1> DEFINE P(x) == x \in S /\ \A j \in S : x >= j
<1>1. P(m) /\ \A x : P(x) => x = m
  <2>1. \A j \in S : j \in Int /\ j <= m
    OBVIOUS
  <2>2. P(m)
    BY <2>1
  <2>3. ASSUME NEW x, P(x) PROVE x = m
    <3>1. x \in S /\ x >= m
      BY <2>3
    <3> QED
      BY <2>1, <3>1
  <2> QED
    BY <2>2, <2>3, Zenon
<1> HIDE DEF P
<1>2. P(CHOOSE x : P(x))
  BY <1>1, Zenon
<1>3. Max(S) = CHOOSE x : P(x)
  BY Zenon DEF Max, P
<1>4. Ini!Max(S) = CHOOSE x : P(x)
  BY Zenon DEF Ini!Max, P
<1> QED
  BY <1>1, <1>2, <1>3, <1>4

\* The recursion by which FoldLeft loads the lines s, which begins with b, is
\* one over the subsets of their numbers.
IsFold(it, b, s, n) ==
    it = [S \in SUBSET (1 .. n) |->
            IF S = {} THEN b
            ELSE Ini!LoadLine(it[S \ {Ini!Max(S)}], s[Ini!Max(S)])]

LEMMA FoldExists ==
    ASSUME NEW b, NEW s, NEW n \in Nat
    PROVE  \E it : IsFold(it, b, s, n)
<1> DEFINE Good == {m \in 0 .. n : \E it : IsFold(it, b, s, m)}
<1>1. 0 \in Good
  <2> DEFINE it == [S \in SUBSET (1 .. 0) |-> b]
  <2>1. IsFold(it, b, s, 0)
    BY DEF IsFold
  <2> QED
    BY <2>1
<1>2. ASSUME NEW m \in 0 .. n - 1, m \in Good PROVE m + 1 \in Good
  <2>1. PICK it : IsFold(it, b, s, m)
    BY <1>2
  <2> DEFINE u == [S \in SUBSET (1 .. m + 1) |->
                      IF m + 1 \in S
                      THEN Ini!LoadLine(it[S \ {m + 1}], s[m + 1])
                      ELSE it[S]]
             F(v, S) == IF S = {} THEN b
                        ELSE Ini!LoadLine(v[S \ {Ini!Max(S)}], s[Ini!Max(S)])
  <2>2. ASSUME NEW S \in SUBSET (1 .. m + 1) PROVE u[S] = F(u, S)
    <3>1. CASE m + 1 \in S
      <4>1. Ini!Max(S) = m + 1 /\ S # {}
        <5>1. m + 1 \in Nat
          OBVIOUS
        <5> QED
          BY <3>1, <5>1, GreatestOf
      <4>2. u[S \ {m + 1}] = it[S \ {m + 1}]
        <5>1. S \ {m + 1} \in SUBSET (1 .. m + 1) /\ m + 1 \notin S \ {m + 1}
          OBVIOUS
        <5> QED
          BY <5>1, Zenon
      <4>3. u[S] = Ini!LoadLine(it[S \ {m + 1}], s[m + 1])
        BY <3>1, Zenon
      <4> HIDE DEF u
      <4> QED
        BY <4>1, <4>2, <4>3
    <3>2. CASE m + 1 \notin S
      <4>1. S \in SUBSET (1 .. m) /\ u[S] = it[S]
        <5>1. S \in SUBSET (1 .. m)
          BY <3>2
        <5> QED
          BY <3>2, <5>1, Zenon
      <4>2. it[S] = F(it, S)
        BY <2>1, <4>1, Zenon DEF IsFold
      <4>3. u[S \ {Ini!Max(S)}] = it[S \ {Ini!Max(S)}]
        <5>1. S \ {Ini!Max(S)} \in SUBSET (1 .. m + 1)
              /\ m + 1 \notin S \ {Ini!Max(S)}
          BY <3>2
        <5> QED
          BY <5>1, Zenon
      <4> HIDE DEF u
      <4> QED
        BY <4>1, <4>2, <4>3
    <3> QED
      BY <3>1, <3>2
  <2>3. u = [S \in SUBSET (1 .. m + 1) |-> u[S]]
    OBVIOUS
  <2> HIDE DEF u
  <2>4. u = [S \in SUBSET (1 .. m + 1) |-> F(u, S)]
    BY <2>2, <2>3
  <2>5. IsFold(u, b, s, m + 1)
    BY <2>4, Zenon DEF IsFold
  <2>6. m + 1 \in 0 .. n
    OBVIOUS
  <2> QED
    BY <2>5, <2>6
<1> HIDE DEF Good
<1>3. n \in Good
  BY <1>1, <1>2, CountUp
<1> QED
  BY <1>3 DEF Good

\* ini_load takes the lines one after the other.
Loads(h, s, n, o) ==
    /\ h[0] = Ini!StartLoad(o)
    /\ \A k \in 1 .. n : h[k] = Ini!LoadLine(h[k - 1], s[k])

\* At the end it looks for the required parameters.
Ending(st) == IF st.error = "none" /\ ~Ini!Complete(st)
              THEN [st EXCEPT !.error = "required"] ELSE st

LEMMA LoadRun ==
    ASSUME NEW s, NEW n \in Nat, DOMAIN s = 1 .. n, NEW o, s # NoFile
    PROVE  \E h : Loads(h, s, n, o) /\ Ini!ini_load(s, o) = Ending(h[n])
<1> DEFINE b == Ini!StartLoad(o)
           f == CHOOSE it : IsFold(it, b, s, n)
           h == [k \in 0 .. n |-> f[1 .. k]]
<1>1. IsFold(f, b, s, n)
  BY FoldExists
<1>2. Ini!ini_load(s, o) = Ending(f[1 .. n])
  BY DEF Ending, Ini!ini_load, Ini!FoldLeft, Ini!MapThenFoldSet, IsFold, Ini!NoFile, NoFile
<1> HIDE DEF f, b
<1>3. h[0] = b
  <2>1. {} \in SUBSET (1 .. n) /\ 1 .. 0 = {}
    OBVIOUS
  <2>2. f[{}] = b
    BY <1>1, <2>1 DEF IsFold
  <2> QED
    BY <2>1, <2>2
<1>4. ASSUME NEW k \in 1 .. n PROVE h[k] = Ini!LoadLine(h[k - 1], s[k])
  <2>1. /\ 1 .. k \in SUBSET (1 .. n) /\ 1 .. k \in SUBSET (1 .. k) /\ k \in Nat
        /\ k \in 1 .. k /\ (1 .. k) \ {k} = 1 .. k - 1 /\ 1 .. k # {}
    OBVIOUS
  <2>2. Ini!Max(1 .. k) = k
    BY <2>1, GreatestOf
  <2>3. f[1 .. k] = Ini!LoadLine(f[1 .. k - 1], s[k])
    BY <1>1, <2>1, <2>2 DEF IsFold
  <2> QED
    BY <2>3
<1>5. h[n] = f[1 .. n]
  OBVIOUS
<1> HIDE DEF h
<1> QED
  BY <1>2, <1>3, <1>4, <1>5 DEF Loads, b

-----------------------------------------------------------------------------
(* Masks: the loop of grab_keycode comes by every set of locks.            *)

\* The digits of a mask, and its number.
Digits(mods) == [i \in 1 .. 8 |-> IF modifier_records[i] \in mods THEN 1 ELSE 0]
Number(f) == f[1] + 2 * f[2] + 4 * f[3] + 8 * f[4]
             + 16 * f[5] + 32 * f[6] + 64 * f[7] + 128 * f[8]

LEMMA Records ==
    /\ modifier_records[1] = "Shift" /\ modifier_records[2] = "CapsLock"
    /\ modifier_records[3] = "Ctrl"  /\ modifier_records[4] = "Alt"
    /\ modifier_records[5] = "NumLock" /\ modifier_records[6] = "AltLang"
    /\ modifier_records[7] = "Kana"  /\ modifier_records[8] = "ScrollLock"
    /\ Modifiers = {modifier_records[i] : i \in 1 .. 8}
    /\ \A i, j \in 1 .. 8 : modifier_records[i] = modifier_records[j] => i = j
    /\ DOMAIN modifier_records = 1 .. 8 /\ Len(modifier_records) = 8
BY DEF modifier_records, Modifiers, MOD_MASK

LEMMA DigitsType ==
    \A mods : Digits(mods) \in [1 .. 8 -> {0, 1}]
BY DEF Digits

LEMMA NumberType ==
    ASSUME NEW f \in [1 .. 8 -> {0, 1}]
    PROVE  Number(f) \in 0 .. 255
<1>1. \A i \in 1 .. 8 : f[i] \in {0, 1}
  OBVIOUS
<1>2. /\ f[1] \in {0, 1} /\ f[2] \in {0, 1} /\ f[3] \in {0, 1}
      /\ f[4] \in {0, 1} /\ f[5] \in {0, 1} /\ f[6] \in {0, 1}
      /\ f[7] \in {0, 1} /\ f[8] \in {0, 1}
  BY <1>1
<1> QED
  BY <1>2 DEF Number

LEMMA MaskNumber == \A mods : Mask(mods) = Number(Digits(mods))
<1> SUFFICES ASSUME NEW mods PROVE Mask(mods) = Number(Digits(mods))
  OBVIOUS
<1> DEFINE on(m) == IF m \in mods THEN MOD_MASK[m] ELSE 0
           d == Digits(mods)
<1>1. Mask(mods) = on("Shift") + on("CapsLock") + on("Ctrl") + on("Alt")
                   + on("NumLock") + on("AltLang") + on("Kana")
                   + on("ScrollLock")
  BY DEF Mask
<1>2. /\ on("Shift") = d[1] /\ on("CapsLock") = 2 * d[2]
      /\ on("Ctrl") = 4 * d[3] /\ on("Alt") = 8 * d[4]
      /\ on("NumLock") = 16 * d[5] /\ on("AltLang") = 32 * d[6]
      /\ on("Kana") = 64 * d[7] /\ on("ScrollLock") = 128 * d[8]
  BY Records DEF Digits, MOD_MASK
<1>3. \A i \in 1 .. 8 : d[i] \in {0, 1}
  BY DigitsType
<1> HIDE DEF on, d
<1> QED
  BY <1>1, <1>2, <1>3 DEF Number, d

\* A mask has the bits it is made of.
LEMMA BitsOfNumber ==
    ASSUME NEW f \in [1 .. 8 -> {0, 1}]
    PROVE  Bits(Number(f)) = {modifier_records[i] : i \in {j \in 1 .. 8 : f[j] = 1}}
<1> DEFINE x == Number(f)
<1>1. /\ f[1] \in {0, 1} /\ f[2] \in {0, 1} /\ f[3] \in {0, 1}
      /\ f[4] \in {0, 1} /\ f[5] \in {0, 1} /\ f[6] \in {0, 1}
      /\ f[7] \in {0, 1} /\ f[8] \in {0, 1}
  OBVIOUS
<1>2. /\ (x \div 1) % 2 = f[1] /\ (x \div 2) % 2 = f[2]
      /\ (x \div 4) % 2 = f[3] /\ (x \div 8) % 2 = f[4]
      /\ (x \div 16) % 2 = f[5] /\ (x \div 32) % 2 = f[6]
      /\ (x \div 64) % 2 = f[7] /\ (x \div 128) % 2 = f[8]
  BY <1>1 DEF Number
<1> HIDE DEF x
<1>3. \A i \in 1 .. 8 : (x \div MOD_MASK[modifier_records[i]]) % 2 = f[i]
  BY <1>2, Records DEF MOD_MASK
<1>4. Bits(x) = {m \in {modifier_records[i] : i \in 1 .. 8} :
                    (x \div MOD_MASK[m]) % 2 = 1}
  BY Records DEF Bits
<1> QED
  BY <1>3, <1>4 DEF x

LEMMA BitsOfMask == \A mods \in SUBSET Modifiers : Bits(Mask(mods)) = mods
<1> SUFFICES ASSUME NEW mods \in SUBSET Modifiers PROVE Bits(Mask(mods)) = mods
  OBVIOUS
<1>1. Bits(Mask(mods)) = {modifier_records[i] :
                             i \in {j \in 1 .. 8 : Digits(mods)[j] = 1}}
  BY BitsOfNumber, DigitsType, MaskNumber
<1>2. \A j \in 1 .. 8 : Digits(mods)[j] = 1 <=> modifier_records[j] \in mods
  BY DEF Digits
<1> QED
  BY <1>1, <1>2, Records

\* Every byte is the mask of its bits.
LEMMA ByteDigits ==
    ASSUME NEW x \in 0 .. 255
    PROVE  \E f \in [1 .. 8 -> {0, 1}] : Number(f) = x
<1> DEFINE w == <<1, 2, 4, 8, 16, 32, 64, 128>>
           f == [i \in 1 .. 8 |-> (x \div w[i]) % 2]
<1>1. /\ f[1] = x % 2 /\ f[2] = (x \div 2) % 2 /\ f[3] = (x \div 4) % 2
      /\ f[4] = (x \div 8) % 2 /\ f[5] = (x \div 16) % 2
      /\ f[6] = (x \div 32) % 2 /\ f[7] = (x \div 64) % 2
      /\ f[8] = (x \div 128) % 2
  OBVIOUS
<1>2. f \in [1 .. 8 -> {0, 1}]
  <2>1. \A i \in 1 .. 8 : (x \div w[i]) % 2 \in {0, 1}
    OBVIOUS
  <2> QED
    BY <2>1
<1> HIDE DEF f
<1>3. Number(f) = x
  BY <1>1 DEF Number
<1> QED
  BY <1>2, <1>3

\* The bits of r are among those of y; the bits of t are those of both.
Within(r, y) == \A i \in 1 .. 8 : r[i] <= y[i]
Meet(t, r, y) == \A i \in 1 .. 8 : t[i] = IF r[i] = 0 THEN 0 ELSE y[i]

\* The number that follows s down the subsets of r.
LEMMA Downwards ==
    ASSUME NEW s \in [1 .. 8 -> {0, 1}], NEW r \in [1 .. 8 -> {0, 1}],
           NEW y \in [1 .. 8 -> {0, 1}], NEW t \in [1 .. 8 -> {0, 1}],
           NEW u \in [1 .. 8 -> {0, 1}],
           Within(s, r), Within(u, r), Meet(t, r, y),
           Number(y) = Number(s) - 1, Number(u) < Number(s)
    PROVE  Number(u) <= Number(t)
BY SMTT(120) DEF Number, Within, Meet

LEMMA Smaller ==
    ASSUME NEW r \in [1 .. 8 -> {0, 1}], NEW y \in [1 .. 8 -> {0, 1}]
    PROVE  /\ Within(r, y) => Number(r) <= Number(y)
           /\ \A t \in [1 .. 8 -> {0, 1}] :
                 Meet(t, r, y) => Number(t) <= Number(y)
<1>1. Within(r, y) => Number(r) <= Number(y)
  BY DEF Number, Within
<1>2. ASSUME NEW t \in [1 .. 8 -> {0, 1}], Meet(t, r, y)
      PROVE  Number(t) <= Number(y)
  BY <1>2 DEF Number, Meet
<1> QED
  BY <1>1, <1>2

LEMMA DigitsOfBits ==
    ASSUME NEW f \in [1 .. 8 -> {0, 1}]
    PROVE  Digits(Bits(Number(f))) = f
<1>1. \A j \in 1 .. 8 : modifier_records[j] \in Bits(Number(f)) <=> f[j] = 1
  BY BitsOfNumber, Records
<1>2. \A j \in 1 .. 8 : f[j] \in {0, 1}
  OBVIOUS
<1>3. \A j \in 1 .. 8 : Digits(Bits(Number(f)))[j] = f[j]
  BY <1>1, <1>2 DEF Digits
<1> QED
  BY <1>3, DigitsType

\* One step of the loop, from any number that is not zero.
LEMMA StepDown ==
    ASSUME NEW rem \in SUBSET Modifiers, NEW x \in 1 .. 255
    PROVE  LET next == Bits(x - 1) \cap rem
           IN  /\ next \in SUBSET rem /\ Mask(next) \in 0 .. x - 1
               /\ \A mods, less \in SUBSET rem :
                     x = Mask(mods) /\ Mask(less) < x => Mask(less) <= Mask(next)
<1> DEFINE next == Bits(x - 1) \cap rem
           r == Digits(rem)
           t == Digits(next)
<1>1. PICK y \in [1 .. 8 -> {0, 1}] : Number(y) = x - 1
  <2>1. x - 1 \in 0 .. 255
    OBVIOUS
  <2> QED
    BY <2>1, ByteDigits
<1>2. Digits(Bits(x - 1)) = y
  BY <1>1, DigitsOfBits
<1>3. /\ r \in [1 .. 8 -> {0, 1}] /\ t \in [1 .. 8 -> {0, 1}]
      /\ Meet(t, r, y)
  <2>1. y = [i \in 1 .. 8 |-> IF modifier_records[i] \in Bits(x - 1) THEN 1 ELSE 0]
    BY <1>2 DEF Digits
  <2> QED
    BY <2>1 DEF Digits, Meet
<1>4. Number(t) <= Number(y)
  <2> HIDE DEF r, t
  <2> QED
    BY <1>3, Smaller
<1>5. Mask(next) \in 0 .. x - 1
  BY <1>1, <1>3, <1>4, NumberType, MaskNumber
<1>6. ASSUME NEW mods \in SUBSET rem, NEW less \in SUBSET rem,
             x = Mask(mods), Mask(less) < x
      PROVE  Mask(less) <= Mask(next)
  <2> DEFINE s == Digits(mods)
             u == Digits(less)
  <2>1. Within(s, r) /\ Within(u, r)
    BY DEF Digits, Within
  <2>2. s \in [1 .. 8 -> {0, 1}] /\ u \in [1 .. 8 -> {0, 1}]
    BY DigitsType
  <2>3. Number(y) = Number(s) - 1 /\ Number(u) < Number(s)
    BY <1>1, <1>6, MaskNumber
  <2> HIDE DEF s, u, r, t
  <2>4. Number(u) <= Number(t)
    BY <1>3, <2>1, <2>2, <2>3, Downwards
  <2> QED
    BY <2>4, MaskNumber DEF u, t
<1> QED
  BY <1>5, <1>6

LEMMA MaskType == \A mods : Mask(mods) \in 0 .. 255
BY MaskNumber, NumberType, DigitsType

\* The loop from a submask on.
IsLoop(f, rem, n) ==
    f = [submask \in 0 .. n |->
            IF submask = 0 THEN {0}
            ELSE {submask} \cup f[Mask(Bits(submask - 1) \cap rem)]]

LEMMA LoopExists ==
    ASSUME NEW rem \in SUBSET Modifiers, NEW n \in 0 .. 255
    PROVE  \E f : IsLoop(f, rem, n)
<1> DEFINE Good == {m \in 0 .. n : \E f : IsLoop(f, rem, m)}
           Step(x) == Mask(Bits(x - 1) \cap rem)
<1>1. 0 \in Good
  <2> DEFINE f == [x \in 0 .. 0 |-> {0}]
  <2>1. IsLoop(f, rem, 0)
    BY DEF IsLoop
  <2> QED
    BY <2>1
<1>2. ASSUME NEW m \in 0 .. n - 1, m \in Good PROVE m + 1 \in Good
  <2>1. PICK f : IsLoop(f, rem, m)
    BY <1>2
  <2> DEFINE F(v, x) == IF x = 0 THEN {0} ELSE {x} \cup v[Step(x)]
             h == [x \in 0 .. m + 1 |-> IF x = m + 1 THEN {x} \cup f[Step(x)]
                                        ELSE f[x]]
  <2>2. ASSUME NEW x \in 0 .. m + 1, x # 0 PROVE Step(x) \in 0 .. x - 1
    <3>1. x \in 1 .. 255
      BY <2>2
    <3> QED
      BY <3>1, StepDown
  <2> HIDE DEF Step
  <2>3. ASSUME NEW x \in 0 .. m + 1 PROVE h[x] = F(h, x)
    <3>1. ASSUME x # 0 PROVE h[Step(x)] = f[Step(x)]
      <4>1. Step(x) \in 0 .. x - 1
        BY <2>2, <3>1
      <4>2. Step(x) \in 0 .. m + 1 /\ Step(x) # m + 1
        BY <4>1
      <4> QED
        BY <4>2
    <3>2. CASE x = m + 1
      <4>1. h[x] = {x} \cup f[Step(x)] /\ x # 0
        BY <3>2
      <4> HIDE DEF h
      <4> QED
        BY <3>1, <4>1
    <3>3. CASE x # m + 1
      <4>1. x \in 0 .. m /\ h[x] = f[x]
        BY <3>3
      <4>2. f[x] = F(f, x)
        BY <2>1, <4>1 DEF IsLoop, Step
      <4> HIDE DEF h
      <4> QED
        BY <3>1, <4>1, <4>2
    <3> QED
      BY <3>2, <3>3
  <2>4. h = [x \in 0 .. m + 1 |-> h[x]]
    OBVIOUS
  <2> HIDE DEF h
  <2>5. h = [x \in 0 .. m + 1 |-> F(h, x)]
    BY <2>3, <2>4
  <2>6. IsLoop(h, rem, m + 1)
    BY <2>5, Zenon DEF IsLoop, Step
  <2> QED
    BY <2>6
<1> HIDE DEF Good
<1>3. n \in Good
  BY <1>1, <1>2, CountUp
<1> QED
  BY <1>3 DEF Good

\* It comes by every subset of rem.
LEMMA EverySubmask ==
    ASSUME NEW rem \in SUBSET Modifiers
    PROVE  {Bits(s) : s \in Submasks(rem)} = SUBSET rem
<1> DEFINE M == Mask(rem)
           f == CHOOSE g : IsLoop(g, rem, M)
           Below(x) == {Mask(mods) : mods \in {m \in SUBSET rem : Mask(m) <= x}}
           Good == {n \in 0 .. M : \A mods \in SUBSET rem :
                       Mask(mods) <= n => f[Mask(mods)] = Below(Mask(mods))}
<1>1. M \in 0 .. 255
  BY MaskType
<1>2. IsLoop(f, rem, M)
  <2> HIDE DEF M
  <2> QED
    BY <1>1, LoopExists
<1>3. Submasks(rem) = f[M]
  BY DEF Submasks, IsLoop
<1> HIDE DEF f, M
<1>4. ASSUME NEW x \in 0 .. M
      PROVE  f[x] = IF x = 0 THEN {0}
                    ELSE {x} \cup f[Mask(Bits(x - 1) \cap rem)]
  BY <1>2, <1>4 DEF IsLoop
<1>5. ASSUME NEW mods \in SUBSET rem PROVE Mask(mods) \in 0 .. M
  <2>1. Within(Digits(mods), Digits(rem))
    BY DEF Digits, Within
  <2>2. Number(Digits(mods)) <= Number(Digits(rem))
    BY <2>1, DigitsType, Smaller
  <2> QED
    BY <2>2, MaskNumber, MaskType DEF M
<1>6. Mask({}) = 0
  BY DEF Mask
<1>7. \A mods \in SUBSET rem : Mask(mods) = 0 => Below(Mask(mods)) = {0}
  <2>1. \A x \in Below(0) : x = 0
    BY <1>5
  <2>2. 0 \in Below(0)
    BY <1>6
  <2> QED
    BY <2>1, <2>2
<1>8. 0 \in Good
  <2>1. \A mods \in SUBSET rem : Mask(mods) <= 0 => Mask(mods) = 0
    BY <1>5
  <2>2. 0 \in 0 .. M
    BY <1>1
  <2>3. f[0] = {0}
    BY <1>4, <2>2
  <2> QED
    BY <1>7, <2>1, <2>2, <2>3
<1>9. ASSUME NEW n \in 0 .. M - 1, n \in Good PROVE n + 1 \in Good
  <2> SUFFICES ASSUME NEW mods \in SUBSET rem, Mask(mods) = n + 1
               PROVE  f[n + 1] = Below(n + 1)
    <3>1. \A mods \in SUBSET rem : Mask(mods) <= n + 1
             => Mask(mods) <= n \/ Mask(mods) = n + 1
      BY <1>5
    <3> QED
      BY <1>1, <1>9, <3>1
  <2> DEFINE next == Bits(n) \cap rem
  <2>1. n + 1 \in 1 .. 255 /\ n + 1 \in 0 .. M /\ (n + 1) - 1 = n /\ n + 1 # 0
    BY <1>1
  <2>2. /\ next \in SUBSET rem /\ Mask(next) \in 0 .. n
        /\ \A less \in SUBSET rem : Mask(less) < n + 1 => Mask(less) <= Mask(next)
    <3>1. LET x == n + 1
              down == Bits(x - 1) \cap rem
          IN  /\ down \in SUBSET rem /\ Mask(down) \in 0 .. x - 1
              /\ \A all, less \in SUBSET rem :
                    x = Mask(all) /\ Mask(less) < x => Mask(less) <= Mask(down)
      BY <2>1, StepDown
    <3> QED
      BY <2>1, <3>1
  <2>3. f[n + 1] = {n + 1} \cup f[Mask(next)]
    <3>1. f[n + 1] = IF n + 1 = 0 THEN {0}
                     ELSE {n + 1} \cup f[Mask(Bits((n + 1) - 1) \cap rem)]
      BY <1>4, <2>1
    <3> QED
      BY <2>1, <3>1
  <2> HIDE DEF next
  <2>4. f[Mask(next)] = Below(Mask(next))
    BY <1>9, <2>2
  <2>5. Below(n + 1) = {n + 1} \cup Below(Mask(next))
    <3>1. \A less \in SUBSET rem :
             Mask(less) <= n + 1 <=> Mask(less) = n + 1
                                     \/ Mask(less) <= Mask(next)
      BY <1>1, <1>5, <2>2
    <3> QED
      BY <3>1
  <2> QED
    BY <2>3, <2>4, <2>5
<1> HIDE DEF Good
<1>10. M \in Good
  BY <1>1, <1>8, <1>9, CountUp
<1>11. f[M] = Below(M)
  <2>1. rem \in SUBSET rem /\ Mask(rem) = M
    BY DEF M
  <2> QED
    BY <1>1, <1>10, <2>1 DEF Good
<1>12. Below(M) = {Mask(mods) : mods \in SUBSET rem}
  BY <1>1, <1>5
<1> HIDE DEF Below
<1>13. \A mods \in SUBSET rem : Bits(Mask(mods)) = mods
  BY BitsOfMask
<1> QED
  BY <1>3, <1>11, <1>12, <1>13

-----------------------------------------------------------------------------
(* The settings: what a configuration file that is loaded without an error *)
(* has made of them.                                                       *)

TitleOf(i)  == daemon_sections[i].title
ParamsOf(i) == daemon_sections[i].params
KeyAt(i, j) == ParamsOf(i)[j].key

\* Where the table has a title, and a key.
TitleHome == [Server |-> 1, Monitor |-> 2, Control |-> 3, Font |-> 4,
              Defaults |-> 5, Stats |-> 6, Shortcuts |-> 7]
KeyHome ==
    [Host |-> <<1, 1>>, Port |-> <<1, 2>>,
     MaxFPS |-> <<2, 1>>, WidthDivisor |-> <<2, 2>>, HeightDivisor |-> <<2, 3>>,
     MoveStep |-> <<3, 1>>, ScaleFactor |-> <<3, 2>>,
     Pattern |-> <<4, 1>>,
     WindowTrackingEnabled |-> <<5, 1>>, WindowsScale |-> <<5, 2>>,
     DesktopScale |-> <<5, 3>>, CursorCapturingEnabled |-> <<5, 4>>,
     ColorsInvertingEnabled |-> <<5, 5>>,
     Enabled |-> <<6, 1>>, File |-> <<6, 2>>]

\* Section i of the table, which requires n keys.
Requires(i, n) ==
    /\ DOMAIN ParamsOf(i) = 1 .. n /\ Len(ParamsOf(i)) = n
    /\ \A j \in 1 .. n : /\ KeyHome[KeyAt(i, j)] = <<i, j>>
                         /\ KeyAt(i, j) # AnyKey
                         /\ ParamsOf(i)[j].expected

LEMMA RequiredKeys ==
    ASSUME NEW title, NEW keys, NEW n \in Nat, DOMAIN keys = 1 .. n
    PROVE  LET params == Required(title, keys).params
           IN  /\ DOMAIN params = 1 .. n /\ Len(params) = n
               /\ \A j \in 1 .. n : /\ params[j].key = keys[j]
                                    /\ params[j].expected
<1> DEFINE params == [i \in 1 .. n |-> Key(keys[i], TRUE)]
<1>1. Required(title, keys).params = params
  BY DEF Required
<1>2. DOMAIN params = 1 .. n
  OBVIOUS
<1>3. Len(params) = n
  OBVIOUS
<1>4. \A j \in 1 .. n : params[j].key = keys[j] /\ params[j].expected
  BY DEF Key
<1> HIDE DEF params
<1> QED
  BY <1>1, <1>2, <1>3, <1>4

LEMMA Table ==
    /\ DOMAIN daemon_sections = 1 .. 7 /\ Len(daemon_sections) = 7
    /\ \A i \in 1 .. 7 : TitleHome[TitleOf(i)] = i
    /\ TitleOf(7) = "Shortcuts"
    /\ ParamsOf(7) = <<Key(AnyKey, FALSE)>>
    /\ Requires(1, 2) /\ Requires(2, 3) /\ Requires(3, 2) /\ Requires(4, 1)
    /\ Requires(5, 5) /\ Requires(6, 2)
<1> DEFINE k1 == <<"Host", "Port">>
           k2 == <<"MaxFPS", "WidthDivisor", "HeightDivisor">>
           k3 == <<"MoveStep", "ScaleFactor">>
           k4 == <<"Pattern">>
           k5 == <<"WindowTrackingEnabled", "WindowsScale", "DesktopScale",
                   "CursorCapturingEnabled", "ColorsInvertingEnabled">>
           k6 == <<"Enabled", "File">>
           a1 == Required("Server", k1)   a2 == Required("Monitor", k2)
           a3 == Required("Control", k3)  a4 == Required("Font", k4)
           a5 == Required("Defaults", k5) a6 == Required("Stats", k6)
           a7 == [title |-> "Shortcuts", params |-> <<Key(AnyKey, FALSE)>>]
<1>1. daemon_sections = <<a1, a2, a3, a4, a5, a6, a7>>
  BY DEF daemon_sections
<1>2. /\ a1.title = "Server" /\ a2.title = "Monitor" /\ a3.title = "Control"
      /\ a4.title = "Font" /\ a5.title = "Defaults" /\ a6.title = "Stats"
      /\ a7.title = "Shortcuts" /\ a7.params = <<Key(AnyKey, FALSE)>>
  BY DEF Required
<1> DEFINE Fits(i, n, keys) ==
             \A j \in 1 .. n : KeyHome[keys[j]] = <<i, j>> /\ keys[j] # AnyKey
<1>3. /\ DOMAIN k1 = 1 .. 2 /\ DOMAIN k2 = 1 .. 3 /\ DOMAIN k3 = 1 .. 2
      /\ DOMAIN k4 = 1 .. 1 /\ DOMAIN k5 = 1 .. 5 /\ DOMAIN k6 = 1 .. 2
  OBVIOUS
<1>4. Fits(1, 2, k1) /\ Fits(3, 2, k3) /\ Fits(6, 2, k6)
  BY DEF KeyHome, AnyKey
<1>5. Fits(2, 3, k2) /\ Fits(4, 1, k4)
  BY DEF KeyHome, AnyKey
<1>6. Fits(5, 5, k5)
  BY DEF KeyHome, AnyKey
<1> HIDE DEF k1, k2, k3, k4, k5, k6
<1> DEFINE Rows(p, n, keys) ==
             /\ DOMAIN p = 1 .. n /\ Len(p) = n
             /\ \A j \in 1 .. n : p[j].key = keys[j] /\ p[j].expected
<1>7. /\ Rows(a1.params, 2, k1) /\ Rows(a2.params, 3, k2)
      /\ Rows(a3.params, 2, k3) /\ Rows(a4.params, 1, k4)
      /\ Rows(a5.params, 5, k5) /\ Rows(a6.params, 2, k6)
  <2>1. 1 \in Nat /\ 2 \in Nat /\ 3 \in Nat /\ 5 \in Nat
    OBVIOUS
  <2>2. ASSUME NEW title, NEW keys, NEW n \in Nat, DOMAIN keys = 1 .. n
        PROVE  Rows(Required(title, keys).params, n, keys)
    BY <2>2, RequiredKeys
  <2> HIDE DEF Rows
  <2> QED
    BY <1>3, <2>1, <2>2, Zenon
<1> HIDE DEF a1, a2, a3, a4, a5, a6, a7
<1>8. /\ DOMAIN daemon_sections = 1 .. 7 /\ Len(daemon_sections) = 7
      /\ daemon_sections[1] = a1 /\ daemon_sections[2] = a2
      /\ daemon_sections[3] = a3 /\ daemon_sections[4] = a4
      /\ daemon_sections[5] = a5 /\ daemon_sections[6] = a6
      /\ daemon_sections[7] = a7
  BY <1>1
<1>9. \A i \in 1 .. 7 : TitleHome[TitleOf(i)] = i
  <2>1. /\ TitleOf(1) = "Server" /\ TitleOf(2) = "Monitor"
        /\ TitleOf(3) = "Control" /\ TitleOf(4) = "Font"
        /\ TitleOf(5) = "Defaults" /\ TitleOf(6) = "Stats"
        /\ TitleOf(7) = "Shortcuts"
    BY <1>2, <1>8 DEF TitleOf
  <2> QED
    BY <2>1 DEF TitleHome
<1>10. ASSUME NEW i, NEW n, NEW keys, Fits(i, n, keys),
              Rows(daemon_sections[i].params, n, keys)
       PROVE  Requires(i, n)
  BY <1>10 DEF Requires, ParamsOf, KeyAt
<1> HIDE DEF Fits, Rows
<1>11. /\ Requires(1, 2) /\ Requires(2, 3) /\ Requires(3, 2) /\ Requires(4, 1)
       /\ Requires(5, 5) /\ Requires(6, 2)
  BY <1>4, <1>5, <1>6, <1>7, <1>8, <1>10
<1> QED
  BY <1>2, <1>8, <1>9, <1>11 DEF TitleOf, ParamsOf

\* A key that is required stands in one place.
LEMMA OnePlace ==
    /\ \A i \in 1 .. 6 : \A j \in DOMAIN ParamsOf(i) :
          KeyHome[KeyAt(i, j)] = <<i, j>> /\ KeyAt(i, j) # AnyKey
    /\ \A i \in 1 .. 7 : DOMAIN ParamsOf(i) = 1 .. Len(ParamsOf(i))
    /\ \A i \in 1 .. 6 : TitleOf(i) # "Shortcuts"
    /\ DOMAIN ParamsOf(7) = {1} /\ KeyAt(7, 1) = AnyKey
<1>1. ASSUME NEW i, NEW n, Requires(i, n)
      PROVE  /\ DOMAIN ParamsOf(i) = 1 .. Len(ParamsOf(i))
             /\ \A j \in DOMAIN ParamsOf(i) :
                   KeyHome[KeyAt(i, j)] = <<i, j>> /\ KeyAt(i, j) # AnyKey
  BY <1>1 DEF Requires
<1>2. \A i \in 1 .. 6 : \E n : Requires(i, n)
  BY Table
<1>3. /\ DOMAIN ParamsOf(7) = 1 .. Len(ParamsOf(7)) /\ DOMAIN ParamsOf(7) = {1}
      /\ KeyAt(7, 1) = AnyKey
  BY Table DEF KeyAt, Key
<1>4. \A i \in 1 .. 6 : TitleOf(i) # "Shortcuts"
  BY Table
<1> QED
  BY <1>1, <1>2, <1>3, <1>4

\* The title in force changes at the section lines.
LEMMA TitleSteps ==
    ASSUME NEW k \in Nat
    PROVE  TitleAt(k + 1) = IF config[k + 1].kind = "section"
                            THEN config[k + 1].title ELSE TitleAt(k)
<1> DEFINE Before(n) == {j \in 1 .. n : config[j].kind = "section"}
<1>1. \A n : TitleAt(n) = IF Before(n) = {} THEN ""
                          ELSE config[Max(Before(n))].title
  BY DEF TitleAt
<1>2. CASE config[k + 1].kind = "section"
  <2>1. Before(k + 1) \in SUBSET (1 .. k + 1) /\ k + 1 \in Before(k + 1)
        /\ k + 1 \in Nat
    BY <1>2
  <2>2. Max(Before(k + 1)) = k + 1 /\ Before(k + 1) # {}
    <3> HIDE DEF Before
    <3> QED
      BY <2>1, GreatestOf
  <2> HIDE DEF Before
  <2> QED
    BY <1>1, <1>2, <2>2
<1>3. CASE config[k + 1].kind # "section"
  <2>1. Before(k + 1) = Before(k)
    BY <1>3
  <2> HIDE DEF Before
  <2> QED
    BY <1>1, <1>3, <2>1
<1> QED
  BY <1>2, <1>3

\* What the first k lines of the configuration have set: line m is the last
\* among them that gives the key.
LastGiven(i, j, k, m) ==
    /\ m \in 1 .. k /\ m \in Given(TitleOf(i), KeyAt(i, j))
    /\ \A l \in Given(TitleOf(i), KeyAt(i, j)) : l <= k => l <= m

SetTo(values, i, j, m) ==
    /\ KeyAt(i, j) \in DOMAIN values
    /\ values[KeyAt(i, j)] = config[m].value[1]
    /\ Valid(KeyAt(i, j), config[m].value[1])

Settled(values, given, k) ==
    \A i \in 1 .. 6 : \A j \in DOMAIN ParamsOf(i) :
        <<i, j>> \in given =>
            \E m : LastGiven(i, j, k, m) /\ SetTo(values, i, j, m)

Well(v, c, s, g) == [opts |-> [values |-> v, shortcuts |-> c], section |-> s,
                     given |-> g, error |-> "none"]

\* The shortcuts loaded from the first k lines.
IsSeq(c) == \E S : c \in Seq(S)
Asks(l) == /\ l \in DOMAIN config /\ config[l].kind = "param"
           /\ TitleAt(l) = "Shortcuts" /\ config[l].value # <<"None">>
Entry(l) == [hotkey |-> shortcuts_parse(config[l].value),
             handler |-> config[l].key]
Listed(c, k) ==
    /\ IsSeq(c)
    /\ \A l \in 1 .. k :
          Asks(l) => /\ shortcuts_parse(config[l].value).error = "none"
                     /\ \E i \in DOMAIN c : c[i] = Entry(l)
    /\ \A i \in DOMAIN c : \E l \in 1 .. k : Asks(l) /\ c[i] = Entry(l)

\* Up to the first error.
Follows(st, k) ==
    st.error = "none" =>
        \E v, c, s, g : /\ st = Well(v, c, s, g) /\ Listed(c, k)
                        /\ s \in 0 .. 7 /\ (s # 0 => TitleOf(s) = TitleAt(k))
                        /\ Settled(v, g, k)

LEMMA FollowsFirst == Follows(Ini!StartLoad(NoSettings), 0)
<1>1. Ini!StartLoad(NoSettings) = Well(<<>>, <<>>, 0, {})
  BY DEF Well, Ini!StartLoad, NoSettings
<1>2. Settled(<<>>, {}, 0)
  BY DEF Settled
<1>3. 0 \in 0 .. 7 /\ Listed(<<>>, 0)
  BY DEF Listed, IsSeq
<1> QED
  BY <1>1, <1>2, <1>3, Zenon DEF Follows

\* A line that gives no required key leaves what is set.
LEMMA SettledNext ==
    ASSUME NEW v, NEW g, NEW k \in Nat, Settled(v, g, k),
           NEW n \in Nat, DOMAIN config = 1 .. n,
           \A i \in 1 .. 6 : \A j \in DOMAIN ParamsOf(i) :
              k + 1 \notin Given(TitleOf(i), KeyAt(i, j))
    PROVE  Settled(v, g, k + 1)
<1> SUFFICES ASSUME NEW i \in 1 .. 6, NEW j \in DOMAIN ParamsOf(i),
                    <<i, j>> \in g
             PROVE  \E m : LastGiven(i, j, k + 1, m) /\ SetTo(v, i, j, m)
  BY DEF Settled
<1>1. PICK m : LastGiven(i, j, k, m) /\ SetTo(v, i, j, m)
  BY DEF Settled
<1> DEFINE given == Given(TitleOf(i), KeyAt(i, j))
<1>2. given \subseteq 1 .. n /\ k + 1 \notin given
  BY DEF Given
<1>3. m \in 1 .. k /\ m \in given /\ \A l \in given : l <= k => l <= m
  BY <1>1 DEF LastGiven
<1>4. m \in 1 .. k + 1 /\ \A l \in given : l <= k + 1 => l <= m
  BY <1>2, <1>3
<1> QED
  BY <1>1, <1>2, <1>3, <1>4 DEF LastGiven

LEMMA LeastOf ==
    ASSUME NEW S \in SUBSET Nat, S # {}
    PROVE  Ini!Min(S) \in S
<1>1. PICK m \in S : \A j \in S : ~ (<<j, m>> \in LessThan)
  BY LessThanWellFounded, WFMin
<1>2. ASSUME NEW j \in S PROVE m <= j
  <2>1. j \in Nat /\ m \in Nat /\ ~ (<<j, m>> \in LessThan)
    BY <1>1
  <2> QED
    BY <2>1 DEF LessThan
<1> QED
  BY <1>2, Zenon DEF Ini!Min

\* A section that has been found, and a parameter.
LEMMA Found ==
    ASSUME NEW t, NEW i,
           i = Ini!SelectInSeq(daemon_sections, LAMBDA s : s.title = t), i # 0
    PROVE  i \in 1 .. 7 /\ TitleOf(i) = t
<1> DEFINE I == {n \in 1 .. Len(daemon_sections) : daemon_sections[n].title = t}
<1>1. i = IF I = {} THEN 0 ELSE Ini!Min(I)
  BY DEF Ini!SelectInSeq
<1>2. I # {} /\ I \in SUBSET Nat /\ i = Ini!Min(I)
  BY <1>1, Table
<1>3. i \in I
  <2> HIDE DEF I
  <2> QED
    BY <1>2, LeastOf
<1> QED
  BY <1>3, Table DEF TitleOf

LEMMA FoundParam ==
    ASSUME NEW i \in 1 .. 7, NEW key, NEW j, j # 0,
           j = Ini!SelectInSeq(ParamsOf(i),
                               LAMBDA p : p.key \in {Ini!AnyKey, key})
    PROVE  j \in DOMAIN ParamsOf(i) /\ KeyAt(i, j) \in {AnyKey, key}
<1> DEFINE I == {n \in 1 .. Len(ParamsOf(i)) :
                    ParamsOf(i)[n].key \in {Ini!AnyKey, key}}
<1>1. j = IF I = {} THEN 0 ELSE Ini!Min(I)
  BY DEF Ini!SelectInSeq
<1>2. DOMAIN ParamsOf(i) = 1 .. Len(ParamsOf(i))
  BY OnePlace
<1>3. Len(ParamsOf(i)) \in Nat
  <2>1. \A n \in 1 .. 6 : \E m \in Nat : Requires(n, m)
    BY Table
  <2>2. Len(ParamsOf(7)) = 1
    BY Table
  <2> QED
    BY <2>1, <2>2 DEF Requires
<1>4. I # {} /\ I \in SUBSET Nat /\ j = Ini!Min(I)
  BY <1>1, <1>3
<1>5. j \in I
  <2> HIDE DEF I
  <2> QED
    BY <1>4, LeastOf
<1> QED
  BY <1>2, <1>5 DEF KeyAt, Ini!AnyKey, AnyKey

\* A shortcut that is accepted is added, unless it is "None".
Grown(c, d, key, value) ==
    IF value = <<"None">> THEN d = c
    ELSE /\ shortcuts_parse(value).error = "none"
         /\ d = Append(c, [hotkey |-> shortcuts_parse(value), handler |-> key])

\* What the setter makes of a parameter that it accepts.
Accepted(v, c, title, key, value, o) ==
    \/ /\ title = "Shortcuts"
       /\ \E d : o = [values |-> v, shortcuts |-> d] /\ Grown(c, d, key, value)
    \/ /\ title # "Shortcuts" /\ Valid(key, value[1])
       /\ o = [values |-> Put(v, key, value[1]), shortcuts |-> c]

LEMMA SetterAccepts ==
    ASSUME NEW v, NEW c, IsSeq(c), NEW title, NEW key, NEW value,
           load_setting([values |-> v, shortcuts |-> c], title, key, value).error
             = "none"
    PROVE  Accepted(v, c, title, key, value,
                    load_setting([values |-> v, shortcuts |-> c],
                                 title, key, value).opts)
<1> USE DEF Accepted
<1> DEFINE o == [values |-> v, shortcuts |-> c]
<1>1. CASE title = "Shortcuts"
  <2>1. load_setting(o, title, key, value) = load_shortcut(o, key, value)
    BY <1>1 DEF load_setting
  <2> DEFINE hotkey == shortcuts_parse(value)
             more == Append(c, [hotkey |-> hotkey, handler |-> key])
  <2>2. [o EXCEPT !.shortcuts = Append(@, [hotkey |-> hotkey, handler |-> key])]
        = [values |-> v, shortcuts |-> more]
    OBVIOUS
  <2>3. Len(o.shortcuts) \in Nat
    BY DEF IsSeq
  <2> DEFINE full == Len(o.shortcuts) >= SHORTCUTS_MAX_COUNT - 1
  <2>4. ~full <=> Len(o.shortcuts) < SHORTCUTS_MAX_COUNT - 1
    BY <2>3, CountAssumption
  <2> HIDE DEF full, more
  <2>5. load_shortcut(o, key, value)
        = CASE value = <<"None">> -> Result(o, "none")
            [] value # <<"None">> /\ full -> Result(o, "overflow")
            [] value # <<"None">> /\ ~full ->
                  IF key \notin handlers      THEN Result(o, "action")
                  ELSE IF hotkey.error # "none" THEN Result(o, hotkey.error)
                  ELSE Result([values |-> v, shortcuts |-> more], "none")
    <3> HIDE DEF hotkey
    <3> QED
      BY <2>2, <2>4 DEF load_shortcut, full, hotkey
  <2> HIDE DEF hotkey
  <2>6. CASE value = <<"None">>
    <3>1. load_shortcut(o, key, value).opts = [values |-> v, shortcuts |-> c]
      BY <2>5, <2>6 DEF Result
    <3> QED
      BY <1>1, <2>1, <2>6, <3>1 DEF Grown
  <2>7. CASE value # <<"None">>
    <3>1. load_shortcut(o, key, value).error = "none"
      BY <1>1, <2>1
    <3>2. load_shortcut(o, key, value)
            \in {Result(o, "overflow"), Result(o, "action"),
                Result(o, hotkey.error),
                Result([values |-> v, shortcuts |-> more], "none")}
      BY <2>5, <2>7
    <3>3. hotkey.error = "none" /\ ~full /\ key \in handlers
      BY <2>5, <2>7, <3>1 DEF Result
    <3>4. load_shortcut(o, key, value).opts = [values |-> v, shortcuts |-> more]
      BY <2>5, <2>7, <3>3 DEF Result
    <3> QED
      BY <1>1, <2>1, <2>7, <3>3, <3>4 DEF Grown, hotkey, more
  <2> QED
    BY <2>6, <2>7
<1>2. CASE title # "Shortcuts"
  <2>1. Valid(key, value[1])
    BY <1>2 DEF load_setting, Result
  <2>2. load_setting(o, title, key, value).opts
        = [o EXCEPT !.values = Put(@, key, value[1])]
    BY <1>2, <2>1 DEF load_setting, Result
  <2>3. [o EXCEPT !.values = Put(@, key, value[1])]
        = [values |-> Put(v, key, value[1]), shortcuts |-> c]
    OBVIOUS
  <2> QED
    BY <1>2, <2>1, <2>2, <2>3
<1> QED
  BY <1>1, <1>2

\* The line of a required key sets it.
LEMMA SettledMore ==
    ASSUME NEW n \in Nat, DOMAIN config = 1 .. n, NEW k \in 0 .. n - 1,
           NEW v, NEW g, Settled(v, g, k),
           NEW s \in 1 .. 6, NEW j \in DOMAIN ParamsOf(s),
           config[k + 1].kind = "param", config[k + 1].key = KeyAt(s, j),
           TitleAt(k + 1) = TitleOf(s),
           NEW x, x = config[k + 1].value[1], Valid(KeyAt(s, j), x)
    PROVE  Settled(Put(v, KeyAt(s, j), x), g \cup {<<s, j>>}, k + 1)
<1> DEFINE w == Put(v, KeyAt(s, j), x)
<1>1. /\ DOMAIN w = {KeyAt(s, j)} \cup DOMAIN v
      /\ w[KeyAt(s, j)] = x
      /\ \A y \in DOMAIN v : y # KeyAt(s, j) => w[y] = v[y]
  BY DEF Put
<1> HIDE DEF w
<1> SUFFICES ASSUME NEW i \in 1 .. 6, NEW l \in DOMAIN ParamsOf(i),
                    <<i, l>> \in g \cup {<<s, j>>}
             PROVE  \E m : LastGiven(i, l, k + 1, m) /\ SetTo(w, i, l, m)
  BY DEF Settled, w
<1> DEFINE given == Given(TitleOf(i), KeyAt(i, l))
<1>2. given \subseteq 1 .. n
  BY DEF Given
<1>3. CASE KeyAt(i, l) = KeyAt(s, j)
  <2>1. <<i, l>> = <<s, j>>
    <3>1. KeyHome[KeyAt(i, l)] = <<i, l>>
      BY OnePlace
    <3>2. KeyHome[KeyAt(s, j)] = <<s, j>>
      BY OnePlace
    <3> QED
      BY <1>3, <3>1, <3>2
  <2>2. i = s
    BY <2>1
  <2>3. k + 1 \in given /\ k + 1 \in 1 .. k + 1
    BY <1>3, <2>2 DEF Given
  <2>4. LastGiven(i, l, k + 1, k + 1)
    BY <2>3 DEF LastGiven
  <2>5. SetTo(w, i, l, k + 1)
    BY <1>1, <1>3 DEF SetTo
  <2> QED
    BY <2>4, <2>5
<1>4. CASE KeyAt(i, l) # KeyAt(s, j)
  <2>1. <<i, l>> # <<s, j>>
    BY <1>4
  <2>2. <<i, l>> \in g
    BY <2>1
  <2>3. PICK m : LastGiven(i, l, k, m) /\ SetTo(v, i, l, m)
    BY <2>2, Zenon DEF Settled
  <2>4. k + 1 \notin given
    BY <1>4 DEF Given
  <2>5. m \in 1 .. k /\ m \in given /\ \A a \in given : a <= k => a <= m
    BY <2>3 DEF LastGiven
  <2>6. m \in 1 .. k + 1 /\ \A a \in given : a <= k + 1 => a <= m
    BY <1>2, <2>4, <2>5
  <2>7. LastGiven(i, l, k + 1, m)
    BY <2>5, <2>6 DEF LastGiven
  <2>8. SetTo(w, i, l, m)
    BY <1>1, <1>4, <2>3 DEF SetTo
  <2> QED
    BY <2>7, <2>8
<1> QED
  BY <1>3, <1>4

\* The line of a shortcut adds it, and no other line does.
LEMMA ListedSame ==
    ASSUME NEW c, NEW k \in Nat, Listed(c, k), ~Asks(k + 1)
    PROVE  Listed(c, k + 1)
<1>1. \A l \in 1 .. k + 1 : l \in 1 .. k \/ l = k + 1
  OBVIOUS
<1>2. \A l \in 1 .. k : l \in 1 .. k + 1
  OBVIOUS
<1> QED
  BY <1>1, <1>2 DEF Listed

LEMMA ListedNext ==
    ASSUME NEW c, NEW d, NEW k \in Nat, Listed(c, k), k + 1 \in DOMAIN config,
           config[k + 1].kind = "param", TitleAt(k + 1) = "Shortcuts",
           Grown(c, d, config[k + 1].key, config[k + 1].value)
    PROVE  Listed(d, k + 1)
<1>1. CASE config[k + 1].value = <<"None">>
  BY <1>1, ListedSame DEF Grown, Asks
<1>2. CASE config[k + 1].value # <<"None">>
  <2> DEFINE x == Entry(k + 1)
  <2>1. /\ Asks(k + 1) /\ d = Append(c, x)
        /\ shortcuts_parse(config[k + 1].value).error = "none"
    BY <1>2 DEF Grown, Asks, Entry
  <2>2. PICK S : c \in Seq(S)
    BY DEF Listed, IsSeq
  <2> HIDE DEF x
  <2>3. c \in Seq(S \cup {x})
    BY <2>2
  <2>4. /\ d \in Seq(S \cup {x}) /\ DOMAIN d = 1 .. Len(c) + 1
        /\ d[Len(c) + 1] = x /\ Len(c) \in Nat /\ DOMAIN c = 1 .. Len(c)
        /\ \A i \in 1 .. Len(c) : d[i] = c[i]
    BY <2>1, <2>3
  <2>5. /\ \A l \in 1 .. k + 1 : l \in 1 .. k \/ l = k + 1
        /\ \A l \in 1 .. k : l \in 1 .. k + 1
        /\ k + 1 \in 1 .. k + 1
    OBVIOUS
  <2>6. /\ \A i \in DOMAIN c : i \in DOMAIN d /\ d[i] = c[i]
        /\ \A i \in DOMAIN d : i \in DOMAIN c \/ d[i] = x
        /\ Len(c) + 1 \in DOMAIN d
    BY <2>4
  <2>7. ASSUME NEW l \in 1 .. k + 1, Asks(l)
        PROVE  /\ shortcuts_parse(config[l].value).error = "none"
               /\ \E i \in DOMAIN d : d[i] = Entry(l)
    <3>1. CASE l = k + 1
      BY <2>1, <2>4, <2>6, <3>1 DEF x
    <3>2. CASE l \in 1 .. k
      <4>1. PICK i \in DOMAIN c : c[i] = Entry(l)
        BY <2>7, <3>2 DEF Listed
      <4> QED
        BY <2>6, <2>7, <3>2, <4>1 DEF Listed
    <3> QED
      BY <2>5, <3>1, <3>2
  <2>8. ASSUME NEW i \in DOMAIN d
        PROVE  \E l \in 1 .. k + 1 : Asks(l) /\ d[i] = Entry(l)
    <3>1. CASE i \in DOMAIN c
      <4>1. PICK l \in 1 .. k : Asks(l) /\ c[i] = Entry(l)
        BY <3>1 DEF Listed
      <4> QED
        BY <2>5, <2>6, <3>1, <4>1
    <3>2. CASE d[i] = x
      BY <2>1, <2>5, <3>2 DEF x
    <3> QED
      BY <2>6, <3>1, <3>2
  <2> QED
    BY <2>4, <2>7, <2>8 DEF Listed, IsSeq
<1> QED
  BY <1>1, <1>2

\* ini_load sets a parameter, or ends.
LEMMA FollowsParam ==
    ASSUME config \in Seq(FileLines), NEW k \in 0 .. Len(config) - 1,
           config[k + 1].kind = "param",
           NEW st, NEW v, NEW c, NEW s \in 0 .. 7, NEW g, st = Well(v, c, s, g),
           Listed(c, k), s # 0 => TitleOf(s) = TitleAt(k), Settled(v, g, k)
    PROVE  Follows(Ini!LoadLine(st, config[k + 1]), k + 1)
<1> DEFINE line == config[k + 1]
           n    == Len(config)
           next == Ini!LoadLine(st, line)
           j    == Ini!SelectInSeq(ParamsOf(s),
                                   LAMBDA p : p.key \in {Ini!AnyKey, line.key})
           to   == load_setting([values |-> v, shortcuts |-> c], TitleOf(s),
                                line.key, line.value)
<1>1. n \in Nat /\ DOMAIN config = 1 .. n /\ k \in Nat
  OBVIOUS
<1>2. /\ st.error = "none" /\ st.section = s
      /\ st.opts = [values |-> v, shortcuts |-> c] /\ st.given = g
  BY DEF Well
<1>3. next = Ini!SetParam(st, line)
  BY <1>2 DEF Ini!LoadLine, Ini!HasSeparator
<1>4. Ini!SetParam(st, line)
      = CASE s = 0            -> [st EXCEPT !.error = "before"]
          [] s # 0 /\ j = 0   -> [st EXCEPT !.error = "key"]
          [] s # 0 /\ j # 0   ->
                [st EXCEPT !.opts = to.opts, !.error = to.error,
                    !.given = IF to.error = "none"
                              THEN @ \cup {<<s, j>>} ELSE @]
  BY <1>2, Zenon DEF Ini!SetParam, ParamsOf, TitleOf
<1> SUFFICES ASSUME next.error = "none" PROVE Follows(next, k + 1)
  BY DEF Follows
<1> HIDE DEF next, line, j, to
<1>5. s # 0
  <2> SUFFICES ASSUME s = 0 PROVE FALSE
    OBVIOUS
  <2>1. next = [st EXCEPT !.error = "before"]
    BY <1>3, <1>4
  <2> QED
    BY <2>1 DEF Well
<1>6. j # 0
  <2> SUFFICES ASSUME j = 0 PROVE FALSE
    OBVIOUS
  <2>1. next = [st EXCEPT !.error = "key"]
    BY <1>3, <1>4, <1>5
  <2> QED
    BY <2>1 DEF Well
<1>7. next = [st EXCEPT !.opts = to.opts, !.error = to.error,
                 !.given = IF to.error = "none"
                           THEN @ \cup {<<s, j>>} ELSE @]
  BY <1>3, <1>4, <1>5, <1>6
<1>8. to.error = "none"
  BY <1>7 DEF Well
<1>9. next = [opts |-> to.opts, section |-> s, given |-> g \cup {<<s, j>>},
              error |-> "none"]
  BY <1>7, <1>8 DEF Well
<1>10. s \in 1 .. 7 /\ TitleOf(s) = TitleAt(k + 1)
  <2>1. TitleAt(k + 1) = TitleAt(k)
    BY <1>1, TitleSteps
  <2> QED
    BY <1>5, <2>1
<1>11. j \in DOMAIN ParamsOf(s) /\ KeyAt(s, j) \in {AnyKey, line.key}
  BY <1>6, <1>10, FoundParam DEF j
<1>12. CASE /\ TitleOf(s) = "Shortcuts"
            /\ \E d : /\ to.opts = [values |-> v, shortcuts |-> d]
                     /\ Grown(c, d, line.key, line.value)
  <2>1. PICK d : /\ to.opts = [values |-> v, shortcuts |-> d]
                 /\ Grown(c, d, line.key, line.value)
    BY <1>12
  <2>2. s = 7
    BY <1>10, <1>12, OnePlace
  <2>3. \A i \in 1 .. 6 : \A l \in DOMAIN ParamsOf(i) :
           k + 1 \notin Given(TitleOf(i), KeyAt(i, l))
    BY <1>10, <1>12, OnePlace DEF Given
  <2>4. Settled(v, g, k + 1)
    BY <1>1, <2>3, SettledNext
  <2>5. Settled(v, g \cup {<<s, j>>}, k + 1)
    <3>1. \A i \in 1 .. 6 : \A l : <<i, l>> \in g \cup {<<s, j>>} => <<i, l>> \in g
      BY <2>2
    <3> QED
      BY <2>4, <3>1 DEF Settled
  <2>6. next = Well(v, d, s, g \cup {<<s, j>>})
    BY <1>9, <2>1 DEF Well
  <2>7. Listed(d, k + 1)
    BY <1>1, <1>10, <1>12, <2>1, ListedNext DEF line
  <2> QED
    BY <1>10, <2>5, <2>6, <2>7 DEF Follows
<1>13. CASE /\ TitleOf(s) # "Shortcuts" /\ Valid(line.key, line.value[1])
            /\ to.opts = [values |-> Put(v, line.key, line.value[1]),
                          shortcuts |-> c]
  <2> DEFINE w == Put(v, line.key, line.value[1])
  <2>1. s \in 1 .. 6
    BY <1>10, <1>13, Table
  <2>2. KeyAt(s, j) = line.key
    BY <1>11, <2>1, OnePlace
  <2>3. Settled(w, g \cup {<<s, j>>}, k + 1)
    BY <1>1, <1>10, <1>11, <1>13, <2>1, <2>2, SettledMore DEF line
  <2> HIDE DEF w
  <2>4. next = Well(w, c, s, g \cup {<<s, j>>})
    BY <1>9, <1>13 DEF Well, w
  <2>5. Listed(c, k + 1)
    BY <1>1, <1>10, <1>13, ListedSame DEF Asks
  <2> QED
    BY <1>10, <2>3, <2>4, <2>5 DEF Follows
<1>14. IsSeq(c)
  BY DEF Listed
<1>15. Accepted(v, c, TitleOf(s), line.key, line.value, to.opts)
  BY <1>8, <1>14, SetterAccepts DEF to
<1> QED
  BY <1>12, <1>13, <1>15 DEF Accepted

LEMMA FollowsNext ==
    ASSUME config \in Seq(FileLines), NEW k \in 0 .. Len(config) - 1,
           NEW st, Follows(st, k)
    PROVE  Follows(Ini!LoadLine(st, config[k + 1]), k + 1)
<1> DEFINE line == config[k + 1]
           next == Ini!LoadLine(st, line)
<1>1. /\ Len(config) \in Nat /\ DOMAIN config = 1 .. Len(config) /\ k \in Nat
      /\ k + 1 \in 1 .. Len(config)
  OBVIOUS
<1>2. line.kind \in {"skipped", "single", "ambiguous", "section", "param"}
  <2>1. line \in FileLines
    BY <1>1, ElementOfSeq, Zenon
  <2> HIDE DEF line
  <2> QED
    BY <2>1 DEF FileLines, Skipped, Single, Ambiguous
<1>3. CASE st.error # "none"
  BY <1>3 DEF Follows, Ini!LoadLine
<1>4. CASE st.error = "none"
  <2>1. PICK v, c, s, g : /\ st = Well(v, c, s, g) /\ Listed(c, k) /\ s \in 0 .. 7
                          /\ s # 0 => TitleOf(s) = TitleAt(k)
                          /\ Settled(v, g, k)
    BY <1>4 DEF Follows
  <2>2. ASSUME line.kind # "param"
        PROVE  Settled(v, g, k + 1) /\ Listed(c, k + 1)
    <3>1. \A i \in 1 .. 6 : \A j \in DOMAIN ParamsOf(i) :
             k + 1 \notin Given(TitleOf(i), KeyAt(i, j))
      BY <2>2 DEF Given
    <3>2. ~Asks(k + 1)
      BY <2>2 DEF Asks
    <3> QED
      BY <1>1, <2>1, <3>1, <3>2, SettledNext, ListedSame
  <2>3. CASE line.kind \in {"skipped", "single"}
    <3>1. next = st
      BY <1>4, <2>3 DEF Ini!LoadLine
    <3>2. TitleAt(k + 1) = TitleAt(k)
      BY <1>1, <2>3, TitleSteps
    <3> QED
      BY <2>1, <2>2, <2>3, <3>1, <3>2 DEF Follows
  <2>4. CASE line.kind = "section"
    <3> DEFINE i == Ini!SelectInSeq(daemon_sections,
                                    LAMBDA t : t.title = line.title)
    <3>1. next = IF i = 0 THEN [st EXCEPT !.section = 0, !.error = "section"]
                 ELSE [st EXCEPT !.section = i]
      BY <1>4, <2>4 DEF Ini!LoadLine, Ini!EnterSection
    <3>2. TitleAt(k + 1) = line.title
      BY <1>1, <2>4, TitleSteps
    <3>3. i # 0 => i \in 1 .. 7 /\ TitleOf(i) = line.title
      BY Found
    <3> SUFFICES Follows(next, k + 1)
      OBVIOUS
    <3> HIDE DEF i, next, line
    <3>4. CASE i = 0
      <4>1. next.error # "none"
        BY <2>1, <3>1, <3>4 DEF Well
      <4> QED
        BY <4>1 DEF Follows
    <3>5. CASE i # 0
      <4>1. next = Well(v, c, i, g)
        BY <2>1, <3>1, <3>5 DEF Well
      <4>2. i \in 0 .. 7 /\ TitleOf(i) = TitleAt(k + 1)
        BY <3>2, <3>3, <3>5
      <4>3. Settled(v, g, k + 1) /\ Listed(c, k + 1)
        BY <2>2, <2>4
      <4> QED
        BY <2>1, <4>1, <4>2, <4>3 DEF Follows
    <3> QED
      BY <3>4, <3>5
  <2>5. CASE line.kind = "ambiguous"
    <3>1. next = [st EXCEPT !.error = "ambiguous"]
      BY <1>4, <2>5 DEF Ini!LoadLine, Ini!HasSeparator
    <3>2. next.error # "none"
      <4> HIDE DEF next
      <4> QED
        BY <2>1, <3>1 DEF Well
    <3> QED
      BY <3>2 DEF Follows
  <2>6. CASE line.kind = "param"
    BY <2>1, <2>6, FollowsParam
  <2> QED
    BY <1>2, <2>3, <2>4, <2>5, <2>6
<1> QED
  BY <1>3, <1>4

\* A file that is loaded without an error settles everything.
LEMMA LoadedSettled ==
    ASSUME config \in Seq(FileLines) \cup {NoFile},
           options_config_load(config).error = "none"
    PROVE  \E g : /\ Settled(options_config_load(config).opts.values, g,
                             Len(config))
                  /\ Listed(options_config_load(config).opts.shortcuts,
                            Len(config))
                  /\ \A i \in 1 .. 6 : \A j \in DOMAIN ParamsOf(i) :
                        <<i, j>> \in g
                  /\ config \in Seq(FileLines)
<1> DEFINE load == options_config_load(config)
           n    == Len(config)
<1>1. config # NoFile
  <2> SUFFICES ASSUME config = NoFile PROVE FALSE
    OBVIOUS
  <2>1. load.error = "open"
    BY DEF options_config_load, Ini!ini_load, Ini!NoFile, NoFile, Ini!StartLoad
  <2> QED
    BY <2>1
<1>2. config \in Seq(FileLines) /\ n \in Nat /\ DOMAIN config = 1 .. n
  <2>1. config \in Seq(FileLines)
    BY <1>1
  <2> QED
    BY <2>1
<1>3. PICK h : Loads(h, config, n, NoSettings) /\ load = Ending(h[n])
  BY <1>1, <1>2, LoadRun, Zenon DEF options_config_load
<1>4. Follows(h[n], n)
  <2> DEFINE S == {k \in 0 .. n : Follows(h[k], k)}
  <2>1. 0 \in S
    BY <1>2, <1>3, FollowsFirst DEF Loads
  <2>2. ASSUME NEW k \in 0 .. n - 1, k \in S PROVE k + 1 \in S
    <3>1. k + 1 \in 1 .. n /\ k + 1 \in 0 .. n /\ (k + 1) - 1 = k
      BY <1>2
    <3>2. h[k + 1] = Ini!LoadLine(h[k], config[k + 1])
      <4>1. h[k + 1] = Ini!LoadLine(h[(k + 1) - 1], config[k + 1])
        BY <1>3, <3>1, Zenon DEF Loads
      <4> QED
        BY <3>1, <4>1
    <3>3. Follows(h[k], k)
      BY <2>2
    <3>4. Follows(h[k + 1], k + 1)
      BY <1>2, <3>2, <3>3, FollowsNext
    <3> QED
      BY <3>1, <3>4
  <2> HIDE DEF S
  <2>3. n \in S
    BY <1>2, <2>1, <2>2, CountUp
  <2> QED
    BY <2>3 DEF S
<1> HIDE DEF load
<1>5. load.error = "none"
  BY DEF load
<1>6. h[n].error = "none"
  BY <1>3, <1>5 DEF Ending
<1>7. PICK v, c, s, g : /\ h[n] = Well(v, c, s, g) /\ Settled(v, g, n)
                        /\ Listed(c, n)
  BY <1>4, <1>6 DEF Follows
<1>8. Ini!Complete(h[n])
  <2> SUFFICES ASSUME ~Ini!Complete(h[n]) PROVE FALSE
    OBVIOUS
  <2>1. load = [h[n] EXCEPT !.error = "required"]
    BY <1>3, <1>6 DEF Ending
  <2> QED
    BY <1>5, <1>7, <2>1 DEF Well
<1>9. load = h[n] /\ load.opts.values = v /\ load.opts.shortcuts = c
  BY <1>3, <1>7, <1>8 DEF Ending, Well
<1>10. \A i \in 1 .. 6 : \A j \in DOMAIN ParamsOf(i) : <<i, j>> \in g
  <2> SUFFICES ASSUME NEW i \in 1 .. 6, NEW j \in DOMAIN ParamsOf(i)
               PROVE  <<i, j>> \in g
    OBVIOUS
  <2>1. i \in DOMAIN daemon_sections /\ ParamsOf(i)[j].expected
    <3>1. \E m : Requires(i, m)
      BY Table
    <3> QED
      BY <3>1, Table DEF Requires
  <2>2. h[n].given = g
    BY <1>7 DEF Well
  <2> QED
    BY <1>8, <2>1, <2>2 DEF Ini!Complete, ParamsOf
<1> QED
  BY <1>2, <1>7, <1>9, <1>10 DEF load

\* What the daemon has is what the load of its file made.
SettingsOK ==
    /\ config \in ConfigFiles
    /\ daemon \in {"config", "up"} =>
          /\ options_config_load(config).error = "none"
          /\ settings = options_config_load(config).opts
    /\ daemon = "up" =>
          grabbed = UNION {grab_hotkey(settings.shortcuts[i].hotkey) :
                              i \in DOMAIN settings.shortcuts}

LEMMA SettingsCorrect == Spec => []SettingsOK
<1>1. Init => SettingsOK
  BY DEF Init, SettingsOK
<1>2. SettingsOK /\ [Next]_vars => SettingsOK'
  <2> SUFFICES ASSUME SettingsOK, [Next]_vars PROVE SettingsOK'
    OBVIOUS
  <2>1. CASE LoadConfig
    BY <2>1 DEF LoadConfig, SettingsOK
  <2>2. CASE GrabHotkeys
    BY <2>2 DEF GrabHotkeys, SettingsOK
  <2>3. CASE LoadPassword \/ Stop \/ EditConfig
    BY <2>3 DEF LoadPassword, Stop, EditConfig, SettingsOK
  <2>4. CASE Passwd \/ PasswdWrites \/ PasswdDies \/ UNCHANGED vars
    BY <2>4 DEF Passwd, PasswdWrites, PasswdDies, vars, SettingsOK
  <2> QED
    BY <2>1, <2>2, <2>3, <2>4 DEF Next
<1> QED
  BY <1>1, <1>2, PTL DEF Spec

LEMMA SettingsConfigured == SettingsOK => Configured
<1> SUFFICES ASSUME SettingsOK, daemon \in {"config", "up"},
                    NEW i \in DOMAIN daemon_sections,
                    NEW p \in Range(daemon_sections[i].params), p.key # AnyKey
             PROVE  LET given == Given(TitleOf(i), p.key)
                    IN  /\ given # {}
                        /\ settings.values[p.key] = config[Max(given)].value[1]
                        /\ Valid(p.key, settings.values[p.key])
  BY DEF Configured, TitleOf
<1>1. PICK j \in DOMAIN ParamsOf(i) : p = ParamsOf(i)[j]
  BY DEF Range, ParamsOf
<1>2. p.key = KeyAt(i, j)
  BY <1>1 DEF KeyAt
<1>3. i \in 1 .. 6
  <2>1. i \in 1 .. 7
    BY Table
  <2>2. i # 7
    BY <1>1, <1>2, OnePlace
  <2> QED
    BY <2>1, <2>2
<1>4. config \in Seq(FileLines) \cup {NoFile}
  BY ConfigFilesAssumption DEF SettingsOK
<1>5. PICK g : /\ Settled(settings.values, g, Len(config))
               /\ <<i, j>> \in g /\ config \in Seq(FileLines)
  BY <1>1, <1>3, <1>4, LoadedSettled DEF SettingsOK
<1>6. PICK m : LastGiven(i, j, Len(config), m) /\ SetTo(settings.values, i, j, m)
  BY <1>1, <1>3, <1>5, Zenon DEF Settled
<1> DEFINE given == Given(TitleOf(i), KeyAt(i, j))
<1>7. given \in SUBSET (1 .. m) /\ m \in given /\ m \in Nat
  <2>1. given \subseteq 1 .. Len(config) /\ Len(config) \in Nat
    BY <1>5 DEF Given
  <2>2. /\ m \in 1 .. Len(config) /\ m \in given
        /\ \A l \in given : l <= Len(config) => l <= m
    BY <1>6 DEF LastGiven
  <2> HIDE DEF given
  <2> QED
    BY <2>1, <2>2
<1>8. Max(given) = m
  <2> HIDE DEF given
  <2> QED
    BY <1>7, GreatestOf
<1> QED
  BY <1>2, <1>6, <1>7, <1>8 DEF SetTo

\* A daemon that starts has a value for every setting, the last valid one that
\* its file gives in the setting's section, whatever the file is.
THEOREM EverythingConfigured == Spec => []Configured
BY SettingsCorrect, SettingsConfigured, PTL

-----------------------------------------------------------------------------
(* The shortcuts: what is grabbed for those that a file asks for.          *)

\* A modifier that is spelt out is taken for itself.
LEMMA ModifierOf == \A i \in 1 .. 8 : Modifier(modifier_records[i]) = i
<1> SUFFICES ASSUME NEW i \in 1 .. 8 PROVE Modifier(modifier_records[i]) = i
  OBVIOUS
<1> DEFINE word == modifier_records[i]
           I == {k \in 1 .. 8 : Begins(word, modifier_records[k])}
<1>1. Modifier(word) = IF I = {} THEN 0 ELSE Min(I)
  BY Records DEF Modifier, SelectInSeq
<1>2. I = IF i = 4 THEN {4, 6} ELSE {i}
  <2>1. \A k \in 1 .. 8 : Begins(word, modifier_records[k])
           <=> i = k \/ (i = 4 /\ k = 6)
    <3> SUFFICES ASSUME NEW k \in 1 .. 8
                 PROVE  Begins(word, modifier_records[k])
                          <=> i = k \/ (i = 4 /\ k = 6)
      OBVIOUS
    <3>1. word \in Modifiers /\ modifier_records[k] \in Modifiers
      BY Records
    <3>2. Begins(word, modifier_records[k])
            <=> word = modifier_records[k]
                \/ (word = "Alt" /\ modifier_records[k] = "AltLang")
      BY <3>1, TitlesAssumption
    <3>3. /\ word = modifier_records[k] <=> i = k
          /\ word = "Alt" <=> i = 4
          /\ modifier_records[k] = "AltLang" <=> k = 6
      BY Records
    <3> QED
      BY <3>2, <3>3
  <2> QED
    BY <2>1
<1> HIDE DEF word, I
<1>3. Min({4, 6}) = 4 /\ Min({i}) = i
  BY DEF Min
<1> QED
  BY <1>1, <1>2, <1>3 DEF word

LEMMA Parsed ==
    ASSUME NEW words \in Seq(STRING) \ {<<>>},
           Range(Front(words)) \subseteq Modifiers,
           shortcuts_parse(words).error = "none"
    PROVE  /\ shortcuts_parse(words).modifiers = Range(Front(words))
           /\ shortcuts_parse(words).keycodes = Keycodes[Last(words)]
<1> DEFINE n == Len(words) - 1
           mods == [i \in 1 .. n |-> Modifier(words[i])]
           key == words[Len(words)]
<1>1. /\ DOMAIN Front(words) = 1 .. n
      /\ \A i \in 1 .. n : words[i] = Front(words)[i]
  BY DEF Front
<1>2. Range(Front(words)) = {words[i] : i \in 1 .. n}
  <2>1. Range(Front(words)) = {Front(words)[i] : i \in 1 .. n}
    BY <1>1 DEF Range
  <2> QED
    BY <1>1, <2>1
<1>3. \A i \in 1 .. n : words[i] \in Modifiers
  BY <1>2
<1>4. \A i \in 1 .. n : /\ mods[i] \in 1 .. 8
                        /\ modifier_records[mods[i]] = words[i]
  <2> SUFFICES ASSUME NEW i \in 1 .. n
               PROVE  mods[i] \in 1 .. 8 /\ modifier_records[mods[i]] = words[i]
    OBVIOUS
  <2>1. PICK k \in 1 .. 8 : words[i] = modifier_records[k]
    BY <1>3, Records
  <2>2. mods[i] = Modifier(words[i])
    OBVIOUS
  <2> QED
    BY <2>1, <2>2, ModifierOf
<1>5. DOMAIN mods = 1 .. n /\ Range(mods) = {mods[i] : i \in 1 .. n}
  BY DEF Range
<1>6. shortcuts_parse(words)
      = CASE 0 \in Range(mods) -> [error |-> "modifier"]
          [] 0 \notin Range(mods) /\ key \notin DOMAIN Keycodes ->
                [error |-> "key"]
          [] 0 \notin Range(mods) /\ key \in DOMAIN Keycodes ->
                [error |-> "none", keycodes |-> Keycodes[key],
                 modifiers |-> {modifier_records[i] : i \in Range(mods)}]
  BY DEF shortcuts_parse
<1> HIDE DEF mods, key
<1>7. 0 \notin Range(mods)
  BY <1>4, <1>5
<1>8. key \in DOMAIN Keycodes
  BY <1>6, <1>7
<1>9. shortcuts_parse(words)
      = [error |-> "none", keycodes |-> Keycodes[key],
         modifiers |-> {modifier_records[i] : i \in Range(mods)}]
  BY <1>6, <1>7, <1>8
<1>10. {modifier_records[i] : i \in Range(mods)} = {words[i] : i \in 1 .. n}
  BY <1>4, <1>5
<1>11. Last(words) = key
  BY DEF Last, key
<1>12. /\ shortcuts_parse(words).modifiers = {modifier_records[i] : i \in Range(mods)}
       /\ shortcuts_parse(words).keycodes = Keycodes[key]
  BY <1>9
<1> QED
  BY <1>2, <1>10, <1>11, <1>12

\* A key is grabbed with the modifiers of the hotkey and any of the locks.
LEMMA Grabs ==
    ASSUME NEW hotkey, hotkey.modifiers \subseteq Modifiers,
           NEW held \in SUBSET Modifiers, NEW code
    PROVE  <<held, code>> \in grab_hotkey(hotkey)
             <=> /\ hotkey.modifiers \subseteq held
                 /\ held \ hotkey.modifiers \subseteq EXTRA_MODIFIERS
                 /\ code \in hotkey.keycodes
<1> DEFINE m == hotkey.modifiers
           rem == EXTRA_MODIFIERS \ m
<1>1. {Bits(s) : s \in Submasks(rem)} = SUBSET rem
  <2>1. rem \in SUBSET Modifiers
    BY DEF EXTRA_MODIFIERS, Modifiers, MOD_MASK
  <2> HIDE DEF rem
  <2> QED
    BY <2>1, EverySubmask
<1>2. grab_hotkey(hotkey) = {<<m \cup Bits(s), c>> :
                               s \in Submasks(rem), c \in hotkey.keycodes}
  BY DEF grab_hotkey
<1> HIDE DEF m, rem
<1>3. <<held, code>> \in grab_hotkey(hotkey)
        <=> /\ \E s \in Submasks(rem) : held = m \cup Bits(s)
            /\ code \in hotkey.keycodes
  BY <1>2
<1>4. (\E s \in Submasks(rem) : held = m \cup Bits(s))
        <=> \E e \in SUBSET rem : held = m \cup e
  BY <1>1
<1>5. (\E e \in SUBSET rem : held = m \cup e)
        <=> m \subseteq held /\ held \ m \subseteq EXTRA_MODIFIERS
  <2>1. ASSUME m \subseteq held, held \ m \subseteq EXTRA_MODIFIERS
        PROVE  \E e \in SUBSET rem : held = m \cup e
    <3>1. held \ m \in SUBSET rem /\ held = m \cup (held \ m)
      BY <2>1 DEF rem
    <3> QED
      BY <3>1
  <2> QED
    BY <2>1 DEF rem
<1> QED
  BY <1>3, <1>4, <1>5 DEF m

\* What a line asks for.
Wish(l) == [handler |-> config[l].key,
            mods    |-> Range(Front(config[l].value)),
            codes   |-> Keycodes[Last(config[l].value)]]

LEMMA EntryWish ==
    ASSUME config \in Seq(FileLines), NEW l, Asks(l),
           Wish(l).mods \subseteq Modifiers,
           shortcuts_parse(config[l].value).error = "none"
    PROVE  /\ Entry(l).handler = Wish(l).handler
           /\ Entry(l).hotkey.modifiers = Wish(l).mods
           /\ Entry(l).hotkey.keycodes = Wish(l).codes
<1>1. config[l] \in FileLines
  BY ElementOfSeq DEF Asks
<1>2. config[l].value \in Seq(STRING) \ {<<>>}
  BY <1>1 DEF Asks, FileLines, Skipped, Single, Ambiguous
<1>3. /\ shortcuts_parse(config[l].value).modifiers = Wish(l).mods
      /\ shortcuts_parse(config[l].value).keycodes = Wish(l).codes
  BY <1>2, Parsed DEF Wish
<1> QED
  BY <1>3 DEF Entry, Wish

LEMMA SettingsAsWritten == SettingsOK => ShortcutsAsWritten
<1> SUFFICES ASSUME SettingsOK, daemon = "up",
                    \A s \in Asked : s.mods \subseteq Modifiers,
                    NEW held \in SUBSET Modifiers, NEW code
             PROVE  LET asks == {s \in Asked : /\ code \in s.codes
                                               /\ s.mods \subseteq held}
                        here == \E s \in asks :
                                   held \ s.mods \subseteq EXTRA_MODIFIERS
                    IN  /\ <<held, code>> \in grabbed <=> here
                        /\ here => Called(settings.shortcuts, held, code)
                                    = {s.handler : s \in asks}
  BY DEF ShortcutsAsWritten
<1> DEFINE asks == {s \in Asked : code \in s.codes /\ s.mods \subseteq held}
           here == \E s \in asks : held \ s.mods \subseteq EXTRA_MODIFIERS
           c == settings.shortcuts
<1>1. config \in Seq(FileLines) /\ Listed(c, Len(config))
  <2>1. config \in Seq(FileLines) \cup {NoFile}
    BY ConfigFilesAssumption DEF SettingsOK
  <2> QED
    BY <2>1, LoadedSettled DEF SettingsOK
<1>2. Asked = {Wish(l) : l \in {j \in DOMAIN config : Asks(j)}}
  BY DEF Asked, Wish, Asks
<1>3. ASSUME NEW l, Asks(l)
      PROVE  /\ Wish(l) \in Asked /\ Wish(l).mods \subseteq Modifiers
             /\ shortcuts_parse(config[l].value).error = "none"
             /\ Entry(l).handler = Wish(l).handler
             /\ Entry(l).hotkey.modifiers = Wish(l).mods
             /\ Entry(l).hotkey.keycodes = Wish(l).codes
             /\ \E i \in DOMAIN c : c[i] = Entry(l)
  <2>1. Wish(l) \in Asked
    BY <1>2, <1>3 DEF Asks
  <2>2. l \in 1 .. Len(config)
    BY <1>1, <1>3 DEF Asks
  <2>3. /\ shortcuts_parse(config[l].value).error = "none"
        /\ \E i \in DOMAIN c : c[i] = Entry(l)
    BY <1>1, <1>3, <2>2 DEF Listed
  <2>4. Wish(l).mods \subseteq Modifiers
    BY <2>1
  <2> QED
    BY <1>1, <1>3, <2>1, <2>3, <2>4, EntryWish
<1>4. ASSUME NEW i \in DOMAIN c
      PROVE  \E s \in Asked : /\ c[i].handler = s.handler
                              /\ c[i].hotkey.modifiers = s.mods
                              /\ c[i].hotkey.keycodes = s.codes
  <2>1. PICK l : Asks(l) /\ c[i] = Entry(l)
    BY <1>1 DEF Listed
  <2> QED
    BY <1>3, <2>1
<1>5. ASSUME NEW s \in Asked
      PROVE  \E i \in DOMAIN c : /\ c[i].handler = s.handler
                                 /\ c[i].hotkey.modifiers = s.mods
                                 /\ c[i].hotkey.keycodes = s.codes
  <2>1. PICK l : Asks(l) /\ s = Wish(l)
    BY <1>2
  <2>2. PICK i \in DOMAIN c : c[i] = Entry(l)
    BY <1>3, <2>1
  <2> QED
    BY <1>3, <2>1, <2>2
<1>6. <<held, code>> \in grabbed
        <=> \E i \in DOMAIN c : <<held, code>> \in grab_hotkey(c[i].hotkey)
  BY DEF SettingsOK
<1> HIDE DEF c
<1>7. ASSUME NEW i \in DOMAIN c
      PROVE  <<held, code>> \in grab_hotkey(c[i].hotkey)
               <=> /\ c[i].hotkey.modifiers \subseteq held
                   /\ held \ c[i].hotkey.modifiers \subseteq EXTRA_MODIFIERS
                   /\ code \in c[i].hotkey.keycodes
  <2>1. c[i].hotkey.modifiers \subseteq Modifiers
    BY <1>4
  <2> QED
    BY <2>1, Grabs
<1>8. <<held, code>> \in grabbed <=> here
  BY <1>4, <1>5, <1>6, <1>7
<1>9. Called(c, held, code) = {s.handler : s \in asks}
  <2>1. Called(c, held, code)
        = {c[i].handler : i \in {j \in DOMAIN c :
                             /\ c[j].hotkey.modifiers \subseteq held
                             /\ code \in c[j].hotkey.keycodes}}
    BY DEF Called, Calls
  <2> QED
    BY <1>4, <1>5, <2>1
<1> QED
  BY <1>8, <1>9 DEF c

\* The keys that a daemon has grabbed, and the handlers that a release runs,
\* are those of the shortcuts its file asks for, whatever the file is and
\* whatever keys the X server has.
THEOREM KeysAsWritten == Spec => []ShortcutsAsWritten
BY SettingsCorrect, SettingsAsWritten, PTL
=============================================================================
