--------------------------- MODULE SimpleDbProofs ---------------------------
(***************************************************************************)
(* Theorems about SimpleDb, for any set of keys and any values.            *)
(***************************************************************************)
EXTENDS SimpleDb, WellFoundedInduction, TLAPS

-----------------------------------------------------------------------------
(* The order of keys                                                       *)

\* A set of numbers has a smallest one.
LEMMA Smallest ==
  ASSUME NEW S, S \subseteq Nat, S # {}
  PROVE  \E x \in S : \A y \in S : x <= y
  <1> DEFINE R == OpToRel(<, Nat)
  <1>1. IsWellFoundedOn(R, Nat)
    BY NatLessThanWellFounded
  <1> HIDE DEF R
  <1>2. PICK x \in S : \A y \in S : ~(<<y, x>> \in R)
    BY <1>1, WFMin
  <1>3. \A y \in S : ~(y < x)
    BY <1>2 DEF R, OpToRel
  <1> QED
    BY <1>3

\* A set that has 0, and with a number below n its successor, has all up to n.
LEMMA UpTo ==
  ASSUME NEW n \in Nat, NEW P, 0 \in P, \A i \in 0 .. n - 1 : i \in P => i + 1 \in P
  PROVE  \A i \in 0 .. n : i \in P
  <1> DEFINE S == {i \in 0 .. n : i \notin P}
  <1>1. SUFFICES ASSUME S # {} PROVE FALSE
    OBVIOUS
  <1>2. S \subseteq Nat
    OBVIOUS
  <1>3. PICK x \in S : \A y \in S : x <= y
    BY <1>1, <1>2, Smallest
  <1>4. x # 0 /\ x \in 0 .. n /\ x \notin P
    BY <1>3
  <1>5. x - 1 \in 0 .. n - 1 /\ x - 1 \notin S
    BY <1>3, <1>4
  <1>6. x - 1 \in P /\ (x - 1) + 1 = x
    BY <1>4, <1>5
  <1> QED
    BY <1>4, <1>5, <1>6

Bytestring == Seq(Nat)

\* The place of the first difference decides.
DiffersAt(a, b, i) ==
  i \in 1 .. Len(a) /\ i \in 1 .. Len(b) /\ a[i] # b[i] /\ \A j \in 1 .. i - 1 : a[j] = b[j]

\* b goes on where a ends.
GoesOn(a, b) == Len(a) < Len(b) /\ \A i \in 1 .. Len(a) : a[i] = b[i]

\* Two keys differ at a first place, or one goes on after the other.
LEMMA Comparison ==
  ASSUME NEW a \in Bytestring, NEW b \in Bytestring
  PROVE  \/ a = b
         \/ GoesOn(a, b) \/ GoesOn(b, a)
         \/ \E i \in Nat : DiffersAt(a, b, i)
  <1> DEFINE D == {i \in DOMAIN a \cap DOMAIN b : a[i] # b[i]}
  <1>1. CASE D = {}
    <2>1. \A i \in DOMAIN a \cap DOMAIN b : a[i] = b[i]
      BY <1>1
    <2>2. CASE Len(a) = Len(b)
      BY <2>1, <2>2 DEF Bytestring
    <2>3. CASE Len(a) < Len(b)
      BY <2>1, <2>3 DEF Bytestring, GoesOn
    <2>4. CASE Len(b) < Len(a)
      BY <2>1, <2>4 DEF Bytestring, GoesOn
    <2> QED
      BY <2>2, <2>3, <2>4 DEF Bytestring
  <1>2. CASE D # {}
    <2>1. D \subseteq Nat
      BY DEF Bytestring
    <2>2. PICK i \in D : \A j \in D : i <= j
      BY <1>2, <2>1, Smallest
    <2>3. \A j \in 1 .. i - 1 : j \in DOMAIN a \cap DOMAIN b /\ j \notin D
      BY <2>2 DEF Bytestring
    <2> QED
      BY <2>1, <2>2, <2>3 DEF DiffersAt
  <1> QED
    BY <1>1, <1>2

\* What memcmp answers
LEMMA MemcmpFacts ==
  ASSUME NEW a \in Bytestring, NEW b \in Bytestring
  PROVE  /\ a = b \/ GoesOn(a, b) \/ GoesOn(b, a) => memcmp(a, b) = 0
         /\ \A i \in Nat : DiffersAt(a, b, i) => memcmp(a, b) = IF a[i] < b[i] THEN -1 ELSE 1
  <1> DEFINE D == {i \in DOMAIN a \cap DOMAIN b : a[i] # b[i]}
             m == CHOOSE i \in D : \A j \in D : i <= j
  <1>1. memcmp(a, b) = IF D = {} THEN 0 ELSE IF a[m] < b[m] THEN -1 ELSE 1
    BY DEF memcmp
  <1>2. ASSUME a = b \/ GoesOn(a, b) \/ GoesOn(b, a) PROVE memcmp(a, b) = 0
    <2>1. D = {}
      BY <1>2 DEF GoesOn
    <2> QED
      BY <1>1, <2>1
  <1>3. ASSUME NEW i \in Nat, DiffersAt(a, b, i)
        PROVE memcmp(a, b) = IF a[i] < b[i] THEN -1 ELSE 1
    <2>1. i \in D /\ D \subseteq Nat \ {0}
      BY <1>3 DEF DiffersAt, Bytestring
    <2>2. \A j \in D : i <= j
      BY <1>3, <2>1 DEF DiffersAt
    <2>3. m \in D /\ \A j \in D : m <= j
      <3> HIDE DEF D
      <3> QED BY <2>1, <2>2
    <2>4. m = i
      BY <2>1, <2>2, <2>3
    <2> HIDE DEF m, D
    <2> QED
      BY <1>1, <2>1, <2>4
  <1> QED
    BY <1>2, <1>3

\* What keycmp answers, in terms of the first difference
LEMMA KeycmpCases ==
  ASSUME NEW a \in Bytestring, NEW b \in Bytestring
  PROVE  /\ a = b => keycmp(a, b) = 0
         /\ GoesOn(a, b) => keycmp(a, b) = -1
         /\ GoesOn(b, a) => keycmp(a, b) = 1
         /\ \A i \in Nat : DiffersAt(a, b, i) => keycmp(a, b) = IF a[i] < b[i] THEN -1 ELSE 1
  <1>1. Len(a) \in Nat /\ Len(b) \in Nat
    BY DEF Bytestring
  <1>2. ASSUME a = b PROVE keycmp(a, b) = 0
    BY <1>1, <1>2, MemcmpFacts DEF keycmp
  <1>3. ASSUME GoesOn(a, b) PROVE keycmp(a, b) = -1
    <2>1. memcmp(a, b) = 0 /\ Len(a) < Len(b)
      BY <1>3, MemcmpFacts DEF GoesOn
    <2> QED
      BY <1>1, <2>1 DEF keycmp
  <1>4. ASSUME GoesOn(b, a) PROVE keycmp(a, b) = 1
    <2>1. memcmp(a, b) = 0 /\ Len(b) < Len(a)
      BY <1>4, MemcmpFacts DEF GoesOn
    <2> QED
      BY <1>1, <2>1 DEF keycmp
  <1>5. ASSUME NEW i \in Nat, DiffersAt(a, b, i)
        PROVE keycmp(a, b) = IF a[i] < b[i] THEN -1 ELSE 1
    <2>1. memcmp(a, b) = IF a[i] < b[i] THEN -1 ELSE 1
      BY <1>5, MemcmpFacts
    <2> QED
      BY <2>1 DEF keycmp
  <1> QED
    BY <1>2, <1>3, <1>4, <1>5

Less(a, b) == keycmp(a, b) < 0

\* When a key is less than another
LEMMA LessIff ==
  ASSUME NEW a \in Bytestring, NEW b \in Bytestring
  PROVE  Less(a, b) <=> GoesOn(a, b) \/ \E i \in Nat : DiffersAt(a, b, i) /\ a[i] < b[i]
  <1>1. ASSUME NEW i \in Nat, DiffersAt(a, b, i), a[i] < b[i] PROVE Less(a, b)
    BY <1>1, KeycmpCases DEF Less
  <1>2. ASSUME GoesOn(a, b) PROVE Less(a, b)
    BY <1>2, KeycmpCases DEF Less
  <1>3. ASSUME Less(a, b), ~GoesOn(a, b) PROVE \E i \in Nat : DiffersAt(a, b, i) /\ a[i] < b[i]
    <2>1. a # b /\ ~GoesOn(b, a)
      BY <1>3, KeycmpCases DEF Less
    <2>2. PICK i \in Nat : DiffersAt(a, b, i)
      BY <1>3, <2>1, Comparison
    <2>3. a[i] < b[i]
      BY <1>3, <2>2, KeycmpCases DEF Less
    <2> QED
      BY <2>2, <2>3
  <1> QED
    BY <1>1, <1>2, <1>3

LEMMA LessTrans ==
  ASSUME NEW a \in Bytestring, NEW b \in Bytestring, NEW c \in Bytestring,
         Less(a, b), Less(b, c)
  PROVE  Less(a, c)
  <1>0. /\ Len(a) \in Nat /\ Len(b) \in Nat /\ Len(c) \in Nat
        /\ \A i \in 1 .. Len(a) : a[i] \in Nat
        /\ \A i \in 1 .. Len(b) : b[i] \in Nat
        /\ \A i \in 1 .. Len(c) : c[i] \in Nat
    BY DEF Bytestring
  <1>1. CASE GoesOn(a, b)
    <2>1. CASE GoesOn(b, c)
      <3>1. GoesOn(a, c)
        BY <1>0, <1>1, <2>1 DEF GoesOn
      <3> QED
        BY <3>1, LessIff
    <2>2. ASSUME NEW i \in Nat, DiffersAt(b, c, i), b[i] < c[i] PROVE Less(a, c)
      <3>1. CASE i <= Len(a)
        <4>1. i \in 1 .. Len(a) /\ i \in 1 .. Len(c) /\ a[i] = b[i]
          BY <1>0, <1>1, <2>2, <3>1 DEF GoesOn, DiffersAt
        <4>2. \A j \in 1 .. i - 1 : a[j] = c[j]
          BY <1>0, <1>1, <2>2, <3>1, <4>1 DEF GoesOn, DiffersAt
        <4>3. DiffersAt(a, c, i) /\ a[i] < c[i]
          BY <1>0, <2>2, <4>1, <4>2 DEF DiffersAt
        <4> QED
          BY <4>3, LessIff
      <3>2. CASE ~(i <= Len(a))
        <4>1. GoesOn(a, c)
          <5>1. Len(a) < i /\ i <= Len(c)
            BY <1>0, <2>2, <3>2 DEF DiffersAt
          <5>2. \A j \in 1 .. Len(a) : a[j] = b[j] /\ j \in 1 .. i - 1
            BY <1>0, <1>1, <5>1 DEF GoesOn
          <5>3. \A j \in 1 .. Len(a) : a[j] = c[j]
            BY <2>2, <5>2 DEF DiffersAt
          <5> QED
            BY <1>0, <5>1, <5>3 DEF GoesOn
        <4> QED
          BY <4>1, LessIff
      <3> QED
        BY <3>1, <3>2
    <2> QED
      BY <2>1, <2>2, LessIff
  <1>2. ASSUME NEW i \in Nat, DiffersAt(a, b, i), a[i] < b[i] PROVE Less(a, c)
    <2>1. CASE GoesOn(b, c)
      <3>1. i \in 1 .. Len(a) /\ i \in 1 .. Len(b) /\ i \in 1 .. Len(c) /\ b[i] = c[i]
        BY <1>0, <1>2, <2>1 DEF GoesOn, DiffersAt
      <3>2. \A j \in 1 .. i - 1 : a[j] = b[j] /\ j \in 1 .. Len(b)
        BY <1>0, <1>2, <3>1 DEF DiffersAt
      <3>3. \A j \in 1 .. i - 1 : a[j] = c[j]
        BY <1>0, <2>1, <3>2 DEF GoesOn
      <3>4. DiffersAt(a, c, i) /\ a[i] < c[i]
        BY <1>0, <1>2, <3>1, <3>3 DEF DiffersAt
      <3> QED
        BY <3>4, LessIff
    <2>2. ASSUME NEW j \in Nat, DiffersAt(b, c, j), b[j] < c[j] PROVE Less(a, c)
      <3>1. CASE i < j
        <4>1. DiffersAt(a, c, i) /\ a[i] < c[i]
          BY <1>0, <1>2, <2>2, <3>1 DEF DiffersAt
        <4> QED
          BY <4>1, LessIff
      <3>2. CASE i = j
        <4>1. DiffersAt(a, c, i) /\ a[i] < c[i]
          BY <1>0, <1>2, <2>2, <3>2 DEF DiffersAt
        <4> QED
          BY <4>1, LessIff
      <3>3. CASE j < i
        <4>1. DiffersAt(a, c, j) /\ a[j] < c[j]
          BY <1>0, <1>2, <2>2, <3>3 DEF DiffersAt
        <4> QED
          BY <4>1, LessIff
      <3> QED
        BY <3>1, <3>2, <3>3
    <2> QED
      BY <2>1, <2>2, LessIff
  <1> QED
    BY <1>1, <1>2, LessIff

\* keycmp is a total order: its sign tells which key is less, and that only.
LEMMA KeycmpFacts ==
  ASSUME NEW a \in Bytestring, NEW b \in Bytestring
  PROVE  /\ keycmp(a, b) \in {-1, 0, 1}
         /\ keycmp(a, b) < 0 <=> Less(a, b)
         /\ keycmp(a, b) > 0 <=> Less(b, a)
         /\ keycmp(a, b) = 0 <=> a = b
         /\ ~(Less(a, b) /\ Less(b, a)) /\ ~Less(a, a)
  <1>1. ~Less(a, a)
    BY KeycmpCases DEF Less
  <1>2. ~(Less(a, b) /\ Less(b, a))
    BY <1>1, LessTrans
  <1>3. CASE a = b
    BY <1>1, <1>3, KeycmpCases
  <1>4. CASE GoesOn(a, b)
    <2>1. keycmp(a, b) = -1 /\ Less(a, b) /\ ~Less(b, a) /\ a # b
      BY <1>1, <1>2, <1>4, KeycmpCases, LessIff
    <2> QED
      BY <1>1, <2>1
  <1>5. CASE GoesOn(b, a)
    <2>1. keycmp(a, b) = 1 /\ Less(b, a) /\ ~Less(a, b) /\ a # b
      BY <1>1, <1>2, <1>5, KeycmpCases, LessIff
    <2> QED
      BY <1>1, <2>1
  <1>6. ASSUME NEW i \in Nat, DiffersAt(a, b, i)
        PROVE /\ keycmp(a, b) \in {-1, 0, 1}
              /\ keycmp(a, b) < 0 <=> Less(a, b)
              /\ keycmp(a, b) > 0 <=> Less(b, a)
              /\ keycmp(a, b) = 0 <=> a = b
    <2>1. a[i] \in Nat /\ b[i] \in Nat /\ a[i] # b[i] /\ DiffersAt(b, a, i) /\ a # b
      BY <1>6 DEF DiffersAt, Bytestring
    <2>2. CASE a[i] < b[i]
      <3>1. keycmp(a, b) = -1 /\ Less(a, b)
        BY <1>6, <2>2, KeycmpCases, LessIff
      <3> QED
        BY <1>2, <2>1, <3>1
    <2>3. CASE b[i] < a[i]
      <3>1. keycmp(a, b) = 1 /\ Less(b, a)
        <4>1. ~(a[i] < b[i])
          BY <2>1, <2>3
        <4> QED
          BY <1>6, <2>1, <2>3, <4>1, KeycmpCases, LessIff
      <3> QED
        BY <1>2, <2>1, <3>1
    <2> QED
      BY <2>1, <2>2, <2>3
  <1> QED
    BY <1>1, <1>2, <1>3, <1>4, <1>5, <1>6, Comparison

\* The order of the code is the one that the properties speak of.
LEMMA BeforeIsLess ==
  ASSUME NEW a \in Bytestring, NEW b \in Bytestring
  PROVE  Before(a, b) <=> Less(a, b)
  <1> USE DEF Bytestring
  <1>1. IsStrictPrefix(a, b) <=> GoesOn(a, b)
    <2>1. ASSUME IsStrictPrefix(a, b) PROVE GoesOn(a, b)
      <3>1. Len(a) <= Len(b) /\ SubSeq(a, 1, Len(a)) = SubSeq(b, 1, Len(a)) /\ a # b
        BY <2>1 DEF IsStrictPrefix, IsPrefix
      <3>2. \A i \in 1 .. Len(a) : SubSeq(a, 1, Len(a))[i] = a[i] /\ SubSeq(b, 1, Len(a))[i] = b[i]
        BY <3>1
      <3>3. \A i \in 1 .. Len(a) : a[i] = b[i]
        BY <3>1, <3>2
      <3>4. Len(a) # Len(b)
        BY <3>1, <3>3
      <3> QED
        BY <3>1, <3>3, <3>4 DEF GoesOn
    <2>2. ASSUME GoesOn(a, b) PROVE IsStrictPrefix(a, b)
      <3>1. Len(a) < Len(b) /\ \A i \in 1 .. Len(a) : a[i] = b[i]
        BY <2>2 DEF GoesOn
      <3>2. SubSeq(a, 1, Len(a)) = SubSeq(b, 1, Len(a))
        BY <3>1
      <3> QED
        BY <3>1, <3>2 DEF IsStrictPrefix, IsPrefix
    <2> QED
      BY <2>1, <2>2
  <1>2. (\E i \in DOMAIN a \cap DOMAIN b : a[i] < b[i] /\ \A j \in 1 .. i - 1 : a[j] = b[j])
          <=> \E i \in Nat : DiffersAt(a, b, i) /\ a[i] < b[i]
    <2>1. \A i \in DOMAIN a \cap DOMAIN b : i \in Nat /\ a[i] \in Nat /\ b[i] \in Nat
      OBVIOUS
    <2>2. ASSUME NEW i \in DOMAIN a \cap DOMAIN b, a[i] < b[i], \A j \in 1 .. i - 1 : a[j] = b[j]
          PROVE  i \in Nat /\ DiffersAt(a, b, i)
      <3>1. i \in Nat /\ a[i] # b[i]
        BY <2>1, <2>2
      <3> QED
        BY <2>2, <3>1 DEF DiffersAt
    <2>3. ASSUME NEW i \in Nat, DiffersAt(a, b, i)
          PROVE  i \in DOMAIN a \cap DOMAIN b /\ \A j \in 1 .. i - 1 : a[j] = b[j]
      BY <2>3 DEF DiffersAt
    <2> QED
      BY <2>2, <2>3
  <1> QED
    BY <1>1, <1>2, LessIff DEF Before

-----------------------------------------------------------------------------
(* The search by halving.  A recursive function is a function chosen to     *)
(* satisfy its equation: there is one, because pn gets smaller.             *)

\* The value of half at s, if h is half
HalfBody(h, l, kd, s) ==
  LET pn   == s.pn \div 2
      mid  == s.n1 + pn
      res  == keycmp(kd, l[mid].k)
      left == IF res > 0 /\ s.pn % 2 = 0 THEN pn - 1 ELSE pn
  IN  IF res = 0 \/ pn = 0 \/ left = 0 THEN [res |-> res, node |-> l[mid].k]
      ELSE h[[n1 |-> IF res > 0 THEN mid + 1 ELSE s.n1, pn |-> left]]

Places(l) == [n1 : Nat, pn : 0 .. Len(l)]

Half(l, kd) == CHOOSE h : h = [s \in Places(l) |-> HalfBody(h, l, kd, s)]

LEMMA SearchIsHalf ==
  ASSUME NEW l, NEW kd
  PROVE  bin_search(l, kd) = IF l = <<>> THEN [res |-> -1, node |-> NoNode]
                             ELSE Half(l, kd)[[n1 |-> 1, pn |-> Len(l)]]
  BY SMT DEF bin_search, Half, HalfBody, Places

\* The numbers that halving computes
LEMMA Halves ==
  ASSUME NEW pn \in Nat
  PROVE  /\ pn \div 2 \in Nat /\ pn % 2 \in {0, 1}
         /\ pn = 2 * (pn \div 2) + (pn % 2)
         /\ pn # 0 => pn \div 2 < pn
  OBVIOUS

\* Two functions that agree below s.pn give the same value at s.
LEMMA BodyBelow ==
  ASSUME NEW l, NEW kd, Len(l) \in Nat, NEW g, NEW h, NEW s \in Places(l),
         \A r \in Places(l) : r.pn < s.pn => g[r] = h[r]
  PROVE  HalfBody(g, l, kd, s) = HalfBody(h, l, kd, s)
  <1> DEFINE pn   == s.pn \div 2
             mid  == s.n1 + pn
             res  == keycmp(kd, l[mid].k)
             left == IF res > 0 /\ s.pn % 2 = 0 THEN pn - 1 ELSE pn
             m    == IF res > 0 THEN mid + 1 ELSE s.n1
  <1>1. CASE res = 0 \/ pn = 0 \/ left = 0
    BY <1>1 DEF HalfBody
  <1>2. CASE ~(res = 0 \/ pn = 0 \/ left = 0)
    <2>1. s.pn \in Nat /\ s.n1 \in Nat /\ s.pn <= Len(l)
      BY DEF Places
    <2>2. m \in Nat /\ left \in 0 .. Len(l) /\ left < s.pn
      BY <1>2, <2>1, Halves
    <2> DEFINE r == [n1 |-> m, pn |-> left]
    <2>3. HalfBody(g, l, kd, s) = g[r] /\ HalfBody(h, l, kd, s) = h[r]
      BY <1>2 DEF HalfBody
    <2> HIDE DEF m, left
    <2>4. r \in Places(l) /\ r.pn < s.pn
      BY <2>2 DEF Places
    <2> QED
      BY <2>3, <2>4
  <1> QED
    BY <1>1, <1>2

\* half satisfies its equation.
LEMMA HalfEquation ==
  ASSUME NEW l, NEW kd, Len(l) \in Nat
  PROVE  \A s \in Places(l) : Half(l, kd)[s] = HalfBody(Half(l, kd), l, kd, s)
  <1> DEFINE n == Len(l)
             Fits(h, i) == /\ h = [s \in Places(l) |-> h[s]]
                           /\ \A s \in Places(l) : s.pn < i => h[s] = HalfBody(h, l, kd, s)
             P == {i \in Nat : \E h : Fits(h, i)}
  <1>0. \A s \in Places(l) : s.pn \in Nat /\ s.pn <= n
    BY DEF Places
  <1>1. 0 \in P
    <2>1. Fits([s \in Places(l) |-> 0], 0)
      BY <1>0
    <2> QED
      BY <2>1
  <1>2. ASSUME NEW i \in 0 .. (n + 1) - 1, i \in P PROVE i + 1 \in P
    <2>1. PICK h : Fits(h, i)
      BY <1>2
    <2> DEFINE g == [s \in Places(l) |-> IF s.pn < i THEN h[s] ELSE HalfBody(h, l, kd, s)]
    <2>2. \A s \in Places(l) : g[s] = HalfBody(h, l, kd, s)
      BY <2>1
    <2>3. \A s \in Places(l) : s.pn < i => g[s] = h[s]
      OBVIOUS
    <2>4. g = [s \in Places(l) |-> g[s]]
      OBVIOUS
    <2> HIDE DEF g
    <2>5. ASSUME NEW s \in Places(l), s.pn < i + 1
          PROVE  g[s] = HalfBody(g, l, kd, s)
      <3>1. \A r \in Places(l) : r.pn < s.pn => g[r] = h[r]
        BY <1>0, <2>3, <2>5
      <3>2. HalfBody(g, l, kd, s) = HalfBody(h, l, kd, s)
        BY <3>1, BodyBelow
      <3> QED
        BY <2>2, <3>2
    <2>6. Fits(g, i + 1)
      BY <2>4, <2>5
    <2> QED
      BY <2>6
  <1>3. n + 1 \in P
    <2>1. n + 1 \in Nat
      OBVIOUS
    <2> HIDE DEF P
    <2> QED
      BY <1>1, <1>2, <2>1, UpTo
  <1>4. PICK h : Fits(h, n + 1)
    BY <1>3
  <1>5. h = [s \in Places(l) |-> HalfBody(h, l, kd, s)]
    <2>1. \A s \in Places(l) : h[s] = HalfBody(h, l, kd, s)
      BY <1>0, <1>4
    <2>2. h = [s \in Places(l) |-> h[s]]
      BY <1>4
    <2> QED
      BY <2>1, <2>2
  <1>6. Half(l, kd) = [s \in Places(l) |-> HalfBody(Half(l, kd), l, kd, s)]
    BY <1>5 DEF Half
  <1> QED
    BY <1>6

-----------------------------------------------------------------------------
(* Lists in the order of their keys                                        *)

Entry == [k : Keys, v : Seq(Bytes), ref : Nat]

Ascending(l) == \A i, j \in 1 .. Len(l) : i < j => Less(l[i].k, l[j].k)

ListOK(l) == l \in Seq(Entry) /\ Ascending(l)

LEMMA KeyFacts ==
  /\ \A k \in Keys : k \in Bytestring /\ k # NoNode
  /\ LastSaved \in Bytestring /\ LastSaved # <<>> /\ <<>> \in Bytestring
  BY SimpleDbAssumption DEF SimpleDbAssumption, Bytestring, NoNode

LEMMA ListFacts ==
  ASSUME NEW l, ListOK(l)
  PROVE  /\ Len(l) \in Nat /\ DOMAIN l = 1 .. Len(l)
         /\ l = <<>> <=> Len(l) = 0
         /\ \A i \in 1 .. Len(l) : /\ l[i] \in Entry /\ l[i].k \in Keys
                                   /\ l[i].k \in Bytestring /\ l[i].k # NoNode
         /\ KeysOf(l) \subseteq Keys
         /\ \A k : k \in KeysOf(l) <=> \E i \in 1 .. Len(l) : l[i].k = k
  <1>1. l \in Seq(Entry)
    BY DEF ListOK
  <1>2. Len(l) \in Nat /\ DOMAIN l = 1 .. Len(l) /\ (l = <<>> <=> Len(l) = 0)
    BY <1>1
  <1>3. \A i \in 1 .. Len(l) : l[i] \in Entry
    BY <1>1
  <1>4. \A i \in 1 .. Len(l) : l[i].k \in Keys
    BY <1>3 DEF Entry
  <1> QED
    BY <1>2, <1>3, <1>4, KeyFacts DEF KeysOf

\* The order of the places is the order of the keys.
LEMMA PlaceOrder ==
  ASSUME NEW l, ListOK(l), NEW i \in 1 .. Len(l), NEW j \in 1 .. Len(l)
  PROVE  /\ Less(l[i].k, l[j].k) <=> i < j
         /\ l[i].k = l[j].k <=> i = j
  <1>1. l[i].k \in Bytestring /\ l[j].k \in Bytestring /\ Len(l) \in Nat
    BY ListFacts
  <1>2. /\ i < j => Less(l[i].k, l[j].k)
        /\ j < i => Less(l[j].k, l[i].k)
    BY DEF ListOK, Ascending
  <1>3. /\ ~(Less(l[i].k, l[j].k) /\ Less(l[j].k, l[i].k))
        /\ ~Less(l[i].k, l[i].k) /\ ~Less(l[j].k, l[j].k)
    BY <1>1, KeycmpFacts
  <1>4. CASE i < j
    BY <1>1, <1>2, <1>3, <1>4
  <1>5. CASE i = j
    BY <1>1, <1>2, <1>3, <1>5
  <1>6. CASE j < i
    BY <1>1, <1>2, <1>3, <1>6
  <1> QED
    BY <1>1, <1>4, <1>5, <1>6

\* The search may go on from s: kd is not outside of the pn entries from n1.
Between(l, kd, s) ==
  /\ s \in Places(l) /\ s.n1 # 0 /\ s.pn # 0 /\ s.n1 + s.pn <= Len(l) + 1
  /\ \A j \in 1 .. Len(l) : j < s.n1 => Less(l[j].k, kd)
  /\ \A j \in 1 .. Len(l) : j >= s.n1 + s.pn => Less(kd, l[j].k)

\* An answer of the search: an entry and how kd compares to it; if they
\* differ, kd belongs right before or right behind the entry.
Answer(l, kd, r) ==
  \E p \in 1 .. Len(l) :
     /\ r.node = l[p].k /\ r.res = keycmp(kd, l[p].k)
     /\ r.res > 0 => \A j \in 1 .. Len(l) : j > p => Less(kd, l[j].k)
     /\ r.res < 0 => \A j \in 1 .. Len(l) : j < p => Less(l[j].k, kd)

\* One turn of the loop ends with an answer or goes on with fewer entries.
LEMMA OneTurn ==
  ASSUME NEW l, ListOK(l), NEW kd \in Bytestring, NEW s, Between(l, kd, s), NEW h
  PROVE  \/ Answer(l, kd, HalfBody(h, l, kd, s))
         \/ \E r \in Places(l) : /\ Between(l, kd, r) /\ r.pn < s.pn
                                 /\ HalfBody(h, l, kd, s) = h[r]
  <1> DEFINE half == s.pn \div 2
             cmp  == keycmp(kd, l[s.n1 + s.pn \div 2].k)
             rest == IF cmp > 0 /\ s.pn % 2 = 0 THEN half - 1 ELSE half
             from == IF cmp > 0 THEN (s.n1 + half) + 1 ELSE s.n1
  <1>1. /\ Len(l) \in Nat /\ s.pn \in Nat \ {0} /\ s.n1 \in Nat \ {0}
        /\ s.n1 + s.pn <= Len(l) + 1 /\ s.pn <= Len(l)
    BY ListFacts DEF Between, Places
  <1>2. PICK n \in Nat : n = s.pn
    BY <1>1
  <1>3. PICK q \in Nat : q = s.pn \div 2
    BY <1>1, Halves
  <1>4. /\ n \in {2 * q, 2 * q + 1} /\ q < n
        /\ s.pn % 2 = 0 <=> n = 2 * q
    BY <1>1, <1>2, <1>3, Halves
  <1>5. PICK mid \in 1 .. Len(l) : mid = s.n1 + q
    BY <1>1, <1>2, <1>4
  <1>6. PICK res \in {-1, 0, 1} : res = cmp
    BY <1>3, <1>5, ListFacts, KeycmpFacts
  <1>7. /\ res = keycmp(kd, l[mid].k) /\ l[mid].k \in Bytestring
        /\ res < 0 <=> Less(kd, l[mid].k)
        /\ res > 0 <=> Less(l[mid].k, kd)
    BY <1>3, <1>5, <1>6, ListFacts, KeycmpFacts
  <1>8. \A j \in 1 .. Len(l) : l[j].k \in Bytestring
    BY ListFacts
  <1>9. res > 0 => \A j \in 1 .. Len(l) : j <= mid => Less(l[j].k, kd)
    <2>1. SUFFICES ASSUME res > 0, NEW j \in 1 .. Len(l), j < mid PROVE Less(l[j].k, kd)
      BY <1>1, <1>7
    <2>2. Less(l[j].k, l[mid].k)
      BY <2>1, PlaceOrder
    <2> QED
      BY <1>7, <1>8, <2>1, <2>2, LessTrans
  <1>10. res < 0 => \A j \in 1 .. Len(l) : j >= mid => Less(kd, l[j].k)
    <2>1. SUFFICES ASSUME res < 0, NEW j \in 1 .. Len(l), j > mid PROVE Less(kd, l[j].k)
      BY <1>1, <1>7
    <2>2. Less(l[mid].k, l[j].k)
      BY <2>1, PlaceOrder
    <2> QED
      BY <1>7, <1>8, <2>1, <2>2, LessTrans
  <1>11. PICK left \in Int : left = IF res > 0 /\ n = 2 * q THEN q - 1 ELSE q
    BY <1>4
  <1>12. left = rest
    BY <1>3, <1>4, <1>6, <1>11
  <1>13. CASE res = 0 \/ q = 0 \/ left = 0
    <2>1. HalfBody(h, l, kd, s) = [res |-> cmp, node |-> l[s.n1 + s.pn \div 2].k]
      BY <1>3, <1>6, <1>12, <1>13 DEF HalfBody
    <2>2. HalfBody(h, l, kd, s) = [res |-> res, node |-> l[mid].k]
      BY <1>3, <1>5, <1>6, <2>1
    <2>3. ASSUME res > 0, NEW j \in 1 .. Len(l), j > mid PROVE Less(kd, l[j].k)
      <3>1. j >= s.n1 + s.pn
        BY <1>1, <1>2, <1>4, <1>5, <1>11, <1>13, <2>3
      <3> QED
        BY <3>1 DEF Between
    <2>4. ASSUME res < 0, NEW j \in 1 .. Len(l), j < mid PROVE Less(l[j].k, kd)
      <3>1. j < s.n1
        BY <1>1, <1>2, <1>4, <1>5, <1>11, <1>13, <2>4
      <3> QED
        BY <3>1 DEF Between
    <2>5. Answer(l, kd, [res |-> res, node |-> l[mid].k])
      BY <1>7, <2>3, <2>4 DEF Answer
    <2> QED
      BY <2>2, <2>5
  <1>14. CASE ~(res = 0 \/ q = 0 \/ left = 0)
    <2>1. HalfBody(h, l, kd, s) = h[[n1 |-> from, pn |-> rest]]
      BY <1>3, <1>6, <1>12, <1>14 DEF HalfBody
    <2>2. PICK m \in Nat : m = IF res > 0 THEN mid + 1 ELSE s.n1
      BY <1>1
    <2>3. m = from
      BY <1>3, <1>5, <1>6, <2>2
    <2> DEFINE r == [n1 |-> m, pn |-> left]
    <2>4. HalfBody(h, l, kd, s) = h[r]
      BY <1>12, <2>1, <2>3
    <2>5. left \in 0 .. Len(l) /\ left # 0 /\ left < n
      BY <1>1, <1>2, <1>4, <1>11, <1>14
    <2>6. r \in Places(l) /\ r.pn < s.pn /\ r.n1 = m /\ r.pn = left
      BY <1>2, <2>5 DEF Places
    <2>7. CASE res > 0
      <3>1. m = mid + 1 /\ m + left = s.n1 + s.pn
        <4>1. m = mid + 1 /\ m = (s.n1 + q) + 1
          BY <1>1, <1>5, <2>2, <2>7
        <4>2. q + 1 + left = n
          BY <1>4, <1>11, <2>7
        <4>3. PICK i \in Nat : i = s.n1
          BY <1>1
        <4>4. ((i + q) + 1) + left = i + n
          BY <1>11, <4>2
        <4> QED
          BY <1>2, <4>1, <4>3, <4>4
      <3>2. \A j \in 1 .. Len(l) : j < m => Less(l[j].k, kd)
        BY <1>1, <1>9, <2>7, <3>1
      <3>3. \A j \in 1 .. Len(l) : j >= m + left => Less(kd, l[j].k)
        BY <3>1 DEF Between
      <3>4. Between(l, kd, r)
        BY <1>1, <2>5, <2>6, <3>1, <3>2, <3>3 DEF Between
      <3> QED
        BY <2>4, <2>6, <3>4
    <2>8. CASE res < 0
      <3>1. m = s.n1 /\ m + left = mid
        BY <1>1, <1>2, <1>4, <1>5, <1>11, <2>2, <2>8
      <3>2. \A j \in 1 .. Len(l) : j < m => Less(l[j].k, kd)
        BY <3>1 DEF Between
      <3>3. \A j \in 1 .. Len(l) : j >= m + left => Less(kd, l[j].k)
        BY <1>1, <1>10, <2>8, <3>1
      <3>4. Between(l, kd, r)
        BY <1>1, <2>5, <2>6, <3>1, <3>2, <3>3 DEF Between
      <3> QED
        BY <2>4, <2>6, <3>4
    <2> QED
      BY <1>14, <2>7, <2>8
  <1> QED
    BY <1>13, <1>14

\* bin_search on any sorted list and for any key: the node it ends at, compared
\* with the key, is the key's own or its neighbour on the side of the result.
THEOREM SearchAnswers ==
  ASSUME NEW l, ListOK(l), l # <<>>, NEW kd \in Bytestring
  PROVE  Answer(l, kd, bin_search(l, kd))
  <1> DEFINE h == Half(l, kd)
             Bad == {n \in Nat : \E s \in Places(l) : /\ s.pn = n /\ Between(l, kd, s)
                                                      /\ ~Answer(l, kd, h[s])}
  <1>1. Len(l) \in Nat /\ Len(l) # 0
    BY ListFacts
  <1>2. \A s \in Places(l) : h[s] = HalfBody(h, l, kd, s) /\ s.pn \in Nat
    BY <1>1, HalfEquation DEF Places
  <1> HIDE DEF h
  <1>3. Bad = {}
    <2>1. SUFFICES ASSUME Bad # {} PROVE FALSE
      OBVIOUS
    <2>2. PICK n \in Bad : \A i \in Bad : n <= i
      BY <2>1, Smallest
    <2>3. PICK s \in Places(l) : s.pn = n /\ Between(l, kd, s) /\ ~Answer(l, kd, h[s])
      BY <2>2
    <2>4. PICK r \in Places(l) : Between(l, kd, r) /\ r.pn < s.pn /\ h[s] = h[r]
      BY <1>2, <2>3, OneTurn
    <2>5. r.pn \in Bad
      BY <1>2, <2>3, <2>4
    <2>6. n \in Nat /\ r.pn \in Nat /\ n <= r.pn
      BY <2>2, <2>5
    <2> QED
      BY <2>3, <2>4, <2>6
  <1> DEFINE s0 == [n1 |-> 1, pn |-> Len(l)]
  <1>4. s0 \in Places(l) /\ s0.n1 = 1 /\ s0.pn = Len(l)
    BY <1>1 DEF Places
  <1>5. Between(l, kd, s0)
    <2> HIDE DEF s0
    <2> QED BY <1>1, <1>4 DEF Between
  <1>6. Answer(l, kd, h[s0])
    BY <1>1, <1>3, <1>4, <1>5
  <1> QED
    BY <1>6, SearchIsHalf DEF h

-----------------------------------------------------------------------------
(* Places, neighbours and ranges                                           *)

LEMMA AtFacts ==
  ASSUME NEW l, ListOK(l)
  PROVE  /\ \A p \in 1 .. Len(l) : At(l, l[p].k) = p
         /\ \A k \in KeysOf(l) : At(l, k) \in 1 .. Len(l) /\ l[At(l, k)].k = k
  <1>1. ASSUME NEW p \in 1 .. Len(l) PROVE At(l, l[p].k) = p
    <2>1. \A i \in 1 .. Len(l) : l[i].k = l[p].k <=> i = p
      BY PlaceOrder
    <2>2. At(l, l[p].k) = CHOOSE i \in 1 .. Len(l) : l[i].k = l[p].k
      BY ListFacts DEF At
    <2> QED
      BY <2>1, <2>2
  <1> QED
    BY <1>1, ListFacts

\* The answer of the search tells whether the key is in the list.
LEMMA SearchFinds ==
  ASSUME NEW l, ListOK(l), NEW kd \in Bytestring
  PROVE  bin_search(l, kd).res = 0 <=> kd \in KeysOf(l)
  <1>1. CASE l = <<>>
    <2>1. bin_search(l, kd).res = -1
      BY <1>1, SearchIsHalf
    <2>2. KeysOf(l) = {}
      BY <1>1, ListFacts
    <2> QED
      BY <2>1, <2>2
  <1>2. CASE l # <<>>
    <2>1. PICK p \in 1 .. Len(l) :
             LET r == bin_search(l, kd)
             IN  /\ r.node = l[p].k /\ r.res = keycmp(kd, l[p].k)
                 /\ r.res > 0 => \A j \in 1 .. Len(l) : j > p => Less(kd, l[j].k)
                 /\ r.res < 0 => \A j \in 1 .. Len(l) : j < p => Less(l[j].k, kd)
      BY <1>2, SearchAnswers DEF Answer
    <2>2. /\ l[p].k \in Bytestring /\ Len(l) \in Nat
          /\ \A j \in 1 .. Len(l) : l[j].k \in Bytestring
      BY ListFacts
    <2>3. bin_search(l, kd).res = 0 <=> kd = l[p].k
      BY <2>1, <2>2, KeycmpFacts
    <2>4. ASSUME NEW j \in 1 .. Len(l), kd = l[j].k PROVE bin_search(l, kd).res = 0
      <3>1. j < p \/ j = p \/ j > p
        BY <2>2
      <3>2. CASE j > p
        <4>1. Less(l[p].k, kd)
          BY <2>4, <3>2, PlaceOrder
        <4>2. bin_search(l, kd).res > 0
          BY <2>1, <2>2, <4>1, KeycmpFacts
        <4>3. Less(kd, l[j].k)
          BY <2>1, <3>2, <4>2
        <4> QED
          BY <2>2, <2>4, <4>3, KeycmpFacts
      <3>3. CASE j < p
        <4>1. Less(kd, l[p].k)
          BY <2>4, <3>3, PlaceOrder
        <4>2. bin_search(l, kd).res < 0
          BY <2>1, <2>2, <4>1, KeycmpFacts
        <4>3. Less(l[j].k, kd)
          BY <2>1, <3>3, <4>2
        <4> QED
          BY <2>2, <2>4, <4>3, KeycmpFacts
      <3>4. CASE j = p
        BY <2>3, <2>4, <3>4
      <3> QED
        BY <3>1, <3>2, <3>3, <3>4
    <2> QED
      BY <2>3, <2>4, ListFacts
  <1> QED
    BY <1>1, <1>2

\* n is the first key of S that is not less than k, or there is none.
FirstKey(S, k, n) ==
  \/ n = NoNode /\ \A x \in S : Less(x, k)
  \/ n \in S /\ ~Less(n, k) /\ \A x \in S : ~Less(x, k) => ~Less(x, n)

\* n is the last key of S that is not greater than k, or there is none.
LastKey(S, k, n) ==
  \/ n = NoNode /\ \A x \in S : Less(k, x)
  \/ n \in S /\ ~Less(k, n) /\ \A x \in S : ~Less(k, x) => ~Less(n, x)

\* n is the neighbour of k above or below it.
Above(S, k, n) ==
  \/ n = NoNode /\ \A x \in S : ~Less(k, x)
  \/ n \in S /\ Less(k, n) /\ \A x \in S : Less(k, x) => ~Less(x, n)

Below(S, k, n) ==
  \/ n = NoNode /\ \A x \in S : ~Less(x, k)
  \/ n \in S /\ Less(n, k) /\ \A x \in S : Less(x, k) => ~Less(n, x)

LEMMA Neighbours ==
  ASSUME NEW l, ListOK(l), NEW k \in KeysOf(l)
  PROVE  Above(KeysOf(l), k, next(l, k)) /\ Below(KeysOf(l), k, prev(l, k))
  <1>1. PICK p \in 1 .. Len(l) : p = At(l, k) /\ l[p].k = k
    BY AtFacts
  <1>2. Len(l) \in Nat /\ \A x : x \in KeysOf(l) <=> \E i \in 1 .. Len(l) : l[i].k = x
    BY ListFacts
  <1>3. Above(KeysOf(l), k, next(l, k))
    <2>1. CASE p = Len(l)
      <3>1. next(l, k) = NoNode
        BY <1>1, <2>1 DEF next
      <3>2. \A i \in 1 .. Len(l) : ~Less(k, l[i].k)
        BY <1>1, <1>2, <2>1, PlaceOrder
      <3> QED
        BY <1>2, <3>1, <3>2 DEF Above
    <2>2. CASE p # Len(l)
      <3>1. p + 1 \in 1 .. Len(l) /\ next(l, k) = l[p + 1].k
        BY <1>1, <1>2, <2>2 DEF next
      <3>2. Less(k, l[p + 1].k) /\ l[p + 1].k \in KeysOf(l)
        BY <1>1, <1>2, <3>1, PlaceOrder
      <3>3. ASSUME NEW i \in 1 .. Len(l), Less(k, l[i].k) PROVE ~Less(l[i].k, l[p + 1].k)
        <4>1. p < i
          BY <1>1, <3>3, PlaceOrder
        <4>2. ~(i < p + 1)
          BY <1>2, <4>1
        <4> QED
          BY <3>1, <4>2, PlaceOrder
      <3> QED
        BY <1>2, <3>1, <3>2, <3>3 DEF Above
    <2> QED
      BY <2>1, <2>2
  <1>4. Below(KeysOf(l), k, prev(l, k))
    <2>1. CASE p = 1
      <3>1. prev(l, k) = NoNode
        BY <1>1, <2>1 DEF prev
      <3>2. \A i \in 1 .. Len(l) : ~Less(l[i].k, k)
        BY <1>1, <1>2, <2>1, PlaceOrder
      <3> QED
        BY <1>2, <3>1, <3>2 DEF Below
    <2>2. CASE p # 1
      <3>1. p - 1 \in 1 .. Len(l) /\ prev(l, k) = l[p - 1].k
        BY <1>1, <1>2, <2>2 DEF prev
      <3>2. Less(l[p - 1].k, k) /\ l[p - 1].k \in KeysOf(l)
        BY <1>1, <1>2, <3>1, PlaceOrder
      <3>3. ASSUME NEW i \in 1 .. Len(l), Less(l[i].k, k) PROVE ~Less(l[p - 1].k, l[i].k)
        <4>1. i < p
          BY <1>1, <3>3, PlaceOrder
        <4>2. ~(p - 1 < i)
          BY <1>2, <4>1
        <4> QED
          BY <3>1, <4>2, PlaceOrder
      <3> QED
        BY <1>2, <3>1, <3>2, <3>3 DEF Below
    <2> QED
      BY <2>1, <2>2
  <1> QED
    BY <1>3, <1>4

\* Not less is a total order.
LEMMA NotLess ==
  ASSUME NEW a \in Bytestring, NEW b \in Bytestring, NEW c \in Bytestring
  PROVE  /\ ~Less(a, b) /\ ~Less(b, c) => ~Less(a, c)
         /\ ~Less(a, b) /\ ~Less(b, a) => a = b
         /\ Less(a, b) /\ ~Less(c, b) => Less(a, c)
         /\ ~Less(b, a) /\ Less(b, c) => Less(a, c)
         /\ ~Less(a, <<>>)
  <1>1. \A x, y \in Bytestring : (Less(x, y) \/ x = y \/ Less(y, x)) /\ ~(Less(x, y) /\ Less(y, x))
    <2>1. ASSUME NEW x \in Bytestring, NEW y \in Bytestring
          PROVE  (Less(x, y) \/ x = y \/ Less(y, x)) /\ ~(Less(x, y) /\ Less(y, x))
      BY KeycmpFacts
    <2> QED
      BY <2>1
  <1>2. \A x, y, z \in Bytestring : Less(x, y) /\ Less(y, z) => Less(x, z)
    BY LessTrans
  <1>3. ~Less(a, <<>>)
    <2>1. <<>> \in Bytestring /\ Len(a) \in Nat /\ Len(<<>>) = 0
      BY DEF Bytestring
    <2> QED
      BY <2>1, LessIff DEF GoesOn, DiffersAt
  <1> QED
    BY <1>1, <1>2, <1>3

\* The ends of a range, as get_range finds them
FirstNode(l, k1) ==
  IF l = <<>> THEN NoNode
  ELSE IF k1 = <<>> THEN l[1].k
  ELSE IF bin_search(l, k1).res > 0 THEN next(l, bin_search(l, k1).node) ELSE bin_search(l, k1).node

LastNode(l, k2) ==
  IF l = <<>> THEN NoNode
  ELSE IF k2 = <<>> THEN l[Len(l)].k
  ELSE IF bin_search(l, k2).res < 0 THEN prev(l, bin_search(l, k2).node) ELSE bin_search(l, k2).node

LEMMA FirstNodeIs ==
  ASSUME NEW l, ListOK(l), NEW kd \in Bytestring
  PROVE  FirstKey(KeysOf(l), kd, FirstNode(l, kd))
  <1>0. /\ Len(l) \in Nat /\ (l = <<>> <=> Len(l) = 0)
        /\ \A x : x \in KeysOf(l) <=> \E i \in 1 .. Len(l) : l[i].k = x
        /\ \A i \in 1 .. Len(l) : l[i].k \in Bytestring
    BY ListFacts
  <1>1. CASE l = <<>>
    BY <1>0, <1>1 DEF FirstNode, FirstKey
  <1>2. CASE l # <<>> /\ kd = <<>>
    <2>1. 1 \in 1 .. Len(l) /\ FirstNode(l, kd) = l[1].k
      BY <1>0, <1>2 DEF FirstNode
    <2>2. ~Less(l[1].k, kd)
      BY <1>0, <1>2, <2>1, NotLess
    <2>3. \A i \in 1 .. Len(l) : ~Less(l[i].k, l[1].k)
      BY <1>0, <2>1, PlaceOrder
    <2> QED
      BY <1>0, <2>1, <2>2, <2>3 DEF FirstKey
  <1>3. CASE l # <<>> /\ kd # <<>>
    <2> DEFINE r == bin_search(l, kd)
    <2>1. PICK p \in 1 .. Len(l) :
                 /\ r.node = l[p].k /\ r.res = keycmp(kd, l[p].k)
                 /\ r.res > 0 => \A j \in 1 .. Len(l) : j > p => Less(kd, l[j].k)
                 /\ r.res < 0 => \A j \in 1 .. Len(l) : j < p => Less(l[j].k, kd)
      BY <1>3, SearchAnswers DEF Answer
    <2>2. FirstNode(l, kd) = IF r.res > 0 THEN next(l, l[p].k) ELSE l[p].k
      BY <1>3, <2>1 DEF FirstNode
    <2> HIDE DEF r
    <2>3. l[p].k \in Bytestring /\ l[p].k \in KeysOf(l)
      BY <1>0
    <2>4. /\ r.res \in {-1, 0, 1}
          /\ r.res < 0 <=> Less(kd, l[p].k)
          /\ r.res > 0 <=> Less(l[p].k, kd)
          /\ r.res = 0 <=> kd = l[p].k
          /\ ~(Less(kd, l[p].k) /\ Less(l[p].k, kd)) /\ ~Less(kd, kd)
      BY <2>1, <2>3, KeycmpFacts
    <2>5. CASE r.res > 0
      <3> DEFINE n == next(l, l[p].k)
      <3>1. Above(KeysOf(l), l[p].k, n)
        BY <2>3, Neighbours
      <3>2. \A j \in 1 .. Len(l) : Less(l[p].k, l[j].k) => Less(kd, l[j].k)
        BY <2>1, <2>5, PlaceOrder
      <3>3. \A x \in KeysOf(l) : Less(l[p].k, x) => Less(kd, x)
        BY <1>0, <3>2
      <3>4. \A x \in KeysOf(l) : ~Less(l[p].k, x) => Less(x, kd)
        BY <1>0, <2>3, <2>4, <2>5, NotLess
      <3>5. \A x \in KeysOf(l) : Less(kd, x) => ~Less(x, kd)
        BY <1>0, KeycmpFacts
      <3> HIDE DEF n
      <3>6. FirstKey(KeysOf(l), kd, n)
        BY <3>1, <3>3, <3>4, <3>5 DEF Above, FirstKey
      <3> QED
        BY <2>2, <2>5, <3>6 DEF n
    <2>6. CASE ~(r.res > 0)
      <3>1. ~Less(l[p].k, kd)
        BY <2>4, <2>6
      <3>2. ASSUME NEW i \in 1 .. Len(l), ~Less(l[i].k, kd) PROVE ~Less(l[i].k, l[p].k)
        <4>1. CASE r.res = 0
          BY <2>4, <3>2, <4>1
        <4>2. CASE r.res < 0
          <5>1. ~(i < p)
            BY <2>1, <3>2, <4>2
          <5> QED
            BY <5>1, PlaceOrder
        <4> QED
          BY <2>4, <2>6, <4>1, <4>2
      <3> QED
        BY <1>0, <2>2, <2>3, <2>6, <3>1, <3>2 DEF FirstKey
    <2> QED
      BY <2>5, <2>6
  <1> QED
    BY <1>1, <1>2, <1>3

LEMMA LastNodeIs ==
  ASSUME NEW l, ListOK(l), NEW kd \in Bytestring
  PROVE  \/ kd # <<>> /\ LastKey(KeysOf(l), kd, LastNode(l, kd))
         \/ kd = <<>> /\ LastNode(l, kd) = NoNode /\ KeysOf(l) = {}
         \/ /\ kd = <<>> /\ LastNode(l, kd) \in KeysOf(l)
            /\ \A x \in KeysOf(l) : ~Less(LastNode(l, kd), x)
  <1>0. /\ Len(l) \in Nat /\ (l = <<>> <=> Len(l) = 0)
        /\ \A x : x \in KeysOf(l) <=> \E i \in 1 .. Len(l) : l[i].k = x
        /\ \A i \in 1 .. Len(l) : l[i].k \in Bytestring
    BY ListFacts
  <1>1. CASE l = <<>>
    BY <1>0, <1>1 DEF LastNode, LastKey
  <1>2. CASE l # <<>> /\ kd = <<>>
    <2>1. Len(l) \in 1 .. Len(l) /\ LastNode(l, kd) = l[Len(l)].k
      BY <1>0, <1>2 DEF LastNode
    <2>2. \A i \in 1 .. Len(l) : ~Less(l[Len(l)].k, l[i].k)
      BY <1>0, <2>1, PlaceOrder
    <2> QED
      BY <1>0, <1>2, <2>1, <2>2
  <1>3. CASE l # <<>> /\ kd # <<>>
    <2> DEFINE r == bin_search(l, kd)
    <2>1. PICK p \in 1 .. Len(l) :
                 /\ r.node = l[p].k /\ r.res = keycmp(kd, l[p].k)
                 /\ r.res > 0 => \A j \in 1 .. Len(l) : j > p => Less(kd, l[j].k)
                 /\ r.res < 0 => \A j \in 1 .. Len(l) : j < p => Less(l[j].k, kd)
      BY <1>3, SearchAnswers DEF Answer
    <2>2. LastNode(l, kd) = IF r.res < 0 THEN prev(l, l[p].k) ELSE l[p].k
      BY <1>3, <2>1 DEF LastNode
    <2> HIDE DEF r
    <2>3. l[p].k \in Bytestring /\ l[p].k \in KeysOf(l)
      BY <1>0
    <2>4. /\ r.res \in {-1, 0, 1}
          /\ r.res < 0 <=> Less(kd, l[p].k)
          /\ r.res > 0 <=> Less(l[p].k, kd)
          /\ r.res = 0 <=> kd = l[p].k
          /\ ~(Less(kd, l[p].k) /\ Less(l[p].k, kd)) /\ ~Less(kd, kd)
      BY <2>1, <2>3, KeycmpFacts
    <2>5. CASE r.res < 0
      <3> DEFINE n == prev(l, l[p].k)
      <3>1. Below(KeysOf(l), l[p].k, n)
        BY <2>3, Neighbours
      <3>2. \A j \in 1 .. Len(l) : Less(l[j].k, l[p].k) => Less(l[j].k, kd)
        BY <2>1, <2>5, PlaceOrder
      <3>3. \A x \in KeysOf(l) : Less(x, l[p].k) => Less(x, kd)
        BY <1>0, <3>2
      <3>4. \A x \in KeysOf(l) : ~Less(x, l[p].k) => Less(kd, x)
        BY <1>0, <2>3, <2>4, <2>5, NotLess
      <3>5. \A x \in KeysOf(l) : Less(x, kd) => ~Less(kd, x)
        BY <1>0, KeycmpFacts
      <3> HIDE DEF n
      <3>6. LastKey(KeysOf(l), kd, n)
        BY <3>1, <3>3, <3>4, <3>5 DEF Below, LastKey
      <3> QED
        BY <1>3, <2>2, <2>5, <3>6 DEF n
    <2>6. CASE ~(r.res < 0)
      <3>1. ~Less(kd, l[p].k)
        BY <2>4, <2>6
      <3>2. ASSUME NEW i \in 1 .. Len(l), ~Less(kd, l[i].k) PROVE ~Less(l[p].k, l[i].k)
        <4>1. CASE r.res = 0
          BY <2>4, <3>2, <4>1
        <4>2. CASE r.res > 0
          <5>1. ~(p < i)
            BY <1>0, <2>1, <3>2, <4>2
          <5> QED
            BY <5>1, PlaceOrder
        <4> QED
          BY <2>4, <2>6, <4>1, <4>2
      <3> QED
        BY <1>0, <1>3, <2>2, <2>3, <2>6, <3>1, <3>2 DEF LastKey
    <2> QED
      BY <2>5, <2>6
  <1> QED
    BY <1>1, <1>2, <1>3

\* x is not below k1 and not above k2.
Within(x, k1, k2) == ~Less(x, k1) /\ (k2 = <<>> \/ ~Less(k2, x))

\* The range of two bounds is from the first to the last key between them.
LEMMA RangeIs ==
  ASSUME NEW l, ListOK(l), NEW k1 \in Bytestring, NEW k2 \in Bytestring
  PROVE  LET r == get_range(l, k1, k2)
             S == KeysOf(l)
         IN  \/ r = <<>> /\ \A x \in S : ~Within(x, k1, k2)
             \/ \E n1, n2 \in S :
                   /\ r = <<n1, n2>> /\ ~Less(n2, n1)
                   /\ Within(n1, k1, k2) /\ Within(n2, k1, k2)
                   /\ \A x \in S : Within(x, k1, k2) => ~Less(x, n1) /\ ~Less(n2, x)
  <1> DEFINE S == KeysOf(l)
             n1 == FirstNode(l, k1)
             n2 == LastNode(l, k2)
  <1>1. get_range(l, k1, k2) = IF n1 = NoNode \/ n2 = NoNode \/ keycmp(n2, n1) < 0 THEN <<>>
                               ELSE <<n1, n2>>
    BY DEF get_range, FirstNode, LastNode
  <1>2. \A x \in S : x \in Bytestring /\ x # NoNode
    BY ListFacts
  <1>3. FirstKey(S, k1, n1)
    BY FirstNodeIs
  <1>4. \/ k2 # <<>> /\ LastKey(S, k2, n2)
        \/ k2 = <<>> /\ n2 = NoNode /\ S = {}
        \/ k2 = <<>> /\ n2 \in S /\ \A x \in S : ~Less(n2, x)
    BY LastNodeIs
  <1> HIDE DEF n1, n2, S
  <1>5. CASE n1 = NoNode
    <2>1. \A x \in S : ~Within(x, k1, k2)
      BY <1>2, <1>3, <1>5 DEF FirstKey, Within
    <2> QED
      BY <1>1, <1>5, <2>1 DEF S
  <1>6. CASE n2 = NoNode
    <2>1. \A x \in S : ~Within(x, k1, k2)
      BY <1>2, <1>4, <1>6 DEF LastKey, Within
    <2> QED
      BY <1>1, <1>6, <2>1 DEF S
  <1>7. CASE n1 # NoNode /\ n2 # NoNode
    <2>1. n1 \in S /\ ~Less(n1, k1) /\ \A x \in S : ~Less(x, k1) => ~Less(x, n1)
      BY <1>3, <1>7 DEF FirstKey
    <2>2. /\ n2 \in S /\ (k2 = <<>> \/ ~Less(k2, n2))
          /\ \A x \in S : (k2 = <<>> \/ ~Less(k2, x)) => ~Less(n2, x)
      BY <1>4, <1>7 DEF LastKey
    <2>3. \A x \in S : Within(x, k1, k2) => ~Less(x, n1) /\ ~Less(n2, x)
      BY <2>1, <2>2 DEF Within
    <2>4. CASE Less(n2, n1)
      <3>1. ASSUME NEW x \in S, Within(x, k1, k2) PROVE FALSE
        <4>1. ~Less(x, n1) /\ ~Less(n2, x)
          BY <2>3, <3>1
        <4> QED
          BY <1>2, <2>1, <2>2, <2>4, <4>1, NotLess
      <3>2. get_range(l, k1, k2) = <<>>
        BY <1>1, <2>4 DEF Less
      <3> QED
        BY <3>1, <3>2 DEF S
    <2>5. CASE ~Less(n2, n1)
      <3>1. get_range(l, k1, k2) = <<n1, n2>>
        BY <1>1, <1>7, <2>5 DEF Less
      <3>2. Within(n1, k1, k2)
        <4>1. k2 = <<>> \/ ~Less(k2, n1)
          BY <1>2, <2>1, <2>2, <2>5, NotLess
        <4> QED
          BY <2>1, <4>1 DEF Within
      <3>3. Within(n2, k1, k2)
        <4>1. ~Less(n2, k1)
          BY <1>2, <2>1, <2>2, <2>5, NotLess
        <4> QED
          BY <2>2, <4>1 DEF Within
      <3> QED
        BY <2>1, <2>2, <2>3, <2>5, <3>1, <3>2, <3>3 DEF S
    <2> QED
      BY <2>4, <2>5
  <1> QED
    BY <1>5, <1>6, <1>7

-----------------------------------------------------------------------------
(* Changes of the list                                                     *)

LEMMA Joined ==
  ASSUME NEW T, NEW a \in Seq(T), NEW b \in Seq(T), NEW m, m = a \o b
  PROVE  /\ m \in Seq(T) /\ Len(m) = Len(a) + Len(b)
         /\ \A i \in 1 .. Len(a) : m[i] = a[i]
         /\ \A i \in 1 .. Len(b) : m[Len(a) + i] = b[i]
  <1>1. m \in Seq(T)
    OBVIOUS
  <1>2. Len(m) = Len(a) + Len(b)
    OBVIOUS
  <1>3. \A i \in 1 .. Len(a) : m[i] = a[i]
    OBVIOUS
  <1>4. \A i \in 1 .. Len(b) : m[Len(a) + i] = b[i]
    OBVIOUS
  <1> QED
    BY <1>1, <1>2, <1>3, <1>4

\* A change of a value or of a counter leaves the keys alone.
LEMMA Updated ==
  ASSUME NEW l, ListOK(l), NEW i \in 1 .. Len(l), NEW e \in Entry, e.k = l[i].k,
         NEW m, m = [l EXCEPT ![i] = e]
  PROVE  ListOK(m) /\ KeysOf(m) = KeysOf(l)
  <1>1. l \in Seq(Entry) /\ Len(l) \in Nat
    BY ListFacts DEF ListOK
  <1>2. m \in Seq(Entry) /\ Len(m) = Len(l)
    BY <1>1
  <1>3. \A j \in 1 .. Len(l) : m[j].k = l[j].k
    BY <1>1
  <1>4. ListOK(m)
    BY <1>2, <1>3 DEF ListOK, Ascending
  <1>5. DOMAIN m = 1 .. Len(l) /\ DOMAIN l = 1 .. Len(l)
    BY <1>1
  <1>6. KeysOf(m) = KeysOf(l)
    BY <1>3, <1>5 DEF KeysOf
  <1> QED
    BY <1>4, <1>6

\* A new entry at its place
LEMMA Inserted ==
  ASSUME NEW l, ListOK(l), NEW p \in 0 .. Len(l), NEW e \in Entry,
         \A j \in 1 .. Len(l) : j <= p => Less(l[j].k, e.k),
         \A j \in 1 .. Len(l) : j > p => Less(e.k, l[j].k),
         NEW m, m = InsertAt(l, p + 1, e)
  PROVE  ListOK(m) /\ KeysOf(m) = KeysOf(l) \cup {e.k}
  <1>1. l \in Seq(Entry) /\ Len(l) \in Nat /\ p \in Nat /\ p <= Len(l)
    BY ListFacts DEF ListOK
  <1> DEFINE a == SubSeq(l, 1, p)
             b == SubSeq(l, p + 1, Len(l))
  <1>2. m = a \o <<e>> \o b
    <2>1. (p + 1) - 1 = p
      BY <1>1
    <2> QED
      BY <2>1 DEF InsertAt
  <1>3. a \in Seq(Entry) /\ Len(a) = p /\ \A i \in 1 .. p : a[i] = l[i]
    BY <1>1
  <1>4. /\ b \in Seq(Entry) /\ Len(b) = Len(l) - p
        /\ \A i \in 1 .. Len(l) - p : b[i] = l[p + i]
    BY <1>1
  <1> HIDE DEF a, b
  <1>5. /\ a \o <<e>> \in Seq(Entry) /\ Len(a \o <<e>>) = p + 1
        /\ \A i \in 1 .. p : (a \o <<e>>)[i] = l[i]
        /\ (a \o <<e>>)[p + 1] = e
    BY <1>1, <1>3
  <1> DEFINE c == a \o <<e>>
  <1> HIDE DEF c
  <1>6. /\ m \in Seq(Entry) /\ Len(m) = Len(l) + 1
        /\ \A i \in 1 .. p : m[i] = l[i]
        /\ m[p + 1] = e
        /\ \A i \in 1 .. Len(l) - p : m[(p + 1) + i] = l[p + i]
    <2>1. m = c \o b
      BY <1>2 DEF c
    <2>2. /\ c \in Seq(Entry) /\ Len(c) = p + 1
          /\ \A i \in 1 .. p : c[i] = l[i]
          /\ c[p + 1] = e
      BY <1>5 DEF c
    <2>0. /\ m \in Seq(Entry) /\ Len(m) = Len(c) + Len(b)
          /\ \A i \in 1 .. Len(c) : m[i] = c[i]
          /\ \A i \in 1 .. Len(b) : m[Len(c) + i] = b[i]
      <3>1. c \in Seq(Entry) /\ b \in Seq(Entry)
        BY <1>4, <2>2
      <3>2. \A y : y = c \o b =>
                     /\ y \in Seq(Entry) /\ Len(y) = Len(c) + Len(b)
                     /\ \A i \in 1 .. Len(c) : y[i] = c[i]
                     /\ \A i \in 1 .. Len(b) : y[Len(c) + i] = b[i]
        BY <3>1, Joined
      <3> QED
        BY <2>1, <3>2, Zenon
    <2>3. m \in Seq(Entry) /\ Len(m) = (p + 1) + (Len(l) - p)
      BY <1>4, <2>0, <2>2
    <2>4. \A i \in 1 .. p + 1 : m[i] = c[i]
      BY <2>0, <2>2
    <2>5. \A i \in 1 .. Len(l) - p : m[(p + 1) + i] = b[i]
      BY <1>4, <2>0, <2>2
    <2>6. Len(m) = Len(l) + 1 /\ \A i \in 1 .. p : i \in 1 .. p + 1
      BY <1>1, <2>3
    <2>7. (\A i \in 1 .. p : m[i] = l[i]) /\ m[p + 1] = e
      BY <1>1, <2>2, <2>4, <2>6
    <2>8. \A i \in 1 .. Len(l) - p : m[(p + 1) + i] = l[p + i]
      BY <1>4, <2>5
    <2> QED
      BY <2>3, <2>6, <2>7, <2>8
  <1>7. /\ \A i \in 1 .. p : m[i] = l[i]
        /\ m[p + 1] = e
        /\ \A i \in p + 2 .. Len(l) + 1 : m[i] = l[i - 1] /\ i - 1 \in 1 .. Len(l)
    <2>1. ASSUME NEW i \in p + 2 .. Len(l) + 1 PROVE m[i] = l[i - 1] /\ i - 1 \in 1 .. Len(l)
      <3>1. PICK j \in 1 .. Len(l) - p : j = (i - p) - 1
        BY <1>1
      <3>2. (p + 1) + j = i /\ p + j = i - 1
        BY <1>1, <3>1
      <3>3. m[(p + 1) + j] = l[p + j]
        BY <1>6, <3>1
      <3> QED
        BY <1>1, <3>2, <3>3
    <2> QED
      BY <1>6, <2>1
  <1>8. Ascending(m)
    <2> SUFFICES ASSUME NEW i \in 1 .. Len(m), NEW j \in 1 .. Len(m), i < j
                 PROVE  Less(m[i].k, m[j].k)
      BY DEF Ascending
    <2>0. i \in 1 .. Len(l) + 1 /\ j \in 1 .. Len(l) + 1
      BY <1>6
    <2>1. CASE j <= p
      BY <1>1, <1>7, <2>0, <2>1, SMTT(30) DEF ListOK, Ascending
    <2>2. CASE j = p + 1
      BY <1>1, <1>7, <2>0, <2>2
    <2>3. CASE j > p + 1 /\ i <= p
      <3>1. m[i] = l[i] /\ m[j] = l[j - 1] /\ i \in 1 .. Len(l) /\ j - 1 \in 1 .. Len(l) /\ i < j - 1
        BY <1>1, <1>7, <2>0, <2>3
      <3> QED
        BY <3>1 DEF ListOK, Ascending
    <2>4. CASE j > p + 1 /\ i = p + 1
      BY <1>1, <1>7, <2>0, <2>4
    <2>5. CASE j > p + 1 /\ i > p + 1
      <3>1. /\ m[i] = l[i - 1] /\ m[j] = l[j - 1]
            /\ i - 1 \in 1 .. Len(l) /\ j - 1 \in 1 .. Len(l) /\ i - 1 < j - 1
        BY <1>1, <1>7, <2>0, <2>5
      <3> QED
        BY <3>1 DEF ListOK, Ascending
    <2> QED
      BY <1>1, <2>0, <2>1, <2>2, <2>3, <2>4, <2>5
  <1>9. ListOK(m)
    BY <1>6, <1>8 DEF ListOK
  <1>10. /\ \A x : x \in KeysOf(l) <=> \E i \in 1 .. Len(l) : l[i].k = x
         /\ \A x : x \in KeysOf(m) <=> \E i \in 1 .. Len(l) + 1 : m[i].k = x
    BY <1>6, <1>9, ListFacts
  <1>11. ASSUME NEW x \in KeysOf(m) PROVE x \in KeysOf(l) \cup {e.k}
    <2>1. PICK i \in 1 .. Len(l) + 1 : m[i].k = x
      BY <1>10
    <2>2. i \in 1 .. p \/ i = p + 1 \/ i \in p + 2 .. Len(l) + 1
      BY <1>1
    <2> QED
      BY <1>1, <1>7, <1>10, <2>1, <2>2
  <1>12. ASSUME NEW x \in KeysOf(l) PROVE x \in KeysOf(m)
    <2>1. PICK i \in 1 .. Len(l) : l[i].k = x
      BY <1>10
    <2>2. CASE i <= p
      BY <1>1, <1>7, <1>10, <2>1, <2>2
    <2>3. CASE i > p
      <3>1. i + 1 \in p + 2 .. Len(l) + 1 /\ (i + 1) - 1 = i /\ i + 1 \in 1 .. Len(l) + 1
        BY <1>1, <2>3
      <3>2. m[i + 1].k = x
        BY <1>7, <2>1, <3>1
      <3> QED
        BY <1>10, <3>1, <3>2
    <2> QED
      BY <1>1, <2>2, <2>3
  <1>13. e.k \in KeysOf(m)
    BY <1>1, <1>7, <1>10
  <1> QED
    BY <1>9, <1>11, <1>12, <1>13

\* An entry is taken out.
LEMMA Removed ==
  ASSUME NEW l, ListOK(l), NEW p \in 1 .. Len(l), NEW m, m = RemoveAt(l, p)
  PROVE  ListOK(m) /\ KeysOf(m) = KeysOf(l) \ {l[p].k}
  <1>1. l \in Seq(Entry) /\ Len(l) \in Nat /\ p \in Nat \ {0} /\ p <= Len(l)
    BY ListFacts DEF ListOK
  <1> DEFINE a == SubSeq(l, 1, p - 1)
             b == SubSeq(l, p + 1, Len(l))
  <1>2. m = a \o b
    BY DEF RemoveAt
  <1>3. a \in Seq(Entry) /\ Len(a) = p - 1 /\ \A i \in 1 .. p - 1 : a[i] = l[i]
    BY <1>1
  <1>4. /\ b \in Seq(Entry) /\ Len(b) = Len(l) - p
        /\ \A i \in 1 .. Len(l) - p : b[i] = l[p + i]
    BY <1>1
  <1> HIDE DEF a, b
  <1>5. /\ m \in Seq(Entry) /\ Len(m) = Len(l) - 1
        /\ \A i \in 1 .. p - 1 : m[i] = l[i]
        /\ \A i \in 1 .. Len(l) - p : m[(p - 1) + i] = l[p + i]
    <2>0. /\ m \in Seq(Entry) /\ Len(m) = Len(a) + Len(b)
          /\ \A i \in 1 .. Len(a) : m[i] = a[i]
          /\ \A i \in 1 .. Len(b) : m[Len(a) + i] = b[i]
      <3>1. a \in Seq(Entry) /\ b \in Seq(Entry)
        BY <1>3, <1>4
      <3> QED
        BY <1>2, <3>1, Joined
    <2>1. m \in Seq(Entry) /\ Len(m) = (p - 1) + (Len(l) - p)
      BY <1>3, <1>4, <2>0
    <2>2. \A i \in 1 .. p - 1 : m[i] = a[i]
      BY <1>3, <2>0
    <2>3. \A i \in 1 .. Len(l) - p : m[(p - 1) + i] = b[i]
      BY <1>3, <1>4, <2>0
    <2> QED
      BY <1>1, <1>3, <1>4, <2>1, <2>2, <2>3
  <1>6. \A i \in p .. Len(l) - 1 : m[i] = l[i + 1] /\ i + 1 \in 1 .. Len(l)
    <2>1. ASSUME NEW i \in p .. Len(l) - 1 PROVE m[i] = l[i + 1] /\ i + 1 \in 1 .. Len(l)
      <3>1. PICK j \in 1 .. Len(l) - p : j = (i - p) + 1
        BY <1>1
      <3>2. (p - 1) + j = i /\ p + j = i + 1
        BY <1>1, <3>1
      <3>3. m[(p - 1) + j] = l[p + j]
        BY <1>5
      <3>4. m[i] = l[i + 1]
        BY <3>2, <3>3
      <3>5. i + 1 \in 1 .. Len(l)
        BY <1>1
      <3> QED
        BY <3>4, <3>5
    <2> QED
      BY <2>1
  <1>7. Ascending(m)
    <2> SUFFICES ASSUME NEW i \in 1 .. Len(m), NEW j \in 1 .. Len(m), i < j
                 PROVE  Less(m[i].k, m[j].k)
      BY DEF Ascending
    <2>0. i \in 1 .. Len(l) - 1 /\ j \in 1 .. Len(l) - 1
      BY <1>5
    <2>1. CASE j < p
      BY <1>1, <1>5, <2>0, <2>1 DEF ListOK, Ascending
    <2>2. CASE j >= p /\ i < p
      BY <1>1, <1>5, <1>6, <2>0, <2>2 DEF ListOK, Ascending
    <2>3. CASE j >= p /\ i >= p
      BY <1>1, <1>6, <2>0, <2>3, SMTT(30) DEF ListOK, Ascending
    <2> QED
      BY <1>1, <2>0, <2>1, <2>2, <2>3
  <1>8. ListOK(m)
    BY <1>5, <1>7 DEF ListOK
  <1>9. /\ \A x : x \in KeysOf(l) <=> \E i \in 1 .. Len(l) : l[i].k = x
        /\ \A x : x \in KeysOf(m) <=> \E i \in 1 .. Len(l) - 1 : m[i].k = x
    BY <1>5, <1>8, ListFacts
  <1>10. ASSUME NEW x \in KeysOf(m) PROVE x \in KeysOf(l) /\ x # l[p].k
    <2>1. PICK i \in 1 .. Len(l) - 1 : m[i].k = x
      BY <1>9
    <2>2. PICK j \in 1 .. Len(l) : j # p /\ m[i] = l[j]
      <3>1. CASE i < p
        BY <1>1, <1>5, <3>1
      <3>2. CASE i >= p
        BY <1>1, <1>6, <3>2
      <3> QED
        BY <1>1, <3>1, <3>2
    <2> QED
      BY <1>9, <2>1, <2>2, PlaceOrder
  <1>11. ASSUME NEW x \in KeysOf(l), x # l[p].k PROVE x \in KeysOf(m)
    <2>1. PICK i \in 1 .. Len(l) : l[i].k = x /\ i # p
      BY <1>9, <1>11
    <2>2. CASE i < p
      BY <1>1, <1>5, <1>9, <2>1, <2>2
    <2>3. CASE i > p
      <3>1. i - 1 \in p .. Len(l) - 1 /\ (i - 1) + 1 = i /\ i - 1 \in 1 .. Len(l) - 1
        BY <1>1, <2>3
      <3>2. m[i - 1].k = x
        BY <1>6, <2>1, <3>1
      <3> QED
        BY <1>9, <3>1, <3>2
    <2> QED
      BY <1>1, <2>1, <2>2, <2>3
  <1> QED
    BY <1>8, <1>10, <1>11

-----------------------------------------------------------------------------
(* The saved data, read again                                              *)

Pair == [k : Keys, v : Seq(Bytes)]

FileOK(f) == f \in Seq(Pair) /\ Ascending(f)

\* The entries of the first n pairs of a file
Entries(f, n) == [i \in 1 .. n |-> [k |-> f[i].k, v |-> f[i].v, ref |-> 0]]

\* One turn of deserialize_all: l has been read, e is next.
ReadOne(l, e) ==
  IF l # <<>> /\ keycmp(e.k, l[Len(l)].k) < 0 THEN l
  ELSE Append(l, [k |-> e.k, v |-> e.v, ref |-> 0])

\* The fold over the places s of the file, if h is the fold
FoldBody(h, f, s) == IF s = {} THEN <<>> ELSE ReadOne(h[s \ {Max(s)}], f[Max(s)])

Fold(f) == CHOOSE h : h = [s \in SUBSET (DOMAIN f) |-> FoldBody(h, f, s)]

LEMMA ReadIsFold ==
  ASSUME NEW f
  PROVE  deserialize_all(f) = Fold(f)[DOMAIN f]
  BY SMT DEF deserialize_all, FoldLeft, MapThenFoldSet, Fold, FoldBody, ReadOne

LEMMA Largest ==
  ASSUME NEW n \in Nat, NEW S, S \subseteq 1 .. n, S # {}
  PROVE  Max(S) \in S /\ \A y \in S : y <= Max(S)
  <1> DEFINE T == {n - x : x \in S}
  <1>1. T \subseteq Nat /\ T # {}
    <2>1. \A x \in S : n - x \in Nat
      OBVIOUS
    <2> QED
      BY <2>1
  <1>2. PICK t \in T : \A u \in T : t <= u
    BY <1>1, Smallest
  <1>3. PICK x \in S : t = n - x
    BY <1>2
  <1>4. ASSUME NEW y \in S PROVE x >= y
    <2>1. n - x <= n - y
      BY <1>2, <1>3
    <2> QED
      BY <2>1
  <1>5. Max(S) \in S /\ \A y \in S : Max(S) >= y
    BY <1>4 DEF Max
  <1> QED
    BY <1>5

\* The fold satisfies its equation.
LEMMA FoldEquation ==
  ASSUME NEW f, NEW n \in Nat, DOMAIN f = 1 .. n
  PROVE  \A s \in SUBSET (1 .. n) : Fold(f)[s] = FoldBody(Fold(f), f, s)
  <1> DEFINE D == SUBSET (1 .. n)
             Fits(h, i) == /\ h = [s \in D |-> h[s]]
                           /\ \A s \in D : s \subseteq 1 .. i => h[s] = FoldBody(h, f, s)
             P == {i \in Nat : \E h : Fits(h, i)}
  <1>1. 0 \in P
    <2>1. Fits([s \in D |-> <<>>], 0)
      BY DEF FoldBody
    <2> QED
      BY <2>1
  <1>2. ASSUME NEW i \in 0 .. n - 1, i \in P PROVE i + 1 \in P
    <2>0. i \in Nat /\ i + 1 \in Nat
      OBVIOUS
    <2>1. PICK h : Fits(h, i)
      BY <1>2
    <2> DEFINE g == [s \in D |-> IF s \subseteq 1 .. i THEN h[s] ELSE FoldBody(h, f, s)]
    <2>2. \A s \in D : g[s] = FoldBody(h, f, s)
      BY <2>1
    <2>3. \A s \in D : s \subseteq 1 .. i => g[s] = h[s]
      OBVIOUS
    <2>4. g = [s \in D |-> g[s]]
      OBVIOUS
    <2> HIDE DEF g
    <2>5. ASSUME NEW s \in D, s \subseteq 1 .. i + 1 PROVE g[s] = FoldBody(g, f, s)
      <3>1. CASE s = {}
        BY <2>2, <3>1 DEF FoldBody
      <3>2. CASE s # {}
        <4>1. Max(s) \in s /\ \A y \in s : y <= Max(s)
          BY <2>5, <3>2, Largest
        <4>2. s \ {Max(s)} \in D /\ s \ {Max(s)} \subseteq 1 .. i
          <5>1. ASSUME NEW y \in s, y # Max(s) PROVE y \in 1 .. i
            <6>1. y \in 1 .. i + 1 /\ Max(s) \in 1 .. i + 1 /\ y <= Max(s) /\ i \in Nat
              BY <2>0, <2>5, <4>1, Zenon
            <6> QED
              BY <5>1, <6>1
          <5> QED
            BY <5>1
        <4>3. g[s \ {Max(s)}] = h[s \ {Max(s)}]
          BY <2>3, <4>2
        <4> QED
          BY <2>2, <4>3 DEF FoldBody
      <3> QED
        BY <3>1, <3>2
    <2>6. Fits(g, i + 1)
      BY <2>4, <2>5
    <2> HIDE DEF Fits
    <2> QED
      BY <2>0, <2>6
  <1>3. n \in P
    <2>1. n \in 0 .. n
      OBVIOUS
    <2> HIDE DEF P
    <2>2. \A i \in 0 .. n - 1 : i \in P => i + 1 \in P
      BY <1>2
    <2>3. \A i \in 0 .. n : i \in P
      BY <1>1, <2>2, UpTo
    <2> QED
      BY <2>1, <2>3
  <1>4. PICK h : Fits(h, n)
    BY <1>3
  <1>5. h = [s \in D |-> FoldBody(h, f, s)]
    <2>1. \A s \in D : h[s] = FoldBody(h, f, s)
      BY <1>4
    <2>2. h = [s \in D |-> h[s]]
      BY <1>4
    <2> QED
      BY <2>1, <2>2
  <1>6. Fold(f) = [s \in D |-> FoldBody(Fold(f), f, s)]
    BY <1>5 DEF Fold
  <1> QED
    BY <1>6

LEMMA FileFacts ==
  ASSUME NEW f, FileOK(f)
  PROVE  /\ Len(f) \in Nat /\ DOMAIN f = 1 .. Len(f) /\ f \in Seq(Pair)
         /\ \A i \in 1 .. Len(f) : /\ f[i] \in Pair /\ f[i].k \in Keys /\ f[i].k \in Bytestring
                                   /\ f[i].v \in Seq(Bytes)
         /\ \A i, j \in 1 .. Len(f) : i < j => Less(f[i].k, f[j].k)
  <1>1. f \in Seq(Pair) /\ \A i, j \in 1 .. Len(f) : i < j => Less(f[i].k, f[j].k)
    BY DEF FileOK, Ascending
  <1>2. Len(f) \in Nat /\ DOMAIN f = 1 .. Len(f) /\ \A i \in 1 .. Len(f) : f[i] \in Pair
    BY <1>1
  <1>3. \A i \in 1 .. Len(f) : f[i].k \in Keys /\ f[i].v \in Seq(Bytes)
    BY <1>2 DEF Pair
  <1> QED
    BY <1>1, <1>2, <1>3, KeyFacts

\* deserialize_all skips nothing of a file whose keys ascend: the list it makes
\* has an entry without readers for every pair of the file, in its order.
THEOREM ReadsAll ==
  ASSUME NEW f, FileOK(f)
  PROVE  deserialize_all(f) = Entries(f, Len(f))
  <1> DEFINE h == Fold(f)
             P == {i \in Nat : i > Len(f) \/ h[1 .. i] = Entries(f, i)}
  <1>1. Len(f) \in Nat /\ DOMAIN f = 1 .. Len(f)
    BY FileFacts
  <1>2. \A s \in SUBSET (1 .. Len(f)) : h[s] = FoldBody(h, f, s)
    BY <1>1, FoldEquation
  <1> HIDE DEF h
  <1>3. 0 \in P
    <2>1. 1 .. 0 = {} /\ {} \in SUBSET (1 .. Len(f))
      OBVIOUS
    <2>2. h[1 .. 0] = <<>>
      BY <1>2, <2>1 DEF FoldBody
    <2>3. Entries(f, 0) = <<>>
      BY DEF Entries
    <2> QED
      BY <2>2, <2>3
  <1>4. ASSUME NEW i \in 0 .. Len(f) - 1, i \in P PROVE i + 1 \in P
    <2>1. h[1 .. i] = Entries(f, i) /\ i \in Nat /\ i + 1 \in 1 .. Len(f) /\ i \in 0 .. Len(f)
      BY <1>1, <1>4
    <2> DEFINE s == 1 .. i + 1
    <2>2. s \in SUBSET (1 .. Len(f)) /\ s # {} /\ i + 1 \in s
      <3>1. \A j \in s : j \in 1 .. Len(f)
        BY <1>1, <2>1
      <3>2. i + 1 \in s
        BY <2>1
      <3> HIDE DEF s
      <3> QED
        BY <3>1, <3>2
    <2>3. Max(s) \in s /\ \A y \in s : y <= Max(s)
      <3> HIDE DEF s
      <3> QED BY <1>1, <2>2, Largest
    <2>4. Max(s) = i + 1
      BY <2>1, <2>2, <2>3
    <2>5. s \ {Max(s)} = 1 .. i
      BY <2>1, <2>4
    <2>6. h[s] = ReadOne(Entries(f, i), f[i + 1])
      <3> HIDE DEF s
      <3>1. h[s] = ReadOne(h[s \ {Max(s)}], f[Max(s)])
        BY <1>2, <2>2 DEF FoldBody
      <3> QED BY <2>1, <2>4, <2>5, <3>1
    <2> DEFINE l == Entries(f, i)
    <2>7. l = [j \in 1 .. i |-> [k |-> f[j].k, v |-> f[j].v, ref |-> 0]]
      BY DEF Entries
    <2> DEFINE R == {[k |-> f[j].k, v |-> f[j].v, ref |-> 0] : j \in 1 .. Len(f)}
    <2>8. l \in Seq(R) /\ Len(l) = i /\ DOMAIN l = 1 .. i
      BY <2>1, <2>7
    <2>9. l # <<>> => ~(keycmp(f[i + 1].k, l[Len(l)].k) < 0)
      <3>1. SUFFICES ASSUME l # <<>> PROVE ~Less(f[i + 1].k, l[Len(l)].k)
        BY DEF Less
      <3>2. i # 0
        BY <2>8, <3>1
      <3>3. i \in 1 .. Len(f) /\ l[Len(l)].k = f[i].k
        BY <2>1, <2>7, <2>8, <3>2
      <3>4. Less(f[i].k, f[i + 1].k) /\ f[i].k \in Bytestring /\ f[i + 1].k \in Bytestring
        BY <2>1, <3>3, FileFacts
      <3> QED
        BY <3>3, <3>4, KeycmpFacts
    <2>10. h[s] = Append(l, [k |-> f[i + 1].k, v |-> f[i + 1].v, ref |-> 0])
      BY <2>6, <2>9 DEF ReadOne
    <2>11. Append(l, [k |-> f[i + 1].k, v |-> f[i + 1].v, ref |-> 0]) = Entries(f, i + 1)
      <3> DEFINE e == [k |-> f[i + 1].k, v |-> f[i + 1].v, ref |-> 0]
                 m == Append(l, e)
      <3>1. Entries(f, i + 1) = [j \in 1 .. i + 1 |-> [k |-> f[j].k, v |-> f[j].v, ref |-> 0]]
        BY DEF Entries
      <3>2. e \in R
        BY <2>1
      <3>3. \A j \in 1 .. i : l[j] = [k |-> f[j].k, v |-> f[j].v, ref |-> 0]
        BY <2>7
      <3> HIDE DEF R, l
      <3>4. DOMAIN m = 1 .. i + 1 /\ m \in Seq(R) /\ \A j \in 1 .. i : m[j] = l[j]
        BY <2>1, <2>8, <3>2
      <3>5. m[i + 1] = e
        BY <2>1, <2>8, <3>2
      <3>6. m = [j \in 1 .. i + 1 |-> m[j]]
        BY <3>4
      <3>7. \A j \in 1 .. i + 1 : m[j] = [k |-> f[j].k, v |-> f[j].v, ref |-> 0]
        <4> HIDE DEF m
        <4>1. ASSUME NEW j \in 1 .. i + 1 PROVE m[j] = [k |-> f[j].k, v |-> f[j].v, ref |-> 0]
          <5>1. j \in 1 .. i \/ j = i + 1
            BY <2>1
          <5> QED
            BY <3>3, <3>4, <3>5, <5>1
        <4> QED
          BY <4>1
      <3> HIDE DEF m
      <3>8. m = Entries(f, i + 1)
        BY <3>1, <3>6, <3>7
      <3> QED
        BY <3>8 DEF m
    <2> QED
      BY <2>1, <2>10, <2>11
  <1>5. Len(f) \in P
    <2>1. Len(f) \in 0 .. Len(f)
      BY <1>1
    <2> HIDE DEF P
    <2>2. \A i \in 0 .. Len(f) - 1 : i \in P => i + 1 \in P
      BY <1>4
    <2>3. \A i \in 0 .. Len(f) : i \in P
      BY <1>1, <1>3, <2>2, UpTo
    <2> QED
      BY <2>1, <2>3
  <1>6. h[1 .. Len(f)] = Entries(f, Len(f))
    BY <1>1, <1>5
  <1> QED
    BY <1>1, <1>6, ReadIsFold DEF h

-----------------------------------------------------------------------------
(* The invariant                                                           *)

\* x is in the range now.
Spans(r, x) == ~Less(x, r.n1) /\ ~Less(r.n2, x)

\* x is from np to the end of the range in the direction of the walk.
Ahead(r, x) ==
  IF r.dir = "forward" THEN ~Less(x, r.np) /\ ~Less(r.n2, x)
  ELSE ~Less(r.np, x) /\ ~Less(x, r.n1)

\* The ends and the node of the walk are in the list K, in order; what is
\* wanted has been seen or is ahead; before the first step all is ahead in
\* either direction.
RangeOK(r, K, sn, w) ==
  r.on /\ ~r.torn =>
    /\ r.n1 = NoNode => r.n2 = NoNode /\ r.np = NoNode
    /\ r.n1 # NoNode => r.n1 \in K /\ r.n2 \in K /\ ~Less(r.n2, r.n1)
    /\ r.np = NoNode => w \subseteq sn /\ sn # {}
    /\ r.np # NoNode => /\ r.n1 # NoNode /\ r.np \in K /\ Spans(r, r.np)
                        /\ \A x \in w : x \in sn \/ (x \in K /\ Ahead(r, x))
                        /\ sn = {} => \A x \in w : x \in K /\ Spans(r, x)

\* The file is in order; while it is written, the key to be written next is
\* in the list and above all that have been written.
SaveOK(s, K, f) ==
  /\ s.pc = "opened" => f = <<>>
  /\ s.pc = "writing" => /\ s.n1 \in K /\ s.n2 \in K /\ ~Less(s.n2, s.n1)
                         /\ \A i \in 1 .. Len(f) : Less(f[i].k, s.n1)

Node == Keys \cup {NoNode}

RangeSet == [on : BOOLEAN, n1 : Node, n2 : Node, np : Node, dir : {"forward", "backward"}, torn : BOOLEAN]

DbTypes ==
  /\ range \in RangeSet
  /\ save \in [pc : {"none", "opened", "writing"}, n1 : Node, n2 : Node]
  /\ seen \subseteq Keys /\ wanted \subseteq Keys

DbInv ==
  /\ DbTypes /\ ListOK(dblist) /\ FileOK(file)
  /\ SaveOK(save, KeysOf(dblist), file)
  /\ RangeOK(range, KeysOf(dblist), seen, wanted)

-----------------------------------------------------------------------------
(* Operations on one entry                                                 *)

LEMMA FoundIs ==
  ASSUME ListOK(dblist), NEW k \in Keys
  PROVE  Found(k) <=> k \in KeysOf(dblist)
  BY KeyFacts, SearchFinds DEF Found

\* A put adds its key, if it is new, and takes none away.
LEMMA PutEffect ==
  ASSUME ListOK(dblist), NEW k \in Keys, NEW v \in Seq(Bytes), NEW append \in BOOLEAN,
         onedb_put(k, v, append)
  PROVE  ListOK(dblist') /\ KeysOf(dblist') = KeysOf(dblist) \cup {k}
  <1> DEFINE s == bin_search(dblist, k)
             e == [k |-> k, v |-> v, ref |-> 0]
             w(i) == IF append THEN dblist[i].v \o v ELSE v
  <1>0. k \in Bytestring /\ e \in Entry /\ e.k = k
    BY KeyFacts DEF Entry
  <1>a. s.res \in {-1, 0, 1}
    <2>1. CASE dblist = <<>>
      BY <2>1, SearchIsHalf
    <2>2. CASE dblist # <<>>
      BY <1>0, <2>2, SearchAnswers, ListFacts, KeycmpFacts DEF Answer
    <2> QED
      BY <2>1, <2>2
  <1>1. /\ s.res > 0 => dblist' = InsertAt(dblist, At(dblist, s.node) + 1, e)
        /\ ~(s.res > 0) /\ s.res < 0 =>
              dblist' = InsertAt(dblist, IF s.node = NoNode THEN 1 ELSE At(dblist, s.node), e)
        /\ ~(s.res > 0) /\ ~(s.res < 0) =>
              dblist' = [dblist EXCEPT ![At(dblist, s.node)].v = IF append THEN @ \o v ELSE v]
    <2>1. CASE s.res > 0
      <3>1. ~(s.res < 0)
        BY <1>a, <2>1
      <3> QED
        BY <2>1, <3>1 DEF onedb_put
    <2>2. CASE ~(s.res > 0) /\ s.res < 0
      BY <2>2 DEF onedb_put
    <2>3. CASE ~(s.res > 0) /\ ~(s.res < 0)
      BY <2>3 DEF onedb_put
    <2> QED
      BY <2>1, <2>2, <2>3
  <1>2. CASE dblist = <<>>
    <2>1. s.res = -1 /\ s.node = NoNode
      BY <1>2, SearchIsHalf
    <2>2. dblist' = InsertAt(dblist, 0 + 1, e)
      BY <1>1, <2>1
    <2>3. Len(dblist) = 0
      BY <1>2
    <2> HIDE DEF e
    <2> QED
      BY <1>0, <2>2, <2>3, Inserted
  <1>3. CASE dblist # <<>>
    <2>1. PICK p \in 1 .. Len(dblist) :
             /\ s.node = dblist[p].k /\ s.res = keycmp(k, dblist[p].k)
             /\ s.res > 0 => \A j \in 1 .. Len(dblist) : j > p => Less(k, dblist[j].k)
             /\ s.res < 0 => \A j \in 1 .. Len(dblist) : j < p => Less(dblist[j].k, k)
      BY <1>0, <1>3, SearchAnswers DEF Answer
    <2>2. /\ At(dblist, s.node) = p /\ s.node # NoNode /\ Len(dblist) \in Nat
          /\ dblist[p] \in Entry /\ dblist[p].k \in Bytestring
          /\ \A j \in 1 .. Len(dblist) : dblist[j].k \in Bytestring
      BY <2>1, AtFacts, ListFacts
    <2> HIDE DEF s, e
    <2>3. /\ s.res \in {-1, 0, 1}
          /\ s.res < 0 <=> Less(k, dblist[p].k)
          /\ s.res > 0 <=> Less(dblist[p].k, k)
          /\ s.res = 0 <=> k = dblist[p].k
      BY <1>0, <2>1, <2>2, KeycmpFacts
    <2>4. CASE s.res > 0
      <3>1. \A j \in 1 .. Len(dblist) : j <= p => Less(dblist[j].k, e.k)
        <4>1. ASSUME NEW j \in 1 .. Len(dblist), j < p PROVE Less(dblist[j].k, k)
          <5>1. Less(dblist[j].k, dblist[p].k)
            BY <4>1, PlaceOrder
          <5> QED
            BY <1>0, <2>2, <2>3, <2>4, <5>1, LessTrans
        <4> QED
          BY <1>0, <2>2, <2>3, <2>4, <4>1
      <3>2. dblist' = InsertAt(dblist, p + 1, e)
        BY <1>1, <2>2, <2>4
      <3>3. \A j \in 1 .. Len(dblist) : j > p => Less(e.k, dblist[j].k)
        BY <1>0, <2>1, <2>4
      <3>4. p \in 0 .. Len(dblist)
        BY <2>2
      <3> QED
        BY <1>0, <3>1, <3>2, <3>3, <3>4, Inserted
    <2>5. CASE s.res < 0
      <3>0. ~(s.res > 0)
        BY <2>3, <2>5
      <3>1. \A j \in 1 .. Len(dblist) : j > p - 1 => Less(e.k, dblist[j].k)
        <4>1. ASSUME NEW j \in 1 .. Len(dblist), j > p PROVE Less(k, dblist[j].k)
          <5>1. Less(dblist[p].k, dblist[j].k)
            BY <4>1, PlaceOrder
          <5> QED
            BY <1>0, <2>2, <2>3, <2>5, <5>1, LessTrans
        <4> QED
          BY <1>0, <2>2, <2>3, <2>5, <4>1
      <3>2. \A j \in 1 .. Len(dblist) : j <= p - 1 => Less(dblist[j].k, e.k)
        BY <1>0, <2>1, <2>2, <2>5
      <3>3. p - 1 \in 0 .. Len(dblist) /\ (p - 1) + 1 = p
        BY <2>2
      <3>4. dblist' = InsertAt(dblist, (p - 1) + 1, e)
        BY <1>1, <2>2, <2>5, <3>0, <3>3
      <3> QED
        BY <1>0, <3>1, <3>2, <3>3, <3>4, Inserted
    <2>6. CASE s.res = 0
      <3>1. ~(s.res > 0) /\ ~(s.res < 0) /\ dblist[p].k = k
        BY <2>3, <2>6
      <3> DEFINE d == [dblist[p] EXCEPT !.v = w(p)]
      <3>2. dblist' = [dblist EXCEPT ![p] = d]
        BY <1>1, <2>2, <3>1
      <3>3. dblist[p].v \in Seq(Bytes)
        BY <2>2 DEF Entry
      <3>4. w(p) \in Seq(Bytes)
        BY <3>3
      <3> HIDE DEF w
      <3>5. d \in Entry /\ d.k = dblist[p].k
        BY <2>2, <3>4 DEF Entry
      <3> HIDE DEF d
      <3>6. ListOK(dblist') /\ KeysOf(dblist') = KeysOf(dblist)
        BY <3>2, <3>5, Updated
      <3>7. k \in KeysOf(dblist)
        BY <3>1, ListFacts
      <3> QED
        BY <3>6, <3>7
    <2> QED
      BY <2>3, <2>4, <2>5, <2>6
  <1> QED
    BY <1>2, <1>3

\* A counter of readers changes.
LEMMA RefEffect ==
  ASSUME ListOK(dblist), NEW k \in KeysOf(dblist), NEW n \in Nat,
         dblist' = [dblist EXCEPT ![At(dblist, k)].ref = n]
  PROVE  ListOK(dblist') /\ KeysOf(dblist') = KeysOf(dblist)
  <1>1. PICK p \in 1 .. Len(dblist) : p = At(dblist, k) /\ dblist[p].k = k
    BY AtFacts
  <1> DEFINE d == [dblist[p] EXCEPT !.ref = n]
  <1>2. dblist' = [dblist EXCEPT ![p] = d]
    BY <1>1
  <1>3. dblist[p] \in Entry
    BY ListFacts
  <1>4. d \in Entry /\ d.k = dblist[p].k
    BY <1>3 DEF Entry
  <1> HIDE DEF d
  <1>5. ASSUME NEW m, m = [dblist EXCEPT ![p] = d] PROVE ListOK(m) /\ KeysOf(m) = KeysOf(dblist)
    BY <1>4, <1>5, Updated
  <1> QED
    BY <1>2, <1>5, Zenon

LEMMA RemoveEffect ==
  ASSUME ListOK(dblist), NEW k \in KeysOf(dblist), dblist' = RemoveAt(dblist, At(dblist, k))
  PROVE  ListOK(dblist') /\ KeysOf(dblist') = KeysOf(dblist) \ {k}
  <1>1. PICK p \in 1 .. Len(dblist) : p = At(dblist, k) /\ dblist[p].k = k
    BY AtFacts
  <1> QED
    BY <1>1, Removed

-----------------------------------------------------------------------------
(* The walk                                                                *)

\* Entries come.
LEMMA RangeGrows ==
  ASSUME NEW r, NEW K, NEW L, NEW sn, NEW w, RangeOK(r, K, sn, w), K \subseteq L
  PROVE  RangeOK(r, L, sn, w)
  BY DEF RangeOK

\* An entry goes that the range does not point to.
LEMMA RangeLoses ==
  ASSUME NEW r, NEW K, NEW sn, NEW w, RangeOK(r, K, sn, w), NEW k, k \notin {r.n1, r.n2, r.np}
  PROVE  RangeOK(r, K \ {k}, sn, w \ {k})
  BY DEF RangeOK

\* What is ahead of a walk is in the range.
LEMMA AheadSpans ==
  ASSUME NEW r, NEW K, NEW x \in K, K \subseteq Bytestring, r.dir \in {"forward", "backward"},
         r.np \in K, r.n1 \in K, r.n2 \in K, Spans(r, r.np), Ahead(r, x)
  PROVE  Spans(r, x)
  <1>1. /\ x \in Bytestring /\ r.np \in Bytestring
        /\ r.n1 \in Bytestring /\ r.n2 \in Bytestring
    OBVIOUS
  <1>2. ~Less(r.np, r.n1) /\ ~Less(r.n2, r.np)
    BY DEF Spans
  <1>3. CASE r.dir = "forward"
    <2>1. ~Less(x, r.np) /\ ~Less(r.n2, x)
      BY <1>3 DEF Ahead
    <2> QED
      BY <1>1, <1>2, <2>1, NotLess DEF Spans
  <1>4. CASE r.dir = "backward"
    <2>1. ~Less(r.np, x) /\ ~Less(x, r.n1)
      BY <1>4 DEF Ahead
    <2> QED
      BY <1>1, <1>2, <2>1, NotLess DEF Spans
  <1> QED
    BY <1>3, <1>4

\* The walk moves: the next node is in the range, and what was ahead is the
\* node that is left or is ahead of the next one.
LEMMA MovedIs ==
  ASSUME DbInv, range.on, ~range.torn, range.np # NoNode
  PROVE  LET r == range
             K == KeysOf(dblist)
             n == Moved(r)
         IN  /\ n = NoNode => \A x \in K : Ahead(r, x) => x = r.np
             /\ n # NoNode => /\ n \in K /\ Spans(r, n) /\ n # r.np
                              /\ \A x \in K : Ahead(r, x) =>
                                    \/ x = r.np
                                    \/ r.dir = "forward" /\ ~Less(x, n) /\ ~Less(r.n2, x)
                                    \/ r.dir = "backward" /\ ~Less(n, x) /\ ~Less(x, r.n1)
             /\ n = NoNode <=> r.np = IF r.dir = "forward" THEN r.n2 ELSE r.n1
  <1> DEFINE r == range
             K == KeysOf(dblist)
             n == Moved(r)
  <1>1. ListOK(dblist) /\ \A x \in K : x \in Bytestring /\ x # NoNode
    BY ListFacts, KeyFacts DEF DbInv
  <1>2. /\ r.np \in K /\ r.n1 \in K /\ r.n2 \in K
        /\ ~Less(r.np, r.n1) /\ ~Less(r.n2, r.np)
    BY DEF DbInv, RangeOK, Spans
  <1>3. r.dir \in {"forward", "backward"}
    BY DEF DbInv, DbTypes, RangeSet
  <1>4. Above(K, r.np, next(dblist, r.np)) /\ Below(K, r.np, prev(dblist, r.np))
    BY <1>1, <1>2, Neighbours
  <1>5. CASE r.dir = "forward"
    <2>1. n = IF r.np = r.n2 THEN NoNode ELSE next(dblist, r.np)
      BY <1>5 DEF Moved
    <2>2. \A x : Ahead(r, x) <=> ~Less(x, r.np) /\ ~Less(r.n2, x)
      BY <1>5 DEF Ahead
    <2> HIDE DEF r, K, n
    <2>3. CASE r.np = r.n2
      <3>1. \A x \in K : Ahead(r, x) => x = r.np
        BY <1>1, <1>2, <2>2, <2>3, NotLess
      <3> QED
        BY <1>5, <2>1, <2>3, <3>1 DEF r, K, n
    <2>4. CASE r.np # r.n2
      <3>1. Less(r.np, r.n2)
        BY <1>1, <1>2, <2>4, NotLess
      <3>2. n \in K /\ Less(r.np, n) /\ \A x \in K : Less(r.np, x) => ~Less(x, n)
        BY <1>2, <1>4, <2>1, <2>4, <3>1 DEF Above
      <3>3. ~Less(r.n2, n) /\ n # NoNode
        BY <1>1, <1>2, <3>1, <3>2
      <3>4. ~Less(n, r.n1)
        <4>1. ~Less(n, r.np)
          BY <1>1, <1>2, <3>2, KeycmpFacts
        <4> QED
          BY <1>1, <1>2, <3>2, <4>1, NotLess
      <3>5. n # r.np
        BY <1>1, <1>2, <3>2, KeycmpFacts
      <3>6. ASSUME NEW x \in K, Ahead(r, x), x # r.np PROVE ~Less(x, n) /\ ~Less(r.n2, x)
        <4>1. Less(r.np, x)
          BY <1>1, <1>2, <2>2, <3>6, NotLess
        <4> QED
          BY <2>2, <3>2, <3>6, <4>1
      <3> QED
        BY <1>5, <2>4, <3>2, <3>3, <3>4, <3>5, <3>6 DEF Spans, r, K, n
    <2> QED
      BY <2>3, <2>4
  <1>6. CASE r.dir = "backward"
    <2>1. n = IF r.np = r.n1 THEN NoNode ELSE prev(dblist, r.np)
      BY <1>6 DEF Moved
    <2>2. \A x : Ahead(r, x) <=> ~Less(r.np, x) /\ ~Less(x, r.n1)
      BY <1>6 DEF Ahead
    <2> HIDE DEF r, K, n
    <2>3. CASE r.np = r.n1
      <3>1. \A x \in K : Ahead(r, x) => x = r.np
        BY <1>1, <1>2, <2>2, <2>3, NotLess
      <3> QED
        BY <1>6, <2>1, <2>3, <3>1 DEF r, K, n
    <2>4. CASE r.np # r.n1
      <3>1. Less(r.n1, r.np)
        BY <1>1, <1>2, <2>4, NotLess
      <3>2. n \in K /\ Less(n, r.np) /\ \A x \in K : Less(x, r.np) => ~Less(n, x)
        BY <1>2, <1>4, <2>1, <2>4, <3>1 DEF Below
      <3>3. ~Less(n, r.n1) /\ n # NoNode
        BY <1>1, <1>2, <3>1, <3>2
      <3>4. ~Less(r.n2, n)
        <4>1. ~Less(r.np, n)
          BY <1>1, <1>2, <3>2, KeycmpFacts
        <4> QED
          BY <1>1, <1>2, <3>2, <4>1, NotLess
      <3>5. n # r.np
        BY <1>1, <1>2, <3>2, KeycmpFacts
      <3>6. ASSUME NEW x \in K, Ahead(r, x), x # r.np PROVE ~Less(n, x) /\ ~Less(x, r.n1)
        <4>1. Less(x, r.np)
          BY <1>1, <1>2, <2>2, <3>6, NotLess
        <4> QED
          BY <2>2, <3>2, <3>6, <4>1
      <3> QED
        BY <1>6, <2>4, <3>2, <3>3, <3>4, <3>5, <3>6 DEF Spans, r, K, n
    <2> QED
      BY <2>3, <2>4
  <1> QED
    BY <1>3, <1>5, <1>6

LEMMA ReadStep ==
  ASSUME DbInv, Read
  PROVE  range' \in RangeSet /\ RangeOK(range', KeysOf(dblist), seen', wanted)
  <1> DEFINE K == KeysOf(dblist)
             n == Moved(range)
  <1>1. range.on /\ ~range.torn /\ range.np # NoNode /\ seen' = seen \cup {range.np}
    BY DEF Read
  <1>2. range \in RangeSet /\ K \subseteq Keys
    BY ListFacts DEF DbInv, DbTypes
  <1>3. range' = [range EXCEPT !.np = n]
    BY DEF Read
  <1>4. /\ n = NoNode => \A x \in K : Ahead(range, x) => x = range.np
        /\ n # NoNode => /\ n \in K /\ Spans(range, n) /\ n # range.np
                         /\ \A x \in K : Ahead(range, x) =>
                               \/ x = range.np
                               \/ range.dir = "forward" /\ ~Less(x, n) /\ ~Less(range.n2, x)
                               \/ range.dir = "backward" /\ ~Less(n, x) /\ ~Less(x, range.n1)
    BY <1>1, MovedIs
  <1>5. /\ range.n1 # NoNode /\ range.n1 \in K /\ range.n2 \in K /\ ~Less(range.n2, range.n1)
        /\ \A x \in wanted : x \in seen \/ (x \in K /\ Ahead(range, x))
    BY <1>1 DEF DbInv, RangeOK
  <1> HIDE DEF K, n
  <1>6. n \in Node
    BY <1>2, <1>4 DEF Node
  <1>7. /\ range' \in RangeSet /\ range'.on = range.on /\ range'.dir = range.dir /\ range'.torn = range.torn
        /\ range'.n1 = range.n1 /\ range'.n2 = range.n2 /\ range'.np = n
    BY <1>2, <1>3, <1>6 DEF RangeSet
  <1>8. CASE n = NoNode
    <2>1. wanted \subseteq seen' /\ seen' # {}
      BY <1>1, <1>4, <1>5, <1>8
    <2> QED
      BY <1>5, <1>7, <1>8, <2>1 DEF RangeOK, K
  <1>9. CASE n # NoNode
    <2>1. \A x \in wanted : x \in seen' \/ (x \in K /\ Ahead(range', x))
      BY <1>1, <1>4, <1>5, <1>7, <1>9 DEF Ahead
    <2>2. Spans(range', range'.np)
      BY <1>4, <1>7, <1>9 DEF Spans
    <2> QED
      BY <1>1, <1>4, <1>5, <1>7, <1>9, <2>1, <2>2 DEF RangeOK, K
  <1> QED
    BY <1>8, <1>9

LEMMA DelInRangeStep ==
  ASSUME DbInv, DelInRange
  PROVE  range' \in RangeSet /\ RangeOK(range', KeysOf(dblist) \ {range.np}, seen', wanted)
  <1> DEFINE K == KeysOf(dblist)
             L == K \ {range.np}
             n == Moved(range)
             up == next(dblist, range.np)
             down == prev(dblist, range.np)
  <1>1. range.on /\ ~range.torn /\ range.np # NoNode /\ seen' = seen \cup {range.np} /\ range' = Without(range)
    BY DEF DelInRange
  <1>2. range \in RangeSet /\ K \subseteq Keys /\ ListOK(dblist)
    BY ListFacts DEF DbInv, DbTypes
  <1>3. /\ n = NoNode => \A x \in K : Ahead(range, x) => x = range.np
        /\ n # NoNode => /\ n \in K /\ Spans(range, n) /\ n # range.np
                         /\ \A x \in K : Ahead(range, x) =>
                               \/ x = range.np
                               \/ range.dir = "forward" /\ ~Less(x, n) /\ ~Less(range.n2, x)
                               \/ range.dir = "backward" /\ ~Less(n, x) /\ ~Less(x, range.n1)
        /\ n = NoNode <=> range.np = IF range.dir = "forward" THEN range.n2 ELSE range.n1
    BY <1>1, MovedIs
  <1>4. /\ range.n1 # NoNode /\ range.n1 \in K /\ range.n2 \in K /\ ~Less(range.n2, range.n1)
        /\ range.np \in K /\ ~Less(range.np, range.n1) /\ ~Less(range.n2, range.np)
        /\ \A x \in wanted : x \in seen \/ (x \in K /\ Ahead(range, x))
    BY <1>1 DEF DbInv, RangeOK, Spans
  <1>5. /\ \A x \in K : x \in Bytestring /\ x # NoNode
        /\ NoNode \in Node /\ K \subseteq Node
    BY <1>2, KeyFacts DEF Node
  <1>6. CASE range.np = range.n1 /\ range.np = range.n2
    <2>1. range' = [range EXCEPT !.n1 = NoNode, !.n2 = NoNode, !.np = NoNode]
      BY <1>1, <1>6 DEF Without
    <2>2. n = NoNode
      BY <1>3, <1>6
    <2> HIDE DEF K, n
    <2>3. /\ range' \in RangeSet /\ range'.n1 = NoNode /\ range'.n2 = NoNode
          /\ range'.np = NoNode
      BY <1>2, <1>5, <2>1 DEF RangeSet
    <2>4. wanted \subseteq seen' /\ seen' # {}
      BY <1>1, <1>3, <1>4, <2>2
    <2> QED
      BY <2>3, <2>4 DEF RangeOK
  <1>7. CASE ~(range.np = range.n1 /\ range.np = range.n2)
    <2>1. range' = [range EXCEPT !.np = n,
                                 !.n1 = IF range.n1 = range.np THEN up ELSE range.n1,
                                 !.n2 = IF range.n2 = range.np THEN down ELSE range.n2]
      <3>1. Without(range) = [range EXCEPT !.np = n,
                                           !.n1 = IF range.n1 = range.np THEN up ELSE range.n1,
                                           !.n2 = IF range.n2 = range.np THEN down ELSE range.n2]
        BY <1>2, <1>7 DEF Without, RangeSet
      <3> QED
        BY <1>1, <3>1
    <2>2. Above(K, range.np, up) /\ Below(K, range.np, down)
      BY <1>2, <1>4, Neighbours
    <2> DEFINE a == IF range.n1 = range.np THEN up ELSE range.n1
               b == IF range.n2 = range.np THEN down ELSE range.n2
    <2>3. /\ range.dir = "forward" /\ range.np # range.n2 => n = up
          /\ range.dir = "backward" /\ range.np # range.n1 => n = down
      BY DEF Moved
    <2>4. range.dir \in {"forward", "backward"}
      BY <1>2 DEF RangeSet
    <2> HIDE DEF K, n, up, down
    <2>5. /\ range.n1 = range.np => Less(range.np, range.n2)
          /\ range.n2 = range.np => Less(range.n1, range.np)
      BY <1>4, <1>5, <1>7, NotLess
    <2>6. range.n1 = range.np => up \in K /\ Less(range.np, up) /\ ~Less(range.n2, up)
      BY <1>4, <1>5, <2>2, <2>5 DEF Above
    <2>7. range.n2 = range.np => down \in K /\ Less(down, range.np) /\ ~Less(down, range.n1)
      BY <1>4, <1>5, <2>2, <2>5 DEF Below
    <2>8. /\ a \in L /\ b \in L /\ a # NoNode /\ ~Less(b, a)
      <3>1. ~Less(range.np, range.np)
        BY <1>4, <1>5, KeycmpFacts
      <3> QED
        BY <1>4, <1>5, <1>7, <2>6, <2>7, <3>1
    <2>9. ASSUME NEW x \in L, Spans(range, x) PROVE ~Less(x, a) /\ ~Less(b, x)
      <3>1. ~Less(x, range.n1) /\ ~Less(range.n2, x) /\ x \in K /\ x # range.np
        BY <2>9 DEF Spans
      <3>2. CASE range.n1 = range.np
        <4>1. Less(range.np, x)
          BY <1>4, <1>5, <3>1, <3>2, NotLess
        <4>2. ~Less(x, up)
          BY <1>5, <2>2, <2>6, <3>1, <3>2, <4>1 DEF Above
        <4> QED
          BY <1>7, <3>1, <3>2, <4>2
      <3>3. CASE range.n2 = range.np
        <4>1. Less(x, range.np)
          BY <1>4, <1>5, <3>1, <3>3, NotLess
        <4>2. ~Less(down, x)
          BY <1>5, <2>2, <2>7, <3>1, <3>3, <4>1 DEF Below
        <4> QED
          BY <1>7, <3>1, <3>3, <4>2
      <3> QED
        BY <3>1, <3>2, <3>3
    <2> HIDE DEF a, b
    <2>10. n \in Node /\ a \in Node /\ b \in Node
      BY <1>3, <1>5, <2>8
    <2>11. /\ range' \in RangeSet /\ range'.on = range.on /\ range'.dir = range.dir /\ range'.torn = range.torn
           /\ range'.n1 = a /\ range'.n2 = b /\ range'.np = n
      BY <1>2, <2>1, <2>10 DEF RangeSet, a, b
    <2>12. CASE n = NoNode
      <3>1. wanted \subseteq seen' /\ seen' # {}
        BY <1>1, <1>3, <1>4, <2>12
      <3> QED
        BY <2>8, <2>11, <2>12, <3>1 DEF RangeOK, K
    <2>13. CASE n # NoNode
      <3>1. n \in L /\ Spans(range, n)
        BY <1>3, <2>13
      <3>2. Spans(range', range'.np)
        BY <2>9, <2>11, <3>1 DEF Spans
      <3>3. ASSUME NEW x \in wanted, x \notin seen' PROVE x \in L /\ Ahead(range', x)
        <4>1. x \in L /\ Ahead(range, x)
          BY <1>1, <1>4, <3>3
        <4>2. Spans(range, x)
          <5>1. K \subseteq Bytestring /\ Spans(range, range.np)
            BY <1>4, <1>5 DEF Spans
          <5> QED
            BY <1>4, <2>4, <4>1, <5>1, AheadSpans
        <4>3. ~Less(x, a) /\ ~Less(b, x)
          BY <2>9, <4>1, <4>2
        <4>4. \/ range.dir = "forward" /\ ~Less(x, n)
              \/ range.dir = "backward" /\ ~Less(n, x)
          BY <1>3, <2>13, <4>1
        <4> QED
          BY <2>11, <4>1, <4>3, <4>4 DEF Ahead
      <3> QED
        BY <1>1, <2>8, <2>11, <2>13, <3>1, <3>2, <3>3 DEF RangeOK, K
    <2> QED
      BY <2>12, <2>13
  <1> QED
    BY <1>6, <1>7

LEMMA GetRangeStep ==
  ASSUME DbInv, GetRange
  PROVE  /\ range' \in RangeSet /\ seen' \subseteq Keys /\ wanted' \subseteq Keys
         /\ RangeOK(range', KeysOf(dblist), seen', wanted')
  <1> DEFINE K == KeysOf(dblist)
  <1>1. PICK k1 \in Keys \cup {<<>>}, k2 \in Keys \cup {<<>>} :
           LET r == get_range(dblist, k1, k2)
           IN  /\ r # <<>>
               /\ range' = [NoRange EXCEPT !.on = TRUE, !.n1 = r[1], !.n2 = r[2], !.np = r[1]]
               /\ wanted' = {k \in K : InRange(k, k1, k2)}
    BY DEF GetRange
  <1>2. k1 \in Bytestring /\ k2 \in Bytestring /\ ListOK(dblist)
    BY KeyFacts DEF DbInv
  <1>3. K \subseteq Keys /\ \A x \in K : x \in Bytestring /\ x # NoNode
    BY <1>2, ListFacts, KeyFacts
  <1>4. PICK n1 \in K, n2 \in K :
           /\ get_range(dblist, k1, k2) = <<n1, n2>> /\ ~Less(n2, n1)
           /\ \A x \in K : Within(x, k1, k2) => ~Less(x, n1) /\ ~Less(n2, x)
    BY <1>1, <1>2, RangeIs
  <1>5. range' = [on |-> TRUE, n1 |-> n1, n2 |-> n2, np |-> n1, dir |-> "forward", torn |-> FALSE]
    <2>1. range' = [NoRange EXCEPT !.on = TRUE, !.n1 = n1, !.n2 = n2, !.np = n1]
      <3> DEFINE r == get_range(dblist, k1, k2)
      <3>1. r[1] = n1 /\ r[2] = n2
        BY <1>4
      <3>2. range' = [NoRange EXCEPT !.on = TRUE, !.n1 = r[1], !.n2 = r[2], !.np = r[1]]
        BY <1>1
      <3> HIDE DEF r
      <3> QED
        BY <3>1, <3>2
    <2> QED
      BY <2>1 DEF NoRange
  <1>6. wanted' \subseteq K /\ \A x \in wanted' : InRange(x, k1, k2)
    BY <1>1
  <1>7. seen' = {}
    BY DEF GetRange
  <1>8. ASSUME NEW x \in wanted' PROVE x \in K /\ ~Less(x, n1) /\ ~Less(n2, x)
    <2>1. x \in K /\ InRange(x, k1, k2) /\ x \in Bytestring
      BY <1>3, <1>6, <1>8
    <2>2. k1 = <<>> \/ ~Less(x, k1)
      <3>1. /\ keycmp(k1, x) > 0 <=> Less(x, k1)
            /\ keycmp(k1, x) \in {-1, 0, 1}
        BY <1>2, <2>1, KeycmpFacts
      <3> QED
        BY <2>1, <3>1 DEF InRange
    <2>3. k2 = <<>> \/ ~Less(k2, x)
      <3>1. /\ keycmp(x, k2) > 0 <=> Less(k2, x)
            /\ keycmp(x, k2) \in {-1, 0, 1}
        BY <1>2, <2>1, KeycmpFacts
      <3> QED
        BY <2>1, <3>1 DEF InRange
    <2>4. Within(x, k1, k2)
      BY <1>2, <2>1, <2>2, <2>3, NotLess DEF Within
    <2> QED
      BY <1>4, <2>1, <2>4
  <1> HIDE DEF K
  <1>9. range' \in RangeSet
    BY <1>3, <1>4, <1>5 DEF RangeSet, Node
  <1>10. RangeOK(range', K, seen', wanted')
    <2>1. ~Less(n1, n1)
      BY <1>3, KeycmpFacts
    <2> QED
      BY <1>3, <1>4, <1>5, <1>7, <1>8, <2>1 DEF RangeOK, Spans, Ahead
  <1> QED
    BY <1>3, <1>6, <1>7, <1>9, <1>10 DEF K

LEMMA MoveBottomStep ==
  ASSUME DbInv, MoveBottom
  PROVE  range' \in RangeSet /\ RangeOK(range', KeysOf(dblist), seen, wanted)
  <1> DEFINE K == KeysOf(dblist)
  <1>1. range.on /\ seen = {} /\ range' = [range EXCEPT !.np = range.n2, !.dir = "backward"]
    BY DEF MoveBottom
  <1>2. range \in RangeSet /\ RangeOK(range, K, seen, wanted)
    BY DEF DbInv, DbTypes
  <1>3. /\ range' \in RangeSet /\ range'.on = range.on /\ range'.dir = "backward" /\ range'.torn = range.torn
        /\ range'.n1 = range.n1 /\ range'.n2 = range.n2 /\ range'.np = range.n2
    BY <1>1, <1>2 DEF RangeSet
  <1>0. CASE range.torn
    BY <1>0, <1>3 DEF RangeOK
  <1> SUFFICES ASSUME ~range.torn PROVE RangeOK(range', K, seen, wanted)
    BY <1>0, <1>3
  <1>4. range.np # NoNode /\ range.n1 # NoNode /\ range.n1 \in K /\ range.n2 \in K /\ ~Less(range.n2, range.n1)
    BY <1>1, <1>2 DEF RangeOK
  <1>5. \A x \in wanted : x \in K /\ Spans(range, x)
    BY <1>1, <1>2, <1>4 DEF RangeOK
  <1>6. ~Less(range.n2, range.n2) /\ range.n2 # NoNode
    <2>1. range.n2 \in Bytestring /\ range.n2 # NoNode
      BY <1>4, ListFacts, KeyFacts DEF DbInv
    <2> QED
      BY <2>1, KeycmpFacts
  <1> QED
    BY <1>1, <1>3, <1>4, <1>5, <1>6 DEF RangeOK, Spans, Ahead

-----------------------------------------------------------------------------
(* The file                                                                *)

LEMMA SaveLockStep ==
  ASSUME DbInv, SaveLock
  PROVE  /\ save' \in [pc : {"none", "opened", "writing"}, n1 : Node, n2 : Node]
         /\ SaveOK(save', KeysOf(dblist), file)
  <1> DEFINE K == KeysOf(dblist)
             r == get_range(dblist, <<>>, LastSaved)
  <1>1. save.pc = "opened" /\ save' = IF r = <<>> THEN NoSave ELSE [pc |-> "writing", n1 |-> r[1], n2 |-> r[2]]
    BY DEF SaveLock
  <1>2. file = <<>> /\ ListOK(dblist)
    BY <1>1 DEF DbInv, SaveOK
  <1>3. CASE r = <<>>
    <2>1. save' = NoSave
      BY <1>1, <1>3
    <2> QED
      BY <2>1 DEF NoSave, SaveOK, Node
  <1>4. CASE r # <<>>
    <2>1. PICK n1 \in K, n2 \in K : r = <<n1, n2>> /\ ~Less(n2, n1)
      BY <1>2, <1>4, KeyFacts, RangeIs
    <2>2. save' = [pc |-> "writing", n1 |-> n1, n2 |-> n2]
      BY <1>1, <1>4, <2>1
    <2>3. n1 \in Node /\ n2 \in Node
      BY <1>2, ListFacts DEF Node
    <2>4. Len(file) = 0
      BY <1>2
    <2> QED
      BY <2>1, <2>2, <2>3, <2>4 DEF SaveOK
  <1> QED
    BY <1>3, <1>4

LEMMA SaveOneStep ==
  ASSUME DbInv, SaveOne
  PROVE  /\ save' \in [pc : {"none", "opened", "writing"}, n1 : Node, n2 : Node]
         /\ FileOK(file') /\ SaveOK(save', KeysOf(dblist), file')
  <1> DEFINE K == KeysOf(dblist)
             e == dblist[At(dblist, save.n1)]
             d == [k |-> e.k, v |-> e.v]
             up == next(dblist, save.n1)
  <1>1. /\ save.pc = "writing" /\ file' = Append(file, d)
        /\ save' = IF save.n1 = save.n2 THEN NoSave ELSE [save EXCEPT !.n1 = up]
    BY DEF SaveOne
  <1>2. /\ save.n1 \in K /\ save.n2 \in K /\ ~Less(save.n2, save.n1) /\ ListOK(dblist)
        /\ \A i \in 1 .. Len(file) : Less(file[i].k, save.n1)
        /\ save \in [pc : {"none", "opened", "writing"}, n1 : Node, n2 : Node]
    BY <1>1 DEF DbInv, SaveOK, DbTypes
  <1>3. e \in Entry /\ e.k = save.n1
    BY <1>2, AtFacts, ListFacts
  <1>4. \A x \in K : x \in Bytestring /\ x # NoNode /\ x \in Node
    BY <1>2, ListFacts, KeyFacts DEF Node
  <1> HIDE DEF e
  <1>5. d \in Pair /\ d.k = save.n1
    BY <1>3 DEF Entry, Pair
  <1>6. /\ Len(file) \in Nat /\ file \in Seq(Pair)
        /\ \A i, j \in 1 .. Len(file) : i < j => Less(file[i].k, file[j].k)
        /\ \A i \in 1 .. Len(file) : file[i].k \in Bytestring
    BY FileFacts DEF DbInv
  <1> HIDE DEF d
  <1>7. /\ file' \in Seq(Pair) /\ Len(file') = Len(file) + 1
        /\ \A i \in 1 .. Len(file) : file'[i] = file[i]
        /\ file'[Len(file) + 1] = d
    BY <1>1, <1>5, <1>6
  <1>8. FileOK(file')
    <2>1. ASSUME NEW i \in 1 .. Len(file'), NEW j \in 1 .. Len(file'), i < j
          PROVE  Less(file'[i].k, file'[j].k)
      <3>1. i \in 1 .. Len(file) /\ j \in 1 .. Len(file) + 1
        BY <1>6, <1>7, <2>1
      <3>2. CASE j = Len(file) + 1
        BY <1>2, <1>5, <1>7, <3>1, <3>2
      <3>3. CASE j # Len(file) + 1
        <4>1. j \in 1 .. Len(file)
          BY <1>6, <3>1, <3>3
        <4> QED
          BY <1>6, <1>7, <2>1, <3>1, <4>1
      <3> QED
        BY <3>2, <3>3
    <2> QED
      BY <1>7, <2>1 DEF FileOK, Ascending
  <1>9. CASE save.n1 = save.n2
    <2>1. save' = NoSave
      BY <1>1, <1>9
    <2> QED
      BY <1>8, <2>1 DEF NoSave, SaveOK, Node
  <1>10. CASE save.n1 # save.n2
    <2>1. Less(save.n1, save.n2)
      BY <1>2, <1>4, <1>10, NotLess
    <2>2. Above(K, save.n1, up)
      BY <1>2, Neighbours
    <2> HIDE DEF K, up
    <2>3. up \in K /\ Less(save.n1, up) /\ ~Less(save.n2, up)
      BY <1>2, <1>4, <2>1, <2>2 DEF Above
    <2>4. /\ save' \in [pc : {"none", "opened", "writing"}, n1 : Node, n2 : Node]
          /\ save'.pc = "writing" /\ save'.n1 = up /\ save'.n2 = save.n2
      BY <1>1, <1>2, <1>4, <1>10, <2>3
    <2>5. \A i \in 1 .. Len(file') : Less(file'[i].k, up)
      <3>1. ASSUME NEW i \in 1 .. Len(file') PROVE Less(file'[i].k, up)
        <4>1. i \in 1 .. Len(file) \/ i = Len(file) + 1
          BY <1>6, <1>7
        <4>2. CASE i \in 1 .. Len(file)
          <5>1. file'[i].k \in Bytestring /\ Less(file'[i].k, save.n1)
            BY <1>2, <1>6, <1>7, <4>2
          <5> QED
            BY <1>2, <1>4, <2>3, <5>1, LessTrans
        <4>3. CASE i = Len(file) + 1
          BY <1>5, <1>7, <2>3, <4>3
        <4> QED
          BY <4>1, <4>2, <4>3
      <3> QED
        BY <3>1
    <2> QED
      BY <1>2, <1>8, <2>3, <2>4, <2>5 DEF SaveOK, K
  <1> QED
    BY <1>9, <1>10

\* The beginning of a file in order is in order, and so is the list read of it.
LEMMA RestartStep ==
  ASSUME DbInv, Restart
  PROVE  FileOK(file') /\ ListOK(dblist')
  <1>1. PICK n \in 0 .. Len(file) : file' = SubSeq(file, 1, n)
    BY DEF Restart
  <1>2. /\ Len(file) \in Nat /\ file \in Seq(Pair)
        /\ \A i, j \in 1 .. Len(file) : i < j => Less(file[i].k, file[j].k)
    BY FileFacts DEF DbInv
  <1>3. file' \in Seq(Pair) /\ Len(file') = n /\ \A i \in 1 .. n : file'[i] = file[i]
    BY <1>1, <1>2
  <1>4. FileOK(file')
    BY <1>2, <1>3 DEF FileOK, Ascending
  <1>5. dblist' = Entries(file', Len(file'))
    BY <1>4, ReadsAll DEF Restart
  <1>6. dblist' = [i \in 1 .. n |-> [k |-> file'[i].k, v |-> file'[i].v, ref |-> 0]]
    BY <1>3, <1>5 DEF Entries
  <1>7. \A i \in 1 .. n : file'[i].k \in Keys /\ file'[i].v \in Seq(Bytes)
    BY <1>3, <1>4, FileFacts
  <1>8. \A i \in 1 .. n : dblist'[i] \in Entry /\ dblist'[i].k = file'[i].k
    BY <1>6, <1>7 DEF Entry
  <1>9. dblist' \in Seq(Entry) /\ Len(dblist') = n
    BY <1>2, <1>6, <1>8
  <1> QED
    BY <1>3, <1>4, <1>8, <1>9 DEF ListOK, FileOK, Ascending

-----------------------------------------------------------------------------
(* The invariant is inductive                                              *)

LEMMA DbInit == Init => DbInv
  <1> SUFFICES ASSUME Init PROVE DbInv
    OBVIOUS
  <1>1. dblist = <<>> /\ file = <<>> /\ Len(dblist) = 0 /\ Len(file) = 0
    BY DEF Init
  <1>2. ListOK(dblist) /\ FileOK(file)
    <2>1. dblist \in Seq(Entry) /\ file \in Seq(Pair)
      BY <1>1
    <2> QED
      BY <1>1, <2>1 DEF ListOK, FileOK, Ascending
  <1>3. DbTypes
    BY DEF Init, DbTypes, RangeSet, Node, NoRange, NoSave
  <1>4. SaveOK(save, KeysOf(dblist), file)
    BY DEF Init, SaveOK, NoSave
  <1>5. RangeOK(range, KeysOf(dblist), seen, wanted)
    BY DEF Init, RangeOK, NoRange
  <1> QED
    BY <1>2, <1>3, <1>4, <1>5 DEF DbInv

\* While dbmutex is free a change of the list leaves the save alone.
LEMMA SaveFree ==
  ASSUME DbInv, Unlocked, save' = save, file' = file
  PROVE  SaveOK(save', KeysOf(dblist'), file')
  BY DEF DbInv, SaveOK, Unlocked

\* The actions that change the entries only.
LEMMA EntryStep ==
  ASSUME DbInv, Unlocked, UNCHANGED <<seen, file, save>>, range' \in RangeSet,
         ListOK(dblist'), wanted' \subseteq Keys,
         RangeOK(range', KeysOf(dblist'), seen, wanted')
  PROVE  DbInv'
  <1>1. SaveOK(save', KeysOf(dblist'), file')
    BY SaveFree
  <1>2. DbTypes'
    BY DEF DbInv, DbTypes
  <1>3. RangeOK(range', KeysOf(dblist'), seen', wanted')
    <2>1. seen' = seen
      OBVIOUS
    <2> QED
      BY <2>1
  <1>4. FileOK(file')
    <2>1. FileOK(file) /\ file' = file
      BY DEF DbInv
    <2> QED
      BY <2>1
  <1> QED
    BY <1>1, <1>2, <1>3, <1>4 DEF DbInv

LEMMA PutStep ==
  ASSUME DbInv, Put
  PROVE  DbInv'
  <1>1. Unlocked /\ UNCHANGED <<range, seen, wanted, file, save>>
    BY DEF Put
  <1>2. PICK k \in Keys, b \in Bytes, append \in BOOLEAN : onedb_put(k, <<b>>, append)
    BY DEF Put
  <1>3. <<b>> \in Seq(Bytes)
    OBVIOUS
  <1>4. ListOK(dblist') /\ KeysOf(dblist') = KeysOf(dblist) \cup {k}
    BY <1>2, <1>3, PutEffect DEF DbInv
  <1>5. RangeOK(range, KeysOf(dblist'), seen, wanted)
    <2>1. RangeOK(range, KeysOf(dblist), seen, wanted) /\ KeysOf(dblist) \subseteq KeysOf(dblist')
      BY <1>4 DEF DbInv
    <2> QED
      BY <2>1, RangeGrows
  <1>6. wanted' \subseteq Keys /\ wanted' = wanted
    BY <1>1 DEF DbInv, DbTypes
  <1> QED
    <2>1. range' = range /\ range \in RangeSet
      BY <1>1 DEF DbInv, DbTypes
    <2>2. RangeOK(range', KeysOf(dblist'), seen, wanted')
      BY <1>5, <1>6, <2>1
    <2> QED
      BY <1>1, <1>4, <1>6, <2>1, <2>2, EntryStep

\* A reader comes or goes.
LEMMA ReaderStep ==
  ASSUME DbInv, Get \/ GetRelease
  PROVE  DbInv'
  <1>1. Unlocked /\ UNCHANGED <<range, seen, wanted, file, save>>
    BY DEF Get, GetRelease
  <1>2. PICK k \in Keys : /\ Found(k)
                          /\ \/ dblist' = [dblist EXCEPT ![At(dblist, k)].ref = @ + 1]
                             \/ /\ dblist[At(dblist, k)].ref > 0
                                /\ dblist' = [dblist EXCEPT ![At(dblist, k)].ref = @ - 1]
    BY DEF Get, GetRelease
  <1>3. ListOK(dblist) /\ k \in KeysOf(dblist)
    BY <1>2, FoundIs DEF DbInv
  <1>4. dblist[At(dblist, k)] \in Entry
    BY <1>3, AtFacts, ListFacts
  <1> DEFINE c == dblist[At(dblist, k)].ref
  <1>5. c \in Nat
    BY <1>4 DEF Entry
  <1>6. PICK n \in Nat : dblist' = [dblist EXCEPT ![At(dblist, k)].ref = n]
    <2>1. CASE dblist' = [dblist EXCEPT ![At(dblist, k)].ref = @ + 1]
      <3>1. c + 1 \in Nat
        BY <1>5
      <3>2. dblist' = [dblist EXCEPT ![At(dblist, k)].ref = c + 1]
        BY <2>1
      <3> QED
        BY <3>1, <3>2
    <2>2. CASE c > 0 /\ dblist' = [dblist EXCEPT ![At(dblist, k)].ref = @ - 1]
      <3>1. c - 1 \in Nat
        BY <1>5, <2>2
      <3>2. dblist' = [dblist EXCEPT ![At(dblist, k)].ref = c - 1]
        BY <2>2
      <3> QED
        BY <3>1, <3>2
    <2> QED
      BY <1>2, <2>1, <2>2
  <1>7. ListOK(dblist') /\ KeysOf(dblist') = KeysOf(dblist)
    BY <1>3, <1>6, RefEffect
  <1>8. RangeOK(range, KeysOf(dblist'), seen, wanted')
    <2>1. RangeOK(range, KeysOf(dblist), seen, wanted) /\ wanted' = wanted
      BY <1>1 DEF DbInv
    <2> QED
      BY <1>7, <2>1
  <1>9. wanted' \subseteq Keys
    BY <1>1 DEF DbInv, DbTypes
  <1> QED
    <2>1. range' = range /\ range \in RangeSet
      BY <1>1 DEF DbInv, DbTypes
    <2>2. RangeOK(range', KeysOf(dblist'), seen, wanted')
      BY <1>8, <2>1
    <2> QED
      BY <1>1, <1>7, <1>9, <2>1, <2>2, EntryStep

LEMMA DelStep ==
  ASSUME DbInv, Del
  PROVE  DbInv'
  <1> DEFINE K == KeysOf(dblist)
  <1>1. Unlocked /\ UNCHANGED <<seen, file, save>> /\ range \in RangeSet
    BY DEF Del, DbInv, DbTypes
  <1>2. PICK k \in Keys : /\ Found(k)
                          /\ dblist' = RemoveAt(dblist, At(dblist, k)) /\ wanted' = wanted \ {k}
                          /\ range' = [range EXCEPT !.torn = @ \/ k \in {range.n1, range.n2, range.np}]
    BY DEF Del
  <1>3. ListOK(dblist) /\ k \in K
    BY <1>2, FoundIs DEF DbInv
  <1>4. ListOK(dblist') /\ KeysOf(dblist') = K \ {k}
    BY <1>2, <1>3, RemoveEffect
  <1>5. /\ range' \in RangeSet
        /\ range'.torn \/ (range' = range /\ k \notin {range.n1, range.n2, range.np})
    <2>1. CASE range.torn \/ k \in {range.n1, range.n2, range.np}
      <3>1. range' = [range EXCEPT !.torn = TRUE]
        BY <1>2, <2>1
      <3> QED
        BY <1>1, <3>1 DEF RangeSet
    <2>2. CASE ~range.torn /\ k \notin {range.n1, range.n2, range.np}
      <3>1. range' = [range EXCEPT !.torn = FALSE]
        BY <1>2, <2>2
      <3>2. range' = range
        BY <1>1, <2>2, <3>1 DEF RangeSet
      <3> QED
        BY <1>1, <2>2, <3>2
    <2> QED
      BY <2>1, <2>2
  <1>7. RangeOK(range', K \ {k}, seen, wanted \ {k})
    <2>1. RangeOK(range, K, seen, wanted)
      BY DEF DbInv
    <2> HIDE DEF K
    <2>2. CASE range'.torn
      BY <2>2 DEF RangeOK
    <2>3. CASE range' = range /\ k \notin {range.n1, range.n2, range.np}
      BY <2>1, <2>3, RangeLoses
    <2> QED
      BY <1>5, <2>2, <2>3
  <1>8. wanted' \subseteq Keys
    BY <1>2 DEF DbInv, DbTypes
  <1>9. RangeOK(range', KeysOf(dblist'), seen, wanted')
    BY <1>2, <1>4, <1>7
  <1> QED
    BY <1>1, <1>4, <1>5, <1>8, <1>9, EntryStep

\* The actions of the walk that leave the list alone.
LEMMA WalkStep ==
  ASSUME DbInv, GetRange \/ MoveBottom \/ Read \/ GetRangeRelease
  PROVE  DbInv'
  <1>1. UNCHANGED <<dblist, file, save>>
    BY DEF GetRange, MoveBottom, Read, GetRangeRelease
  <1>2. /\ range' \in RangeSet /\ seen' \subseteq Keys /\ wanted' \subseteq Keys
        /\ RangeOK(range', KeysOf(dblist), seen', wanted')
    <2>1. CASE GetRange
      BY <2>1, GetRangeStep
    <2>2. CASE MoveBottom
      <3>1. seen' = seen /\ wanted' = wanted
        BY <2>2 DEF MoveBottom
      <3> QED
        BY <2>2, <3>1, MoveBottomStep DEF DbInv, DbTypes
    <2>3. CASE Read
      <3>1. seen' = seen \cup {range.np} /\ wanted' = wanted /\ range.on /\ ~range.torn /\ range.np # NoNode
        BY <2>3 DEF Read
      <3>2. range.np \in Keys
        BY <3>1 DEF DbInv, DbTypes, RangeSet, Node
      <3> QED
        BY <2>3, <3>1, <3>2, ReadStep DEF DbInv, DbTypes
    <2>4. CASE GetRangeRelease
      <3>1. range' = NoRange /\ seen' = {} /\ wanted' = {}
        BY <2>4 DEF GetRangeRelease
      <3> QED
        BY <3>1 DEF NoRange, RangeSet, Node, RangeOK
    <2> QED
      BY <2>1, <2>2, <2>3, <2>4
  <1>3. DbTypes'
    BY <1>1, <1>2 DEF DbInv, DbTypes
  <1>4. ListOK(dblist') /\ FileOK(file') /\ SaveOK(save', KeysOf(dblist'), file')
    BY <1>1 DEF DbInv
  <1>5. RangeOK(range', KeysOf(dblist'), seen', wanted')
    BY <1>1, <1>2
  <1> QED
    BY <1>3, <1>4, <1>5 DEF DbInv

\* The walk deletes its node.
LEMMA WalkDelStep ==
  ASSUME DbInv, DelInRange
  PROVE  DbInv'
  <1>1. /\ Unlocked /\ range.on /\ ~range.torn /\ range.np # NoNode /\ UNCHANGED <<wanted, file, save>>
        /\ dblist' = RemoveAt(dblist, At(dblist, range.np)) /\ seen' = seen \cup {range.np}
    BY DEF DelInRange
  <1>2. ListOK(dblist) /\ range.np \in KeysOf(dblist)
    BY <1>1 DEF DbInv, RangeOK
  <1>3. ListOK(dblist') /\ KeysOf(dblist') = KeysOf(dblist) \ {range.np}
    BY <1>1, <1>2, RemoveEffect
  <1>4. range' \in RangeSet /\ RangeOK(range', KeysOf(dblist'), seen', wanted')
    BY <1>1, <1>3, DelInRangeStep
  <1>5. SaveOK(save', KeysOf(dblist'), file')
    BY <1>1, SaveFree
  <1>6. range.np \in Keys
    BY <1>2, ListFacts
  <1>7. DbTypes'
    BY <1>1, <1>4, <1>6 DEF DbInv, DbTypes
  <1>8. FileOK(file')
    BY <1>1 DEF DbInv
  <1> QED
    BY <1>3, <1>4, <1>5, <1>7, <1>8 DEF DbInv

\* The save, and the end and the new start of the process.
LEMMA FileStep ==
  ASSUME DbInv, SaveOpen \/ SaveLock \/ SaveOne \/ SaveFails
  PROVE  DbInv'
  <1>1. UNCHANGED <<dblist, range, seen, wanted>>
    BY DEF SaveOpen, SaveLock, SaveOne, SaveFails
  <1>2. /\ save' \in [pc : {"none", "opened", "writing"}, n1 : Node, n2 : Node]
        /\ FileOK(file') /\ SaveOK(save', KeysOf(dblist), file')
    <2>1. CASE SaveOpen
      <3>1. file' = <<>> /\ save' = [NoSave EXCEPT !.pc = "opened"] /\ Len(file') = 0
        BY <2>1 DEF SaveOpen
      <3>2. file' \in Seq(Pair)
        BY <3>1
      <3>3. FileOK(file')
        BY <3>1, <3>2 DEF FileOK, Ascending
      <3>4. save' = [pc |-> "opened", n1 |-> NoNode, n2 |-> NoNode]
        BY <3>1 DEF NoSave
      <3>5. save'.pc = "opened" /\ save' \in [pc : {"none", "opened", "writing"}, n1 : Node, n2 : Node]
        BY <3>4 DEF Node
      <3>6. SaveOK(save', KeysOf(dblist), file')
        BY <3>1, <3>5 DEF SaveOK
      <3> QED
        BY <3>3, <3>5, <3>6
    <2>2. CASE SaveLock
      <3>1. file' = file /\ FileOK(file)
        BY <2>2 DEF SaveLock, DbInv
      <3> QED
        BY <2>2, <3>1, SaveLockStep
    <2>3. CASE SaveOne
      BY <2>3, SaveOneStep
    <2>4. CASE SaveFails
      <3>1. file' = file /\ FileOK(file) /\ save' = NoSave
        BY <2>4 DEF SaveFails, DbInv
      <3> QED
        BY <3>1 DEF NoSave, SaveOK, Node
    <2> QED
      BY <2>1, <2>2, <2>3, <2>4
  <1>3. DbTypes'
    BY <1>1, <1>2 DEF DbInv, DbTypes
  <1>4. ListOK(dblist') /\ RangeOK(range', KeysOf(dblist'), seen', wanted')
    BY <1>1 DEF DbInv
  <1>5. SaveOK(save', KeysOf(dblist'), file')
    BY <1>1, <1>2
  <1> QED
    BY <1>2, <1>3, <1>4, <1>5 DEF DbInv

LEMMA StartStep ==
  ASSUME DbInv, Restart
  PROVE  DbInv'
  <1>1. range' = NoRange /\ seen' = {} /\ wanted' = {} /\ save' = NoSave
    BY DEF Restart
  <1>2. DbTypes'
    BY <1>1 DEF DbTypes, RangeSet, Node, NoRange, NoSave
  <1>3. SaveOK(save', KeysOf(dblist'), file')
    BY <1>1 DEF SaveOK, NoSave
  <1>4. RangeOK(range', KeysOf(dblist'), seen', wanted')
    BY <1>1 DEF RangeOK, NoRange
  <1> QED
    BY <1>2, <1>3, <1>4, RestartStep DEF DbInv

LEMMA DbStep ==
  ASSUME DbInv, [Next]_vars
  PROVE  DbInv'
  <1>1. CASE Put
    BY <1>1, PutStep
  <1>2. CASE Get \/ GetRelease
    BY <1>2, ReaderStep
  <1>3. CASE Del
    BY <1>3, DelStep
  <1>4. CASE GetRange \/ MoveBottom \/ Read \/ GetRangeRelease
    BY <1>4, WalkStep
  <1>5. CASE DelInRange
    BY <1>5, WalkDelStep
  <1>6. CASE SaveOpen \/ SaveLock \/ SaveOne \/ SaveFails
    BY <1>6, FileStep
  <1>7. CASE Restart
    BY <1>7, StartStep
  <1>8. CASE UNCHANGED vars
    BY <1>8 DEF vars, DbInv, DbTypes
  <1> QED
    BY <1>1, <1>2, <1>3, <1>4, <1>5, <1>6, <1>7, <1>8 DEF Next

LEMMA DbAlways == Spec => []DbInv
  <1>1. DbInv /\ [Next]_vars => DbInv'
    BY DbStep
  <1> QED
    BY <1>1, DbInit, PTL DEF Spec

-----------------------------------------------------------------------------
(* The properties                                                          *)

LEMMA DbInvSearchExact == ASSUME DbInv PROVE SearchExact
  <1> DEFINE K == KeysOf(dblist)
  <1>1. ListOK(dblist) /\ \A x \in K : x \in Bytestring
    BY ListFacts, KeyFacts DEF DbInv
  <1>2. \A k \in Keys : Found(k) <=> k \in K
    BY <1>1, FoundIs
  <1>3. ASSUME NEW k1 \in Keys \cup {<<>>, LastSaved}, NEW k2 \in Keys \cup {<<>>, LastSaved}
        PROVE  LET In == {k \in K : ~Before(k, k1) /\ (k2 = <<>> \/ ~Before(k2, k))}
                   r  == get_range(dblist, k1, k2)
               IN  IF In = {} THEN r = <<>>
                   ELSE r # <<>> /\ \A k \in In : ~Before(k, r[1]) /\ ~Before(r[2], k)
                                 /\ {r[1], r[2]} \subseteq In
    <2> DEFINE In == {k \in K : ~Before(k, k1) /\ (k2 = <<>> \/ ~Before(k2, k))}
               r  == get_range(dblist, k1, k2)
    <2>1. k1 \in Bytestring /\ k2 \in Bytestring
      BY KeyFacts
    <2>2. \A x \in K : x \in In <=> Within(x, k1, k2)
      BY <1>1, <2>1, BeforeIsLess DEF Within
    <2>3. In \subseteq K
      OBVIOUS
    <2>4. \/ r = <<>> /\ \A x \in K : ~Within(x, k1, k2)
          \/ \E n1, n2 \in K :
                /\ r = <<n1, n2>> /\ ~Less(n2, n1)
                /\ Within(n1, k1, k2) /\ Within(n2, k1, k2)
                /\ \A x \in K : Within(x, k1, k2) => ~Less(x, n1) /\ ~Less(n2, x)
      BY <1>1, <2>1, RangeIs
    <2> HIDE DEF In, r, K
    <2>5. CASE r = <<>> /\ \A x \in K : ~Within(x, k1, k2)
      <3>1. In = {}
        BY <2>2, <2>3, <2>5
      <3> QED
        BY <2>5, <3>1 DEF In, r, K
    <2>6. CASE \E n1, n2 \in K :
                  /\ r = <<n1, n2>> /\ ~Less(n2, n1)
                  /\ Within(n1, k1, k2) /\ Within(n2, k1, k2)
                  /\ \A x \in K : Within(x, k1, k2) => ~Less(x, n1) /\ ~Less(n2, x)
      <3>1. PICK n1 \in K, n2 \in K :
               /\ r = <<n1, n2>> /\ Within(n1, k1, k2) /\ Within(n2, k1, k2)
               /\ \A x \in K : Within(x, k1, k2) => ~Less(x, n1) /\ ~Less(n2, x)
        BY <2>6
      <3>2. r # <<>> /\ r[1] = n1 /\ r[2] = n2 /\ {r[1], r[2]} \subseteq In /\ In # {}
        BY <2>2, <3>1
      <3>3. \A k \in In : ~Before(k, r[1]) /\ ~Before(r[2], k)
        BY <1>1, <2>2, <2>3, <3>1, <3>2, BeforeIsLess
      <3> QED
        BY <3>2, <3>3 DEF In, r, K
    <2> QED
      BY <2>4, <2>5, <2>6
  <1> QED
    BY <1>2, <1>3 DEF SearchExact

\* bin_search finds a key exactly when the list holds it, and get_range gives
\* the first and the last entry between two bounds, in every state of every
\* database that is used from several threads, saved, lost and read again.
THEOREM SearchAlwaysExact == Spec => []SearchExact
  <1>1. DbInv => SearchExact
    BY DbInvSearchExact
  <1> QED
    BY <1>1, DbAlways, PTL

\* The nodes that a walk keeps between its calls, in simpledb_range_t, are in
\* the list: uc_del_in_range moves the ends of the range with the node, and
\* what other threads insert and delete leaves the walk's nodes alone, unless
\* they delete one of them (uc_nc_get_notice_act may).
THEOREM RangeAlwaysValid == Spec => []RangeValid
  <1>1. DbInv => RangeValid
    BY DEF DbInv, RangeOK, RangeValid
  <1> QED
    BY <1>1, DbAlways, PTL

\* A walk to its end, forwards or backwards, with or without deletions on the
\* way, meets every entry that it began with and that is still there, as long
\* as no other thread has deleted a node that it pointed to.
THEOREM WalkAlwaysSeesAll == Spec => []WalkSeesAll
  <1>1. DbInv => WalkSeesAll
    BY DEF DbInv, RangeOK, WalkSeesAll
  <1> QED
    BY <1>1, DbAlways, PTL

-----------------------------------------------------------------------------
(* A save that is not cut off by the end of the process                    *)

\* What serialize_one writes of an entry.
Written(e) == [k |-> e.k, v |-> e.v]

\* When a save ends the file has the first entries of the list, none of them
\* beyond pkend, and it has all entries up to pkend exactly when no write failed.
SaveIsComplete ==
  [][(SaveLock \/ SaveOne \/ SaveFails) /\ save'.pc = "none" =>
        /\ Len(file') <= Len(dblist)
        /\ \A i \in 1 .. Len(file') :
              file'[i] = Written(dblist[i]) /\ ~Before(LastSaved, dblist[i].k)
        /\ ~SaveFails <=>
              \A i \in 1 .. Len(dblist) : ~Before(LastSaved, dblist[i].k) => i <= Len(file')]_vars

\* The entries 1 to n of l are the ones up to pkend.
UpToEnd(l, n) == \A i \in 1 .. Len(l) : i <= n <=> ~Less(LastSaved, l[i].k)

\* While the file is written, it has the entries below the one that is next.
SaveFits ==
  save.pc = "writing" =>
    \E p, q \in 1 .. Len(dblist) :
       /\ dblist[p].k = save.n1 /\ dblist[q].k = save.n2 /\ p <= q /\ UpToEnd(dblist, q)
       /\ Len(file) = p - 1 /\ \A i \in 1 .. p - 1 : file[i] = Written(dblist[i])

\* The range of a save is from the first entry to the last one up to pkend.
LEMMA SaveRange ==
  ASSUME ListOK(dblist)
  PROVE  LET r == get_range(dblist, <<>>, LastSaved)
         IN  \/ r = <<>> /\ UpToEnd(dblist, 0)
             \/ \E q \in 1 .. Len(dblist) :
                   r = <<dblist[1].k, dblist[q].k>> /\ UpToEnd(dblist, q) /\ 1 \in 1 .. Len(dblist)
  <1> DEFINE r == get_range(dblist, <<>>, LastSaved)
             K == KeysOf(dblist)
             In(x) == Within(x, <<>>, LastSaved)
  <1>1. /\ Len(dblist) \in Nat /\ \A i \in 1 .. Len(dblist) : dblist[i].k \in Bytestring
        /\ \A x : x \in K <=> \E i \in 1 .. Len(dblist) : dblist[i].k = x
    BY ListFacts
  <1>2. <<>> \in Bytestring /\ LastSaved \in Bytestring /\ LastSaved # <<>>
    BY KeyFacts
  <1>3. \/ r = <<>> /\ \A x \in K : ~In(x)
        \/ \E n1, n2 \in K :
              /\ r = <<n1, n2>> /\ ~Less(n2, n1) /\ In(n1) /\ In(n2)
              /\ \A x \in K : In(x) => ~Less(x, n1) /\ ~Less(n2, x)
    BY <1>2, RangeIs
  <1>4. \A i \in 1 .. Len(dblist) : In(dblist[i].k) <=> ~Less(LastSaved, dblist[i].k)
    BY <1>1, <1>2, NotLess DEF Within
  <1> HIDE DEF r, K, In
  <1>5. CASE r = <<>> /\ \A x \in K : ~In(x)
    <2>1. UpToEnd(dblist, 0)
      BY <1>1, <1>4, <1>5 DEF UpToEnd
    <2> QED
      BY <1>5, <2>1 DEF r
  <1>6. CASE \E n1, n2 \in K :
                /\ r = <<n1, n2>> /\ ~Less(n2, n1) /\ In(n1) /\ In(n2)
                /\ \A x \in K : In(x) => ~Less(x, n1) /\ ~Less(n2, x)
    <2>1. PICK n1 \in K, n2 \in K :
             /\ r = <<n1, n2>> /\ In(n1) /\ In(n2)
             /\ \A x \in K : In(x) => ~Less(x, n1) /\ ~Less(n2, x)
      BY <1>6
    <2>2. PICK p \in 1 .. Len(dblist) : dblist[p].k = n1
      BY <1>1
    <2>3. PICK q \in 1 .. Len(dblist) : dblist[q].k = n2
      BY <1>1
    <2>4. 1 \in 1 .. Len(dblist)
      BY <1>1, <2>2
    <2>5. \A i, j \in 1 .. Len(dblist) : i <= j /\ In(dblist[j].k) => In(dblist[i].k)
      <3>1. ASSUME NEW i \in 1 .. Len(dblist), NEW j \in 1 .. Len(dblist), i <= j, In(dblist[j].k)
            PROVE  In(dblist[i].k)
        <4>1. ~Less(LastSaved, dblist[j].k) /\ ~Less(dblist[j].k, dblist[i].k)
          BY <1>1, <1>4, <3>1, PlaceOrder
        <4>2. ~Less(LastSaved, dblist[i].k)
          BY <1>1, <1>2, <4>1, NotLess
        <4> QED
          BY <1>4, <4>2
      <3> QED
        BY <3>1
    <2>6. \A i \in 1 .. Len(dblist) : i <= q <=> In(dblist[i].k)
      <3>1. ASSUME NEW i \in 1 .. Len(dblist), In(dblist[i].k) PROVE i <= q
        <4>1. ~Less(dblist[q].k, dblist[i].k)
          BY <1>1, <2>1, <2>3, <3>1
        <4> QED
          BY <1>1, <4>1, PlaceOrder
      <3> QED
        BY <2>1, <2>3, <2>5, <3>1
    <2>7. p = 1
      <3>1. In(dblist[1].k)
        BY <1>1, <2>1, <2>2, <2>4, <2>5
      <3>2. ~Less(dblist[1].k, dblist[p].k)
        BY <1>1, <2>1, <2>2, <2>4, <3>1
      <3> QED
        BY <1>1, <2>4, <3>2, PlaceOrder
    <2>8. r = <<dblist[1].k, dblist[q].k>>
      BY <2>1, <2>2, <2>3, <2>7
    <2>9. UpToEnd(dblist, q)
      BY <1>4, <2>6 DEF UpToEnd
    <2> QED
      BY <2>4, <2>8, <2>9 DEF r
  <1> QED
    BY <1>3, <1>5, <1>6

LEMMA SaveLockFits ==
  ASSUME DbInv, SaveLock
  PROVE  SaveFits' /\ (save'.pc = "none" => file' = <<>> /\ UpToEnd(dblist, 0))
  <1> DEFINE r == get_range(dblist, <<>>, LastSaved)
  <1>1. /\ save' = IF r = <<>> THEN NoSave ELSE [pc |-> "writing", n1 |-> r[1], n2 |-> r[2]]
        /\ dblist' = dblist /\ file' = file /\ save.pc = "opened"
    BY DEF SaveLock
  <1>2. file = <<>> /\ Len(file) = 0 /\ ListOK(dblist)
    BY <1>1 DEF DbInv, SaveOK
  <1>3. \/ r = <<>> /\ UpToEnd(dblist, 0)
        \/ \E q \in 1 .. Len(dblist) :
              r = <<dblist[1].k, dblist[q].k>> /\ UpToEnd(dblist, q) /\ 1 \in 1 .. Len(dblist)
    BY <1>2, SaveRange
  <1> HIDE DEF r
  <1>4. CASE r = <<>> /\ UpToEnd(dblist, 0)
    <2>1. save'.pc = "none"
      BY <1>1, <1>4 DEF NoSave
    <2> QED
      BY <1>1, <1>2, <1>4, <2>1 DEF SaveFits
  <1>5. ASSUME NEW q \in 1 .. Len(dblist), r = <<dblist[1].k, dblist[q].k>>,
               UpToEnd(dblist, q), 1 \in 1 .. Len(dblist)
        PROVE  SaveFits' /\ save'.pc = "writing"
    <2>1. r # <<>> /\ r[1] = dblist[1].k /\ r[2] = dblist[q].k
      BY <1>5
    <2>2. save' = [pc |-> "writing", n1 |-> dblist[1].k, n2 |-> dblist[q].k]
      BY <1>1, <2>1
    <2>3. save'.pc = "writing" /\ save'.n1 = dblist[1].k /\ save'.n2 = dblist[q].k
      BY <2>2
    <2>4. /\ dblist'[1].k = save'.n1 /\ dblist'[q].k = save'.n2 /\ 1 <= q
          /\ UpToEnd(dblist', q) /\ Len(file') = 1 - 1
          /\ \A i \in 1 .. 1 - 1 : file'[i] = Written(dblist'[i])
      BY <1>1, <1>2, <1>5, <2>3
    <2> QED
      BY <1>1, <1>5, <2>3, <2>4 DEF SaveFits
  <1> QED
    BY <1>3, <1>4, <1>5

LEMMA SaveOneFits ==
  ASSUME DbInv, SaveFits, SaveOne
  PROVE  /\ SaveFits'
         /\ save'.pc = "none" =>
              /\ Len(file') \in 1 .. Len(dblist) /\ UpToEnd(dblist, Len(file'))
              /\ \A i \in 1 .. Len(file') : file'[i] = Written(dblist[i])
  <1>1. save.pc = "writing" /\ dblist' = dblist /\ ListOK(dblist)
    BY DEF SaveOne, DbInv
  <1>2. PICK p \in 1 .. Len(dblist), q \in 1 .. Len(dblist) :
           /\ dblist[p].k = save.n1 /\ dblist[q].k = save.n2 /\ p <= q /\ UpToEnd(dblist, q)
           /\ Len(file) = p - 1 /\ \A i \in 1 .. p - 1 : file[i] = Written(dblist[i])
    BY <1>1 DEF SaveFits
  <1>3. Len(dblist) \in Nat /\ At(dblist, save.n1) = p /\ (save.n1 = save.n2 <=> p = q)
    BY <1>1, <1>2, ListFacts, AtFacts, PlaceOrder
  <1>4. dblist[p] \in Entry
    BY <1>1, ListFacts
  <1> DEFINE d == Written(dblist[p])
  <1>5. d \in Pair
    BY <1>4 DEF Written, Entry, Pair
  <1>6. file' = Append(file, d) /\ file \in Seq(Pair)
    BY <1>3 DEF SaveOne, Written, DbInv, FileOK
  <1> HIDE DEF d
  <1>7. /\ Len(file') = p /\ file'[p] = d /\ \A i \in 1 .. p - 1 : file'[i] = file[i]
    BY <1>2, <1>3, <1>5, <1>6
  <1>8. \A i \in 1 .. p : file'[i] = Written(dblist[i])
    <2>1. ASSUME NEW i \in 1 .. p PROVE file'[i] = Written(dblist[i])
      <3>1. i \in 1 .. p - 1 \/ i = p
        BY <1>3
      <3> QED
        BY <1>2, <1>7, <3>1 DEF d
    <2> QED
      BY <2>1
  <1>9. CASE p = q
    <2>1. save'.pc = "none"
      BY <1>3, <1>9 DEF SaveOne, NoSave
    <2> QED
      BY <1>2, <1>7, <1>8, <1>9, <2>1 DEF SaveFits
  <1>10. CASE p # q
    <2>1. p + 1 \in 1 .. Len(dblist) /\ p + 1 <= q /\ next(dblist, save.n1) = dblist[p + 1].k
      BY <1>2, <1>3, <1>10 DEF next
    <2>2. save' = [save EXCEPT !.n1 = dblist[p + 1].k]
      BY <1>3, <1>10, <2>1 DEF SaveOne
    <2>3. save'.pc = "writing" /\ save'.n1 = dblist[p + 1].k /\ save'.n2 = save.n2
      BY <1>1, <2>2 DEF DbInv, DbTypes
    <2>4. /\ dblist'[p + 1].k = save'.n1 /\ dblist'[q].k = save'.n2 /\ UpToEnd(dblist', q)
          /\ Len(file') = (p + 1) - 1 /\ \A i \in 1 .. (p + 1) - 1 : file'[i] = Written(dblist'[i])
      BY <1>1, <1>2, <1>3, <1>7, <1>8, <2>3
    <2> QED
      BY <1>1, <2>1, <2>3, <2>4 DEF SaveFits
  <1> QED
    BY <1>9, <1>10

LEMMA SaveFitsStep ==
  ASSUME DbInv, SaveFits, [Next]_vars
  PROVE  SaveFits'
  <1>1. CASE Unlocked /\ save' = save
    BY <1>1 DEF Unlocked, SaveFits
  <1>2. CASE UNCHANGED <<dblist, file, save>>
    BY <1>2 DEF SaveFits
  <1>3. CASE SaveOpen \/ SaveFails \/ Restart
    <2>1. save'.pc # "writing"
      BY <1>3 DEF SaveOpen, SaveFails, Restart, NoSave
    <2> QED
      BY <2>1 DEF SaveFits
  <1>4. CASE SaveLock
    BY <1>4, SaveLockFits
  <1>5. CASE SaveOne
    BY <1>5, SaveOneFits
  <1>6. CASE Put \/ Get \/ GetRelease \/ Del \/ DelInRange
    BY <1>1, <1>6 DEF Put, Get, GetRelease, Del, DelInRange
  <1>7. CASE GetRange \/ MoveBottom \/ Read \/ GetRangeRelease \/ UNCHANGED vars
    BY <1>2, <1>7 DEF GetRange, MoveBottom, Read, GetRangeRelease, vars
  <1> QED
    BY <1>3, <1>4, <1>5, <1>6, <1>7 DEF Next

\* simpledb_savedata empties the file before it takes dbmutex and writes node
\* after node, whatever others did between the steps: the file it leaves has the
\* entries up to pkend, each with the value it has in the list, and lacks some
\* of them exactly when a write of serialize_one failed, which it does not report.
THEOREM SaveAlwaysComplete == Spec => SaveIsComplete
  <1> DEFINE D == (SaveLock \/ SaveOne \/ SaveFails) /\ save'.pc = "none"
             P == D => /\ Len(file') <= Len(dblist)
                       /\ \A i \in 1 .. Len(file') :
                             file'[i] = Written(dblist[i]) /\ ~Before(LastSaved, dblist[i].k)
                       /\ ~SaveFails <=>
                             \A i \in 1 .. Len(dblist) :
                                ~Before(LastSaved, dblist[i].k) => i <= Len(file')
  <1>1. Init => SaveFits
    BY DEF Init, NoSave, SaveFits
  <1>2. DbInv /\ SaveFits /\ [Next]_vars => SaveFits'
    BY SaveFitsStep
  <1>3. DbInv /\ SaveFits => P
    <2> SUFFICES ASSUME DbInv, SaveFits, D PROVE P
      OBVIOUS
    <2>0. Len(dblist) \in Nat
      BY ListFacts DEF DbInv
    <2>1. \A i \in 1 .. Len(dblist) : Less(LastSaved, dblist[i].k) <=> Before(LastSaved, dblist[i].k)
      <3>1. \A i \in 1 .. Len(dblist) : dblist[i].k \in Bytestring /\ LastSaved \in Bytestring
        BY ListFacts, KeyFacts DEF DbInv
      <3> QED
        BY <3>1, BeforeIsLess
    <2>2. CASE SaveLock \/ SaveOne
      <3>1. /\ Len(file') \in 0 .. Len(dblist) /\ UpToEnd(dblist, Len(file')) /\ ~SaveFails
            /\ \A i \in 1 .. Len(file') : file'[i] = Written(dblist[i])
        <4>1. CASE SaveLock
          <5>1. file' = <<>> /\ UpToEnd(dblist, 0) /\ Len(file') = 0
            BY <4>1, SaveLockFits
          <5>2. ~SaveFails
            BY <4>1 DEF SaveLock, SaveFails
          <5> QED
            BY <2>0, <5>1, <5>2
        <4>2. CASE SaveOne
          <5>1. ~SaveFails
            <6>1. file \in Seq(Pair)
              BY FileFacts DEF DbInv
            <6>2. \A e : Append(file, e) # file
              BY <6>1
            <6> QED
              BY <4>2, <6>2 DEF SaveOne, SaveFails
          <5> QED
            BY <2>0, <4>2, <5>1, SaveOneFits
        <4> QED
          BY <2>2, <4>1, <4>2
      <3>2. \A i \in 1 .. Len(dblist) : i <= Len(file') <=> ~Before(LastSaved, dblist[i].k)
        BY <2>1, <3>1 DEF UpToEnd
      <3>3. Len(file') <= Len(dblist) /\ \A i \in 1 .. Len(file') : i \in 1 .. Len(dblist) /\ i <= Len(file')
        BY <2>0, <3>1
      <3> QED
        BY <3>1, <3>2, <3>3
    <2>3. CASE SaveFails
      <3>1. save.pc = "writing" /\ file' = file
        BY <2>3 DEF SaveFails
      <3>2. PICK p \in 1 .. Len(dblist), q \in 1 .. Len(dblist) :
               /\ p <= q /\ UpToEnd(dblist, q)
               /\ Len(file) = p - 1 /\ \A i \in 1 .. p - 1 : file[i] = Written(dblist[i])
        BY <3>1 DEF SaveFits
      <3>3. Len(file') = p - 1 /\ p \in 1 .. Len(dblist) /\ ~(p <= Len(file'))
        BY <2>0, <3>1, <3>2
      <3>4. \A i \in 1 .. p : i \in 1 .. Len(dblist) /\ i <= q
        BY <2>0, <3>2
      <3>5. \A i \in 1 .. p : ~Before(LastSaved, dblist[i].k)
        BY <2>1, <3>2, <3>4 DEF UpToEnd
      <3>6. Len(file') <= Len(dblist) /\ p \in 1 .. p /\ \A i \in 1 .. Len(file') : i \in 1 .. p
        BY <2>0, <3>3
      <3>7. ~Before(LastSaved, dblist[p].k)
        BY <3>5, <3>6
      <3>8. \A i \in 1 .. Len(file') : file'[i] = Written(dblist[i]) /\ ~Before(LastSaved, dblist[i].k)
        BY <3>1, <3>2, <3>3, <3>5, <3>6
      <3> QED
        BY <2>3, <3>3, <3>6, <3>7, <3>8
    <2> QED
      BY <2>2, <2>3
  <1> QED
    BY <1>1, <1>2, <1>3, DbAlways, PTL DEF Spec, SaveIsComplete

\* A restart reads back the whole file, or the beginning of one that was being
\* written: every pair with its value, and nothing else.
LoadIsComplete ==
  [][Restart => /\ Len(dblist') <= Len(file)
                /\ save.pc = "none" => Len(dblist') = Len(file)
                /\ \A i \in 1 .. Len(dblist') : Written(dblist'[i]) = file[i]]_vars

\* simpledb_open after any end of the process: deserialize_all takes every pair
\* that has reached the file into the list, although it skips what is out of
\* order, because no save leaves a file that is.
THEOREM LoadAlwaysComplete == Spec => LoadIsComplete
  <1> DEFINE P == Restart => /\ Len(dblist') <= Len(file)
                             /\ save.pc = "none" => Len(dblist') = Len(file)
                             /\ \A i \in 1 .. Len(dblist') : Written(dblist'[i]) = file[i]
  <1>1. DbInv => P
    <2> SUFFICES ASSUME DbInv, Restart PROVE P
      OBVIOUS
    <2>1. PICK n \in 0 .. Len(file) : /\ save.pc = "none" => n = Len(file)
                                      /\ file' = SubSeq(file, 1, n)
      BY DEF Restart
    <2>2. Len(file) \in Nat /\ file \in Seq(Pair) /\ \A i \in 1 .. Len(file) : file[i] \in Pair
      BY FileFacts DEF DbInv
    <2>3. Len(file') = n /\ \A i \in 1 .. n : file'[i] = file[i]
      BY <2>1, <2>2
    <2>4. FileOK(file')
      BY RestartStep
    <2>5. dblist' = Entries(file', Len(file'))
      BY <2>4, ReadsAll DEF Restart
    <2>6. dblist' = [i \in 1 .. n |-> [k |-> file'[i].k, v |-> file'[i].v, ref |-> 0]]
      BY <2>3, <2>5 DEF Entries
    <2>7. Len(dblist') = n
      <3>1. ListOK(dblist')
        BY RestartStep
      <3> DEFINE m == Len(dblist')
      <3>2. m \in Nat /\ DOMAIN dblist' = 1 .. m
        BY <3>1, ListFacts
      <3>3. DOMAIN dblist' = 1 .. n
        BY <2>6
      <3> HIDE DEF m
      <3>4. 1 .. m = 1 .. n /\ n \in Nat
        BY <2>2, <3>2, <3>3
      <3>5. m = n
        BY <3>2, <3>4
      <3> QED
        BY <3>5 DEF m
    <2>8. ASSUME NEW i \in 1 .. n PROVE Written(dblist'[i]) = file[i]
      <3>1. dblist'[i].k = file[i].k /\ dblist'[i].v = file[i].v
        BY <2>3, <2>6
      <3>2. file[i] = [k |-> file[i].k, v |-> file[i].v]
        BY <2>2 DEF Pair
      <3> QED
        BY <3>1, <3>2 DEF Written
    <2> QED
      BY <2>1, <2>2, <2>7, <2>8
  <1> QED
    BY <1>1, DbAlways, PTL DEF Spec, LoadIsComplete

=============================================================================
