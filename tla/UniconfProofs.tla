--------------------------- MODULE UniconfProofs ---------------------------
(***************************************************************************)
(* Proofs about Uniconf, for every set of items, links and clients and any *)
(* number of writes and changes.                                           *)
(***************************************************************************)
EXTENDS Uniconf, FiniteSetTheorems, WellFoundedInduction, TLAPS

\* The items that a client is told of
Notices(c) == {k \in Item : <<k, c>> \in act}

Types ==
  /\ {"pc", "k", "np", "n2", "v", "first", "last", "ret"} = DOMAIN uni
  /\ uni.ret # "post"
  /\ act \subseteq Item \X Client
  /\ reg \in [Item \X Client -> {"none", "add", "del"}]
  /\ sig \in [Client -> Nat]
  /\ list \in [Client -> [on : BOOLEAN, ref : Nat, act : Nat]]
  /\ cl \in [Client -> [pc : {"new", "idle", "find", "del", "get", "rel", "gone"}, k : Item \cup {0}]]

\* A post that was made or will be made for every notice, unless the client is
\* about to take one.
NoticeCounted(c) ==
  Cardinality(Notices(c)) <=
     sig[c] + (IF uni.pc = "post" THEN list[c].act ELSE 0)
            + (IF cl[c].pc \in {"find", "del"} THEN 1 ELSE 0)

ClientFits(c) ==
  /\ cl[c].pc # "gone" => \A k \in Notices(c) : reg[<<k, c>>] = "add"
  /\ c \notin orphans => \A k \in Item : reg[<<k, c>>] = "add" => list[c].on
  /\ cl[c].pc = "del" => cl[c].k \in Notices(c)
  /\ list[c].act <= (IF uni.pc = "post" THEN 1 ELSE 0)
  /\ c \notin orphans /\ cl[c].pc # "gone" => NoticeCounted(c)

NoticeInv == Types /\ \A c \in Client : ClientFits(c)

\* A set of numbers has a smallest one.
LEMMA MinOfFacts ==
  ASSUME NEW S, S \subseteq Nat, S # {}
  PROVE  MinOf(S) \in S /\ \A y \in S : MinOf(S) <= y
  <1> DEFINE R == OpToRel(<, Nat)
  <1>1. IsWellFoundedOn(R, Nat)
    BY NatLessThanWellFounded
  <1> HIDE DEF R
  <1>2. PICK x \in S : \A y \in S : ~(<<y, x>> \in R)
    BY <1>1, WFMin
  <1>3. \A y \in S : ~(y < x)
    BY <1>2 DEF R, OpToRel
  <1>4. \E z \in S : \A y \in S : z <= y
    BY <1>3
  <1> QED
    BY <1>4 DEF MinOf

LEMMA ItemFacts ==
  /\ Item \subseteq Nat /\ IsFiniteSet(Item) /\ Item # {}
  /\ \A c : IsFiniteSet(Notices(c)) /\ Cardinality(Notices(c)) \in Nat
  <1>1. Item \subseteq Nat /\ IsFiniteSet(Item) /\ Item # {}
    BY UniconfAssumption DEF Item
  <1>2. ASSUME NEW c PROVE IsFiniteSet(Notices(c)) /\ Cardinality(Notices(c)) \in Nat
    <2>1. Notices(c) \in SUBSET Item
      BY DEF Notices
    <2> QED
      BY <1>1, <2>1, FS_Subset, FS_CardinalityType
  <1> QED
    BY <1>1, <1>2

\* A step of uniconf, of the writer or of a link that tells nobody.
LEMMA NoticeFrame ==
  ASSUME NoticeInv, UNCHANGED <<act, reg, sig, list, cl, orphans>>,
         \/ uni' = uni
         \/ /\ uni.pc # "post" /\ uni'.pc # "post" /\ uni'.ret # "post"
            /\ DOMAIN uni' = DOMAIN uni
  PROVE  NoticeInv'
  <1>1. Types'
    BY DEF NoticeInv, Types
  <1>2. ASSUME NEW c \in Client PROVE ClientFits(c)'
    <2>1. ClientFits(c)
      BY DEF NoticeInv
    <2>2. Notices(c)' = Notices(c)
      BY DEF Notices
    <2>3. NoticeCounted(c) => NoticeCounted(c)'
      BY <2>2 DEF NoticeCounted
    <2> QED
      BY <2>1, <2>2, <2>3 DEF ClientFits
  <1> QED
    BY <1>1, <1>2 DEF NoticeInv

LEMMA NoticeQuietSteps ==
  ASSUME NoticeInv,
         \/ Write \/ WriterStep \/ LinkChange \/ NotifyLinkChange
         \/ SigCheck \/ Query \/ LinkPut \/ LinkWait \/ AskRange \/ AskRead \/ AskWrite \/ AskDel \/ Push
  PROVE  NoticeInv'
  <1> USE DEF NoticeInv, Types
  <1>1. CASE Write \/ WriterStep \/ LinkChange \/ NotifyLinkChange
    BY <1>1, NoticeFrame DEF Write, WriterStep, WriterPut, WriterWait, WriterAsk, WriterSig,
                             LinkChange, NotifyLinkChange
  <1>2. CASE SigCheck \/ LinkWait
    BY <1>2, NoticeFrame DEF SigCheck, LinkWait
  <1>3. CASE Query
    <2>1. UNCHANGED <<act, reg, sig, list, cl, orphans>>
      BY <1>3 DEF Query
    <2>2. /\ uni.pc = "query" /\ uni'.pc \in {"range", "lput"} /\ uni'.ret = uni.ret
          /\ DOMAIN uni' = DOMAIN uni
      BY <1>3 DEF Query
    <2> QED
      BY <2>1, <2>2, NoticeFrame
  <1>4. CASE LinkPut
    BY <1>4, NoticeFrame DEF LinkPut
  <1>5. CASE AskRange
    BY <1>5, NoticeFrame DEF AskRange, Waiting
  <1>6. CASE AskRead \/ AskWrite
    BY <1>6, NoticeFrame DEF AskRead, AskWrite
  <1>7. CASE AskDel
    BY <1>7, NoticeFrame DEF AskDel, Waiting
  <1>8. CASE Push
    BY <1>8, NoticeFrame DEF Push
  <1> QED
    BY <1>1, <1>2, <1>3, <1>4, <1>5, <1>6, <1>7, <1>8

LEMMA PairsFinite ==
  ASSUME NEW S, S \subseteq Item \X Client
  PROVE  IsFiniteSet(S) /\ Cardinality(S) \in Nat
  <1>1. IsFiniteSet(Item \X Client)
    BY ItemFacts, UniconfAssumption, FS_Product
  <1> QED
    BY <1>1, FS_Subset, FS_CardinalityType

\* The registrations that Scan counts and those of them that it tells of an item
Adds == {p \in Registered : NotAfter(uni.first, p) /\ NotAfter(p, uni.last) /\ reg[p] = "add"}
Tells(c) == <<uni.k, c>> \in Adds

LEMMA ScanFacts ==
  ASSUME Types, Scan
  PROVE  /\ uni.pc = "scan" /\ uni'.pc = "post" /\ uni'.ret = uni.ret /\ DOMAIN uni' = DOMAIN uni
         /\ uni'.np = uni.np /\ uni'.n2 = uni.n2 /\ uni'.k = uni.k /\ uni'.v = uni.v
         /\ Types'
         /\ \A p \in Item \X Client : reg'[p] = "add" <=> reg[p] = "add"
         /\ \A c \in Client :
               /\ list'[c].on = list[c].on
               /\ list'[c].act = list[c].act + (IF list[c].on /\ Tells(c) THEN 1 ELSE 0)
               /\ list[c].on /\ (\E k \in Item : <<k, c>> \in Adds) => list'[c].ref > 0
               /\ Notices(c)' = Notices(c) \cup (IF Tells(c) THEN {uni.k} ELSE {})
  <1> DEFINE In == {p \in Registered : NotAfter(uni.first, p) /\ NotAfter(p, uni.last)}
             Add == {p \in In : reg[p] = "add"}
             Told == {p \in Add : p[1] = uni.k}
  <1>1. /\ uni.pc = "scan" /\ uni'.pc = "post" /\ uni'.ret = uni.ret /\ DOMAIN uni' = DOMAIN uni
        /\ uni'.np = uni.np /\ uni'.n2 = uni.n2 /\ uni'.k = uni.k /\ uni'.v = uni.v
        /\ UNCHANGED <<sig, cl>>
    BY DEF Scan, Types
  <1>2. /\ reg' = [p \in Item \X Client |-> IF p \in In \ Add THEN "none" ELSE reg[p]]
        /\ act' = act \cup Told
        /\ list' = [c \in Client |-> [list[c] EXCEPT
                         !.ref = RefCount(c, Add),
                         !.act = IF list[c].on THEN @ + Cardinality({p \in Told : p[2] = c}) ELSE @]]
    BY DEF Scan
  <1>3. Add = Adds /\ Add \subseteq Item \X Client
    BY DEF Adds, Registered
  <1>4. reg' \in [Item \X Client -> {"none", "add", "del"}]
    BY <1>2 DEF Types
  <1>5. ASSUME NEW p \in Item \X Client PROVE reg'[p] = "add" <=> reg[p] = "add"
    BY <1>2
  <1> HIDE DEF In, Add
  <1>6. act' \subseteq Item \X Client
    BY <1>2, <1>3 DEF Types
  <1>7. ASSUME NEW c \in Client
        PROVE  /\ list'[c] \in [on : BOOLEAN, ref : Nat, act : Nat]
               /\ list'[c].on = list[c].on
               /\ list'[c].act = list[c].act + (IF list[c].on /\ Tells(c) THEN 1 ELSE 0)
               /\ list[c].on /\ (\E k \in Item : <<k, c>> \in Adds) => list'[c].ref > 0
               /\ Notices(c)' = Notices(c) \cup (IF Tells(c) THEN {uni.k} ELSE {})
    <2> DEFINE T == {p \in Told : p[2] = c}
               A == {p \in Add : p[2] = c}
    <2>1. T = IF Tells(c) THEN {<<uni.k, c>>} ELSE {}
      <3>1. \A p \in Item \X Client : p = <<p[1], p[2]>>
        OBVIOUS
      <3> QED
        BY <1>3, <3>1 DEF Tells
    <2>2. Cardinality(T) = IF Tells(c) THEN 1 ELSE 0
      BY <2>1, FS_EmptySet, FS_Singleton
    <2>3. IsFiniteSet(A) /\ Cardinality(A) \in Nat
      BY <1>3, PairsFinite
    <2>4. (\E k \in Item : <<k, c>> \in Adds) => Cardinality(A) > 0
      <3>1. (\E k \in Item : <<k, c>> \in Adds) => A # {}
        BY <1>3
      <3> QED
        BY <2>3, <3>1, FS_EmptySet
    <2>5. RefCount(c, Add) = IF list[c].on THEN Cardinality(A) ELSE 0
      BY DEF RefCount
    <2>6. list'[c] = [list[c] EXCEPT !.ref = RefCount(c, Add),
                                     !.act = IF list[c].on THEN @ + Cardinality(T) ELSE @]
      BY <1>2
    <2>7. list[c] \in [on : BOOLEAN, ref : Nat, act : Nat]
      BY DEF Types
    <2>8. Notices(c)' = Notices(c) \cup (IF Tells(c) THEN {uni.k} ELSE {})
      <3>1. \A k \in Item : <<k, c>> \in Told <=> Tells(c) /\ k = uni.k
        BY <1>3 DEF Tells
      <3>2. Tells(c) => uni.k \in Item
        BY <1>3 DEF Tells
      <3> QED
        BY <1>2, <3>1, <3>2 DEF Notices
    <2> HIDE DEF T, A
    <2>9. RefCount(c, Add) \in Nat
      BY <2>3, <2>5
    <2>10. list'[c].ref = RefCount(c, Add) /\ list'[c].on = list[c].on
           /\ list'[c].act = IF list[c].on THEN list[c].act + Cardinality(T) ELSE list[c].act
      BY <2>6, <2>7
    <2>11. list'[c] \in [on : BOOLEAN, ref : Nat, act : Nat]
      <3> DEFINE a == IF list[c].on THEN list[c].act + Cardinality(T) ELSE list[c].act
                 r == RefCount(c, Add)
      <3>1. a \in Nat /\ r \in Nat
        BY <2>2, <2>7, <2>9
      <3>2. list'[c] = [[list[c] EXCEPT !.ref = r] EXCEPT !.act = a]
        BY <2>6, <2>7
      <3> HIDE DEF a, r
      <3>3. list'[c] = [on |-> list[c].on, ref |-> r, act |-> a]
        BY <2>7, <3>2
      <3> QED
        BY <2>7, <3>1, <3>3
    <2> QED
      BY <2>2, <2>4, <2>5, <2>7, <2>8, <2>10, <2>11
  <1>8. list' \in [Client -> [on : BOOLEAN, ref : Nat, act : Nat]]
    BY <1>2, <1>7
  <1>9. Types'
    BY <1>1, <1>4, <1>6, <1>8 DEF Types
  <1> QED
    BY <1>1, <1>5, <1>7, <1>9

LEMMA NoticeScan ==
  ASSUME NoticeInv, Scan
  PROVE  NoticeInv'
  <1>1. UNCHANGED <<sig, cl, orphans>>
    BY DEF Scan
  <1>2. ASSUME NEW c \in Client PROVE ClientFits(c)'
    <2> DEFINE t == IF Tells(c) THEN 1 ELSE 0
    <2>1. ClientFits(c) /\ Types
      BY DEF NoticeInv
    <2>2. uni.pc = "scan" /\ uni'.pc = "post"
      BY <2>1, ScanFacts
    <2>3. /\ Notices(c)' = Notices(c) \cup (IF Tells(c) THEN {uni.k} ELSE {})
          /\ list'[c].on = list[c].on
          /\ list'[c].act = list[c].act + (IF list[c].on /\ Tells(c) THEN 1 ELSE 0)
          /\ \A k \in Item : reg'[<<k, c>>] = "add" <=> reg[<<k, c>>] = "add"
      BY <2>1, ScanFacts
    <2>4. Tells(c) => uni.k \in Item /\ reg[<<uni.k, c>>] = "add"
      BY DEF Tells, Adds, Registered
    <2>5. /\ Cardinality(Notices(c)) \in Nat /\ Cardinality(Notices(c)') \in Nat
          /\ Cardinality(Notices(c)') <= Cardinality(Notices(c)) + t
      <3>1. IsFiniteSet(Notices(c)) /\ Cardinality(Notices(c)) \in Nat
        BY ItemFacts
      <3>2. CASE Tells(c)
        <4>1. Notices(c)' = Notices(c) \cup {uni.k}
          BY <2>3, <3>2
        <4>2. Cardinality(Notices(c) \cup {uni.k}) =
                 IF uni.k \in Notices(c) THEN Cardinality(Notices(c)) ELSE Cardinality(Notices(c)) + 1
          BY <3>1, FS_AddElement
        <4> QED
          BY <3>1, <3>2, <4>1, <4>2
      <3>3. CASE ~Tells(c)
        <4>1. Notices(c)' = Notices(c)
          BY <2>3, <3>3
        <4> QED
          BY <3>1, <3>3, <4>1
      <3> QED
        BY <3>2, <3>3
    <2>6. c \notin orphans /\ Tells(c) => list[c].on
      BY <2>1, <2>4 DEF ClientFits
    <2>7. Notices(c) \subseteq Item /\ sig[c] \in Nat
      BY <2>1 DEF Notices, Types
    <2>8. c \notin orphans /\ cl[c].pc # "gone" => Cardinality(Notices(c)) <= sig[c] + (IF cl[c].pc \in {"find", "del"} THEN 1 ELSE 0)
      BY <2>1, <2>2, <2>7 DEF ClientFits, NoticeCounted
    <2>9. list[c].act = 0 /\ list'[c].act <= 1
      <3>1. list[c].act \in Nat
        BY <2>1 DEF Types
      <3> QED
        BY <2>1, <2>2, <2>3, <3>1 DEF ClientFits
    <2>10. c \notin orphans => list'[c].act = t
      BY <2>3, <2>6, <2>9
    <2>11. ASSUME c \notin orphans, cl[c].pc # "gone" PROVE NoticeCounted(c)'
      BY <1>1, <2>2, <2>5, <2>7, <2>8, <2>10, <2>11 DEF NoticeCounted
    <2> QED
      BY <1>1, <2>1, <2>2, <2>3, <2>4, <2>7, <2>9, <2>11 DEF ClientFits
  <1>3. Types'
    BY ScanFacts DEF NoticeInv
  <1> QED
    BY <1>2, <1>3 DEF NoticeInv

LEMMA PostFacts ==
  ASSUME Types, Post
  PROVE  /\ uni.pc = "post" /\ uni'.pc = uni.ret /\ uni'.ret = "none" /\ DOMAIN uni' = DOMAIN uni
         /\ uni'.np = uni.np /\ uni'.n2 = uni.n2 /\ uni'.k = uni.k
         /\ Types'
         /\ \A c \in Client :
               LET closed == list[c].on /\ list[c].ref = 0
               IN  /\ sig'[c] = IF closed THEN 0 ELSE IF list[c].act > 0 THEN sig[c] + 1 ELSE sig[c]
                   /\ (list'[c].on <=> list[c].on /\ ~closed) /\ list'[c].act = 0
                   /\ c \in orphans' <=> c \in orphans \/ (closed /\ \E k \in Item : reg[<<k, c>>] = "add")
  <1> DEFINE Close == {c \in Client : list[c].on /\ list[c].ref = 0}
  <1>1. /\ uni.pc = "post" /\ uni'.pc = uni.ret /\ uni'.ret = "none" /\ DOMAIN uni' = DOMAIN uni
        /\ uni'.np = uni.np /\ uni'.n2 = uni.n2 /\ uni'.k = uni.k
        /\ UNCHANGED <<reg, act, cl>>
    BY DEF Post, Types
  <1>2. /\ sig' = [c \in Client |-> IF c \in Close THEN 0
                                       ELSE IF list[c].act > 0 THEN sig[c] + 1 ELSE sig[c]]
        /\ list' = [c \in Client |-> IF c \in Close THEN NoSem ELSE [list[c] EXCEPT !.act = 0]]
        /\ orphans' = orphans \cup {c \in Close : \E k \in Item : reg[<<k, c>>] = "add"}
    BY DEF Post
  <1>3. ASSUME NEW c \in Client
        PROVE  /\ list'[c] \in [on : BOOLEAN, ref : Nat, act : Nat]
               /\ (list'[c].on <=> list[c].on /\ c \notin Close) /\ list'[c].act = 0
    <2>1. list[c] \in [on : BOOLEAN, ref : Nat, act : Nat]
      BY DEF Types
    <2>2. CASE c \in Close
      <3>1. list'[c] = [on |-> FALSE, ref |-> 0, act |-> 0]
        BY <1>2, <2>2 DEF NoSem
      <3> QED
        BY <2>2, <3>1
    <2>3. CASE c \notin Close
      <3>1. list'[c] = [list[c] EXCEPT !.act = 0]
        BY <1>2, <2>3
      <3> QED
        BY <2>1, <2>3, <3>1
    <2> QED
      BY <2>2, <2>3
  <1>4. sig' \in [Client -> Nat] /\ list' \in [Client -> [on : BOOLEAN, ref : Nat, act : Nat]]
    BY <1>2, <1>3 DEF Types
  <1>5. Types'
    BY <1>1, <1>4 DEF Types
  <1>6. ASSUME NEW c \in Client
        PROVE  c \in Close <=> list[c].on /\ list[c].ref = 0
    OBVIOUS
  <1> QED
    BY <1>1, <1>2, <1>3, <1>5, <1>6

\* A semaphore that is closed belongs to a client without a notice, or to one
\* whose registration was missed.
LEMMA NoticePost ==
  ASSUME NoticeInv, Post
  PROVE  NoticeInv'
  <1>1. UNCHANGED <<reg, act, cl>>
    BY DEF Post
  <1>2. Types /\ Types'
    BY PostFacts DEF NoticeInv
  <1>3. uni.pc = "post" /\ uni'.pc = uni.ret /\ uni.ret # "post"
    BY <1>2, PostFacts DEF Types
  <1>4. ASSUME NEW c \in Client PROVE ClientFits(c)'
    <2> DEFINE closed == list[c].on /\ list[c].ref = 0
    <2>1. ClientFits(c)
      BY DEF NoticeInv
    <2>2. /\ sig'[c] = IF closed THEN 0 ELSE IF list[c].act > 0 THEN sig[c] + 1 ELSE sig[c]
          /\ (list'[c].on <=> list[c].on /\ ~closed) /\ list'[c].act = 0
          /\ c \in orphans' <=> c \in orphans \/ (closed /\ \E k \in Item : reg[<<k, c>>] = "add")
      BY <1>2, PostFacts
    <2>3. Notices(c)' = Notices(c) /\ Notices(c) \subseteq Item /\ Cardinality(Notices(c)) \in Nat
      BY <1>1, ItemFacts DEF Notices
    <2>4. sig[c] \in Nat /\ list[c].act \in Nat
      BY <1>2 DEF Types
    <2> HIDE DEF closed
    <2>5. ASSUME c \notin orphans', cl[c].pc # "gone" PROVE NoticeCounted(c)'
      <3>1. CASE closed
        <4>1. Notices(c) = {}
          BY <2>1, <2>2, <2>3, <2>5, <3>1 DEF ClientFits
        <4> QED
          BY <1>1, <1>3, <2>2, <2>3, <3>1, <4>1, FS_EmptySet DEF NoticeCounted
      <3>2. CASE ~closed
        <4>1. list[c].act <= 1 /\ NoticeCounted(c)
          BY <1>3, <2>1, <2>2, <2>5 DEF ClientFits
        <4> QED
          BY <1>1, <1>3, <2>2, <2>3, <2>4, <3>2, <4>1 DEF NoticeCounted
      <3> QED
        BY <3>1, <3>2
    <2> QED
      BY <1>1, <1>3, <2>1, <2>2, <2>3, <2>5 DEF ClientFits
  <1> QED
    BY <1>2, <1>4 DEF NoticeInv

LEMMA NoticeRegister ==
  ASSUME NoticeInv, Register
  PROVE  NoticeInv'
  <1>1. UNCHANGED <<act, sig, uni, orphans>> /\ uni.pc # "post" /\ Types
    BY DEF Register, NtFree, NoticeInv
  <1>2. PICK c \in Client, k \in Item :
           /\ cl[c].pc = "new"
           /\ reg' = [reg EXCEPT ![<<k, c>>] = "add"]
           /\ list' = [list EXCEPT ![c].on = TRUE, ![c].ref = @ + 1]
           /\ cl' = cl \/ cl' = [cl EXCEPT ![c].pc = "idle"]
    BY DEF Register
  <1>3. /\ cl[c].pc = "new"
        /\ reg' = [reg EXCEPT ![<<k, c>>] = "add"]
        /\ cl' = cl \/ cl' = [cl EXCEPT ![c].pc = "idle"]
    BY <1>2
  <1>4. list[c] \in [on : BOOLEAN, ref : Nat, act : Nat]
    BY <1>1 DEF Types
  <1>5. list'[c] = [on |-> TRUE, ref |-> list[c].ref + 1, act |-> list[c].act]
    BY <1>1, <1>2, <1>4 DEF Types
  <1>6. list'[c] \in [on : BOOLEAN, ref : Nat, act : Nat] /\ list'[c].on /\ list'[c].act <= list[c].act
    BY <1>4, <1>5
  <1>7. list' = [list EXCEPT ![c] = list'[c]]
    BY <1>1, <1>2 DEF Types
  <1>8. list' \in [Client -> [on : BOOLEAN, ref : Nat, act : Nat]] /\ \A d \in Client \ {c} : list'[d] = list[d]
    BY <1>1, <1>6, <1>7 DEF Types
  <1>9. /\ reg' \in [Item \X Client -> {"none", "add", "del"}]
        /\ \A p \in Item \X Client : reg[p] = "add" => reg'[p] = "add"
        /\ \A i \in Item, d \in Client \ {c} : reg'[<<i, d>>] = reg[<<i, d>>]
    BY <1>1, <1>3 DEF Types
  <1>10. /\ cl' \in [Client -> [pc : {"new", "idle", "find", "del", "get", "rel", "gone"}, k : Item \cup {0}]]
         /\ cl'[c].pc \in {"new", "idle"} /\ \A d \in Client \ {c} : cl'[d] = cl[d]
    <2>1. CASE cl' = cl
      BY <1>1, <1>3, <2>1 DEF Types
    <2>2. CASE cl' = [cl EXCEPT ![c].pc = "idle"]
      <3>1. cl'[c] = [cl[c] EXCEPT !.pc = "idle"] /\ cl' = [cl EXCEPT ![c] = cl'[c]]
        BY <1>1, <2>2 DEF Types
      <3>2. cl'[c] \in [pc : {"new", "idle", "find", "del", "get", "rel", "gone"}, k : Item \cup {0}] /\ cl'[c].pc = "idle"
        BY <1>1, <3>1 DEF Types
      <3>3. \A d \in Client \ {c} : cl'[d] = cl[d]
        BY <1>1, <2>2 DEF Types
      <3>4. cl' \in [Client -> [pc : {"new", "idle", "find", "del", "get", "rel", "gone"}, k : Item \cup {0}]]
        <4> DEFINE R == [pc : {"new", "idle", "find", "del", "get", "rel", "gone"}, k : Item \cup {0}]
        <4>1. cl \in [Client -> R] /\ cl'[c] \in R
          BY <1>1, <3>2 DEF Types
        <4> HIDE DEF R
        <4>2. cl' \in [Client -> R]
          BY <3>1, <4>1
        <4> QED
          BY <4>2 DEF R
      <3> QED
        BY <3>2, <3>3, <3>4
    <2> QED
      BY <1>3, <2>1, <2>2
  <1>11. Types'
    BY <1>1, <1>8, <1>9, <1>10 DEF Types
  <1>12. ASSUME NEW d \in Client PROVE ClientFits(d)'
    <2>1. ClientFits(d) /\ Notices(d)' = Notices(d) /\ Notices(d) \subseteq Item
      BY <1>1 DEF NoticeInv, Notices
    <2>2. \A i \in Item : reg[<<i, d>>] = "add" => reg'[<<i, d>>] = "add"
      BY <1>9
    <2>3. CASE d = c
      <3>1. list'[c].act <= 0
        BY <1>1, <1>4, <1>6, <2>1, <2>3 DEF ClientFits
      <3>2. NoticeCounted(c) => NoticeCounted(c)'
        BY <1>1, <1>3, <1>10, <2>1, <2>3 DEF NoticeCounted
      <3> QED
        BY <1>1, <1>3, <1>6, <1>10, <2>1, <2>2, <2>3, <3>1, <3>2 DEF ClientFits
    <2>4. CASE d # c
      <3>1. list'[d] = list[d] /\ cl'[d] = cl[d] /\ \A i \in Item : reg'[<<i, d>>] = reg[<<i, d>>]
        BY <1>8, <1>9, <1>10, <2>4
      <3>2. NoticeCounted(d) => NoticeCounted(d)'
        BY <1>1, <2>1, <3>1 DEF NoticeCounted
      <3> QED
        BY <1>1, <2>1, <3>1, <3>2 DEF ClientFits
    <2> QED
      BY <2>3, <2>4
  <1> QED
    BY <1>11, <1>12 DEF NoticeInv

LEMMA NoticeDeregister ==
  ASSUME NoticeInv, DeregisterAll
  PROVE  NoticeInv'
  <1>1. UNCHANGED <<act, uni, orphans>> /\ uni.pc # "post" /\ Types
    BY DEF DeregisterAll, NtFree, NoticeInv
  <1>2. PICK c \in Leaves :
          /\ cl[c].pc = "idle" /\ cl' = [cl EXCEPT ![c].pc = "gone"]
          /\ list' = [list EXCEPT ![c] = NoSem] /\ sig' = [sig EXCEPT ![c] = 0]
          /\ reg' = [p \in Item \X Client |-> IF p[2] = c /\ reg[p] = "add" THEN "del" ELSE reg[p]]
    BY DEF DeregisterAll
  <1>3. c \in Client
    BY UniconfAssumption
  <1>4. NoSem \in [on : BOOLEAN, ref : Nat, act : Nat] /\ NoSem.act = 0
    BY DEF NoSem
  <1>5. /\ list' \in [Client -> [on : BOOLEAN, ref : Nat, act : Nat]]
        /\ list'[c].act = 0 /\ \A d \in Client \ {c} : list'[d] = list[d]
    BY <1>1, <1>2, <1>3, <1>4 DEF Types
  <1>6. sig' \in [Client -> Nat] /\ \A d \in Client \ {c} : sig'[d] = sig[d]
    BY <1>1, <1>2 DEF Types
  <1>7. /\ reg' \in [Item \X Client -> {"none", "add", "del"}]
        /\ \A i \in Item : reg'[<<i, c>>] # "add"
        /\ \A i \in Item, d \in Client \ {c} : reg'[<<i, d>>] = reg[<<i, d>>]
    BY <1>1, <1>2, <1>3 DEF Types
  <1>8. /\ cl' \in [Client -> [pc : {"new", "idle", "find", "del", "get", "rel", "gone"}, k : Item \cup {0}]]
        /\ cl'[c].pc = "gone" /\ \A d \in Client \ {c} : cl'[d] = cl[d]
    BY <1>1, <1>2, <1>3 DEF Types
  <1>9. Types'
    BY <1>1, <1>5, <1>6, <1>7, <1>8 DEF Types
  <1>10. ASSUME NEW d \in Client PROVE ClientFits(d)'
    <2>1. ClientFits(d) /\ Notices(d)' = Notices(d) /\ Notices(d) \subseteq Item
      BY <1>1 DEF NoticeInv, Notices
    <2>2. CASE d = c
      BY <1>1, <1>5, <1>7, <1>8, <2>1, <2>2 DEF ClientFits
    <2>3. CASE d # c
      <3>1. list'[d] = list[d] /\ cl'[d] = cl[d] /\ sig'[d] = sig[d] /\ \A i \in Item : reg'[<<i, d>>] = reg[<<i, d>>]
        BY <1>5, <1>6, <1>7, <1>8, <2>3
      <3>2. NoticeCounted(d) => NoticeCounted(d)'
        BY <1>1, <2>1, <3>1 DEF NoticeCounted
      <3> QED
        BY <1>1, <2>1, <3>1, <3>2 DEF ClientFits
    <2> QED
      BY <2>2, <2>3
  <1> QED
    BY <1>9, <1>10 DEF NoticeInv

\* One step of one client: only its semaphore, its notices and its place change.
LEMMA NoticeClient ==
  ASSUME NoticeInv, UNCHANGED <<reg, list, uni, orphans>>, NEW c \in Client,
         cl[c].pc \notin {"new", "gone"}, cl'[c].pc \notin {"new", "gone"},
         act' \subseteq act, sig' \in [Client -> Nat],
         cl' \in [Client -> [pc : {"new", "idle", "find", "del", "get", "rel", "gone"}, k : Item \cup {0}]],
         \A d \in Client \ {c} : cl'[d] = cl[d] /\ sig'[d] = sig[d] /\ Notices(d)' = Notices(d),
         cl'[c].pc = "del" => cl'[c].k \in Notices(c)',
         c \notin orphans /\ NoticeCounted(c) => NoticeCounted(c)'
  PROVE  NoticeInv'
  <1>1. Types /\ Types'
    BY DEF NoticeInv, Types
  <1>2. ASSUME NEW d \in Client PROVE ClientFits(d)'
    <2>1. ClientFits(d) /\ Notices(d)' \subseteq Notices(d)
      BY DEF NoticeInv, Notices
    <2>2. CASE d = c
      BY <2>1, <2>2 DEF ClientFits
    <2>3. CASE d # c
      <3>1. NoticeCounted(d) => NoticeCounted(d)'
        BY <2>3 DEF NoticeCounted
      <3> QED
        BY <2>1, <2>3, <3>1 DEF ClientFits
    <2> QED
      BY <2>2, <2>3
  <1> QED
    BY <1>1, <1>2 DEF NoticeInv

\* A client takes one post for each notice that it deletes.
LEMMA NoticeClientStep ==
  ASSUME NoticeInv, ClientStep
  PROVE  NoticeInv'
  <1> DEFINE ClType == [pc : {"new", "idle", "find", "del", "get", "rel", "gone"}, k : Item \cup {0}]
  <1>0. Types /\ UNCHANGED <<reg, list, uni, orphans>>
    BY DEF NoticeInv, ClientStep, ClTake, ClFind, ClDel, ClGet, ClRelease
  <1>1. CASE ClTake
    <2>1. PICK c \in Client : /\ cl[c].pc = "idle" /\ sig[c] > 0
                             /\ sig' = [sig EXCEPT ![c] = @ - 1] /\ cl' = [cl EXCEPT ![c].pc = "find"]
      BY <1>1 DEF ClTake
    <2>2. act' = act /\ \A d : Notices(d)' = Notices(d)
      BY <1>1 DEF ClTake, Notices
    <2>3. /\ sig' \in [Client -> Nat] /\ sig'[c] = sig[c] - 1 /\ cl' \in [Client -> ClType]
          /\ cl'[c].pc = "find" /\ \A d \in Client \ {c} : cl'[d] = cl[d] /\ sig'[d] = sig[d]
      <3>1. sig' \in [Client -> Nat] /\ sig'[c] = sig[c] - 1 /\ \A d \in Client \ {c} : sig'[d] = sig[d]
        <4>1. sig[c] - 1 \in Nat /\ sig \in [Client -> Nat]
          BY <1>0, <2>1 DEF Types
        <4> QED
          BY <2>1, <4>1
      <3>2. cl' \in [Client -> ClType] /\ cl'[c].pc = "find" /\ \A d \in Client \ {c} : cl'[d] = cl[d]
        BY <1>0, <2>1 DEF Types
      <3> QED
        BY <3>1, <3>2
    <2>4. NoticeCounted(c) => NoticeCounted(c)'
      <3>1. Cardinality(Notices(c)) \in Nat /\ sig[c] \in Nat /\ list[c].act \in Nat
        BY <1>0, ItemFacts DEF Types
      <3> QED
        BY <1>0, <2>1, <2>2, <2>3, <3>1 DEF NoticeCounted
    <2> QED
      BY <1>0, <2>1, <2>2, <2>3, <2>4, NoticeClient
  <1>2. CASE ClFind
    <2>1. PICK c \in Client :
             /\ cl[c].pc = "find"
             /\ cl' = [cl EXCEPT ![c] = IF Notices(c) = {} THEN [pc |-> "idle", k |-> 0]
                                        ELSE [pc |-> "del", k |-> MinOf(Notices(c))]]
      BY <1>2 DEF ClFind, Notices
    <2>2. act' = act /\ sig' = sig /\ \A d : Notices(d)' = Notices(d)
      BY <1>2 DEF ClFind, Notices
    <2>3. Notices(c) # {} => MinOf(Notices(c)) \in Notices(c) /\ MinOf(Notices(c)) \in Item
      <3>1. Notices(c) \subseteq Item /\ Notices(c) \subseteq Nat
        BY ItemFacts DEF Notices
      <3> QED
        BY <3>1, MinOfFacts
    <2>4. /\ cl' \in [Client -> ClType]
          /\ cl'[c].pc = (IF Notices(c) = {} THEN "idle" ELSE "del")
          /\ cl'[c].pc = "del" => cl'[c].k \in Notices(c)
          /\ \A d \in Client \ {c} : cl'[d] = cl[d]
      <3>1. CASE Notices(c) = {}
        BY <1>0, <2>1, <3>1 DEF Types
      <3>2. CASE Notices(c) # {}
        BY <1>0, <2>1, <2>3, <3>2 DEF Types
      <3> QED
        BY <3>1, <3>2
    <2>5. NoticeCounted(c) => NoticeCounted(c)'
      <3>1. sig[c] \in Nat /\ list[c].act \in Nat
        BY <1>0 DEF Types
      <3>2. CASE Notices(c) = {}
        BY <1>0, <2>2, <2>4, <3>1, <3>2, FS_EmptySet DEF NoticeCounted
      <3>3. CASE Notices(c) # {}
        BY <1>0, <2>1, <2>2, <2>4, <3>1, <3>3 DEF NoticeCounted
      <3> QED
        BY <3>2, <3>3
    <2>6. sig' \in [Client -> Nat]
      BY <1>0, <2>2 DEF Types
    <2> QED
      BY <1>0, <2>1, <2>2, <2>4, <2>5, <2>6, NoticeClient
  <1>3. CASE ClDel
    <2>1. PICK c \in Client :
             /\ cl[c].pc = "del" /\ cl' = [cl EXCEPT ![c].pc = "get"] /\ act' = act \ {<<cl[c].k, c>>}
      BY <1>3 DEF ClDel
    <2>2. sig' = sig /\ sig \in [Client -> Nat]
      BY <1>0, <1>3 DEF ClDel, Types
    <2>3. cl' \in [Client -> ClType] /\ cl'[c].pc = "get" /\ \A d \in Client \ {c} : cl'[d] = cl[d]
      BY <1>0, <2>1 DEF Types
    <2>4. /\ Notices(c)' = Notices(c) \ {cl[c].k}
          /\ \A d \in Client \ {c} : Notices(d)' = Notices(d)
      BY <2>1 DEF Notices
    <2>5. NoticeCounted(c) => NoticeCounted(c)'
      <3>1. cl[c].k \in Notices(c) /\ IsFiniteSet(Notices(c)) /\ Cardinality(Notices(c)) \in Nat
        BY <2>1, ItemFacts DEF NoticeInv, ClientFits
      <3>2. Cardinality(Notices(c)') = Cardinality(Notices(c)) - 1
        <4>1. Cardinality(Notices(c) \ {cl[c].k}) = Cardinality(Notices(c)) - 1
          BY <3>1, FS_RemoveElement
        <4> QED
          BY <2>4, <4>1
      <3>3. sig[c] \in Nat /\ list[c].act \in Nat
        BY <1>0 DEF Types
      <3> QED
        BY <1>0, <2>1, <2>2, <2>3, <3>1, <3>2, <3>3 DEF NoticeCounted
    <2> QED
      BY <1>0, <2>1, <2>2, <2>3, <2>4, <2>5, NoticeClient
  <1>4. CASE ClGet \/ ClRelease
    <2>1. PICK c \in Client :
             /\ cl[c].pc \in {"get", "rel"}
             /\ cl' = [cl EXCEPT ![c].pc = "rel"] \/ cl' = [cl EXCEPT ![c] = [pc |-> "idle", k |-> 0]]
      BY <1>4 DEF ClGet, ClRelease
    <2>2. sig' = sig /\ sig \in [Client -> Nat] /\ act' = act /\ \A d : Notices(d)' = Notices(d)
      BY <1>0, <1>4 DEF ClGet, ClRelease, Types, Notices
    <2>3. cl' \in [Client -> ClType] /\ cl'[c].pc \in {"idle", "rel"} /\ \A d \in Client \ {c} : cl'[d] = cl[d]
      <3>1. CASE cl' = [cl EXCEPT ![c].pc = "rel"]
        BY <1>0, <3>1 DEF Types
      <3>2. CASE cl' = [cl EXCEPT ![c] = [pc |-> "idle", k |-> 0]]
        BY <1>0, <3>2 DEF Types
      <3> QED
        BY <2>1, <3>1, <3>2
    <2>4. NoticeCounted(c) => NoticeCounted(c)'
      BY <1>0, <2>1, <2>2, <2>3 DEF NoticeCounted
    <2> QED
      BY <1>0, <2>1, <2>2, <2>3, <2>4, NoticeClient
  <1> QED
    BY <1>1, <1>2, <1>3, <1>4 DEF ClientStep

LEMMA NoticeInit ==
  ASSUME Init
  PROVE  NoticeInv
  <1>1. uni = Waiting /\ act = {} /\ orphans = {} /\ sig = [c \in Client |-> 0]
    BY DEF Init
  <1>2. reg \in [Item \X Client -> {"none", "add", "del"}]
    BY DEF Init
  <1>3. cl \in [Client -> [pc : {"new", "idle", "find", "del", "get", "rel", "gone"}, k : Item \cup {0}]]
    BY DEF Init
  <1>4. Cardinality(Item) \in Nat
    BY ItemFacts, FS_CardinalityType
  <1>5. ASSUME NEW c \in Client
        PROVE  /\ list[c] \in [on : BOOLEAN, ref : Nat, act : Nat]
               /\ list[c].act = 0 /\ (c \in Late \/ list[c].on)
    BY <1>4 DEF Init, NoSem
  <1>6. list \in [Client -> [on : BOOLEAN, ref : Nat, act : Nat]]
    BY <1>5 DEF Init
  <1>7. Types
    BY <1>1, <1>2, <1>3, <1>6 DEF Types, Waiting
  <1>8. ASSUME NEW c \in Client PROVE ClientFits(c)
    <2>1. Notices(c) = {} /\ sig[c] = 0 /\ cl[c].pc \in {"new", "idle"} /\ uni.pc = "wait"
      BY <1>1 DEF Notices, Waiting, Init
    <2>2. Cardinality(Notices(c)) = 0
      BY <2>1, FS_EmptySet
    <2>3. \A k \in Item : reg[<<k, c>>] = "add" => c \notin Late
      BY DEF Init
    <2> QED
      BY <1>5, <2>1, <2>2, <2>3 DEF ClientFits, NoticeCounted
  <1> QED
    BY <1>7, <1>8 DEF NoticeInv

LEMMA NoticeNext ==
  ASSUME NoticeInv, [Next]_vars
  PROVE  NoticeInv'
  <1>1. CASE UNCHANGED vars
    BY <1>1, NoticeFrame DEF vars
  <1> QED
    BY <1>1, NoticeQuietSteps, NoticeScan, NoticePost, NoticeRegister, NoticeDeregister, NoticeClientStep
       DEF Next, UniStep, RegStep

\* uc_nu_putnotice_push posts the semaphore of a client for every notice that it
\* leaves there, and a client takes a post for each notice: none stays behind,
\* however pushes, registrations and the clients' reads interleave, unless the
\* semaphore was closed because the scan missed a registration.
THEOREM NoticeNeverLost == Spec => []NoticeNotLost
  <1>1. Init => NoticeInv
    BY NoticeInit
  <1>2. NoticeInv /\ [Next]_vars => NoticeInv'
    BY NoticeNext
  <1>3. NoticeInv => NoticeNotLost
    <2> SUFFICES ASSUME NoticeInv, NEW c \in Client \ orphans, cl[c].pc # "gone"
                 PROVE  Cardinality(Notices(c)) <=
                           sig[c] + (IF uni.pc = "post" /\ list[c].act > 0 THEN 1 ELSE 0)
                                  + (IF cl[c].pc \in {"find", "del"} THEN 1 ELSE 0)
      BY DEF NoticeNotLost, Notices
    <2>1. /\ NoticeCounted(c) /\ sig[c] \in Nat /\ list[c].act \in Nat
          /\ list[c].act <= (IF uni.pc = "post" THEN 1 ELSE 0)
      BY DEF NoticeInv, ClientFits, Types
    <2>2. (IF uni.pc = "post" THEN list[c].act ELSE 0) = (IF uni.pc = "post" /\ list[c].act > 0 THEN 1 ELSE 0)
      BY <2>1
    <2> QED
      BY <2>1, <2>2 DEF NoticeCounted
  <1> QED
    BY <1>1, <1>2, <1>3, PTL DEF Spec
-----------------------------------------------------------------------------
(* Requests                                                                *)

\* Pairs of numbers are in a total order.
LEMMA NotAfterOrder ==
  ASSUME NEW p \in Nat \X Nat, NEW q \in Nat \X Nat, NEW r \in Nat \X Nat
  PROVE  /\ NotAfter(p, p)
         /\ NotAfter(p, q) \/ NotAfter(q, p)
         /\ NotAfter(p, q) /\ NotAfter(q, r) => NotAfter(p, r)
         /\ NotAfter(p, q) /\ NotAfter(q, p) => p = q
  BY DEF NotAfter

LEMMA FirstFacts ==
  ASSUME NEW S, S \subseteq Nat \X Nat, S # {}
  PROVE  First(S) \in S /\ \A q \in S : NotAfter(First(S), q)
  <1> DEFINE A == {p[1] : p \in S}
             a == MinOf(A)
             B == {p[2] : p \in {q \in S : q[1] = a}}
             b == MinOf(B)
  <1>1. A \subseteq Nat /\ A # {}
    OBVIOUS
  <1>2. a \in A /\ \A x \in A : a <= x
    BY <1>1, MinOfFacts
  <1> HIDE DEF a
  <1>3. B \subseteq Nat /\ B # {}
    BY <1>2
  <1>4. b \in B /\ \A x \in B : b <= x
    BY <1>3, MinOfFacts
  <1> HIDE DEF b
  <1>5. PICK p \in S : p[1] = a /\ p[2] = b
    BY <1>4
  <1>6. \A q \in S : NotAfter(p, q)
    <2>1. ASSUME NEW q \in S PROVE NotAfter(p, q)
      <3>1. q[1] \in Nat /\ q[2] \in Nat /\ p[1] \in Nat /\ p[2] \in Nat /\ a <= q[1]
        BY <1>2
      <3>2. q[1] = a => b <= q[2]
        BY <1>4
      <3> QED
        BY <1>5, <3>1, <3>2 DEF NotAfter
    <2> QED
      BY <2>1
  <1> QED
    BY <1>6 DEF First

\* A finite set of pairs has a last one: one with the fewest pairs after it.
LEMMA LastFacts ==
  ASSUME NEW S, S \subseteq Nat \X Nat, S # {}, IsFiniteSet(S)
  PROVE  Last(S) \in S /\ \A q \in S : NotAfter(q, Last(S))
  <1> DEFINE Above(p) == {q \in S : ~NotAfter(q, p)}
             C == {Cardinality(Above(p)) : p \in S}
  <1>1. \A p \in S : IsFiniteSet(Above(p)) /\ Cardinality(Above(p)) \in Nat
    <2>1. ASSUME NEW p \in S PROVE IsFiniteSet(Above(p)) /\ Cardinality(Above(p)) \in Nat
      <3>1. Above(p) \in SUBSET S
        OBVIOUS
      <3> QED
        BY <3>1, FS_Subset, FS_CardinalityType
    <2> QED
      BY <2>1
  <1>2. C \subseteq Nat /\ C # {}
    BY <1>1
  <1>3. MinOf(C) \in C /\ \A n \in C : MinOf(C) <= n
    BY <1>2, MinOfFacts
  <1>4. PICK p \in S : \A q \in S : Cardinality(Above(p)) <= Cardinality(Above(q))
    BY <1>3
  <1>5. ASSUME NEW q \in S, ~NotAfter(q, p) PROVE FALSE
    <2>1. q \in Above(p) /\ q \notin Above(q)
      BY <1>5, NotAfterOrder
    <2>2. Above(q) \in SUBSET Above(p)
      <3>1. ASSUME NEW r \in S, ~NotAfter(r, q) PROVE ~NotAfter(r, p)
        <4>1. p \in Nat \X Nat /\ q \in Nat \X Nat /\ r \in Nat \X Nat
          OBVIOUS
        <4> QED
          BY <1>5, <3>1, <4>1, NotAfterOrder
      <3> QED
        BY <3>1
    <2>3. Cardinality(Above(q)) <= Cardinality(Above(p)) /\ Cardinality(Above(p)) # Cardinality(Above(q))
      BY <1>1, <2>1, <2>2, FS_Subset
    <2> HIDE DEF Above
    <2> QED
      BY <1>1, <1>4, <2>3
  <1> QED
    BY <1>5 DEF Last

\* uniconf goes through the links, or answers the requests from np to n2.
Looking ==
  \/ uni.pc \in {"query", "lput", "lwait", "lagain", "range"}
  \/ uni.pc \in {"push", "scan", "post"} /\ uni.ret = "query"
Answers ==
  \/ uni.pc \in {"read", "write", "del"}
  \/ uni.pc \in {"push", "scan", "post"} /\ uni.ret = "del"

UniFits ==
  /\ ask \subseteq (Conf \X {0}) \cup (Item \X Client) /\ getsem \in Nat
  /\ uni.pc = "wait" \/ Looking \/ Answers
  /\ uni.pc \in {"lput", "lwait", "lagain"} => uni.k \in Links
  /\ Answers => uni.np \in ask /\ uni.n2 \in ask /\ NotAfter(uni.np, uni.n2)
  /\ uni.pc = "write" => uni.np[2] = 0

WrFits ==
  /\ wr \in [pc : {"idle", "put", "wait", "again", "ask", "sig"}, k : Conf \cup {0}, n : Nat]
  /\ wr.pc # "idle" => wr.k \in Conf

\* uniconf will see every request.
AskSeen ==
  \A p \in ask : \/ getsem > 0 \/ wr.pc = "sig" \/ Looking
                 \/ Answers /\ NotAfter(uni.np, p) /\ NotAfter(p, uni.n2)

RequestInv == Types /\ UniFits /\ WrFits /\ AskSeen

LEMMA AskFacts ==
  ASSUME NEW S, S \subseteq (Conf \X {0}) \cup (Item \X Client)
  PROVE  IsFiniteSet(S) /\ S \subseteq Nat \X Nat
  <1>1. S \subseteq Item \X (Client \cup {0}) /\ Item \X (Client \cup {0}) \subseteq Nat \X Nat
    <2>1. Conf \subseteq Item /\ Item \subseteq Nat /\ Client \cup {0} \subseteq Nat
      BY UniconfAssumption DEF Item
    <2>2. ASSUME NEW p \in S PROVE p \in Item \X (Client \cup {0})
      <3>1. p \in Conf \X {0} \/ p \in Item \X Client
        OBVIOUS
      <3> QED
        BY <2>1, <3>1
    <2>3. ASSUME NEW p \in Item \X (Client \cup {0}) PROVE p \in Nat \X Nat
      BY <2>1
    <2> QED
      BY <2>2, <2>3
  <1>2. IsFiniteSet(Client \cup {0})
    BY UniconfAssumption, FS_AddElement
  <1>3. IsFiniteSet(Item \X (Client \cup {0}))
    BY <1>2, ItemFacts, FS_Product
  <1> QED
    BY <1>1, <1>3, FS_Subset

\* The writer and the others that only add requests and wake uniconf.
LEMMA RequestOthers ==
  ASSUME RequestInv, Types',
         Write \/ WriterStep \/ LinkChange \/ NotifyLinkChange \/ RegStep \/ ClientStep \/ UNCHANGED vars
  PROVE  RequestInv'
  <1>1. uni' = uni /\ (Looking' <=> Looking) /\ (Answers' <=> Answers)
    BY DEF Write, WriterStep, WriterPut, WriterWait, WriterAsk, WriterSig, LinkChange, NotifyLinkChange,
           RegStep, Register, DeregisterAll, ClientStep, ClTake, ClFind, ClDel, ClGet, ClRelease, vars,
           Looking, Answers
  <1>2. ask \subseteq ask' /\ ask' \subseteq (Conf \X {0}) \cup (Item \X Client) /\ getsem' \in Nat
    <2>1. CASE WriterAsk
      BY <2>1 DEF WriterAsk, RequestInv, UniFits, WrFits
    <2>2. CASE DeregisterAll
      <3>1. PICK c \in Leaves : ask' = ask \cup {<<MinOf(Item), c>>}
        BY <2>2 DEF DeregisterAll
      <3>2. MinOf(Item) \in Item /\ c \in Client
        BY ItemFacts, MinOfFacts, UniconfAssumption
      <3>3. getsem' \in Nat
        BY <2>2 DEF DeregisterAll, WakeUniconf, RequestInv, UniFits
      <3> QED
        BY <3>1, <3>2, <3>3 DEF RequestInv, UniFits
    <2>3. CASE ~WriterAsk /\ ~DeregisterAll
      BY <2>3 DEF Write, WriterStep, WriterPut, WriterWait, WriterSig, LinkChange, NotifyLinkChange,
           RegStep, Register, ClientStep, ClTake, ClFind, ClDel, ClGet, ClRelease, vars,
           WakeUniconf, RequestInv, UniFits
    <2> QED
      BY <2>1, <2>2, <2>3
  <1>3. UniFits'
    BY <1>1, <1>2 DEF RequestInv, UniFits
  <1>4. WrFits'
    <2> USE DEF RequestInv, WrFits
    <2>1. CASE Write
      BY <2>1 DEF Write
    <2>2. CASE WriterPut \/ WriterWait
      BY <2>2 DEF WriterPut, WriterWait
    <2>3. CASE WriterAsk \/ WriterSig
      BY <2>3 DEF WriterAsk, WriterSig
    <2>4. CASE ~Write /\ ~WriterStep
      BY <2>4 DEF LinkChange, NotifyLinkChange,
           RegStep, Register, DeregisterAll, ClientStep, ClTake, ClFind, ClDel, ClGet, ClRelease, vars
    <2> QED
      BY <2>1, <2>2, <2>3, <2>4 DEF WriterStep
  <1>5. AskSeen'
    <2>1. CASE getsem' > 0 \/ wr'.pc = "sig"
      BY <2>1 DEF AskSeen
    <2>2. CASE ask' = ask /\ getsem' = getsem /\ (wr.pc = "sig" => wr'.pc = "sig")
      BY <1>1, <2>2 DEF RequestInv, AskSeen
    <2>3. ASSUME WriterAsk PROVE wr'.pc = "sig"
      BY <2>3 DEF WriterAsk, RequestInv, WrFits
    <2>4. ASSUME DeregisterAll \/ WriterSig \/ NotifyLinkChange PROVE getsem' > 0
      BY <2>4 DEF DeregisterAll, WriterSig, NotifyLinkChange, WakeUniconf, RequestInv, UniFits
    <2>5. ASSUME ~WriterAsk, ~DeregisterAll, ~WriterSig, ~NotifyLinkChange
          PROVE  ask' = ask /\ getsem' = getsem /\ (wr.pc = "sig" => wr'.pc = "sig")
      BY <2>5 DEF Write, WriterStep, WriterPut, WriterWait, LinkChange,
           RegStep, Register, ClientStep, ClTake, ClFind, ClDel, ClGet, ClRelease, vars
    <2> QED
      BY <2>1, <2>2, <2>3, <2>4, <2>5
  <1> QED
    BY <1>3, <1>4, <1>5 DEF RequestInv

\* The uniconf thread looks at the links, then answers the requests in order.
LEMMA RequestUni ==
  ASSUME RequestInv, Types', UniStep
  PROVE  RequestInv'
  <1>1. wr' = wr /\ WrFits'
    BY DEF UniStep, SigCheck, Query, LinkPut, LinkWait, AskRange, AskRead, AskWrite, AskDel, Push, Scan, Post,
           RequestInv, WrFits
  <1>2. getsem' \in Nat /\ (getsem' = getsem \/ uni'.pc = "query")
    <2>1. CASE SigCheck
      BY <2>1 DEF SigCheck, RequestInv, UniFits, Types
    <2>2. CASE ~SigCheck
      BY <2>2 DEF UniStep, Query, LinkPut, LinkWait, AskRange, AskRead, AskWrite, AskDel, Push, Scan, Post,
           RequestInv, UniFits
    <2> QED
      BY <2>1, <2>2
  <1>3. ask' = ask \/ AskDel
    BY DEF UniStep, SigCheck, Query, LinkPut, LinkWait, AskRange, AskRead, AskWrite, Push, Scan, Post
  <1>4. ask \subseteq (Conf \X {0}) \cup (Item \X Client)
    BY DEF RequestInv, UniFits
  <1>5. CASE /\ ask' = ask /\ Looking'
             /\ uni'.pc \in {"lput", "lwait", "lagain"} => uni'.k \in Links
    BY <1>1, <1>2, <1>4, <1>5 DEF RequestInv, UniFits, AskSeen, Looking, Answers
  <1>6. CASE /\ ask' = ask /\ Answers /\ Answers' /\ uni'.np = uni.np /\ uni'.n2 = uni.n2 /\ getsem' = getsem
             /\ uni'.pc = "write" => uni.np[2] = 0
    BY <1>1, <1>2, <1>4, <1>6 DEF RequestInv, UniFits, AskSeen, Looking, Answers
  <1>7. CASE SigCheck
    <2>1. uni'.pc = "query" /\ ask' = ask
      BY <1>7 DEF SigCheck, RequestInv, Types
    <2> QED
      BY <1>5, <2>1 DEF Looking
  <1>8. CASE Query
    <2> DEFINE D == {l \in Links : l > uni.k /\ opersts[l] # link[l].up}
    <2>1. D \subseteq Nat
      BY UniconfAssumption
    <2>2. uni'.pc = "range" \/ (uni'.pc = "lput" /\ uni'.k = MinOf(D) /\ D # {})
      BY <1>8 DEF Query, RequestInv, Types
    <2>3. uni'.pc = "lput" => uni'.k \in Links
      BY <2>1, <2>2, MinOfFacts
    <2> QED
      BY <1>5, <1>8, <2>2, <2>3 DEF Looking, Query
  <1>9. CASE LinkPut \/ LinkWait
    <2>1. /\ uni.k \in Links /\ uni'.k = uni.k /\ ask' = ask
          /\ uni'.pc \in {"query", "lwait", "lagain"} \/ (uni'.pc = "push" /\ uni'.ret = "query")
      <3>1. uni.k \in Links /\ ask' = ask
        BY <1>9 DEF LinkPut, LinkWait, RequestInv, UniFits
      <3>2. DOMAIN uni = {"pc", "k", "np", "n2", "v", "first", "last", "ret"}
        BY DEF RequestInv, Types
      <3>3. CASE LinkPut
        <4>1. \/ uni' = [uni EXCEPT !.pc = "push", !.ret = "query"]
              \/ \E x \in {"lwait", "query"} : uni' = [uni EXCEPT !.pc = x]
          BY <3>3 DEF LinkPut
        <4> QED
          BY <3>1, <3>2, <4>1
      <3>4. CASE LinkWait
        BY <3>1, <3>2, <3>4 DEF LinkWait
      <3> QED
        BY <1>9, <3>3, <3>4
    <2> QED
      BY <1>5, <2>1 DEF Looking
  <1>10. CASE AskRange
    <2>1. CASE ask = {}
      <3>1. uni'.pc = "wait" /\ ask' = {}
        BY <1>10, <2>1 DEF AskRange, Waiting
      <3> QED
        BY <1>1, <1>2, <3>1 DEF RequestInv, UniFits, AskSeen, Looking, Answers
    <2>2. CASE ask # {}
      <3>1. uni'.pc = "read" /\ uni'.np = First(ask) /\ uni'.n2 = Last(ask) /\ ask' = ask
        BY <1>10, <2>2 DEF AskRange, RequestInv, Types
      <3>2. IsFiniteSet(ask) /\ ask \subseteq Nat \X Nat
        BY <1>4, AskFacts
      <3>3. First(ask) \in ask /\ Last(ask) \in ask /\ \A q \in ask : NotAfter(First(ask), q) /\ NotAfter(q, Last(ask))
        BY <2>2, <3>2, FirstFacts, LastFacts
      <3>4. Answers' /\ ~Looking'
        BY <3>1 DEF Answers, Looking
      <3> QED
        BY <1>1, <1>2, <1>4, <3>1, <3>3, <3>4 DEF RequestInv, UniFits, AskSeen
    <2> QED
      BY <2>1, <2>2
  <1>11. CASE AskRead \/ AskWrite
    <2>1. /\ uni.pc \in {"read", "write"} /\ uni'.np = uni.np /\ uni'.n2 = uni.n2 /\ ask' = ask /\ getsem' = getsem
          /\ \/ uni'.pc = "write" /\ uni.np[2] = 0
             \/ uni'.pc = "push" /\ uni'.ret = "del"
      BY <1>11 DEF AskRead, AskWrite, RequestInv, Types
    <2> QED
      BY <1>6, <2>1 DEF Answers
  <1>12. CASE AskDel
    <2>1. /\ uni.pc = "del" /\ ask' = ask \ {uni.np} /\ getsem' = getsem
          /\ uni' = IF uni.np = uni.n2 THEN Waiting
                    ELSE [uni EXCEPT !.pc = "read", !.np = First({p \in ask : ~NotAfter(p, uni.np)})]
      BY <1>12 DEF AskDel
    <2>2. /\ ask \subseteq Nat \X Nat /\ uni.np \in ask /\ uni.n2 \in ask /\ NotAfter(uni.np, uni.n2)
          /\ ~Looking /\ Answers
      BY <1>4, <2>1, AskFacts DEF RequestInv, UniFits, Answers, Looking
    <2>3. \A p \in ask : getsem > 0 \/ wr.pc = "sig" \/ (NotAfter(uni.np, p) /\ NotAfter(p, uni.n2))
      BY <2>2 DEF RequestInv, AskSeen
    <2>4. CASE uni.np = uni.n2
      <3>1. uni'.pc = "wait" /\ ~Answers' /\ ~Looking'
        BY <2>1, <2>4 DEF Waiting, Answers, Looking
      <3>2. \A p \in ask' : getsem > 0 \/ wr.pc = "sig"
        <4>1. ASSUME NEW p \in ask', NotAfter(uni.np, p), NotAfter(p, uni.np) PROVE FALSE
          <5>1. p \in Nat \X Nat /\ uni.np \in Nat \X Nat /\ p # uni.np
            BY <2>1, <2>2
          <5> QED
            BY <4>1, <5>1, NotAfterOrder
        <4> QED
          BY <2>1, <2>3, <2>4, <4>1
      <3> QED
        BY <1>1, <1>2, <1>4, <2>1, <3>1, <3>2 DEF RequestInv, UniFits, AskSeen
    <2>5. CASE uni.np # uni.n2
      <3> DEFINE S == {p \in ask : ~NotAfter(p, uni.np)}
      <3>1. uni'.pc = "read" /\ uni'.np = First(S) /\ uni'.n2 = uni.n2 /\ Answers' /\ ~Looking'
        BY <2>1, <2>5 DEF RequestInv, Types, Answers, Looking
      <3>2. uni.n2 \in S /\ S \subseteq Nat \X Nat
        <4>1. uni.np \in Nat \X Nat /\ uni.n2 \in Nat \X Nat
          BY <2>2
        <4> QED
          BY <2>2, <2>5, <4>1, NotAfterOrder
      <3>3. First(S) \in S /\ \A q \in S : NotAfter(First(S), q)
        BY <3>2, FirstFacts
      <3>4. uni.np \notin S
        BY <2>2, NotAfterOrder
      <3>5. S \subseteq ask' /\ NotAfter(First(S), uni.n2)
        BY <2>1, <3>2, <3>3, <3>4
      <3>6. ASSUME NEW p \in ask', NotAfter(uni.np, p) PROVE p \in S
        <4>1. p \in Nat \X Nat /\ uni.np \in Nat \X Nat /\ p # uni.np
          BY <2>1, <2>2
        <4> QED
          BY <2>1, <3>6, <4>1, NotAfterOrder
      <3>7. AskSeen'
        BY <1>1, <2>1, <2>3, <3>1, <3>3, <3>6 DEF AskSeen
      <3>8. UniFits'
        BY <1>2, <1>4, <2>1, <3>1, <3>2, <3>3, <3>5 DEF UniFits
      <3> QED
        BY <1>1, <3>7, <3>8 DEF RequestInv
    <2> QED
      BY <2>4, <2>5
  <1>13. CASE Push \/ Scan \/ Post
    <2>1. /\ uni.pc \in {"push", "scan", "post"} /\ uni'.np = uni.np /\ uni'.n2 = uni.n2 /\ ask' = ask /\ getsem' = getsem
          /\ \/ uni'.pc \in {"scan", "post"} /\ uni'.ret = uni.ret
             \/ uni'.pc = uni.ret
      BY <1>13 DEF Push, Scan, Post, RequestInv, Types
    <2>2. CASE uni.ret = "query"
      BY <1>5, <2>1, <2>2 DEF Looking
    <2>3. CASE uni.ret = "del"
      BY <1>6, <2>1, <2>3 DEF Answers
    <2> QED
      BY <2>1, <2>2, <2>3 DEF RequestInv, UniFits, Looking, Answers
  <1> QED
    BY <1>7, <1>8, <1>9, <1>10, <1>11, <1>12, <1>13 DEF UniStep

LEMMA RequestInit ==
  ASSUME Init
  PROVE  RequestInv
  <1>1. Types
    BY NoticeInit DEF NoticeInv
  <1>2. uni.pc = "wait" /\ ask = {} /\ getsem = 0
    BY DEF Init, Waiting
  <1>3. WrFits
    BY DEF Init, WrFits
  <1> QED
    BY <1>1, <1>2, <1>3 DEF RequestInv, UniFits, AskSeen, Looking, Answers

LEMMA RequestNext ==
  ASSUME RequestInv, NoticeInv, [Next]_vars
  PROVE  RequestInv'
  <1>1. Types'
    BY NoticeNext DEF NoticeInv
  <1> QED
    BY <1>1, RequestOthers, RequestUni DEF Next

-----------------------------------------------------------------------------
(* References to the entries of the database                               *)

Readers(k) == {c \in Client : cl[c].pc = "rel" /\ cl[c].k = k}
Reads(k) == uni.pc = "write" /\ uni.np = <<k, 0>>

ValueTypes ==
  /\ data \in [Item -> [v : Nat, ref : Nat]]
  /\ link \in [Links -> [up : {0, 1}, n : Nat, irq : BOOLEAN]]
  /\ uni.v \in Nat
  /\ \A c \in Client : cl[c].pc \in {"del", "get", "rel"} => cl[c].k \in Item

\* Each reader has taken the reference of an entry once.
RefsFit ==
  \A k \in Item : data[k].ref = Cardinality(Readers(k)) + (IF Reads(k) THEN 1 ELSE 0)

ReadInv == ValueTypes /\ RefsFit

LEMMA ReaderFacts ==
  ASSUME NEW k
  PROVE  IsFiniteSet(Readers(k)) /\ Cardinality(Readers(k)) \in Nat
  <1>1. Readers(k) \in SUBSET Client
    BY DEF Readers
  <1> QED
    BY <1>1, UniconfAssumption, FS_Subset, FS_CardinalityType

\* A write does not touch the references, and a step that does not read leaves
\* the readers.
LEMMA RefsFrame ==
  ASSUME ReadInv, data' \in [Item -> [v : Nat, ref : Nat]],
         \A k \in Item : data'[k].ref = data[k].ref,
         \A k \in Item : Readers(k)' = Readers(k),
         (uni.pc # "write" /\ uni'.pc # "write") \/ uni' = uni
  PROVE  RefsFit'
  <1>1. ASSUME NEW k \in Item PROVE Reads(k)' <=> Reads(k)
    BY DEF Reads
  <1> QED
    BY <1>1 DEF ReadInv, RefsFit

LEMMA AskMoves ==
  ASSUME Types, AskRange \/ AskDel
  PROVE  uni'.pc \in {"wait", "read"} /\ uni'.v \in {uni.v, 0}
  <1>1. CASE uni' = Waiting
    BY <1>1 DEF Waiting
  <1>2. CASE AskRange /\ ask # {}
    BY <1>2 DEF AskRange, Types
  <1>3. CASE AskDel /\ uni.np # uni.n2
    BY <1>3 DEF AskDel, Types
  <1> QED
    BY <1>1, <1>2, <1>3 DEF AskRange, AskDel

\* The types of the values that are handed on.
LEMMA ValueNext ==
  ASSUME ReadInv, NoticeInv, RequestInv, [Next]_vars
  PROVE  /\ link' \in [Links -> [up : {0, 1}, n : Nat, irq : BOOLEAN]]
         /\ uni'.v \in Nat
         /\ \A c \in Client : cl'[c].pc \in {"del", "get", "rel"} => cl'[c].k \in Item
  <1> USE DEF ReadInv, ValueTypes
  <1>0. Types /\ UniFits /\ WrFits
    BY DEF RequestInv
  <1>1. link' \in [Links -> [up : {0, 1}, n : Nat, irq : BOOLEAN]]
    <2>1. CASE LinkChange
      BY <2>1 DEF LinkChange
    <2>2. CASE NotifyLinkChange
      BY <2>2 DEF NotifyLinkChange
    <2>3. CASE ~LinkChange /\ ~NotifyLinkChange
      BY <2>3 DEF Next, vars, UniStep, SigCheck, Query, LinkPut, LinkWait, AskRange, AskRead, AskWrite, AskDel,
           Push, Scan, Post, Write, WriterStep, WriterPut, WriterWait, WriterAsk, WriterSig,
           RegStep, Register, DeregisterAll, ClientStep, ClTake, ClFind, ClDel, ClGet, ClRelease
    <2> QED
      BY <2>1, <2>2, <2>3
  <1>2. uni'.v \in Nat
    <2>1. CASE Query
      <3> DEFINE D == {l \in Links : l > uni.k /\ opersts[l] # link[l].up}
      <3>1. uni'.v = uni.v \/ (D # {} /\ uni'.v = link[MinOf(D)].up)
        BY <1>0, <2>1 DEF Query, Types
      <3>2. D # {} => MinOf(D) \in Links
        BY UniconfAssumption, MinOfFacts
      <3> QED
        BY <3>1, <3>2
    <2>2. CASE AskRead
      <3>1. uni.np[1] \in Item
        BY <1>0, <2>2 DEF AskRead, UniFits, Answers, Item
      <3> QED
        <4>1. uni'.v = data[uni.np[1]].v \/ uni'.v = uni.v
          BY <1>0, <2>2 DEF AskRead, Types
        <4> QED
          BY <3>1, <4>1
    <2>3. CASE SigCheck \/ LinkPut \/ LinkWait \/ AskWrite \/ Push \/ Scan \/ Post
      <3>1. uni'.v \in {uni.v, 0}
        BY <1>0, <2>3 DEF SigCheck, LinkPut, LinkWait, AskWrite, Push, Scan, Post, Types
      <3> QED
        BY <3>1
    <2>4. CASE AskRange \/ AskDel
      <3>1. uni'.v \in {uni.v, 0}
        BY <1>0, <2>4, AskMoves
      <3> QED
        BY <3>1
    <2>5. CASE ~UniStep
      BY <2>5 DEF Next, vars, Write, WriterStep, WriterPut, WriterWait, WriterAsk, WriterSig, LinkChange,
           NotifyLinkChange, RegStep, Register, DeregisterAll, ClientStep, ClTake, ClFind, ClDel, ClGet, ClRelease
    <2> QED
      BY <2>1, <2>2, <2>3, <2>4, <2>5 DEF UniStep
  <1>3. ASSUME NEW c \in Client, cl'[c].pc \in {"del", "get", "rel"} PROVE cl'[c].k \in Item
    <2>1. CASE cl'[c] = cl[c]
      BY <1>3, <2>1
    <2>2. ASSUME cl'[c] # cl[c]
          PROVE  ClientStep \/ RegStep
      BY <2>2 DEF Next, vars, UniStep, SigCheck, Query, LinkPut, LinkWait, AskRange, AskRead, AskWrite, AskDel,
           Push, Scan, Post, Write, WriterStep, WriterPut, WriterWait, WriterAsk, WriterSig, LinkChange, NotifyLinkChange
    <2>3. CASE ClFind
      <3>1. CASE cl'[c].pc = "del"
        <4>1. cl'[c].k \in Notices(c)'
          BY <1>3, <3>1, NoticeNext DEF NoticeInv, ClientFits
        <4> QED
          BY <4>1 DEF Notices
      <3>2. CASE cl'[c].pc # "del"
        <4>1. PICK d \in Client : \E x \in {"idle", "del"} : \E y : cl' = [cl EXCEPT ![d] = [pc |-> x, k |-> y]]
          BY <2>3 DEF ClFind
        <4> QED
          BY <1>0, <1>3, <2>1, <3>2, <4>1 DEF Types
      <3> QED
        BY <3>1, <3>2
    <2>4. CASE ClTake \/ ClDel \/ ClGet \/ ClRelease
      <3>1. PICK d \in Client :
               \/ cl' = [cl EXCEPT ![d] = [pc |-> "idle", k |-> 0]]
               \/ cl[d].pc \in {"del", "get"} /\ \E x \in {"get", "rel"} : cl' = [cl EXCEPT ![d].pc = x]
               \/ cl' = [cl EXCEPT ![d].pc = "find"]
        BY <2>4 DEF ClTake, ClDel, ClGet, ClRelease
      <3>2. cl[d] \in [pc : {"new", "idle", "find", "del", "get", "rel", "gone"}, k : Item \cup {0}]
            /\ cl \in [Client -> [pc : {"new", "idle", "find", "del", "get", "rel", "gone"}, k : Item \cup {0}]]
        BY <1>0 DEF Types
      <3>3. c # d => cl'[c] = cl[c]
        BY <3>1, <3>2
      <3>4. CASE cl' = [cl EXCEPT ![d] = [pc |-> "idle", k |-> 0]]
        BY <1>3, <2>1, <3>2, <3>3, <3>4
      <3>5. CASE cl[d].pc \in {"del", "get"} /\ \E x \in {"get", "rel"} : cl' = [cl EXCEPT ![d].pc = x]
        BY <1>3, <2>1, <3>2, <3>3, <3>5
      <3>6. CASE cl' = [cl EXCEPT ![d].pc = "find"]
        BY <1>3, <2>1, <3>2, <3>3, <3>6
      <3> QED
        BY <3>1, <3>4, <3>5, <3>6
    <2>5. CASE Register
      <3>1. cl' = cl \/ \E d \in Client : cl' = [cl EXCEPT ![d].pc = "idle"]
        BY <2>5 DEF Register
      <3> QED
        BY <1>0, <1>3, <2>1, <3>1 DEF Types
    <2>6. CASE DeregisterAll
      BY <1>0, <1>3, <2>6 DEF DeregisterAll, Types
    <2> QED
      BY <2>1, <2>2, <2>3, <2>4, <2>5, <2>6 DEF ClientStep, RegStep
  <1> QED
    BY <1>1, <1>2, <1>3

LEMMA ReadNext ==
  ASSUME ReadInv, NoticeInv, RequestInv, [Next]_vars
  PROVE  ReadInv'
  <1> DEFINE DataType == [Item -> [v : Nat, ref : Nat]]
             ClType == [pc : {"new", "idle", "find", "del", "get", "rel", "gone"}, k : Item \cup {0}]
  <1>0. Types /\ UniFits /\ WrFits /\ data \in DataType /\ cl \in [Client -> ClType]
    BY DEF RequestInv, ReadInv, ValueTypes, Types
  <1> SUFFICES data' \in DataType /\ RefsFit'
    BY ValueNext DEF ReadInv, ValueTypes
  <1>1. CASE WriterPut \/ LinkPut
    <2>1. wr.n \in Nat /\ uni.v \in Nat
      BY <1>0 DEF WrFits, ReadInv, ValueTypes
    <2>2. data' = data \/ \E k \in Item, x \in Nat : data' = [data EXCEPT ![k].v = x]
      BY <1>0, <1>1, <2>1 DEF WriterPut, LinkPut, Put, WrFits, UniFits, Item
    <2>3. data' \in DataType /\ \A k \in Item : data'[k].ref = data[k].ref
      BY <1>0, <2>2
    <2>4. cl' = cl /\ (uni' = uni \/ (uni.pc # "write" /\ uni'.pc # "write"))
      BY <1>0, <1>1 DEF WriterPut, LinkPut, Types
    <2>5. \A k \in Item : Readers(k)' = Readers(k)
      BY <2>4 DEF Readers
    <2> QED
      BY <2>3, <2>4, <2>5, RefsFrame
  <1>2. CASE AskRead
    <2>1. uni.pc = "read" /\ uni.np \in ask /\ cl' = cl
      BY <1>0, <1>2 DEF AskRead, UniFits, Answers
    <2>2. uni.np \in (Conf \X {0}) \cup (Item \X Client) /\ 0 \notin Client
      BY <1>0, <2>1, UniconfAssumption DEF UniFits
    <2>3. CASE uni.np[2] = 0
      <3> DEFINE k == uni.np[1]
      <3>1. uni.np = <<k, 0>> /\ k \in Item
        BY <2>2, <2>3 DEF Item
      <3>2. data' = [data EXCEPT ![k].ref = @ + 1] /\ uni'.pc = "write" /\ uni'.np = uni.np
        BY <1>0, <1>2, <2>3 DEF AskRead, Get, Types
      <3> HIDE DEF k
      <3>3. data' \in DataType /\ data'[k].ref = data[k].ref + 1 /\ \A i \in Item \ {k} : data'[i].ref = data[i].ref
        BY <1>0, <3>1, <3>2
      <3>4. \A i \in Item : Readers(i)' = Readers(i)
        BY <2>1 DEF Readers
      <3>5. \A i \in Item : ~Reads(i) /\ (Reads(i)' <=> i = k)
        BY <2>1, <3>1, <3>2 DEF Reads
      <3>6. RefsFit'
        BY <3>1, <3>3, <3>4, <3>5, ReaderFacts DEF ReadInv, RefsFit
      <3> QED
        BY <3>3, <3>6
    <2>4. CASE uni.np[2] # 0
      <3>1. data' = data /\ uni'.pc = "push"
        BY <1>0, <1>2, <2>4 DEF AskRead, Types
      <3>2. \A i \in Item : Readers(i)' = Readers(i)
        BY <2>1 DEF Readers
      <3> QED
        BY <1>0, <2>1, <3>1, <3>2, RefsFrame
    <2> QED
      BY <2>3, <2>4
  <1>3. CASE AskWrite
    <2> DEFINE k == uni.np[1]
    <2>1. uni.pc = "write" /\ uni.np \in ask /\ uni.np[2] = 0 /\ cl' = cl
      BY <1>0, <1>3 DEF AskWrite, UniFits, Answers
    <2>2. uni.np = <<k, 0>> /\ k \in Item
      BY <1>0, <2>1, UniconfAssumption DEF UniFits, Item
    <2>3. data' = [data EXCEPT ![k].ref = @ - 1] /\ uni'.pc = "push"
      BY <1>0, <1>3 DEF AskWrite, GetRelease, Types
    <2> HIDE DEF k
    <2>4. \A i \in Item : Readers(i)' = Readers(i)
      BY <2>1 DEF Readers
    <2>5. \A i \in Item : ~(Reads(i)') /\ (Reads(i) <=> i = k)
      BY <2>1, <2>2, <2>3 DEF Reads
    <2>6. data[k].ref = Cardinality(Readers(k)) + 1 /\ Cardinality(Readers(k)) \in Nat
      BY <2>2, <2>5, ReaderFacts DEF ReadInv, RefsFit
    <2>7. data' \in DataType /\ data'[k].ref = data[k].ref - 1 /\ \A i \in Item \ {k} : data'[i].ref = data[i].ref
      <3>1. data[k].ref - 1 \in Nat
        BY <2>6
      <3> QED
        BY <1>0, <2>2, <2>3, <3>1
    <2>8. RefsFit'
      BY <2>2, <2>4, <2>5, <2>6, <2>7, ReaderFacts DEF ReadInv, RefsFit
    <2> QED
      BY <2>7, <2>8
  <1>4. CASE ClGet
    <2>1. PICK c \in Client : /\ cl[c].pc = "get" /\ cl' = [cl EXCEPT ![c].pc = "rel"]
                             /\ data' = [data EXCEPT ![cl[c].k].ref = @ + 1]
      BY <1>4 DEF ClGet, Get
    <2>2. PICK k \in Item : k = cl[c].k
      BY <2>1 DEF ReadInv, ValueTypes
    <2>3. data' = [data EXCEPT ![k].ref = @ + 1]
      BY <2>1, <2>2
    <2>4. cl'[c].pc = "rel" /\ cl'[c].k = k /\ \A d \in Client \ {c} : cl'[d] = cl[d]
      BY <1>0, <2>1, <2>2
    <2>5. data' \in DataType /\ data'[k].ref = data[k].ref + 1 /\ \A i \in Item \ {k} : data'[i].ref = data[i].ref
      BY <1>0, <2>2, <2>3
    <2>6. Readers(k)' = Readers(k) \cup {c} /\ c \notin Readers(k) /\ \A i \in Item \ {k} : Readers(i)' = Readers(i)
      BY <2>1, <2>4 DEF Readers
    <2>7. Cardinality(Readers(k)') = Cardinality(Readers(k)) + 1
      <3>1. Cardinality(Readers(k) \cup {c}) = Cardinality(Readers(k)) + 1
        BY <2>6, ReaderFacts, FS_AddElement
      <3> QED
        BY <2>6, <3>1
    <2>8. \A i \in Item : Reads(i)' <=> Reads(i)
      BY <1>4 DEF ClGet, Reads
    <2>9. RefsFit'
      <3>1. ASSUME NEW i \in Item
            PROVE  data'[i].ref = Cardinality(Readers(i)') + (IF Reads(i)' THEN 1 ELSE 0)
        <4>1. data[i].ref = Cardinality(Readers(i)) + (IF Reads(i) THEN 1 ELSE 0) /\ Cardinality(Readers(i)) \in Nat
          BY ReaderFacts DEF ReadInv, RefsFit
        <4>2. CASE i = k
          BY <2>2, <2>5, <2>6, <2>7, <2>8, <4>1, <4>2, SMTT(30)
        <4>3. CASE i # k
          BY <2>2, <2>5, <2>6, <2>7, <2>8, <4>1, <4>3
        <4> QED
          BY <4>2, <4>3
      <3> QED
        BY <3>1 DEF RefsFit
    <2> QED
      BY <2>5, <2>9
  <1>5. CASE ClRelease
    <2>1. PICK c \in Client : /\ cl[c].pc = "rel" /\ cl' = [cl EXCEPT ![c] = [pc |-> "idle", k |-> 0]]
                             /\ data' = [data EXCEPT ![cl[c].k].ref = @ - 1]
      BY <1>5 DEF ClRelease, GetRelease
    <2>2. PICK k \in Item : k = cl[c].k
      BY <2>1 DEF ReadInv, ValueTypes
    <2>3. data' = [data EXCEPT ![k].ref = @ - 1] /\ cl[c].k = k
      BY <2>1, <2>2
    <2>4. cl'[c].pc = "idle" /\ \A d \in Client \ {c} : cl'[d] = cl[d]
      BY <1>0, <2>1, <2>2
    <2>5. Readers(k)' = Readers(k) \ {c} /\ c \in Readers(k) /\ \A i \in Item \ {k} : Readers(i)' = Readers(i)
      BY <2>1, <2>3, <2>4 DEF Readers
    <2>6. Cardinality(Readers(k)') = Cardinality(Readers(k)) - 1
      <3>1. Cardinality(Readers(k) \ {c}) = Cardinality(Readers(k)) - 1
        BY <2>5, ReaderFacts, FS_RemoveElement
      <3> QED
        BY <2>5, <3>1
    <2>7. \A i \in Item : Reads(i)' <=> Reads(i)
      BY <1>5 DEF ClRelease, Reads
    <2>8. data[k].ref - 1 \in Nat
      <3>1. Cardinality(Readers(k)) # 0 /\ Cardinality(Readers(k)) \in Nat
        BY <2>5, ReaderFacts, FS_EmptySet
      <3>2. data[k].ref = Cardinality(Readers(k)) + (IF Reads(k) THEN 1 ELSE 0)
        BY <2>2 DEF ReadInv, RefsFit
      <3> QED
        BY <3>1, <3>2
    <2>9. data' \in DataType /\ data'[k].ref = data[k].ref - 1 /\ \A i \in Item \ {k} : data'[i].ref = data[i].ref
      BY <1>0, <2>2, <2>3, <2>8
    <2>10. RefsFit'
      <3>1. ASSUME NEW i \in Item
            PROVE  data'[i].ref = Cardinality(Readers(i)') + (IF Reads(i)' THEN 1 ELSE 0)
        <4>1. data[i].ref = Cardinality(Readers(i)) + (IF Reads(i) THEN 1 ELSE 0) /\ Cardinality(Readers(i)) \in Nat
          BY ReaderFacts DEF ReadInv, RefsFit
        <4>2. CASE i = k
          BY <2>2, <2>6, <2>7, <2>9, <4>1, <4>2
        <4>3. CASE i # k
          BY <2>2, <2>5, <2>6, <2>7, <2>9, <4>1, <4>3
        <4> QED
          BY <4>2, <4>3
      <3> QED
        BY <3>1 DEF RefsFit
    <2> QED
      BY <2>9, <2>10
  <1>6. CASE ClTake \/ ClFind \/ ClDel \/ RegStep
    <2>1. UNCHANGED <<uni, data>>
      BY <1>6 DEF ClTake, ClFind, ClDel, RegStep, Register, DeregisterAll
    <2>2. ASSUME NEW d \in Client PROVE cl'[d] = cl[d] \/ (cl[d].pc # "rel" /\ cl'[d].pc # "rel")
      <3>1. CASE ClFind
        <4>1. PICK c \in Client : cl[c].pc = "find" /\ \E x \in {"idle", "del"} : \E y : cl' = [cl EXCEPT ![c] = [pc |-> x, k |-> y]]
          BY <3>1 DEF ClFind
        <4> QED
          BY <1>0, <4>1
      <3>2. CASE ClTake \/ ClDel \/ DeregisterAll
        BY <1>0, <3>2 DEF ClTake, ClDel, DeregisterAll
      <3>3. CASE Register
        <4>1. PICK c \in Client : cl[c].pc = "new" /\ (cl' = cl \/ cl' = [cl EXCEPT ![c].pc = "idle"])
          BY <3>3 DEF Register
        <4> QED
          BY <1>0, <4>1
      <3> QED
        BY <1>6, <3>1, <3>2, <3>3 DEF RegStep
    <2>3. \A k \in Item : Readers(k)' = Readers(k)
      BY <2>2 DEF Readers
    <2> QED
      BY <1>0, <2>1, <2>3, RefsFrame
  <1>7. CASE \/ SigCheck \/ Query \/ LinkWait \/ AskRange \/ AskDel \/ Push \/ Scan \/ Post
    <2>1. UNCHANGED <<cl, data>> /\ uni.pc # "write" /\ uni'.pc # "write"
      <3>1. UNCHANGED <<cl, data>> /\ uni.pc # "write"
        BY <1>7 DEF SigCheck, Query, LinkWait, AskRange, AskDel, Push, Scan, Post
      <3>2. CASE Query \/ SigCheck \/ LinkWait
        <4>1. uni'.pc \in {"query", "range", "lput", "lagain"}
          BY <1>0, <3>2 DEF Query, SigCheck, LinkWait, Types
        <4> QED
          BY <3>1, <4>1
      <3>3. CASE AskRange \/ AskDel
        <4>1. uni'.pc \in {"wait", "read"}
          BY <1>0, <3>3, AskMoves
        <4> QED
          BY <3>1, <4>1
      <3>4. CASE Push \/ Scan \/ Post
        <4>1. uni'.pc \in {"scan", "post", uni.ret} /\ uni.pc \in {"push", "scan", "post"}
          BY <1>0, <3>4 DEF Push, Scan, Post, Types
        <4>2. uni.ret \in {"query", "del"}
          BY <1>0, <4>1 DEF UniFits, Looking, Answers
        <4> QED
          BY <3>1, <4>1, <4>2
      <3> QED
        BY <1>7, <3>2, <3>3, <3>4
    <2>2. \A k \in Item : Readers(k)' = Readers(k)
      BY <2>1 DEF Readers
    <2> QED
      BY <1>0, <2>1, <2>2, RefsFrame
  <1>8. CASE Write \/ WriterWait \/ WriterAsk \/ WriterSig \/ LinkChange \/ NotifyLinkChange \/ UNCHANGED vars
    <2>1. UNCHANGED <<uni, cl, data>>
      BY <1>8 DEF Write, WriterWait, WriterAsk, WriterSig, LinkChange, NotifyLinkChange, vars
    <2>2. \A k \in Item : Readers(k)' = Readers(k)
      BY <2>1 DEF Readers
    <2> QED
      BY <1>0, <2>1, <2>2, RefsFrame
  <1> QED
    BY <1>1, <1>2, <1>3, <1>4, <1>5, <1>6, <1>7, <1>8 DEF Next, WriterStep, UniStep, ClientStep

LEMMA ReadInit ==
  ASSUME Init
  PROVE  ReadInv
  <1>1. data \in [Item -> [v : Nat, ref : Nat]] /\ \A k \in Item : data[k].ref = 0
    BY DEF Init
  <1>2. link \in [Links -> [up : {0, 1}, n : Nat, irq : BOOLEAN]] /\ uni.v \in Nat /\ uni.pc = "wait"
    BY DEF Init, Waiting
  <1>3. \A c \in Client : cl[c].pc \in {"new", "idle"}
    BY DEF Init
  <1>4. ASSUME NEW k \in Item PROVE Cardinality(Readers(k)) = 0
    <2>1. Readers(k) = {}
      BY <1>3 DEF Readers
    <2> QED
      BY <2>1, FS_EmptySet
  <1> QED
    BY <1>1, <1>2, <1>3, <1>4 DEF ReadInv, ValueTypes, RefsFit, Reads
-----------------------------------------------------------------------------
(* Clients that are registered from the start                              *)

\* The range that Push finds covers their registrations and Post keeps their
\* semaphores.
Stays(c) ==
  cl[c].pc # "gone" =>
     /\ \A k \in Item : reg[<<k, c>>] = "add"
     /\ cl[c].pc # "new" /\ c \notin orphans
     /\ uni.pc = "scan" => \A k \in Item : NotAfter(uni.first, <<k, c>>) /\ NotAfter(<<k, c>>, uni.last)
     /\ uni.pc = "post" => list[c].ref > 0

PresentInv == \A c \in Client \ Late : Stays(c)

LEMMA PresentNext ==
  ASSUME PresentInv, NoticeInv, RequestInv, [Next]_vars
  PROVE  PresentInv'
  <1>0. Types /\ UniFits /\ cl \in [Client -> [pc : {"new", "idle", "find", "del", "get", "rel", "gone"}, k : Item \cup {0}]]
    BY DEF RequestInv, Types
  <1>1. CASE Register
    <2>1. PICK d \in Client, j \in Item :
             /\ cl[d].pc = "new"
             /\ reg' = [reg EXCEPT ![<<j, d>>] = "add"]
             /\ cl' = cl \/ cl' = [cl EXCEPT ![d].pc = "idle"]
      BY <1>1 DEF Register
    <2>2. uni' = uni /\ uni.pc # "post" /\ orphans' = orphans
      BY <1>1 DEF Register, NtFree
    <2>3. ASSUME NEW c \in Client \ Late PROVE Stays(c)'
      <3>1. Stays(c) /\ c # d
        BY <2>1, <2>3 DEF PresentInv, Stays
      <3>2. cl'[c] = cl[c] /\ \A k \in Item : reg'[<<k, c>>] = reg[<<k, c>>]
        <4>1. cl'[c] = cl[c]
          BY <1>0, <2>1, <3>1
        <4>2. reg' = [reg EXCEPT ![<<j, d>>] = "add"]
          BY <2>1
        <4>3. ASSUME NEW k \in Item PROVE reg'[<<k, c>>] = reg[<<k, c>>]
          <5>1. <<k, c>> # <<j, d>> /\ <<k, c>> \in Item \X Client
            BY <3>1
          <5> QED
            BY <1>0, <4>2, <5>1 DEF Types
        <4> QED
          BY <4>1, <4>3
      <3> QED
        BY <2>2, <3>1, <3>2 DEF Stays
    <2> QED
      BY <2>3 DEF PresentInv
  <1>2. CASE DeregisterAll
    <2>1. PICK d \in Leaves :
             /\ cl' = [cl EXCEPT ![d].pc = "gone"]
             /\ reg' = [p \in Item \X Client |-> IF p[2] = d /\ reg[p] = "add" THEN "del" ELSE reg[p]]
      BY <1>2 DEF DeregisterAll
    <2>2. uni' = uni /\ uni.pc # "post" /\ orphans' = orphans
      BY <1>2 DEF DeregisterAll, NtFree
    <2>3. ASSUME NEW c \in Client \ Late PROVE Stays(c)'
      <3>1. Stays(c)
        BY <2>3 DEF PresentInv
      <3>2. CASE c = d
        BY <1>0, <2>1, <3>2 DEF Stays
      <3>3. CASE c # d
        <4>1. cl'[c] = cl[c] /\ \A k \in Item : reg'[<<k, c>>] = reg[<<k, c>>]
          BY <1>0, <2>1, <3>3 DEF Types
        <4> QED
          BY <2>2, <3>1, <4>1 DEF Stays
      <3> QED
        BY <3>2, <3>3
    <2> QED
      BY <2>3 DEF PresentInv
  <1>3. CASE ClientStep
    <2>1. UNCHANGED <<uni, reg, orphans, list>>
      BY <1>3 DEF ClientStep, ClTake, ClFind, ClDel, ClGet, ClRelease
    <2>2. PICK d \in Client : /\ cl[d].pc \notin {"new", "gone"}
                             /\ \/ \E x \in {"find", "get", "rel"} : cl' = [cl EXCEPT ![d].pc = x]
                                \/ \E x \in {"idle", "del"} : \E y : cl' = [cl EXCEPT ![d] = [pc |-> x, k |-> y]]
      <3>1. CASE ClFind
        BY <3>1 DEF ClFind
      <3>2. CASE ~ClFind
        BY <1>3, <3>2 DEF ClientStep, ClTake, ClDel, ClGet, ClRelease
      <3> QED
        BY <3>1, <3>2
    <2>3. ASSUME NEW c \in Client
          PROVE  (cl'[c].pc = "gone" <=> cl[c].pc = "gone") /\ (cl'[c].pc = "new" <=> cl[c].pc = "new")
      <3>1. CASE c = d
        BY <1>0, <2>2, <3>1
      <3>2. CASE c # d
        BY <1>0, <2>2, <3>2
      <3> QED
        BY <3>1, <3>2
    <2> QED
      BY <2>1, <2>3 DEF PresentInv, Stays
  <1>4. CASE Push
    <2>1. UNCHANGED <<cl, reg, orphans, list>>
      BY <1>4 DEF Push
    <2>2. \/ uni'.pc = uni.ret /\ uni.ret \notin {"scan", "post"}
          \/ uni'.pc = "scan" /\ uni'.first = First(Registered) /\ uni'.last = Last(Registered)
      BY <1>0, <1>4 DEF Push, Types, UniFits, Looking, Answers
    <2>3. IsFiniteSet(Registered) /\ Registered \subseteq Nat \X Nat
      <3>1. Registered \subseteq Item \X Client
        BY DEF Registered
      <3>2. Item \X Client \subseteq Nat \X Nat
        BY ItemFacts, UniconfAssumption
      <3> QED
        BY <3>1, <3>2, PairsFinite
    <2>4. ASSUME NEW c \in Client \ Late, cl[c].pc # "gone", NEW k \in Item, uni'.pc = "scan"
          PROVE  NotAfter(First(Registered), <<k, c>>) /\ NotAfter(<<k, c>>, Last(Registered))
      <3>1. <<k, c>> \in Registered
        BY <2>4 DEF PresentInv, Stays, Registered
      <3> QED
        BY <2>3, <3>1, FirstFacts, LastFacts
    <2>5. ASSUME NEW c \in Client \ Late, cl'[c].pc # "gone", NEW k \in Item, uni'.pc = "scan"
          PROVE  NotAfter(uni'.first, <<k, c>>) /\ NotAfter(<<k, c>>, uni'.last)
      BY <2>1, <2>2, <2>4, <2>5
    <2>6. uni'.pc # "post"
      BY <2>2
    <2> QED
      BY <2>1, <2>5, <2>6 DEF PresentInv, Stays
  <1>5. CASE Scan
    <2>1. UNCHANGED <<cl, orphans>> /\ uni.pc = "scan" /\ uni'.pc = "post"
      BY <1>0, <1>5, ScanFacts DEF Scan
    <2>2. ASSUME NEW c \in Client \ Late, cl[c].pc # "gone" PROVE list'[c].ref > 0
      <3>1. PICK k \in Item : TRUE
        BY ItemFacts
      <3>2. Stays(c) /\ ClientFits(c)
        BY <2>2 DEF PresentInv, NoticeInv
      <3>3. reg[<<k, c>>] = "add" /\ NotAfter(uni.first, <<k, c>>) /\ NotAfter(<<k, c>>, uni.last) /\ list[c].on
        BY <2>1, <2>2, <3>2 DEF Stays, ClientFits
      <3>4. <<k, c>> \in Adds
        BY <3>3 DEF Adds, Registered
      <3> QED
        BY <1>0, <1>5, <3>3, <3>4, ScanFacts
    <2>3. \A c \in Client, k \in Item : reg[<<k, c>>] = "add" => reg'[<<k, c>>] = "add"
      BY <1>0, <1>5, ScanFacts
    <2> QED
      BY <2>1, <2>2, <2>3 DEF PresentInv, Stays
  <1>6. CASE Post
    <2>1. UNCHANGED <<cl, reg>> /\ uni.pc = "post" /\ uni'.pc = uni.ret
      BY <1>0, <1>6, PostFacts DEF Post
    <2>2. uni.ret \in {"query", "del"}
      BY <1>0, <2>1 DEF UniFits, Looking, Answers
    <2>3. ASSUME NEW c \in Client \ Late, cl[c].pc # "gone" PROVE c \notin orphans'
      <3>1. Stays(c) /\ list[c].ref > 0 /\ list[c].ref \in Nat
        BY <1>0, <2>1, <2>3 DEF PresentInv, Stays, Types
      <3>2. c \in orphans' <=> c \in orphans \/ (list[c].on /\ list[c].ref = 0 /\ \E k \in Item : reg[<<k, c>>] = "add")
        BY <1>0, <1>6, PostFacts
      <3> QED
        BY <2>3, <3>1, <3>2 DEF Stays
    <2> QED
      BY <2>1, <2>2, <2>3 DEF PresentInv, Stays
  <1>7. CASE SigCheck \/ Query \/ LinkPut \/ LinkWait \/ AskRange \/ AskRead \/ AskWrite \/ AskDel
    <2>1. UNCHANGED <<cl, reg, orphans>>
      BY <1>7 DEF SigCheck, Query, LinkPut, LinkWait, AskRange, AskRead, AskWrite, AskDel
    <2>2. uni'.pc \notin {"scan", "post"}
      <3>1. CASE SigCheck \/ Query \/ LinkWait \/ AskWrite
        BY <1>0, <3>1 DEF SigCheck, Query, LinkWait, AskWrite, Types
      <3>2. CASE LinkPut \/ AskRead
        BY <1>0, <3>2 DEF LinkPut, AskRead, Types
      <3>3. CASE AskRange \/ AskDel
        BY <1>0, <3>3, AskMoves
      <3> QED
        BY <1>7, <3>1, <3>2, <3>3
    <2> QED
      BY <2>1, <2>2 DEF PresentInv, Stays
  <1>8. CASE Write \/ WriterStep \/ LinkChange \/ NotifyLinkChange \/ UNCHANGED vars
    <2>1. UNCHANGED <<cl, reg, orphans, uni, list>>
      BY <1>8 DEF Write, WriterStep, WriterPut, WriterWait, WriterAsk, WriterSig, LinkChange, NotifyLinkChange, vars
    <2> QED
      BY <2>1 DEF PresentInv, Stays
  <1> QED
    BY <1>1, <1>2, <1>3, <1>4, <1>5, <1>6, <1>7, <1>8 DEF Next, UniStep, RegStep

LEMMA PresentInit ==
  ASSUME Init
  PROVE  PresentInv
  <1>1. ASSUME NEW c \in Client \ Late PROVE Stays(c)
    <2>1. uni.pc = "wait" /\ orphans = {} /\ cl[c].pc = "idle"
      BY <1>1 DEF Init, Waiting
    <2>2. \A k \in Item : reg[<<k, c>>] = "add"
      BY <1>1 DEF Init
    <2> QED
      BY <2>1, <2>2 DEF Stays
  <1> QED
    BY <1>1 DEF PresentInv
-----------------------------------------------------------------------------
(* Values on their way                                                     *)

\* uniconf has still to answer for what the database has of k.
Pending(k) ==
  \/ wr.pc = "ask" /\ wr.k = k
  \/ <<k, 0>> \in ask /\ ~Answering(k)
  \/ Reads(k)

Behind(k) == k \in Conf /\ (k \in overtaken \/ Pending(k))

\* What uniconf read cannot change before it is written to the hardware, since
\* uniconf holds the entry.
ReadsFresh == \A k \in Conf : Reads(k) => uni.v = data[k].v

BaseInv == NoticeInv /\ RequestInv /\ ReadInv /\ PresentInv

\* Only a put changes a value, and never of an entry that is read.
LEMMA ValueChange ==
  ASSUME BaseInv, [Next]_vars, NEW k \in Item
  PROVE  \/ data'[k].v = data[k].v
         \/ WriterPut /\ k = wr.k /\ data[k].ref = 0 /\ wr'.pc = "ask" /\ wr'.k = k
         \/ LinkPut /\ k = uni.k /\ k \in Links /\ data[k].ref = 0 /\ uni'.pc = "push" /\ uni'.k = k /\ data'[k].v = uni.v
  <1>0. /\ Types /\ UniFits /\ WrFits
        /\ data \in [Item -> [v : Nat, ref : Nat]]
    BY DEF BaseInv, RequestInv, ReadInv, ValueTypes
  <1>1. CASE WriterPut
    <2>1. wr.k \in Item
      BY <1>0, <1>1 DEF WriterPut, WrFits, Item
    <2>2. CASE Free(wr.k)
      <3>1. data' = [data EXCEPT ![wr.k].v = wr.n] /\ wr' = [wr EXCEPT !.pc = "ask"]
        BY <1>1, <2>2 DEF WriterPut, Put
      <3> QED
        BY <1>0, <1>1, <2>1, <2>2, <3>1 DEF Free, WrFits
    <2>3. CASE ~Free(wr.k)
      BY <1>1, <2>3 DEF WriterPut
    <2> QED
      BY <2>2, <2>3
  <1>2. CASE LinkPut
    <2>1. uni.k \in Links /\ uni.k \in Item
      BY <1>0, <1>2 DEF LinkPut, UniFits, Item
    <2>2. CASE Free(uni.k)
      <3>1. data' = [data EXCEPT ![uni.k].v = uni.v] /\ uni'.pc = "push" /\ uni'.k = uni.k
        BY <1>0, <1>2, <2>2 DEF LinkPut, Put, Types
      <3> QED
        BY <1>0, <1>2, <2>1, <2>2, <3>1 DEF Free
    <2>3. CASE ~Free(uni.k)
      BY <1>2, <2>3 DEF LinkPut
    <2> QED
      BY <2>2, <2>3
  <1>3. CASE AskRead \/ AskWrite \/ ClGet \/ ClRelease
    <2>1. data' = data \/ \E j, x : data' = [data EXCEPT ![j].ref = x]
      BY <1>3 DEF AskRead, AskWrite, ClGet, ClRelease, Get, GetRelease
    <2> QED
      BY <1>0, <2>1
  <1>4. CASE ~WriterPut /\ ~LinkPut /\ ~AskRead /\ ~AskWrite /\ ~ClGet /\ ~ClRelease
    <2>1. data' = data
      BY <1>4 DEF Next, vars, UniStep, SigCheck, Query, LinkWait, AskRange, AskDel,
           Push, Scan, Post, Write, WriterStep, WriterWait, WriterAsk, WriterSig, LinkChange, NotifyLinkChange,
           RegStep, Register, DeregisterAll, ClientStep, ClTake, ClFind, ClDel
    <2> QED
      BY <2>1
  <1> QED
    BY <1>1, <1>2, <1>3, <1>4

\* A reader holds the entry.
LEMMA ReadsHolds ==
  ASSUME BaseInv, NEW k \in Item, Reads(k)
  PROVE  data[k].ref # 0
  <1>1. data[k].ref = Cardinality(Readers(k)) + 1
    BY DEF BaseInv, ReadInv, RefsFit
  <1> QED
    BY <1>1, ReaderFacts

\* The answer to a request begins with the read of the entry.
LEMMA ReadsStep ==
  ASSUME BaseInv, [Next]_vars, NEW k
  PROVE  /\ Reads(k)' => \/ Reads(k) /\ uni' = uni
                         \/ AskRead /\ uni.np = <<k, 0>> /\ uni'.v = data[k].v
         /\ Reads(k) => Reads(k)' \/ AskWrite
  <1>0. Types /\ UniFits
    BY DEF BaseInv, RequestInv
  <1>1. CASE uni' = uni
    BY <1>1 DEF Reads
  <1>2. uni' = uni \/ UniStep
    BY DEF Next, vars, Write, WriterStep, WriterPut, WriterWait, WriterAsk, WriterSig, LinkChange, NotifyLinkChange,
           RegStep, Register, DeregisterAll, ClientStep, ClTake, ClFind, ClDel, ClGet, ClRelease
  <1>3. CASE AskRead
    <2>1. uni.pc = "read"
      BY <1>3 DEF AskRead
    <2>2. CASE uni.np[2] = 0
      <3>1. uni' = [uni EXCEPT !.pc = "write", !.v = data[uni.np[1]].v]
        BY <1>3, <2>2 DEF AskRead
      <3> QED
        BY <1>0, <1>3, <2>1, <3>1 DEF Reads, Types
    <2>3. CASE uni.np[2] # 0
      <3>1. uni'.pc = "push"
        BY <1>0, <1>3, <2>3 DEF AskRead, Types
      <3> QED
        BY <2>1, <3>1 DEF Reads
    <2> QED
      BY <2>2, <2>3
  <1>4. CASE AskWrite
    <2>1. uni'.pc = "push"
      BY <1>0, <1>4 DEF AskWrite, Types
    <2> QED
      BY <1>4, <2>1 DEF Reads
  <1>5. CASE UniStep /\ ~AskRead /\ ~AskWrite
    <2>1. uni.pc # "write"
      BY <1>5 DEF UniStep, SigCheck, Query, LinkPut, LinkWait, AskRange, AskDel, Push, Scan, Post
    <2>2. uni'.pc # "write"
      <3>1. CASE Query \/ SigCheck \/ LinkWait
        BY <1>0, <3>1 DEF Query, SigCheck, LinkWait, Types
      <3>2. CASE LinkPut
        BY <1>0, <3>2 DEF LinkPut, Types
      <3>3. CASE AskRange \/ AskDel
        BY <1>0, <3>3, AskMoves
      <3>4. CASE Push \/ Scan \/ Post
        <4>1. uni'.pc \in {"scan", "post", uni.ret} /\ uni.pc \in {"push", "scan", "post"}
          BY <1>0, <3>4 DEF Push, Scan, Post, Types
        <4>2. uni.ret \in {"query", "del"}
          BY <1>0, <4>1 DEF UniFits, Looking, Answers
        <4> QED
          BY <4>1, <4>2
      <3> QED
        BY <1>5, <3>1, <3>2, <3>3, <3>4 DEF UniStep
    <2> QED
      BY <2>1, <2>2 DEF Reads
  <1> QED
    BY <1>1, <1>2, <1>3, <1>4, <1>5

LEMMA FreshNext ==
  ASSUME BaseInv, ReadsFresh, [Next]_vars
  PROVE  ReadsFresh'
  <1>1. ASSUME NEW k \in Conf, Reads(k)' PROVE uni'.v = data'[k].v
    <2>0. k \in Item /\ k \notin Links
      BY UniconfAssumption DEF Item
    <2>1. CASE Reads(k) /\ uni' = uni
      <3>1. data'[k].v = data[k].v
        BY <2>0, <2>1, ValueChange, ReadsHolds
      <3> QED
        BY <2>1, <3>1 DEF ReadsFresh
    <2>2. CASE AskRead /\ uni'.v = data[k].v
      <3>1. ~WriterPut /\ ~LinkPut
        <4>1. wr' = wr /\ uni.pc = "read"
          BY <2>2 DEF AskRead
        <4>2. WrFits
          BY DEF BaseInv, RequestInv
        <4> QED
          BY <4>1, <4>2 DEF WriterPut, LinkPut, WrFits
      <3> QED
        BY <2>0, <2>2, <3>1, ValueChange
    <2> QED
      BY <1>1, <2>1, <2>2, ReadsStep
  <1> QED
    BY <1>1 DEF ReadsFresh

LEMMA AnsweringStep ==
  ASSUME BaseInv, [Next]_vars, NEW k, Answering(k)'
  PROVE  Answering(k) \/ Reads(k)'
  <1>0. Types /\ UniFits
    BY DEF BaseInv, RequestInv
  <1>1. CASE uni' = uni
    BY <1>1 DEF Answering
  <1>2. uni' = uni \/ UniStep
    BY DEF Next, vars, Write, WriterStep, WriterPut, WriterWait, WriterAsk, WriterSig, LinkChange, NotifyLinkChange,
           RegStep, Register, DeregisterAll, ClientStep, ClTake, ClFind, ClDel, ClGet, ClRelease
  <1>3. CASE AskRead
    <2>1. CASE uni.np[2] = 0
      <3>1. uni'.pc = "write"
        BY <1>0, <1>3, <2>1 DEF AskRead, Types
      <3> QED
        BY <3>1 DEF Answering, Reads
    <2>2. CASE uni.np[2] # 0
      <3>1. uni'.np = uni.np
        BY <1>0, <1>3, <2>2 DEF AskRead, Types
      <3> QED
        BY <2>2, <3>1 DEF Answering
    <2> QED
      BY <2>1, <2>2
  <1>4. CASE AskWrite
    BY <1>0, <1>4 DEF AskWrite, Types, Answering
  <1>5. CASE Query \/ SigCheck \/ LinkWait
    BY <1>0, <1>5 DEF Query, SigCheck, LinkWait, Types, Answering
  <1>6. CASE LinkPut
    <2>1. uni'.pc \in {"query", "lwait"} \/ (uni'.pc = "push" /\ uni'.ret = "query")
      BY <1>0, <1>6 DEF LinkPut, Types
    <2> QED
      BY <2>1 DEF Answering
  <1>7. CASE AskRange \/ AskDel
    BY <1>0, <1>7, AskMoves DEF Answering
  <1>8. CASE Push \/ Scan \/ Post
    <2>1. /\ uni.pc \in {"push", "scan", "post"} /\ uni'.np = uni.np
          /\ \/ uni'.pc \in {"scan", "post"} /\ uni'.ret = uni.ret
             \/ uni'.pc = uni.ret
      BY <1>0, <1>8 DEF Push, Scan, Post, Types
    <2>2. uni.ret \in {"query", "del"}
      BY <1>0, <2>1 DEF UniFits, Looking, Answers
    <2> QED
      BY <2>1, <2>2 DEF Answering
  <1> QED
    BY <1>1, <1>2, <1>3, <1>4, <1>5, <1>6, <1>7, <1>8 DEF UniStep

\* Only the write to the hardware ends what is to be answered.
LEMMA BehindStep ==
  ASSUME BaseInv, [Next]_vars, NEW k \in Conf, Behind(k)
  PROVE  Behind(k)' \/ (AskWrite /\ Reads(k))
  <1>0. Types /\ UniFits /\ WrFits
    BY DEF BaseInv, RequestInv
  <1>1. CASE wr.pc = "ask" /\ wr.k = k
    <2>1. wr' = wr \/ WriterAsk
      BY <1>1 DEF Next, vars, UniStep, SigCheck, Query, LinkPut, LinkWait, AskRange, AskRead, AskWrite, AskDel,
           Push, Scan, Post, Write, WriterStep, WriterPut, WriterWait, WriterSig, LinkChange, NotifyLinkChange,
           RegStep, Register, DeregisterAll, ClientStep, ClTake, ClFind, ClDel, ClGet, ClRelease
    <2>2. CASE wr' = wr
      BY <1>1, <2>2 DEF Behind, Pending
    <2>3. CASE WriterAsk
      <3>1. uni' = uni /\ (Answering(k)' <=> Answering(k)) /\ <<k, 0>> \in ask'
        BY <1>1, <2>3 DEF WriterAsk, Answering
      <3>2. Answering(k) => k \in overtaken'
        BY <1>1, <2>3 DEF WriterAsk
      <3> QED
        BY <3>1, <3>2 DEF Behind, Pending
    <2> QED
      BY <2>1, <2>2, <2>3
  <1>2. CASE <<k, 0>> \in ask /\ ~Answering(k)
    <2>1. <<k, 0>> \in ask'
      <3>1. CASE AskDel
        BY <1>2, <3>1 DEF AskDel, Answering
      <3>2. CASE ~AskDel
        <4>1. ask \subseteq ask'
          BY <3>2 DEF Next, vars, UniStep, SigCheck, Query, LinkPut, LinkWait, AskRange, AskRead, AskWrite,
           Push, Scan, Post, Write, WriterStep, WriterPut, WriterWait, WriterAsk, WriterSig, LinkChange, NotifyLinkChange,
           RegStep, Register, DeregisterAll, ClientStep, ClTake, ClFind, ClDel, ClGet, ClRelease
        <4> QED
          BY <1>2, <4>1
      <3> QED
        BY <3>1, <3>2
    <2> QED
      BY <1>2, <2>1, AnsweringStep DEF Behind, Pending
  <1>3. CASE Reads(k)
    BY <1>3, ReadsStep DEF Behind, Pending
  <1>4. CASE k \in overtaken
    <2>1. CASE AskRead
      <3>1. CASE uni.np = <<k, 0>>
        <4>1. uni'.pc = "write" /\ uni'.np = uni.np
          <5>1. uni.np[2] = 0
            BY <3>1
          <5> QED
            BY <1>0, <2>1, <5>1 DEF AskRead, Types
        <4> QED
          BY <3>1, <4>1 DEF Reads, Behind, Pending
      <3>2. CASE uni.np # <<k, 0>>
        <4>1. uni.np \in (Conf \X {0}) \cup (Item \X Client)
          BY <1>0, <2>1 DEF AskRead, UniFits, Answers
        <4>2. uni.np[2] # 0 \/ uni.np[1] # k
          BY <3>2, <4>1
        <4>3. k \in overtaken'
          BY <1>4, <2>1, <4>2 DEF AskRead
        <4> QED
          BY <4>3 DEF Behind
      <3> QED
        BY <3>1, <3>2
    <2>2. CASE ~AskRead
      <3>1. overtaken \subseteq overtaken'
        BY <2>2 DEF Next, vars, UniStep, SigCheck, Query, LinkPut, LinkWait, AskRange, AskWrite, AskDel,
           Push, Scan, Post, Write, WriterStep, WriterPut, WriterWait, WriterAsk, WriterSig, LinkChange, NotifyLinkChange,
           RegStep, Register, DeregisterAll, ClientStep, ClTake, ClFind, ClDel, ClGet, ClRelease
      <3> QED
        BY <1>4, <3>1 DEF Behind
    <2> QED
      BY <2>1, <2>2
  <1> QED
    BY <1>1, <1>2, <1>3, <1>4 DEF Behind, Pending

\* The hardware has what the database has, or uniconf is behind.
HwFits ==
  /\ hw \in [Conf -> Nat]
  /\ \A k \in Conf : hw[k] = data[k].v \/ Behind(k)

LEMMA HwNext ==
  ASSUME BaseInv, ReadsFresh, HwFits, [Next]_vars
  PROVE  HwFits'
  <1>0. Types /\ UniFits /\ uni.v \in Nat /\ Conf \subseteq Item /\ Conf \cap Links = {}
    BY UniconfAssumption DEF BaseInv, RequestInv, ReadInv, ValueTypes, Item
  <1>1. CASE AskWrite
    <2>1. uni.pc = "write" /\ uni.np \in ask /\ uni.np[2] = 0
      BY <1>0, <1>1 DEF AskWrite, UniFits, Answers
    <2>2. PICK k \in Conf : uni.np = <<k, 0>>
      BY <1>0, <2>1, UniconfAssumption DEF UniFits
    <2>3. Reads(k) /\ uni.v = data[k].v
      BY <2>1, <2>2 DEF Reads, ReadsFresh
    <2>4. hw' = [hw EXCEPT ![k] = uni.v] /\ wr' = wr
      BY <1>1, <2>2 DEF AskWrite
    <2>5. ~WriterPut /\ ~LinkPut
      BY <1>1, <2>1, <2>4 DEF WriterPut, LinkPut, BaseInv, RequestInv, WrFits
    <2>6. \A j \in Conf : data'[j].v = data[j].v
      BY <1>0, <2>5, ValueChange
    <2>7. ASSUME NEW j \in Conf, j # k PROVE hw'[j] = data'[j].v \/ Behind(j)'
      <3>1. ~Reads(j)
        BY <2>2, <2>7 DEF Reads
      <3> QED
        BY <2>4, <2>6, <2>7, <3>1, BehindStep DEF HwFits
    <2> QED
      BY <1>0, <2>3, <2>4, <2>6, <2>7 DEF HwFits
  <1>2. CASE ~AskWrite
    <2>1. hw' = hw
      BY <1>2 DEF Next, vars, UniStep, SigCheck, Query, LinkPut, LinkWait, AskRange, AskRead, AskDel,
           Push, Scan, Post, Write, WriterStep, WriterPut, WriterWait, WriterAsk, WriterSig, LinkChange, NotifyLinkChange,
           RegStep, Register, DeregisterAll, ClientStep, ClTake, ClFind, ClDel, ClGet, ClRelease
    <2>2. ASSUME NEW k \in Conf PROVE hw'[k] = data'[k].v \/ Behind(k)'
      <3>1. data'[k].v = data[k].v \/ (wr'.pc = "ask" /\ wr'.k = k)
        BY <1>0, ValueChange
      <3> QED
        BY <1>2, <2>1, <3>1, BehindStep DEF HwFits, Behind, Pending
    <2> QED
      BY <2>1, <2>2 DEF HwFits
  <1> QED
    BY <1>1, <1>2

\* A client has read what the database has of k, or it will be told.
Knows(c, k) ==
  \/ view[c][k] = data[k].v
  \/ Behind(k)
  \/ uni.pc \in {"push", "scan"} /\ uni.k = k
  \/ k \in Notices(c)
  \/ cl[c].pc = "get" /\ cl[c].k = k

ViewFits ==
  /\ view \in [Client -> [Item -> Nat]]
  /\ \A c \in Present, k \in Item : Knows(c, k)

LEMMA ViewStep ==
  ASSUME BaseInv, view \in [Client -> [Item -> Nat]], [Next]_vars
  PROVE  /\ view' \in [Client -> [Item -> Nat]]
         /\ \A c \in Client, k \in Item :
               /\ view'[c][k] = view[c][k] \/ (ClGet /\ view'[c][k] = data[k].v)
               /\ cl[c].pc = "get" /\ cl[c].k = k => cl'[c] = cl[c] \/ (ClGet /\ view'[c][k] = data[k].v)
               /\ k \in Notices(c) => k \in Notices(c)' \/ (cl'[c].pc = "get" /\ cl'[c].k = k)
               /\ cl[c].pc = "gone" => cl'[c].pc = "gone"
  <1> DEFINE ClType == [pc : {"new", "idle", "find", "del", "get", "rel", "gone"}, k : Item \cup {0}]
  <1>0. /\ Types /\ cl \in [Client -> ClType] /\ data \in [Item -> [v : Nat, ref : Nat]]
        /\ \A c \in Client : cl[c].pc = "get" => cl[c].k \in Item
    BY DEF BaseInv, RequestInv, Types, ReadInv, ValueTypes
  <1>1. CASE ClGet
    <2>1. PICK c \in Client : /\ cl[c].pc = "get" /\ cl' = [cl EXCEPT ![c].pc = "rel"]
                             /\ view' = [view EXCEPT ![c][cl[c].k] = data[cl[c].k].v]
      BY <1>1 DEF ClGet
    <2>2. PICK k \in Item : cl[c].k = k
      BY <1>0, <2>1
    <2>3. view' = [view EXCEPT ![c] = [view[c] EXCEPT ![k] = data[k].v]] /\ data[k].v \in Nat
      BY <1>0, <2>1, <2>2
    <2>4. /\ view' \in [Client -> [Item -> Nat]] /\ view'[c][k] = data[k].v
          /\ \A d \in Client, j \in Item : (d = c /\ j = k) \/ view'[d][j] = view[d][j]
      BY <2>3
    <2>5. cl'[c].pc = "rel" /\ \A d \in Client \ {c} : cl'[d] = cl[d]
      BY <1>0, <2>1
    <2>6. \A d : Notices(d)' = Notices(d)
      BY <1>1 DEF ClGet, Notices
    <2> QED
      BY <1>1, <2>1, <2>2, <2>4, <2>5, <2>6
  <1>2. CASE ClDel
    <2>1. PICK c \in Client : /\ cl[c].pc = "del" /\ cl' = [cl EXCEPT ![c].pc = "get"]
                             /\ act' = act \ {<<cl[c].k, c>>}
      BY <1>2 DEF ClDel
    <2>2. cl'[c].pc = "get" /\ cl'[c].k = cl[c].k /\ \A d \in Client \ {c} : cl'[d] = cl[d]
      BY <1>0, <2>1
    <2>3. \A d \in Client, k \in Item : k \in Notices(d) => k \in Notices(d)' \/ (d = c /\ k = cl[c].k)
      BY <2>1 DEF Notices
    <2>4. view' = view
      BY <1>2 DEF ClDel
    <2> QED
      BY <2>1, <2>2, <2>3, <2>4
  <1>3. CASE ClTake \/ ClRelease \/ DeregisterAll
    <2>1. view' = view /\ \A d : Notices(d)' = Notices(d)
      BY <1>3 DEF ClTake, ClRelease, DeregisterAll, Notices
    <2>2. PICK c \in Client : /\ cl[c].pc \in {"idle", "rel"}
                             /\ \/ \E x \in {"find", "gone"} : cl' = [cl EXCEPT ![c].pc = x]
                                \/ cl' = [cl EXCEPT ![c] = [pc |-> "idle", k |-> 0]]
      BY <1>3, UniconfAssumption DEF ClTake, ClRelease, DeregisterAll
    <2>3. \A d \in Client \ {c} : cl'[d] = cl[d]
      BY <1>0, <2>2
    <2> QED
      BY <2>1, <2>2, <2>3
  <1>4. CASE ClFind
    <2>1. view' = view /\ \A d : Notices(d)' = Notices(d)
      BY <1>4 DEF ClFind, Notices
    <2>2. PICK c \in Client : cl[c].pc = "find" /\ \E x : cl' = [cl EXCEPT ![c] = x]
      BY <1>4 DEF ClFind
    <2>3. \A d \in Client \ {c} : cl'[d] = cl[d]
      BY <1>0, <2>2
    <2> QED
      BY <2>1, <2>2, <2>3
  <1>5. CASE Register
    <2>1. view' = view /\ \A d : Notices(d)' = Notices(d)
      BY <1>5 DEF Register, Notices
    <2>2. PICK c \in Client : cl[c].pc = "new" /\ (cl' = cl \/ cl' = [cl EXCEPT ![c].pc = "idle"])
      BY <1>5 DEF Register
    <2>3. \A d \in Client \ {c} : cl'[d] = cl[d]
      BY <1>0, <2>2
    <2> QED
      BY <2>1, <2>2, <2>3
  <1>6. CASE ~ClientStep /\ ~RegStep
    <2>1. view' = view /\ cl' = cl /\ act \subseteq act'
      BY <1>6 DEF Next, vars, UniStep, SigCheck, Query, LinkPut, LinkWait, AskRange, AskRead, AskWrite, AskDel,
           Push, Scan, Post, Write, WriterStep, WriterPut, WriterWait, WriterAsk, WriterSig, LinkChange, NotifyLinkChange
    <2>2. \A d : Notices(d) \subseteq Notices(d)'
      BY <2>1 DEF Notices
    <2> QED
      BY <2>1, <2>2
  <1> QED
    BY <1>1, <1>2, <1>3, <1>4, <1>5, <1>6 DEF ClientStep, RegStep

\* What is pushed is told to every client that was registered from the start.
LEMMA PushStep ==
  ASSUME BaseInv, [Next]_vars, NEW c \in Present, NEW k \in Item, uni.pc \in {"push", "scan"}, uni.k = k
  PROVE  (uni'.pc \in {"push", "scan"} /\ uni'.k = k) \/ k \in Notices(c)'
  <1>0. Types
    BY DEF BaseInv, NoticeInv
  <1>1. c \in Client /\ reg[<<k, c>>] = "add" /\ (uni.pc = "scan" => NotAfter(uni.first, <<k, c>>) /\ NotAfter(<<k, c>>, uni.last))
    BY DEF Present, BaseInv, PresentInv, Stays
  <1>2. <<k, c>> \in Registered
    BY <1>1 DEF Registered
  <1>3. CASE Push
    BY <1>0, <1>2, <1>3 DEF Push, Types
  <1>4. CASE Scan
    <2>1. Tells(c)
      BY <1>0, <1>1, <1>2, <1>4, ScanFacts DEF Tells, Adds
    <2> QED
      BY <1>0, <1>1, <1>4, <2>1, ScanFacts
  <1>5. CASE ~Push /\ ~Scan
    <2>1. uni' = uni
      BY <1>5 DEF Next, vars, UniStep, SigCheck, Query, LinkPut, LinkWait, AskRange, AskRead, AskWrite, AskDel,
           Post, Write, WriterStep, WriterPut, WriterWait, WriterAsk, WriterSig, LinkChange, NotifyLinkChange,
           RegStep, Register, DeregisterAll, ClientStep, ClTake, ClFind, ClDel, ClGet, ClRelease
    <2> QED
      BY <2>1
  <1> QED
    BY <1>3, <1>4, <1>5

LEMMA ViewNext ==
  ASSUME BaseInv, ViewFits, [Next]_vars
  PROVE  ViewFits'
  <1>0. Types /\ UniFits /\ WrFits /\ Conf \subseteq Item /\ Conf \cap Links = {}
    BY UniconfAssumption DEF BaseInv, RequestInv, Item
  <1>1. view' \in [Client -> [Item -> Nat]]
    BY ViewStep DEF ViewFits
  <1>2. ASSUME NEW c \in Client \ Late, cl'[c].pc # "gone", NEW k \in Item PROVE Knows(c, k)'
    <2>1. c \in Present
      BY <1>2, ViewStep DEF ViewFits, Present
    <2>2. Knows(c, k)
      BY <2>1 DEF ViewFits
    <2>3. /\ view'[c][k] = view[c][k] \/ (ClGet /\ view'[c][k] = data[k].v)
          /\ cl[c].pc = "get" /\ cl[c].k = k => cl'[c] = cl[c] \/ (ClGet /\ view'[c][k] = data[k].v)
          /\ k \in Notices(c) => k \in Notices(c)' \/ (cl'[c].pc = "get" /\ cl'[c].k = k)
      BY ViewStep DEF ViewFits
    <2>4. data'[k].v = data[k].v \/ Behind(k)' \/ (uni'.pc = "push" /\ uni'.k = k)
      BY <1>0, ValueChange DEF Behind, Pending, WriterPut, WrFits
    <2>5. CASE view'[c][k] = data[k].v
      BY <2>4, <2>5 DEF Knows
    <2>6. CASE Behind(k)
      <3>1. CASE Behind(k)'
        BY <3>1 DEF Knows
      <3>2. CASE AskWrite /\ Reads(k)
        <4>1. uni.np[1] = k
          BY <3>2 DEF Reads
        <4>2. uni'.pc = "push" /\ uni'.k = k
          BY <1>0, <3>2, <4>1 DEF AskWrite, Types
        <4> QED
          BY <4>2 DEF Knows
      <3> QED
        BY <2>6, <3>1, <3>2, BehindStep DEF Behind
    <2>7. CASE uni.pc \in {"push", "scan"} /\ uni.k = k
      BY <2>1, <2>7, PushStep DEF Knows
    <2>8. CASE k \in Notices(c)
      BY <2>3, <2>8 DEF Knows
    <2>9. CASE cl[c].pc = "get" /\ cl[c].k = k
      <3>1. CASE cl'[c] = cl[c]
        BY <2>9, <3>1 DEF Knows
      <3> QED
        BY <2>3, <2>5, <2>9, <3>1
    <2> QED
      BY <2>2, <2>3, <2>5, <2>6, <2>7, <2>8, <2>9 DEF Knows
  <1> QED
    BY <1>1, <1>2 DEF ViewFits, Present

\* The query will still come to the device of link l.
Ahead(l) == Looking /\ uni.pc # "range" /\ uni.k < l

\* The query ends before it or at it, at a device that is not enabled.
Blocked(l) == \E d \in Disabled : d <= l /\ opersts[d] # link[d].up

\* uniconf has noticed the state of the link, or it will; what it noticed is in
\* the database, or about to be.
LinkNoticed(l) ==
  \/ opersts[l] = link[l].up \/ getsem > 0 \/ Ahead(l) \/ Blocked(l)
  \/ \E m \in Links : link[m].irq
LinkStored(l) ==
  \/ data[l].v = opersts[l] \/ l \in refused
  \/ uni.pc \in {"lput", "lwait", "lagain"} /\ uni.k = l

LinkFits ==
  /\ opersts \in [Links -> {0, 1}]
  /\ uni.pc \in {"lput", "lwait", "lagain"} => uni.v = opersts[uni.k]
  /\ uni.k \in Nat
  /\ \A l \in Links : LinkNoticed(l) /\ LinkStored(l)

\* The next device in a query
LEMMA QueryFacts ==
  ASSUME BaseInv, LinkFits, Query
  PROVE  \/ /\ uni'.pc = "range" /\ UNCHANGED opersts /\ uni'.k = uni.k
            /\ \A l \in Links : l > uni.k => opersts[l] = link[l].up \/ Blocked(l)
         \/ \E m \in Links \ Disabled :
               /\ uni'.pc = "lput" /\ uni'.k = m /\ uni'.v = link[m].up
               /\ opersts' = [opersts EXCEPT ![m] = link[m].up]
               /\ \A l \in Links : l > uni.k /\ l < m => opersts[l] = link[l].up
  <1> DEFINE D == {l \in Links : l > uni.k /\ opersts[l] # link[l].up}
             m == MinOf(D)
  <1>0. Types /\ Links \subseteq Nat /\ Disabled \subseteq Links
    BY UniconfAssumption DEF BaseInv, NoticeInv
  <1>1. D # {} => m \in D /\ \A l \in D : m <= l
    BY <1>0, MinOfFacts
  <1>2. IF D = {} \/ m \in Disabled THEN uni' = [uni EXCEPT !.pc = "range"] /\ opersts' = opersts
        ELSE /\ uni' = [uni EXCEPT !.pc = "lput", !.k = m, !.v = link[m].up]
             /\ opersts' = [opersts EXCEPT ![m] = link[m].up]
    BY DEF Query
  <1> HIDE DEF m
  <1>3. CASE D = {}
    BY <1>0, <1>2, <1>3 DEF Types
  <1>6. ASSUME D # {}, NEW l \in Links, l > uni.k, l < m PROVE opersts[l] = link[l].up
    <2>1. m \in Nat /\ l \in Nat /\ \A i \in D : m <= i
      BY <1>0, <1>1, <1>6
    <2>2. l \notin D
      BY <1>6, <2>1
    <2> QED
      BY <1>6, <2>2
  <1>4. CASE D # {} /\ m \in Disabled
    <2>1. \A l \in Links : l > uni.k => opersts[l] = link[l].up \/ Blocked(l)
      <3>1. opersts[m] # link[m].up /\ m \in Nat
        BY <1>0, <1>1, <1>4
      <3>2. ASSUME NEW l \in Links, l > uni.k, m <= l PROVE Blocked(l)
        BY <1>4, <3>1, <3>2 DEF Blocked
      <3> QED
        BY <1>0, <1>4, <1>6, <3>1, <3>2
    <2> QED
      BY <1>0, <1>2, <1>4, <2>1 DEF Types
  <1>5. CASE D # {} /\ m \notin Disabled
    <2>1. m \in Links \ Disabled /\ \A l \in Links : l > uni.k /\ l < m => opersts[l] = link[l].up
      BY <1>1, <1>5, <1>6
    <2>2. /\ uni'.pc = "lput" /\ uni'.k = m /\ uni'.v = link[m].up
          /\ opersts' = [opersts EXCEPT ![m] = link[m].up]
      BY <1>0, <1>2, <1>5 DEF Types
    <2> QED
      BY <2>1, <2>2
  <1> QED
    BY <1>3, <1>4, <1>5

LEMMA LinkQuery ==
  ASSUME BaseInv, LinkFits, Query
  PROVE  LinkFits'
  <1>0. /\ Links \subseteq Nat /\ link \in [Links -> [up : {0, 1}, n : Nat, irq : BOOLEAN]]
        /\ UNCHANGED <<link, data, refused, getsem>> /\ uni.pc = "query"
    BY UniconfAssumption DEF BaseInv, ReadInv, ValueTypes, Query
  <1>1. CASE /\ uni'.pc = "range" /\ UNCHANGED opersts /\ uni'.k = uni.k
             /\ \A l \in Links : l > uni.k => opersts[l] = link[l].up \/ Blocked(l)
    <2>1. ASSUME NEW l \in Links PROVE LinkNoticed(l)' /\ LinkStored(l)'
      <3>1. LinkNoticed(l) /\ LinkStored(l)
        BY DEF LinkFits
      <3> QED
        BY <1>0, <1>1, <3>1 DEF LinkFits, LinkNoticed, LinkStored, Ahead, Blocked
    <2> QED
      BY <1>0, <1>1, <2>1 DEF LinkFits
  <1>2. ASSUME NEW m \in Links \ Disabled,
               uni'.pc = "lput", uni'.k = m, uni'.v = link[m].up,
               opersts' = [opersts EXCEPT ![m] = link[m].up],
               \A l \in Links : l > uni.k /\ l < m => opersts[l] = link[l].up
        PROVE  LinkFits'
    <2>1. opersts' \in [Links -> {0, 1}] /\ opersts'[m] = link[m].up /\ \A l \in Links \ {m} : opersts'[l] = opersts[l]
      BY <1>0, <1>2 DEF LinkFits
    <2>3. \A d \in Disabled : opersts'[d] = opersts[d]
      BY <1>2, <2>1, UniconfAssumption
    <2>2. ASSUME NEW l \in Links PROVE LinkNoticed(l)' /\ LinkStored(l)'
      <3>1. LinkNoticed(l) /\ LinkStored(l) /\ (Blocked(l) => Blocked(l)')
        BY <1>0, <2>3 DEF LinkFits, Blocked
      <3>2. CASE l = m
        BY <1>0, <1>2, <2>1, <3>2 DEF LinkNoticed, LinkStored
      <3>3. CASE l # m
        <4>1. Ahead(l) => opersts[l] = link[l].up \/ Ahead(l)'
          BY <1>0, <1>2, <3>3 DEF LinkFits, Ahead, Looking
        <4> QED
          BY <1>0, <2>1, <3>1, <3>3, <4>1 DEF LinkNoticed, LinkStored
      <3> QED
        BY <3>2, <3>3
    <2> QED
      BY <1>0, <1>2, <2>1, <2>2 DEF LinkFits
  <1> QED
    BY <1>1, <1>2, QueryFacts

\* A step of uniconf that goes on with the same item.
LEMMA LinkGoesOn ==
  ASSUME BaseInv, LinkFits, UNCHANGED <<link, opersts, getsem>>, uni'.k \in Nat,
         \A l \in Links : data'[l].v = data[l].v /\ (l \in refused => l \in refused'),
         \/ uni'.k = uni.k /\ (Looking /\ uni.pc # "range" => Looking' /\ uni'.pc # "range")
         \/ ~Looking \/ uni.pc = "range",
         uni.pc \in {"lput", "lwait", "lagain"} =>
            uni'.pc \in {"lput", "lwait", "lagain"} /\ uni'.k = uni.k /\ uni'.v = uni.v,
         uni'.pc \in {"lput", "lwait", "lagain"} => uni.pc \in {"lput", "lwait", "lagain"}
  PROVE  LinkFits'
  <1>1. ASSUME NEW l \in Links PROVE LinkNoticed(l)' /\ LinkStored(l)'
    <2>1. LinkNoticed(l) /\ LinkStored(l)
      BY DEF LinkFits
    <2>2. (Ahead(l) => Ahead(l)') /\ (Blocked(l) => Blocked(l)')
      BY DEF Ahead, Blocked
    <2> QED
      BY <2>1, <2>2 DEF LinkNoticed, LinkStored
  <1> QED
    BY <1>1 DEF LinkFits

LEMMA LinkLinkPut ==
  ASSUME BaseInv, LinkFits, LinkPut
  PROVE  LinkFits'
  <1>0. /\ Types /\ uni.pc \in {"lput", "lagain"} /\ uni.k \in Links /\ Links \subseteq Item
        /\ UNCHANGED <<link, opersts, getsem>>
    BY DEF BaseInv, RequestInv, UniFits, LinkPut, Item
  <1>1. CASE Free(uni.k)
    <2>1. /\ data' = [data EXCEPT ![uni.k].v = uni.v] /\ refused' = refused \ {uni.k}
          /\ uni'.pc = "push" /\ uni'.ret = "query" /\ uni'.k = uni.k
      BY <1>0, <1>1 DEF LinkPut, Put, Types
    <2>2. data'[uni.k].v = uni.v /\ \A l \in Links \ {uni.k} : data'[l].v = data[l].v
      BY <1>0, <2>1 DEF BaseInv, ReadInv, ValueTypes
    <2>3. ASSUME NEW l \in Links PROVE LinkNoticed(l)' /\ LinkStored(l)'
      <3>1. LinkNoticed(l) /\ LinkStored(l)
        BY DEF LinkFits
      <3>2. (Ahead(l) => Ahead(l)') /\ (Blocked(l) => Blocked(l)')
        BY <1>0, <2>1 DEF Ahead, Looking, Blocked
      <3>3. CASE l = uni.k
        BY <1>0, <2>1, <2>2, <3>1, <3>2, <3>3 DEF LinkFits, LinkNoticed, LinkStored
      <3>4. CASE l # uni.k
        BY <1>0, <2>1, <2>2, <3>1, <3>2, <3>4 DEF LinkNoticed, LinkStored
      <3> QED
        BY <3>3, <3>4
    <2> QED
      BY <1>0, <2>1, <2>3 DEF LinkFits
  <1>2. CASE ~Free(uni.k)
    <2>1. /\ data' = data /\ uni'.k = uni.k /\ uni'.v = uni.v
          /\ refused' = IF uni.pc = "lput" THEN refused ELSE refused \cup {uni.k}
          /\ uni'.pc = IF uni.pc = "lput" THEN "lwait" ELSE "query"
      BY <1>0, <1>2 DEF LinkPut, Types
    <2>2. ASSUME NEW l \in Links PROVE LinkNoticed(l)' /\ LinkStored(l)'
      <3>1. LinkNoticed(l) /\ LinkStored(l)
        BY DEF LinkFits
      <3>2. (Ahead(l) => Ahead(l)') /\ (Blocked(l) => Blocked(l)')
        BY <1>0, <2>1 DEF Ahead, Looking, Blocked
      <3> QED
        BY <1>0, <2>1, <3>1, <3>2 DEF LinkNoticed, LinkStored
    <2> QED
      BY <1>0, <2>1, <2>2 DEF LinkFits
  <1> QED
    BY <1>1, <1>2

LEMMA LinkNext ==
  ASSUME BaseInv, LinkFits, [Next]_vars
  PROVE  LinkFits'
  <1>0. /\ Types /\ UniFits /\ WrFits /\ 0 \notin Links /\ Links \subseteq Nat /\ Links \subseteq Item /\ Conf \cap Links = {}
        /\ link \in [Links -> [up : {0, 1}, n : Nat, irq : BOOLEAN]]
    BY UniconfAssumption DEF BaseInv, RequestInv, ReadInv, ValueTypes, Item
  <1>1. CASE Query
    BY <1>1, LinkQuery
  <1>2. CASE LinkPut
    BY <1>2, LinkLinkPut
  <1>3. ASSUME ~LinkPut PROVE \A l \in Links : data'[l].v = data[l].v
    <2>1. ASSUME NEW l \in Links PROVE data'[l].v = data[l].v
      BY <1>0, <1>3, ValueChange DEF WriterPut, WrFits
    <2> QED
      BY <2>1
  <1>4. CASE SigCheck
    <2>1. /\ UNCHANGED <<link, opersts, refused>> /\ uni.pc = "wait"
          /\ uni'.pc = "query" /\ uni'.k = 0
      BY <1>0, <1>4 DEF SigCheck, Types
    <2>2. \A l \in Links : Ahead(l)'
      BY <1>0, <2>1 DEF Ahead, Looking
    <2>3. ~LinkPut
      BY <2>1 DEF LinkPut
    <2> QED
      BY <1>3, <2>1, <2>2, <2>3 DEF LinkFits, LinkNoticed, LinkStored
  <1>5. CASE LinkWait
    <2>1. /\ UNCHANGED <<link, opersts, refused, getsem>> /\ uni.pc = "lwait" /\ uni'.pc = "lagain"
          /\ uni'.k = uni.k /\ uni'.v = uni.v
      BY <1>0, <1>5 DEF LinkWait, Types
    <2>2. ~LinkPut /\ Looking'
      BY <2>1 DEF LinkPut, Looking
    <2> QED
      BY <1>3, <2>1, <2>2, LinkGoesOn DEF LinkFits
  <1>6. CASE AskRange \/ AskDel \/ AskRead \/ AskWrite
    <2>1. /\ UNCHANGED <<link, opersts, refused, getsem>>
          /\ uni.pc \in {"range", "del", "read", "write"} /\ ~LinkPut
      BY <1>6 DEF AskRange, AskDel, AskRead, AskWrite, LinkPut
    <2>2. uni'.pc \in {"wait", "read", "write", "push"}
      <3>1. CASE AskRange \/ AskDel
        BY <1>0, <3>1, AskMoves
      <3>2. CASE AskRead \/ AskWrite
        BY <1>0, <3>2 DEF AskRead, AskWrite, Types
      <3> QED
        BY <1>6, <3>1, <3>2
    <2>3. ~Looking \/ uni.pc = "range"
      BY <2>1 DEF Looking
    <2>4. uni'.k \in Nat
      <3>1. CASE AskRange \/ AskDel
        <4>1. CASE uni' = Waiting
          BY <4>1 DEF Waiting
        <4>2. CASE uni' # Waiting
          BY <1>0, <3>1, <4>2 DEF AskRange, AskDel, Types, LinkFits
        <4> QED
          BY <4>1, <4>2
      <3>2. CASE AskRead \/ AskWrite
        <4>1. uni.np[1] \in Nat
          <5>1. uni.pc \in {"read", "write"}
            BY <3>2 DEF AskRead, AskWrite
          <5>2. uni.np \in ask
            BY <1>0, <5>1 DEF UniFits, Answers
          <5>3. ask \subseteq Nat \X Nat
            BY <1>0, AskFacts DEF UniFits
          <5>4. uni.np \in Nat \X Nat
            BY <5>2, <5>3
          <5> QED
            BY <5>4
        <4>2. uni'.k = uni.k \/ uni'.k = uni.np[1]
          BY <1>0, <3>2 DEF AskRead, AskWrite, Types
        <4> QED
          BY <4>1, <4>2 DEF LinkFits
      <3> QED
        BY <1>6, <3>1, <3>2
    <2> QED
      BY <1>3, <2>1, <2>2, <2>3, <2>4, LinkGoesOn
  <1>7. CASE Push \/ Scan \/ Post
    <2>1. /\ UNCHANGED <<link, opersts, refused, getsem>>
          /\ uni.pc \in {"push", "scan", "post"} /\ ~LinkPut
      BY <1>7 DEF Push, Scan, Post, LinkPut
    <2>2. /\ uni'.k = uni.k
          /\ \/ uni'.pc \in {"scan", "post"} /\ uni'.ret = uni.ret
             \/ uni'.pc = uni.ret
      <3>1. CASE Push
        BY <1>0, <3>1 DEF Push, Types
      <3>2. CASE Scan
        <4>1. uni' = [uni EXCEPT !.pc = "post"]
          BY <3>2, Zenon DEF Scan
        <4> QED
          BY <1>0, <4>1 DEF Types
      <3>3. CASE Post
        <4>1. uni' = [uni EXCEPT !.pc = uni.ret, !.ret = "none", !.v = 0, !.first = <<0, 0>>, !.last = <<0, 0>>]
          BY <3>3, Zenon DEF Post
        <4> QED
          BY <1>0, <4>1 DEF Types
      <3> QED
        BY <1>7, <3>1, <3>2, <3>3
    <2>3. uni.ret \in {"query", "del"}
      BY <1>0, <2>1 DEF UniFits, Looking, Answers
    <2>4. Looking => Looking' /\ uni'.pc # "range"
      BY <2>1, <2>2, <2>3 DEF Looking
    <2>5. uni'.pc \notin {"lput", "lwait", "lagain"} /\ uni'.k \in Nat
      BY <2>2, <2>3 DEF LinkFits
    <2> QED
      BY <1>3, <2>1, <2>2, <2>4, <2>5, LinkGoesOn
  <1>8. CASE LinkChange
    <2>1. UNCHANGED <<opersts, refused, getsem, uni, data>>
      BY <1>8 DEF LinkChange
    <2>2. PICK m \in Links : link' = [link EXCEPT ![m] = [up |-> 1 - @.up, n |-> @.n + 1, irq |-> TRUE]]
      BY <1>8 DEF LinkChange
    <2>3. link'[m].irq
      BY <1>0, <2>2
    <2>4. ASSUME NEW l \in Links PROVE LinkNoticed(l)' /\ LinkStored(l)'
      <3>1. LinkStored(l)
        BY DEF LinkFits
      <3>2. LinkStored(l)'
        BY <2>1, <3>1 DEF LinkStored
      <3> QED
        BY <2>3, <3>2 DEF LinkNoticed
    <2> QED
      BY <2>1, <2>4 DEF LinkFits
  <1>9. CASE NotifyLinkChange
    <2>1. UNCHANGED <<opersts, refused, uni, data>> /\ getsem' > 0
      BY <1>0, <1>9 DEF NotifyLinkChange, UniFits
    <2>2. ASSUME NEW l \in Links PROVE LinkNoticed(l)' /\ LinkStored(l)'
      BY <2>1 DEF LinkFits, LinkNoticed, LinkStored
    <2> QED
      BY <2>1, <2>2 DEF LinkFits
  <1>10. CASE ~UniStep /\ ~LinkChange /\ ~NotifyLinkChange
    <2>1. UNCHANGED <<opersts, refused, uni, link>> /\ ~LinkPut
      BY <1>10 DEF Next, vars, UniStep, Write, WriterStep, WriterPut, WriterWait, WriterAsk, WriterSig,
           RegStep, Register, DeregisterAll, ClientStep, ClTake, ClFind, ClDel, ClGet, ClRelease
    <2>2. getsem > 0 => getsem' > 0
      <3>1. CASE WriterSig \/ DeregisterAll
        BY <1>0, <3>1 DEF WriterSig, DeregisterAll, WakeUniconf, UniFits
      <3>2. CASE ~WriterSig /\ ~DeregisterAll
        BY <1>10, <3>2 DEF Next, vars, UniStep, Write, WriterStep, WriterPut, WriterWait, WriterAsk,
           RegStep, Register, ClientStep, ClTake, ClFind, ClDel, ClGet, ClRelease
      <3> QED
        BY <3>1, <3>2
    <2>3. ASSUME NEW l \in Links PROVE LinkNoticed(l)' /\ LinkStored(l)'
      <3>1. /\ LinkNoticed(l) /\ LinkStored(l) /\ data'[l].v = data[l].v
            /\ (Ahead(l)' <=> Ahead(l)) /\ (Blocked(l)' <=> Blocked(l))
        BY <1>3, <2>1 DEF LinkFits, Ahead, Looking, Blocked
      <3> QED
        BY <2>1, <2>2, <3>1 DEF LinkNoticed, LinkStored
    <2> QED
      BY <2>1, <2>3 DEF LinkFits
  <1> QED
    BY <1>1, <1>2, <1>4, <1>5, <1>6, <1>7, <1>8, <1>9, <1>10 DEF UniStep

-----------------------------------------------------------------------------
(* What arrives                                                            *)

ArriveInv == BaseInv /\ ReadsFresh /\ HwFits /\ ViewFits /\ LinkFits

LEMMA ArriveInit ==
  ASSUME Init
  PROVE  ArriveInv
  <1>1. BaseInv
    BY NoticeInit, RequestInit, ReadInit, PresentInit DEF BaseInv
  <1>2. /\ uni.pc = "wait" /\ uni.k = 0
        /\ \A k \in Item : data[k].v = 0
    BY DEF Init, Waiting
  <1>3. ReadsFresh
    BY <1>2 DEF ReadsFresh, Reads
  <1>4. HwFits
    <2>1. Conf \subseteq Item
      BY DEF Item
    <2> QED
      BY <1>2, <2>1 DEF HwFits, Init
  <1>5. ViewFits
    <2>1. view \in [Client -> [Item -> Nat]] /\ \A c \in Client, k \in Item : view[c][k] = 0
      BY DEF Init
    <2> QED
      BY <1>2, <2>1 DEF ViewFits, Knows, Present
  <1>6. LinkFits
    <2>1. Links \subseteq Item
      BY DEF Item
    <2>2. opersts \in [Links -> {0, 1}] /\ \A l \in Links : opersts[l] = 0 /\ link[l].up = 0
      BY DEF Init
    <2> QED
      BY <1>2, <2>1, <2>2 DEF LinkFits, LinkNoticed, LinkStored
  <1> QED
    BY <1>1, <1>3, <1>4, <1>5, <1>6 DEF ArriveInv

LEMMA ArriveNext ==
  ASSUME ArriveInv, [Next]_vars
  PROVE  ArriveInv'
  <1>1. BaseInv'
    BY NoticeNext, RequestNext, ReadNext, PresentNext DEF ArriveInv, BaseInv
  <1> QED
    BY <1>1, FreshNext, HwNext, ViewNext, LinkNext DEF ArriveInv

\* When nothing is under way uniconf is not behind with any item and the
\* clients know what the database has.
LEMMA QuietKnows ==
  ASSUME ArriveInv, Quiet
  PROVE  /\ \A k \in Conf \ overtaken : ~Behind(k)
         /\ \A k \in Item, c \in Present : Behind(k) \/ view[c][k] = data[k].v
  <1>1. uni.pc = "wait" /\ getsem = 0 /\ wr.pc = "idle"
    BY DEF Quiet
  <1>2. ask = {}
    BY <1>1 DEF ArriveInv, BaseInv, RequestInv, AskSeen, Looking, Answers
  <1>3. \A k \in Conf \ overtaken : ~Behind(k)
    BY <1>1, <1>2 DEF Behind, Pending, Reads
  <1>4. ASSUME NEW k \in Item, NEW c \in Present PROVE Behind(k) \/ view[c][k] = data[k].v
    <2>1. Knows(c, k) /\ c \in Client /\ cl[c].pc = "idle" /\ sig[c] = 0
      BY DEF ArriveInv, ViewFits, Present, Quiet
    <2>2. ClientFits(c) /\ c \notin orphans /\ IsFiniteSet(Notices(c)) /\ Cardinality(Notices(c)) \in Nat
      BY <2>1, ItemFacts DEF Present, ArriveInv, BaseInv, PresentInv, Stays, NoticeInv
    <2>3. Cardinality(Notices(c)) = 0
      BY <1>1, <2>1, <2>2 DEF ClientFits, NoticeCounted
    <2>4. Notices(c) = {}
      BY <2>2, <2>3, FS_EmptySet
    <2> QED
      BY <1>1, <2>1, <2>4 DEF Knows
  <1> QED
    BY <1>3, <1>4

\* Whenever nothing is under way, the hardware and every client that was there
\* all the time have the value that was written, except for an item written
\* while uniconf answered the request before.
THEOREM WritesAlwaysArrive == Spec => []WritesArrive
  <1>1. Init => ArriveInv
    BY ArriveInit
  <1>2. ArriveInv /\ [Next]_vars => ArriveInv'
    BY ArriveNext
  <1>3. ArriveInv => WritesArrive
    <2> SUFFICES ASSUME ArriveInv, Quiet, NEW k \in Conf \ overtaken
                 PROVE  hw[k] = data[k].v /\ \A c \in Present : view[c][k] = data[k].v
      BY DEF WritesArrive
    <2>1. ~Behind(k) /\ k \in Item
      BY QuietKnows DEF Item
    <2> QED
      BY <2>1, QuietKnows DEF ArriveInv, HwFits
  <1> QED
    BY <1>1, <1>2, <1>3, PTL DEF Spec

\* Whenever nothing is under way, every client that was there all the time
\* knows the state of every link, unless a reader kept it out of the database
\* or the query ended at a device that is not enabled, its own or one before it,
\* whose link changed (cbl_query_response).
THEOREM LinksAlwaysArrive == Spec => []LinksArrive
  <1>1. Init => ArriveInv
    BY ArriveInit
  <1>2. ArriveInv /\ [Next]_vars => ArriveInv'
    BY ArriveNext
  <1>3. ArriveInv => LinksArrive
    <2> SUFFICES ASSUME ArriveInv, Quiet, NEW l \in Links \ refused, NEW c \in Present,
                        \A d \in Disabled : d <= l => opersts[d] = link[d].up
                 PROVE  view[c][l] = link[l].up
      BY DEF LinksArrive
    <2>1. l \in Item /\ ~Behind(l)
      BY UniconfAssumption DEF Item, Behind
    <2>2. view[c][l] = data[l].v
      BY <2>1, QuietKnows
    <2>3. LinkNoticed(l) /\ LinkStored(l) /\ uni.pc = "wait" /\ getsem = 0 /\ \A m \in Links : ~link[m].irq
      BY DEF ArriveInv, LinkFits, Quiet
    <2>4. ~Blocked(l)
      BY DEF Blocked
    <2> QED
      BY <2>2, <2>3, <2>4 DEF LinkNoticed, LinkStored, Ahead, Looking
  <1> QED
    BY <1>1, <1>2, <1>3, PTL DEF Spec

-----------------------------------------------------------------------------
(* The types                                                               *)

\* What the other invariants do not say of the types
OtherTypes ==
  /\ relwait \in 0 .. 1 /\ deleting \in BOOLEAN /\ overtaken \subseteq Conf
  /\ refused \subseteq Links /\ orphans \subseteq Client

LEMMA OtherTypesNext ==
  ASSUME OtherTypes, RequestInv, [Next]_vars
  PROVE  OtherTypes'
  <1>1. relwait' \in 0 .. 1
    <2>1. relwait' = relwait \/ WaitRelease \/ relwait' = IF relwait = 0 THEN 1 ELSE relwait
      BY DEF Next, Write, WriterStep, WriterPut, WriterWait, WriterAsk, WriterSig, UniStep, SigCheck, Query,
           LinkPut, LinkWait, AskRange, AskRead, AskWrite, AskDel, Push, Scan, Post, RegStep, Register,
           DeregisterAll, ClientStep, ClTake, ClFind, ClDel, ClGet, ClRelease, LinkChange,
           NotifyLinkChange, GetRelease, vars
    <2> QED
      BY <2>1 DEF WaitRelease, OtherTypes
  <1>2. deleting' \in BOOLEAN
    <2>1. CASE Scan
      BY <2>1 DEF Scan, OtherTypes
    <2>2. CASE ~Scan
      BY <2>2 DEF OtherTypes, Next, Write, WriterStep, WriterPut, WriterWait, WriterAsk, WriterSig, UniStep,
           SigCheck, Query, LinkPut, LinkWait, AskRange, AskRead, AskWrite, AskDel, Push, Post, RegStep,
           Register, DeregisterAll, ClientStep, ClTake, ClFind, ClDel, ClGet, ClRelease, LinkChange,
           NotifyLinkChange, vars
    <2> QED
      BY <2>1, <2>2
  <1>3. overtaken' \subseteq Conf
    <2>1. overtaken' \subseteq overtaken \cup (IF wr.pc = "ask" THEN {wr.k} ELSE {})
      BY DEF Next, Write, WriterStep, WriterPut, WriterWait, WriterAsk, WriterSig, UniStep, SigCheck, Query,
           LinkPut, LinkWait, AskRange, AskRead, AskWrite, AskDel, Push, Scan, Post, RegStep, Register,
           DeregisterAll, ClientStep, ClTake, ClFind, ClDel, ClGet, ClRelease, LinkChange,
           NotifyLinkChange, vars
    <2>2. wr.pc = "ask" => wr.k \in Conf
      BY DEF RequestInv, WrFits
    <2> QED
      BY <2>1, <2>2 DEF OtherTypes
  <1>4. refused' \subseteq Links
    <2>1. refused' \subseteq refused \cup (IF uni.pc \in {"lput", "lagain"} THEN {uni.k} ELSE {})
      BY DEF Next, Write, WriterStep, WriterPut, WriterWait, WriterAsk, WriterSig, UniStep, SigCheck, Query,
           LinkPut, LinkWait, AskRange, AskRead, AskWrite, AskDel, Push, Scan, Post, RegStep, Register,
           DeregisterAll, ClientStep, ClTake, ClFind, ClDel, ClGet, ClRelease, LinkChange,
           NotifyLinkChange, vars
    <2>2. uni.pc \in {"lput", "lagain"} => uni.k \in Links
      BY DEF RequestInv, UniFits
    <2> QED
      BY <2>1, <2>2 DEF OtherTypes
  <1>5. orphans' \subseteq Client
    <2>1. CASE Post
      BY <2>1 DEF Post, OtherTypes
    <2>2. CASE ~Post
      BY <2>2 DEF OtherTypes, Next, Write, WriterStep, WriterPut, WriterWait, WriterAsk, WriterSig, UniStep,
           SigCheck, Query, LinkPut, LinkWait, AskRange, AskRead, AskWrite, AskDel, Push, Scan, RegStep,
           Register, DeregisterAll, ClientStep, ClTake, ClFind, ClDel, ClGet, ClRelease, LinkChange,
           NotifyLinkChange, vars
    <2> QED
      BY <2>1, <2>2
  <1> QED
    BY <1>1, <1>2, <1>3, <1>4, <1>5 DEF OtherTypes

\* Every variable of uniconf and its clients keeps its type: refcounter of an entry
\* is at most one for each client and one for uniconf.
THEOREM TypeCorrect == Spec => []TypeOK
  <1> DEFINE Inv == NoticeInv /\ RequestInv /\ ReadInv /\ OtherTypes
  <1>1. Init => Inv
    <2>1. ASSUME Init PROVE OtherTypes
      <3>1. deleting \in BOOLEAN
        BY <2>1 DEF Init
      <3>2. relwait = 0 /\ overtaken = {} /\ refused = {} /\ orphans = {}
        BY <2>1 DEF Init
      <3> QED
        BY <3>1, <3>2 DEF OtherTypes
    <2> QED
      BY <2>1, NoticeInit, RequestInit, ReadInit
  <1>2. Inv /\ [Next]_vars => Inv'
    BY NoticeNext, RequestNext, ReadNext, OtherTypesNext DEF NoticeInv
  <1>3. Inv => TypeOK
    <2> SUFFICES ASSUME NoticeInv, RequestInv, ReadInv, OtherTypes PROVE TypeOK
      OBVIOUS
    <2>1. ASSUME NEW k \in Item
          PROVE  data[k].v \in Nat /\ data[k].ref \in 0 .. Cardinality(Client) + 1
      <3>1. data[k].v \in Nat /\ data[k].ref \in Nat
            /\ data[k].ref = Cardinality(Readers(k)) + (IF Reads(k) THEN 1 ELSE 0)
        BY DEF ReadInv, ValueTypes, RefsFit
      <3>2. /\ Cardinality(Client) \in Nat /\ Cardinality(Readers(k)) \in Nat
            /\ Cardinality(Readers(k)) <= Cardinality(Client)
        <4>1. Readers(k) \in SUBSET Client /\ IsFiniteSet(Client)
          BY UniconfAssumption DEF Readers
        <4> QED
          BY <4>1, FS_Subset, FS_CardinalityType
      <3> QED
        BY <3>1, <3>2
    <2>2. ASSUME NEW c \in Client
          PROVE  /\ list[c].on \in BOOLEAN /\ list[c].ref \in Nat
                 /\ cl[c].pc \in {"new", "idle", "find", "del", "get", "rel", "gone"}
      <3>1. /\ list[c] \in [on : BOOLEAN, ref : Nat, act : Nat]
            /\ cl[c].pc \in {"new", "idle", "find", "del", "get", "rel", "gone"}
        BY DEF NoticeInv, Types
      <3>3. list[c].ref \in Nat /\ list[c].on \in BOOLEAN
        BY <3>1
      <3> QED
        BY <3>1, <3>3
    <2>3. ask \subseteq Item \X (Client \cup {0})
      <3>1. Conf \subseteq Item
        BY DEF Item
      <3>2. ASSUME NEW p \in ask PROVE p \in Item \X (Client \cup {0})
        <4>1. p \in Conf \X {0} \/ p \in Item \X Client
          BY DEF RequestInv, UniFits
        <4> QED
          BY <3>1, <4>1
      <3> QED
        BY <3>2
    <2>4. uni.pc \in {"wait", "query", "lput", "lwait", "lagain", "range", "read", "write",
                      "push", "scan", "post", "del"}
      BY DEF RequestInv, UniFits, Looking, Answers
    <2>5. wr.pc \in {"idle", "put", "wait", "again", "ask", "sig"} /\ getsem \in Nat
      BY DEF RequestInv, WrFits, UniFits
    <2>6. act \subseteq Item \X Client /\ reg \in [Item \X Client -> {"none", "add", "del"}]
          /\ sig \in [Client -> Nat]
      BY DEF NoticeInv, Types
    <2> QED
      BY <2>1, <2>2, <2>3, <2>4, <2>5, <2>6 DEF TypeOK, OtherTypes
  <1> HIDE DEF Inv
  <1> QED
    BY <1>1, <1>2, <1>3, PTL DEF Spec

=============================================================================
