------------------------------ MODULE SimpleDb ------------------------------
(***************************************************************************)
(* The key value database of uniconf: simpledb.c, reached through          *)
(* simpledb_ucbind.c.  The database is a list of entries sorted by their   *)
(* keys, searched by halving.  An operation holds dbmutex from its         *)
(* beginning to its end, so it is one action; the save to the file is not, *)
(* and a walk over a range of keys is a sequence of operations between     *)
(* which other threads change the list.                                    *)
(*                                                                         *)
(* A node of the list is named by its key.  The empty sequence stands for  *)
(* no node, and for a bound of a range that is not given.                  *)
(*                                                                         *)
(* Nothing keeps another thread from deleting a node that a walk points    *)
(* to: uc_nc_get_notice_act does, each client where the others walk.  Such *)
(* a walk is torn; what it reads and deletes from then on is not modelled. *)
(* Left out: lack of memory, simpledb_lock and simpledb_unlock, which      *)
(* nobody calls, and simpledb_move_top_range; a walk keeps its direction.  *)
(***************************************************************************)
EXTENDS Integers, Sequences, FiniteSets, SequencesExt

CONSTANTS
    Keys,       \* keys that occur: sequences of bytes
    Bytes,      \* bytes that values are made of
    MaxLen,     \* bound: bytes of a value
    MaxRef,     \* bound: readers at a time
    LastSaved   \* pkend of uc_dbal_save: the last key that is saved

ASSUME SimpleDbAssumption ==
    /\ \A k \in Keys : k \in Seq(Nat) /\ k # <<>>
    /\ LastSaved \in Seq(Nat) \ {<<>>} /\ MaxLen \in Nat \ {0} /\ MaxRef \in Nat

VARIABLES
    dblist,  \* the entries, in the order of the list
    range,   \* the simpledb_range_t of the walk, if there is one, and whether it is torn
    seen,    \* keys that the walk has returned or deleted
    wanted,  \* keys that were in the range at its beginning
    file,    \* the saved data: pairs of a key and a value
    save     \* simpledb_savedata: what it does, and the nodes it is between

vars == <<dblist, range, seen, wanted, file, save>>

NoNode  == <<>>
NoRange == [on |-> FALSE, n1 |-> NoNode, n2 |-> NoNode, np |-> NoNode, dir |-> "forward",
            torn |-> FALSE]
NoSave  == [pc |-> "none", n1 |-> NoNode, n2 |-> NoNode]
KeysOf(l) == {l[i].k : i \in DOMAIN l}

Init ==
    /\ dblist = <<>> /\ range = NoRange /\ seen = {} /\ wanted = {}
    /\ file = <<>> /\ save = NoSave

-----------------------------------------------------------------------------
(* Search                                                                  *)

\* memcmp over the common length: the sign of the first difference
memcmp(a, b) ==
    LET D == {i \in DOMAIN a \cap DOMAIN b : a[i] # b[i]}
    IN  IF D = {} THEN 0
        ELSE LET i == CHOOSE i \in D : \A j \in D : i <= j
             IN  IF a[i] < b[i] THEN -1 ELSE 1

keycmp(a, b) ==
    IF memcmp(a, b) # 0 THEN memcmp(a, b)
    ELSE IF Len(a) > Len(b) THEN 1 ELSE IF Len(a) < Len(b) THEN -1 ELSE 0

\* Mutant: the upper half loses an entry.
bin_searchShort(l, kd) ==
    LET half[s \in [n1 : Nat, pn : 0 .. Len(l)]] ==
            LET pn   == s.pn \div 2
                mid  == s.n1 + pn
                res  == keycmp(kd, l[mid].k)
                left == IF res > 0 THEN pn - 1 ELSE pn
            IN  IF res = 0 \/ pn = 0 \/ left = 0 THEN [res |-> res, node |-> l[mid].k]
                ELSE half[[n1 |-> IF res > 0 THEN mid + 1 ELSE s.n1, pn |-> left]]
    IN  IF l = <<>> THEN [res |-> -1, node |-> NoNode] ELSE half[[n1 |-> 1, pn |-> Len(l)]]

\* bin_search: the node compared last and the result of that comparison
bin_search(l, kd) ==
    LET half[s \in [n1 : Nat, pn : 0 .. Len(l)]] ==
            LET pn   == s.pn \div 2
                mid  == s.n1 + pn
                res  == keycmp(kd, l[mid].k)
                left == IF res > 0 /\ s.pn % 2 = 0 THEN pn - 1 ELSE pn
            IN  IF res = 0 \/ pn = 0 \/ left = 0 THEN [res |-> res, node |-> l[mid].k]
                ELSE half[[n1 |-> IF res > 0 THEN mid + 1 ELSE s.n1, pn |-> left]]
    IN  IF l = <<>> THEN [res |-> -1, node |-> NoNode] ELSE half[[n1 |-> 1, pn |-> Len(l)]]

Found(kd) == bin_search(dblist, kd).res = 0

\* The place of a node, and its neighbours
At(l, k)   == CHOOSE i \in DOMAIN l : l[i].k = k
next(l, k) == IF At(l, k) = Len(l) THEN NoNode ELSE l[At(l, k) + 1].k
prev(l, k) == IF At(l, k) = 1 THEN NoNode ELSE l[At(l, k) - 1].k

\* get_range: the first and the last node of a range, or nothing
get_range(l, k1, k2) ==
    LET s1 == bin_search(l, k1)
        s2 == bin_search(l, k2)
        n1 == IF l = <<>> THEN NoNode
              ELSE IF k1 = <<>> THEN l[1].k
              ELSE IF s1.res > 0 THEN next(l, s1.node) ELSE s1.node
        n2 == IF l = <<>> THEN NoNode
              ELSE IF k2 = <<>> THEN l[Len(l)].k
              ELSE IF s2.res < 0 THEN prev(l, s2.node) ELSE s2.node
    IN  IF n1 = NoNode \/ n2 = NoNode \/ keycmp(n2, n1) < 0 THEN <<>> ELSE <<n1, n2>>

-----------------------------------------------------------------------------
(* Operations on one entry.  dbmutex is free unless the file is written.   *)

Unlocked == save.pc # "writing"

\* onedb_put with SIMPLEDB_FLAG_CREATE: an entry that is read is not changed.
onedb_put(k, v, append) ==
    LET s == bin_search(dblist, k)
        i == At(dblist, s.node)
        e == [k |-> k, v |-> v, ref |-> 0]
    IN  CASE s.res > 0 -> dblist' = InsertAt(dblist, i + 1, e)
          [] s.res < 0 -> dblist' = InsertAt(dblist, IF s.node = NoNode THEN 1 ELSE i, e)
          [] OTHER -> /\ dblist[i].ref = 0
                      /\ dblist' = [dblist EXCEPT ![i].v = IF append THEN @ \o v ELSE v]

\* uc_dbal_create and uc_dbal_append
Put ==
    /\ Unlocked
    /\ \E k \in Keys, b \in Bytes, append \in BOOLEAN :
          /\ append /\ Found(k) => Len(dblist[At(dblist, k)].v) < MaxLen
          /\ onedb_put(k, <<b>>, append)
    /\ UNCHANGED <<range, seen, wanted, file, save>>

Readers == FoldLeft(LAMBDA n, e : n + e.ref, 0, dblist)

\* uc_dbal_get
Get ==
    /\ Unlocked
    /\ \E k \in Keys :
          /\ Found(k) /\ Readers < MaxRef
          /\ dblist' = [dblist EXCEPT ![At(dblist, k)].ref = @ + 1]
    /\ UNCHANGED <<range, seen, wanted, file, save>>

\* uc_dbal_get_release: the counter stays at zero.
GetRelease ==
    /\ Unlocked
    /\ \E k \in Keys :
          /\ Found(k) /\ dblist[At(dblist, k)].ref > 0
          /\ dblist' = [dblist EXCEPT ![At(dblist, k)].ref = @ - 1]
    /\ UNCHANGED <<range, seen, wanted, file, save>>

\* uc_dbal_del, in another thread than the walk's: it knows nothing of ranges.
Del ==
    /\ Unlocked
    /\ \E k \in Keys :
          /\ Found(k) /\ dblist[At(dblist, k)].ref = 0
          /\ dblist' = RemoveAt(dblist, At(dblist, k))
          /\ wanted' = wanted \ {k}
          /\ range' = [range EXCEPT !.torn = @ \/ k \in {range.n1, range.n2, range.np}]
    /\ UNCHANGED <<seen, file, save>>

-----------------------------------------------------------------------------
(* A walk over a range                                                     *)

InRange(k, k1, k2) == (k1 = <<>> \/ keycmp(k1, k) <= 0) /\ (k2 = <<>> \/ keycmp(k, k2) <= 0)

\* uc_get_range
GetRange ==
    /\ Unlocked /\ ~range.on
    /\ \E k1 \in Keys \cup {<<>>}, k2 \in Keys \cup {<<>>} :
          LET r == get_range(dblist, k1, k2)
          IN  /\ r # <<>>
              /\ range' = [NoRange EXCEPT !.on = TRUE, !.n1 = r[1], !.n2 = r[2], !.np = r[1]]
              /\ wanted' = {k \in KeysOf(dblist) : InRange(k, k1, k2)}
    /\ seen' = {}
    /\ UNCHANGED <<dblist, file, save>>

\* uc_move_bottom_in_range: the walk goes backwards.
MoveBottom ==
    /\ Unlocked /\ range.on /\ seen = {}
    /\ range' = [range EXCEPT !.np = range.n2, !.dir = "backward"]
    /\ UNCHANGED <<dblist, seen, wanted, file, save>>

\* The node after np in the direction of the walk
Moved(r) ==
    IF r.dir = "forward" THEN IF r.np = r.n2 THEN NoNode ELSE next(dblist, r.np)
    ELSE IF r.np = r.n1 THEN NoNode ELSE prev(dblist, r.np)

\* uc_get_keyvalue_in_range and uc_move_in_range
Read ==
    /\ Unlocked /\ range.on /\ ~range.torn /\ range.np # NoNode
    /\ range' = [range EXCEPT !.np = Moved(range)]
    /\ seen' = seen \cup {range.np}
    /\ UNCHANGED <<dblist, wanted, file, save>>

\* Mutant: the end of the range is kept.
WithoutKeepsEnd(r) ==
    IF r.np = r.n1 /\ r.np = r.n2 THEN [r EXCEPT !.n1 = NoNode, !.n2 = NoNode, !.np = NoNode]
    ELSE [r EXCEPT !.np = Moved(r), !.n1 = IF @ = r.np THEN next(dblist, r.np) ELSE @]

\* Mutant: the walk goes on after the next node.
WithoutSkips(r) ==
    IF r.np = r.n1 /\ r.np = r.n2 THEN [r EXCEPT !.n1 = NoNode, !.n2 = NoNode, !.np = NoNode]
    ELSE [r EXCEPT !.np = IF Moved(r) = NoNode THEN NoNode ELSE Moved([r EXCEPT !.np = Moved(r)]),
                   !.n1 = IF @ = r.np THEN next(dblist, r.np) ELSE @,
                   !.n2 = IF @ = r.np THEN prev(dblist, r.np) ELSE @]

\* The range when its node np is unlinked
Without(r) ==
    IF r.np = r.n1 /\ r.np = r.n2 THEN [r EXCEPT !.n1 = NoNode, !.n2 = NoNode, !.np = NoNode]
    ELSE [r EXCEPT !.np = Moved(r),
                   !.n1 = IF @ = r.np THEN next(dblist, r.np) ELSE @,
                   !.n2 = IF @ = r.np THEN prev(dblist, r.np) ELSE @]

\* uc_del_in_range
DelInRange ==
    /\ Unlocked /\ range.on /\ ~range.torn /\ range.np # NoNode
    /\ dblist[At(dblist, range.np)].ref = 0
    /\ range' = Without(range)
    /\ dblist' = RemoveAt(dblist, At(dblist, range.np))
    /\ seen' = seen \cup {range.np}
    /\ UNCHANGED <<wanted, file, save>>

\* uc_get_range_release
GetRangeRelease ==
    /\ range.on /\ range' = NoRange /\ seen' = {} /\ wanted' = {}
    /\ UNCHANGED <<dblist, file, save>>

-----------------------------------------------------------------------------
(* The saved data                                                          *)

\* uc_dbal_save, simpledb_savedata: the file is emptied before dbmutex is taken.
SaveOpen ==
    /\ save.pc = "none" /\ save' = [NoSave EXCEPT !.pc = "opened"]
    /\ file' = <<>>
    /\ UNCHANGED <<dblist, range, seen, wanted>>

SaveLock ==
    /\ save.pc = "opened"
    /\ LET r == get_range(dblist, <<>>, LastSaved)
       IN  save' = IF r = <<>> THEN NoSave ELSE [pc |-> "writing", n1 |-> r[1], n2 |-> r[2]]
    /\ UNCHANGED <<dblist, range, seen, wanted, file>>

\* serialize_one
SaveOne ==
    /\ save.pc = "writing"
    /\ LET e == dblist[At(dblist, save.n1)] IN file' = Append(file, [k |-> e.k, v |-> e.v])
    /\ save' = IF save.n1 = save.n2 THEN NoSave ELSE [save EXCEPT !.n1 = next(dblist, save.n1)]
    /\ UNCHANGED <<dblist, range, seen, wanted>>

\* A write of serialize_one fails: the loop ends, and simpledb_savedata returns
\* 0 nevertheless.  Of the entry that was begun deserialize_one takes nothing.
SaveFails ==
    /\ save.pc = "writing" /\ save' = NoSave
    /\ UNCHANGED <<dblist, range, seen, wanted, file>>

\* deserialize_all: an entry that is out of order is skipped.
deserialize_all(f) ==
    FoldLeft(LAMBDA l, e : IF l # <<>> /\ keycmp(e.k, l[Len(l)].k) < 0 THEN l
                           ELSE Append(l, [k |-> e.k, v |-> e.v, ref |-> 0]), <<>>, f)

\* The process ends, at any time, and is started again: simpledb_open.  Of a
\* file that is being written the beginning has reached the disk.
Restart ==
    /\ \E n \in 0 .. Len(file) :
          /\ save.pc = "none" => n = Len(file)
          /\ file' = SubSeq(file, 1, n)
    /\ dblist' = deserialize_all(file')
    /\ range' = NoRange /\ seen' = {} /\ wanted' = {} /\ save' = NoSave

Next ==
    \/ Put \/ Get \/ GetRelease \/ Del
    \/ GetRange \/ MoveBottom \/ Read \/ DelInRange \/ GetRangeRelease
    \/ SaveOpen \/ SaveLock \/ SaveOne \/ SaveFails \/ Restart

Spec == Init /\ [][Next]_vars

-----------------------------------------------------------------------------
(* Properties                                                              *)

\* Type invariant.
TypeOK ==
    /\ Len(dblist) <= Cardinality(Keys)
    /\ \A i \in DOMAIN dblist :
          dblist[i].k \in Keys /\ dblist[i].v \in Seq(Bytes) /\ dblist[i].ref \in 0 .. MaxRef
    /\ {range.n1, range.n2, range.np} \subseteq Keys \cup {NoNode} /\ range.on \in BOOLEAN
    /\ range.torn \in BOOLEAN
    /\ seen \subseteq Keys /\ wanted \subseteq Keys
    /\ {file[i].k : i \in DOMAIN file} \subseteq Keys
    /\ save.pc \in {"none", "opened", "writing"}

\* The order of keys, said without the code: a key is before its extensions
\* and otherwise the first different byte decides.
Before(a, b) ==
    \/ IsStrictPrefix(a, b)
    \/ \E i \in DOMAIN a \cap DOMAIN b : a[i] < b[i] /\ \A j \in 1 .. i - 1 : a[j] = b[j]

\* The search by halving finds a key exactly when it is there, and the range of
\* two bounds is from the first key not below to the last key not above them.
SearchExact ==
    /\ \A k \in Keys : Found(k) <=> k \in KeysOf(dblist)
    /\ \A k1, k2 \in Keys \cup {<<>>, LastSaved} :
          LET In == {k \in KeysOf(dblist) : ~Before(k, k1) /\ (k2 = <<>> \/ ~Before(k2, k))}
              r  == get_range(dblist, k1, k2)
          IN  IF In = {} THEN r = <<>>
              ELSE r # <<>> /\ \A k \in In : ~Before(k, r[1]) /\ ~Before(r[2], k)
                            /\ {r[1], r[2]} \subseteq In

\* Whatever a walk deletes, and other threads insert and delete, the nodes that
\* it points to are in the list and nothing that was released is followed,
\* unless another thread has deleted one of these very nodes.
RangeValid ==
    range.on /\ ~range.torn =>
        {range.n1, range.n2, range.np} \subseteq KeysOf(dblist) \cup {NoNode}

\* A walk that has reached its end has seen every entry that was in the range
\* when it began and that no other thread has deleted, unless it is torn.
WalkSeesAll == range.on /\ ~range.torn /\ range.np = NoNode => wanted \subseteq seen

=============================================================================
