------------------------- MODULE NconfServerProofs -------------------------
(***************************************************************************)
(* Proofs about NconfServer, for every size of the table and of the queue, *)
(* and any number of connections and requests.                             *)
(***************************************************************************)
EXTENDS NconfServer, TLAPS

-----------------------------------------------------------------------------
(* Who owns a handle, and who holds a buffer                               *)

BufSet == [sess : Sess \cup {0}, lo : Nat, hi : Nat]
MsgSet == [type : {"connect", "message", "none"}, h : Handle \cup {0}, sess : Sess \cup {0}, buf : BufSet]

ConnTypes == conn \in [Sess -> [st : {"none", "open", "closed"}, h : Handle \cup {0}, sent : Nat]]
HdlTypes  ==
  hdl \in [Handle -> [sess : Sess \cup {0}, pcb : Sess \cup {0}, rbuf : BufSet, newconn : BOOLEAN]]
NetTypes  ==
  net \in [pc : {"idle", "connect", "data", "unlink", "enqueue", "check", "free"},
           h : Handle \cup {0}, n : Nat, buf : BufSet, pcb : Sess \cup {0}]
SrvSet ==
  [pc : {"idle", "decode", "rpc", "send", "write", "check", "clear", "close", "free"},
   msg : MsgSet, at : Nat, kind : Kinds \cup {"hello", "none"}, bye : BOOLEAN,
   h : Handle \cup {0}, i : Handle \cup {0}, pcb : Sess \cup {0},
   then : {"none", "idle", "decode", "send"}]
SrvTypes  == srv \in SrvSet

Types ==
  /\ sessidctr \in Nat /\ table \in [Handle -> Handle \cup {0}] /\ pool \subseteq Handle
  /\ ConnTypes /\ HdlTypes /\ NetTypes /\ SrvTypes
  /\ queue \in Seq(MsgSet) /\ heap \subseteq Sess \X Nat /\ twice \in BOOLEAN

\* The handle of an open connection is not in the pool and leads back to it.
ConnFits ==
  \A s \in Sess :
     /\ conn[s].st # "none" => s <= sessidctr /\ conn[s].h \in Handle
     /\ conn[s].st = "open" => /\ conn[s].h \notin pool
                               /\ hdl[conn[s].h].pcb = s /\ hdl[conn[s].h].sess = s

\* A handle refers to an open connection, or to one that the handler has just
\* closed.
PcbFits ==
  \A h \in Handle :
     hdl[h].pcb # 0 =>
        /\ conn[hdl[h].pcb].h = h
        /\ \/ conn[hdl[h].pcb].st = "open"
           \/ conn[hdl[h].pcb].st = "closed" /\ srv.pc = "free" /\ srv.h = h /\ srv.pcb = hdl[h].pcb

PoolFits == \A h \in pool : hdl[h].pcb = 0 /\ hdl[h].rbuf = NoBuf

\* A callback is running for a connection that is open.
NetFits ==
  /\ net.pc # "idle" => /\ net.h \in Handle /\ hdl[net.h].pcb # 0
                        /\ conn[hdl[net.h].pcb].st = "open"
  /\ net.pc \in {"connect", "data"} => net.n <= MaxSeg /\ net.n <= conn[hdl[net.h].pcb].sent
  /\ net.pc = "data" => net.n > 0
  /\ net.pc = "unlink" => hdl[net.h].rbuf = net.buf
  /\ net.pc = "free" => net.pcb = hdl[net.h].pcb

Ending == srv.pc \in {"check", "clear", "close", "free"}

\* The handler ends a connection whose handle is still its own.
SrvFits ==
  /\ srv.pc \in {"clear", "close", "free"} => srv.h \in Handle
  /\ srv.pc = "clear" => srv.i \in Handle
  /\ srv.pc \in {"close", "free"} /\ srv.pcb # 0 =>
        conn[srv.pcb].st # "none" /\ conn[srv.pcb].h = srv.h
  /\ srv.pc = "free" /\ srv.pcb # 0 => conn[srv.pcb].st = "closed" /\ hdl[srv.h].pcb = srv.pcb
  /\ Ending => srv.then # "none" /\ (srv.then # "idle" => srv.kind # "hello")
  /\ srv.pc = "rpc" => srv.kind \in Kinds
  /\ srv.pc \in {"send", "write"} /\ srv.kind = "hello" => srv.msg.buf = NoBuf

RbufFits == \A h \in Handle : IsBuf(hdl[h].rbuf) => hdl[h].rbuf.sess = hdl[h].sess

QueueFits == \A i \in 1 .. Len(queue) : queue[i].type = "connect" => queue[i].buf = NoBuf

OwnInv == Types /\ ConnFits /\ PcbFits /\ PoolFits /\ NetFits /\ SrvFits /\ RbufFits /\ QueueFits

\* The handler will still release the buffer of its message.
SrvHolds == srv.pc # "idle" /\ (Ending => srv.then # "idle")

\* x is the buffer of a handle, of a message or of the work of a thread.
Holding(x) ==
  \/ \E h \in Handle : Id(hdl[h].rbuf) = x
  \/ \E i \in 1 .. Len(queue) : Id(queue[i].buf) = x
  \/ net.pc \in {"unlink", "enqueue"} /\ Id(net.buf) = x
  \/ SrvHolds /\ Id(srv.msg.buf) = x

HeapHeld == \A x \in heap : Holding(x) \/ x \in leaked

LeakInv == ~twice => OwnInv /\ HeapHeld

-----------------------------------------------------------------------------
(* Proofs about the owners                                                 *)

LEMMA InitOwn == Init => LeakInv /\ OwnInv
  <1> SUFFICES ASSUME Init PROVE OwnInv /\ HeapHeld
    BY DEF LeakInv
  <1> USE DEF Init, NoBuf, Idle, NoMsg
  <1>1. 0 \notin Sess /\ 0 \notin Handle
    BY NconfAssumption DEF Sess, Handle
  <1>2. NoBuf \in BufSet /\ NoMsg \in MsgSet
    BY DEF BufSet, MsgSet
  <1>3. ConnTypes /\ HdlTypes
    BY <1>2 DEF ConnTypes, HdlTypes
  <1>4. NetTypes
    BY <1>2 DEF NetTypes
  <1>5. SrvTypes
    BY <1>2 DEF SrvTypes, SrvSet
  <1>9. table \in [Handle -> Handle \cup {0}] /\ pool \subseteq Handle /\ heap \subseteq Sess \X Nat
    OBVIOUS
  <1>10. queue \in Seq(MsgSet) /\ sessidctr \in Nat
    OBVIOUS
  <1>11. twice \in BOOLEAN
    BY Zenon
  <1>6. Types
    BY <1>3, <1>4, <1>5, <1>9, <1>10, <1>11 DEF Types
  <1>7. ConnFits /\ PcbFits /\ PoolFits /\ RbufFits
    BY <1>1 DEF ConnFits, PcbFits, PoolFits, RbufFits, IsBuf
  <1>8. NetFits /\ SrvFits /\ QueueFits
    BY DEF NetFits, SrvFits, QueueFits, Ending
  <1> QED
    BY <1>6, <1>7, <1>8 DEF OwnInv, HeapHeld

\* The set that a field of a record is in
LEMMA FieldTypes ==
  ASSUME Types
  PROVE  /\ net.pc \in {"idle", "connect", "data", "unlink", "enqueue", "check", "free"}
         /\ net.h \in Handle \cup {0} /\ net.n \in Nat /\ net.buf \in BufSet /\ net.pcb \in Sess \cup {0}
         /\ srv.msg \in MsgSet /\ srv.msg.h \in Handle \cup {0} /\ srv.msg.buf \in BufSet
         /\ srv.msg.sess \in Sess \cup {0} /\ srv.at \in Nat /\ srv.h \in Handle \cup {0}
         /\ srv.pcb \in Sess \cup {0} /\ srv.i \in Handle \cup {0}
         /\ Sess \subseteq Nat /\ Handle \subseteq Nat /\ 0 \notin Sess /\ 0 \notin Handle
         /\ \A h \in Handle : /\ hdl[h].sess \in Sess \cup {0} /\ hdl[h].pcb \in Sess \cup {0}
                               /\ hdl[h].rbuf \in BufSet
         /\ \A s \in Sess : /\ conn[s].st \in {"none", "open", "closed"} /\ conn[s].h \in Handle \cup {0}
                             /\ conn[s].sent \in Nat
         /\ \A i \in 1 .. Len(queue) : queue[i] \in MsgSet /\ queue[i].buf \in BufSet
         /\ Len(queue) \in Nat /\ NoBuf \in BufSet
  <1>1. Sess \subseteq Nat /\ Handle \subseteq Nat /\ 0 \notin Sess /\ 0 \notin Handle
    BY NconfAssumption DEF Sess, Handle
  <1>2. /\ net.pc \in {"idle", "connect", "data", "unlink", "enqueue", "check", "free"}
        /\ net.h \in Handle \cup {0} /\ net.n \in Nat /\ net.buf \in BufSet /\ net.pcb \in Sess \cup {0}
    BY DEF Types, NetTypes
  <1>3. /\ srv.msg \in MsgSet /\ srv.at \in Nat /\ srv.h \in Handle \cup {0}
        /\ srv.pcb \in Sess \cup {0} /\ srv.i \in Handle \cup {0}
    BY DEF Types, SrvTypes, SrvSet
  <1>4. srv.msg.h \in Handle \cup {0} /\ srv.msg.buf \in BufSet /\ srv.msg.sess \in Sess \cup {0}
    BY <1>3 DEF MsgSet
  <1>5. \A h \in Handle : hdl[h].sess \in Sess \cup {0} /\ hdl[h].pcb \in Sess \cup {0} /\ hdl[h].rbuf \in BufSet
    BY DEF Types, HdlTypes
  <1>6. \A s \in Sess : /\ conn[s].st \in {"none", "open", "closed"} /\ conn[s].h \in Handle \cup {0}
                        /\ conn[s].sent \in Nat
    BY DEF Types, ConnTypes
  <1>7. Len(queue) \in Nat /\ \A i \in 1 .. Len(queue) : queue[i] \in MsgSet
    BY DEF Types
  <1>8. \A i \in 1 .. Len(queue) : queue[i].buf \in BufSet
    BY <1>7 DEF MsgSet
  <1>9. NoBuf \in BufSet
    BY DEF NoBuf, BufSet
  <1> QED
    BY <1>1, <1>2, <1>3, <1>4, <1>5, <1>6, <1>7, <1>8, <1>9

LEMMA AppendFacts ==
  ASSUME NEW m \in MsgSet, queue \in Seq(MsgSet), queue' = Append(queue, m)
  PROVE  /\ queue' \in Seq(MsgSet) /\ Len(queue') = Len(queue) + 1 /\ Len(queue) \in Nat
         /\ \A i \in 1 .. Len(queue) : queue'[i] = queue[i]
         /\ queue'[Len(queue) + 1] = m
  OBVIOUS

LEMMA TailFacts ==
  ASSUME queue \in Seq(MsgSet), queue # <<>>, queue' = Tail(queue)
  PROVE  /\ queue' \in Seq(MsgSet) /\ Len(queue') = Len(queue) - 1 /\ Len(queue) \in Nat \ {0}
         /\ \A i \in 1 .. Len(queue') : queue'[i] = queue[i + 1]
         /\ Head(queue) = queue[1] /\ Head(queue) \in MsgSet
  OBVIOUS

\* Release takes a buffer out of the heap, and nothing else.
LEMMA ReleaseFacts ==
  ASSUME NEW b \in BufSet, Types, Release(b)
  PROVE  /\ heap' \subseteq heap /\ Id(b) \notin heap' /\ twice' \in BOOLEAN
         /\ \A x \in heap : x # Id(b) => x \in heap'
  <1>1. CASE IsBuf(b)
    BY <1>1 DEF Release, Types
  <1>2. CASE ~IsBuf(b)
    <2>1. Id(b) \notin Sess \X Nat
      BY <1>2, FieldTypes DEF IsBuf, Id
    <2> QED
      BY <1>2, <2>1 DEF Release, Types
  <1> QED
    BY <1>1, <1>2

LEMMA NoBufNotHeld ==
  ASSUME Types
  PROVE  Id(NoBuf) \notin heap
  BY FieldTypes DEF Types, NoBuf, Id

\* A step that leaves the connections and their handles alone.
LEMMA SrvOnly ==
  ASSUME OwnInv, UNCHANGED <<sessidctr, conn, pool, hdl, net>>,
         table' \in [Handle -> Handle \cup {0}], srv.pc # "free", SrvTypes', SrvFits',
         queue' \in Seq(MsgSet), QueueFits', heap' \subseteq heap, twice' \in BOOLEAN
  PROVE  OwnInv'
  <1>1. Types'
    BY DEF OwnInv, Types, ConnTypes, HdlTypes, NetTypes
  <1>2. ConnFits' /\ PoolFits' /\ RbufFits' /\ NetFits'
    BY DEF OwnInv, ConnFits, PoolFits, RbufFits, NetFits
  <1>3. PcbFits'
    BY DEF OwnInv, PcbFits
  <1> QED
    BY <1>1, <1>2, <1>3 DEF OwnInv

\* A step after which every buffer is still where it was, or released
LEMMA HeldOn ==
  ASSUME Types, HeapHeld, heap' \subseteq heap, leaked \subseteq leaked', UNCHANGED <<net, hdl, queue>>,
         SrvHolds /\ Id(srv.msg.buf) \in heap' =>
            (SrvHolds' /\ srv'.msg.buf = srv.msg.buf) \/ Id(srv.msg.buf) \in leaked'
  PROVE  HeapHeld'
  <1> SUFFICES ASSUME NEW x \in heap' PROVE Holding(x)' \/ x \in leaked'
    BY DEF HeapHeld
  <1>1. Holding(x) \/ x \in leaked
    BY DEF HeapHeld
  <1>2. CASE SrvHolds /\ Id(srv.msg.buf) = x
    BY <1>2 DEF Holding, Id
  <1> QED
    BY <1>1, <1>2 DEF Holding

\* The handler goes on after the end of a connection.
LEMMA GoOn ==
  ASSUME Types, srv.then # "none", srv' = [Forget(srv) EXCEPT !.pc = srv.then]
  PROVE  /\ SrvTypes' /\ srv'.pc = srv.then /\ srv'.kind = srv.kind /\ srv'.at = srv.at
         /\ srv'.msg.buf = srv.msg.buf /\ srv'.msg.sess = srv.msg.sess /\ srv'.msg.type = srv.msg.type
  <1> USE DEF SrvTypes, SrvSet
  <1>1. CASE srv.h = srv.msg.h
    <2>1. srv' = [srv EXCEPT !.msg.h = 0, !.pc = srv.then]
      BY <1>1 DEF Forget, Types
    <2>2. [srv.msg EXCEPT !.h = 0] \in MsgSet
      BY FieldTypes DEF MsgSet
    <2>3. PICK m \in MsgSet : m = [srv.msg EXCEPT !.h = 0]
      BY <2>2
    <2>4. m.buf = srv.msg.buf /\ m.sess = srv.msg.sess /\ m.type = srv.msg.type
      BY <2>3, FieldTypes DEF MsgSet
    <2>5. srv' = [srv EXCEPT !.msg = m, !.pc = srv.then]
      BY <2>1, <2>3 DEF Types
    <2>6. /\ SrvTypes' /\ srv'.pc = srv.then /\ srv'.kind = srv.kind /\ srv'.at = srv.at /\ srv'.msg = m
      BY <2>5 DEF Types
    <2> QED
      BY <2>4, <2>6
  <1>2. CASE srv.h # srv.msg.h
    BY <1>2 DEF Forget, Types
  <1> QED
    BY <1>1, <1>2

LEMMA DisconnectFacts ==
  ASSUME Types, NEW h \in Handle \cup {0}, NEW p \in {"idle", "decode", "send"}, srv' = Disconnect(h, p)
  PROVE  /\ SrvTypes' /\ srv'.pc = "check" /\ srv'.h = h /\ srv'.then = p
         /\ srv'.kind = srv.kind /\ srv'.at = srv.at /\ srv'.msg = srv.msg
  BY DEF Disconnect, Types, SrvTypes, SrvSet

LEMMA OwnAccept ==
  ASSUME OwnInv, HeapHeld, Accept
  PROVE  OwnInv' /\ HeapHeld'
  <1> USE DEF OwnInv
  <1>0. /\ UNCHANGED <<queue, net, srv, heap, twice, leaked>> /\ net.pc = "idle"
        /\ sessidctr' = sessidctr + 1 /\ sessidctr < MaxSess /\ sessidctr \in Nat
    BY DEF Accept, Types
  <1>1. CASE UNCHANGED <<table, pool, hdl, conn>>
    <2>1. Types'
      BY <1>0, <1>1 DEF Types, ConnTypes, HdlTypes, NetTypes, SrvTypes
    <2>2. ConnFits'
      BY <1>0, <1>1, FieldTypes DEF ConnFits
    <2>3. PcbFits' /\ PoolFits' /\ NetFits' /\ SrvFits' /\ RbufFits' /\ QueueFits'
      BY <1>0, <1>1 DEF PcbFits, PoolFits, NetFits, SrvFits, RbufFits, QueueFits, Ending
    <2>4. HeapHeld'
      BY <1>0, <1>1 DEF HeapHeld, Holding, SrvHolds, Ending
    <2> QED
      BY <2>1, <2>2, <2>3, <2>4
  <1>2. CASE ~UNCHANGED <<table, pool, hdl, conn>>
    <2>1. PICK i \in Handle, h \in pool :
             /\ table' = [table EXCEPT ![i] = h] /\ pool' = pool \ {h}
             /\ hdl' = [hdl EXCEPT ![h] = [sess |-> sessidctr + 1, pcb |-> sessidctr + 1,
                                           rbuf |-> NoBuf, newconn |-> TRUE]]
             /\ conn' = [conn EXCEPT ![sessidctr + 1] = [st |-> "open", h |-> h, sent |-> 0]]
      BY <1>0, <1>2 DEF Accept
    <2>2. PICK s \in Sess : s = sessidctr + 1
      BY <1>0, NconfAssumption DEF Sess
    <2>3. h \in Handle /\ i \in Handle /\ h \notin pool' /\ pool' \subseteq pool
      BY <2>1 DEF Types
    <2>4. /\ conn'[s].st = "open" /\ conn'[s].h = h
          /\ \A t \in Sess : t # s => conn'[t] = conn[t]
      BY <2>1, <2>2 DEF Types, ConnTypes
    <2>5. /\ hdl'[h].sess = s /\ hdl'[h].pcb = s /\ hdl'[h].rbuf = NoBuf
          /\ \A g \in Handle : g # h => hdl'[g] = hdl[g]
      BY <2>1, <2>2, <2>3 DEF Types, HdlTypes
    <2>6. Types'
      <3>1. ConnTypes'
        BY <2>1, <2>2, <2>3 DEF Types, ConnTypes
      <3>2. HdlTypes'
        BY <2>1, <2>2, <2>3, FieldTypes DEF Types, HdlTypes
      <3>3. table' \in [Handle -> Handle \cup {0}]
        BY <2>1, <2>3 DEF Types
      <3> QED
        BY <1>0, <2>3, <3>1, <3>2, <3>3 DEF Types, NetTypes, SrvTypes
    <2>7. \A t \in Sess : conn[t].st # "none" => t # s /\ conn'[t] = conn[t]
      BY <1>0, <2>2, <2>4, FieldTypes DEF ConnFits
    <2>8. \A t \in Sess : conn[t].st = "open" => conn[t].h \in Handle /\ hdl'[conn[t].h] = hdl[conn[t].h]
      BY <2>1, <2>5 DEF ConnFits
    <2>9. ConnFits'
      <3>1. ASSUME NEW t \in Sess, t # s
            PROVE  /\ conn'[t].st # "none" => t <= sessidctr' /\ conn'[t].h \in Handle
                   /\ conn'[t].st = "open" => /\ conn'[t].h \notin pool'
                                              /\ hdl'[conn'[t].h].pcb = t /\ hdl'[conn'[t].h].sess = t
        <4>1. conn'[t] = conn[t] /\ t \in Nat
          BY <2>4, <3>1, FieldTypes
        <4> QED
          BY <1>0, <2>3, <2>8, <4>1 DEF ConnFits
      <3>2. s <= sessidctr'
        BY <1>0, <2>2
      <3> QED
        BY <2>3, <2>4, <2>5, <3>1, <3>2 DEF ConnFits
    <2>10. PcbFits'
      <3>1. ASSUME NEW g \in Handle, g # h, hdl'[g].pcb # 0
            PROVE  /\ conn'[hdl'[g].pcb].h = g
                   /\ \/ conn'[hdl'[g].pcb].st = "open"
                      \/ /\ conn'[hdl'[g].pcb].st = "closed" /\ srv'.pc = "free" /\ srv'.h = g
                         /\ srv'.pcb = hdl'[g].pcb
        <4>1. hdl[g].pcb \in Sess /\ hdl'[g] = hdl[g] /\ conn[hdl[g].pcb].st # "none"
          BY <2>5, <3>1, FieldTypes, SMTT(30) DEF PcbFits
        <4> QED
          BY <1>0, <2>7, <3>1, <4>1 DEF PcbFits
      <3> QED
        BY <2>4, <2>5, <3>1 DEF PcbFits
    <2>11. PoolFits' /\ RbufFits'
      BY <2>1, <2>3, <2>5 DEF PoolFits, RbufFits, IsBuf, NoBuf, Types
    <2>12. NetFits' /\ QueueFits'
      BY <1>0 DEF NetFits, QueueFits
    <2>13. SrvFits'
      <3>1. srv.pc \in {"close", "free"} /\ srv.pcb # 0 => conn'[srv.pcb] = conn[srv.pcb]
        BY <2>7, FieldTypes DEF SrvFits
      <3>2. srv.pc = "free" /\ srv.pcb # 0 => hdl'[srv.h] = hdl[srv.h]
        BY <2>1, <2>5 DEF SrvFits, PoolFits
      <3> QED
        BY <1>0, <3>1, <3>2 DEF SrvFits, Ending
    <2>14. HeapHeld'
      <3> SUFFICES ASSUME NEW x \in heap PROVE Holding(x)' \/ x \in leaked
        BY <1>0 DEF HeapHeld
      <3>1. Holding(x) \/ x \in leaked
        BY DEF HeapHeld
      <3>2. ASSUME NEW g \in Handle, Id(hdl[g].rbuf) = x PROVE Holding(x)'
        <4>1. g # h
          BY <2>1, <3>2, NoBufNotHeld DEF PoolFits
        <4> QED
          BY <2>5, <3>2, <4>1 DEF Holding, Id
      <3> QED
        BY <1>0, <3>1, <3>2 DEF Holding, SrvHolds, Ending
    <2> QED
      BY <2>6, <2>9, <2>10, <2>11, <2>12, <2>13, <2>14
  <1> QED
    BY <1>1, <1>2

\* What the callback and the messages that it sends leave alone.
LEMMA OwnNet ==
  ASSUME OwnInv, UNCHANGED <<sessidctr, pool, srv, twice>>, NetTypes', NetFits', ConnTypes', HdlTypes',
         table' \in [Handle -> Handle \cup {0}],
         \A s \in Sess : conn'[s].st = conn[s].st /\ conn'[s].h = conn[s].h,
         \A h \in Handle : hdl'[h].pcb = hdl[h].pcb /\ hdl'[h].sess = hdl[h].sess,
         \A h \in pool : hdl'[h].rbuf = hdl[h].rbuf,
         RbufFits', queue' \in Seq(MsgSet), QueueFits', heap' \subseteq Sess \X Nat
  PROVE  OwnInv'
  <1> USE DEF OwnInv
  <1>1. Types'
    BY DEF Types, SrvTypes
  <1>2. ConnFits'
    BY DEF ConnFits
  <1>3. PcbFits'
    <2> SUFFICES ASSUME NEW h \in Handle, hdl[h].pcb # 0
                 PROVE  /\ conn'[hdl[h].pcb].h = h
                        /\ \/ conn'[hdl[h].pcb].st = "open"
                           \/ /\ conn'[hdl[h].pcb].st = "closed" /\ srv.pc = "free" /\ srv.h = h
                              /\ srv.pcb = hdl[h].pcb
      BY DEF PcbFits
    <2>1. hdl[h].pcb \in Sess
      BY FieldTypes
    <2> QED
      BY <2>1 DEF PcbFits
  <1>4. PoolFits'
    BY DEF PoolFits, Types
  <1>5. SrvFits'
    BY FieldTypes DEF SrvFits, Ending
  <1> QED
    BY <1>1, <1>2, <1>3, <1>4, <1>5

LEMMA OwnCallback ==
  ASSUME OwnInv, HeapHeld, Callback
  PROVE  OwnInv' /\ HeapHeld'
  <1> USE DEF OwnInv
  <1>0. /\ UNCHANGED <<sessidctr, table, hdl, pool, queue, srv, heap, twice, leaked>> /\ net.pc = "idle"
    BY DEF Callback
  <1>1. PICK s \in Sess :
          /\ conn[s].st = "open"
          /\ \/ \E n \in 1 .. MaxSeg :
                   /\ net' = [Idle EXCEPT !.pc = "connect", !.h = conn[s].h, !.n = n]
                   /\ conn' = [conn EXCEPT ![s].sent = @ + n]
             \/ \E p \in {"connect", "check"} :
                   /\ net' = [Idle EXCEPT !.pc = p, !.h = conn[s].h]
                   /\ conn' = conn
    BY DEF Callback
  <1>2. /\ NetTypes' /\ ConnTypes' /\ net'.pc \in {"connect", "check"} /\ net'.h = conn[s].h
        /\ net'.n <= MaxSeg /\ net'.n <= conn'[s].sent
        /\ \A t \in Sess : conn'[t].st = conn[t].st /\ conn'[t].h = conn[t].h
    <2>0. NoBuf \in BufSet /\ MaxSeg \in Nat
      BY FieldTypes, NconfAssumption
    <2>1. PICK h \in Handle \cup {0} : h = conn[s].h
      BY FieldTypes
    <2>4. ASSUME NEW n \in Nat, NEW p \in {"connect", "check"},
                 net' = [pc |-> p, h |-> h, n |-> n, buf |-> NoBuf, pcb |-> 0]
          PROVE  NetTypes' /\ net'.pc = p /\ net'.h = h /\ net'.n = n
      BY <2>0, <2>4 DEF NetTypes
    <2>2. CASE \E n \in 1 .. MaxSeg :
                   /\ net' = [Idle EXCEPT !.pc = "connect", !.h = conn[s].h, !.n = n]
                   /\ conn' = [conn EXCEPT ![s].sent = @ + n]
      <3>1. PICK n \in 1 .. MaxSeg :
                   /\ net' = [Idle EXCEPT !.pc = "connect", !.h = h, !.n = n]
                   /\ conn' = [conn EXCEPT ![s].sent = @ + n]
        BY <2>1, <2>2
      <3>3. n \in Nat
        BY <2>0
      <3>6. net' = [Idle EXCEPT !.pc = "connect", !.h = h, !.n = n]
        BY <3>1
      <3>7. net' = [pc |-> "connect", h |-> h, n |-> n, buf |-> NoBuf, pcb |-> 0]
        BY <3>3, <3>6 DEF Idle
      <3>2. NetTypes' /\ net'.pc = "connect" /\ net'.h = h /\ net'.n = n
        BY <2>4, <3>3, <3>7
      <3>4. \A t \in Sess : /\ conn'[t].st = conn[t].st /\ conn'[t].h = conn[t].h
                            /\ conn'[t] \in [st : {"none", "open", "closed"}, h : Handle \cup {0}, sent : Nat]
        BY <3>1, <3>3, SMTT(30) DEF ConnTypes, Types
      <3>5. ConnTypes'
        BY <3>1, <3>4 DEF ConnTypes, Types
      <3>8. conn'[s].sent = conn[s].sent + n /\ conn[s].sent \in Nat
        BY <3>1, FieldTypes DEF ConnTypes, Types
      <3>9. n <= MaxSeg /\ n <= conn'[s].sent
        BY <2>0, <3>3, <3>8
      <3> QED
        BY <2>1, <3>2, <3>4, <3>5, <3>9
    <2>3. CASE \E p \in {"connect", "check"} :
                   /\ net' = [Idle EXCEPT !.pc = p, !.h = conn[s].h]
                   /\ conn' = conn
      <3>1. PICK p \in {"connect", "check"} : net' = [Idle EXCEPT !.pc = p, !.h = h] /\ conn' = conn
        BY <2>1, <2>3
      <3>2. net' = [pc |-> p, h |-> h, n |-> 0, buf |-> NoBuf, pcb |-> 0]
        BY <3>1 DEF Idle
      <3>3. NetTypes' /\ net'.pc = p /\ net'.h = h /\ net'.n = 0
        BY <2>4, <3>2
      <3>4. 0 <= MaxSeg /\ 0 <= conn'[s].sent
        BY <2>0, <3>1, FieldTypes
      <3> QED
        BY <2>1, <3>1, <3>3, <3>4 DEF ConnTypes, Types
    <2> QED
      BY <1>1, <2>2, <2>3
  <1>3. NetFits'
    <2>1. conn[s].h \in Handle /\ hdl[conn[s].h].pcb = s /\ s # 0
      BY <1>1, FieldTypes DEF ConnFits
    <2> QED
      BY <1>0, <1>1, <1>2, <2>1 DEF NetFits
  <1>4. RbufFits' /\ QueueFits' /\ HdlTypes'
    BY <1>0 DEF RbufFits, QueueFits, HdlTypes, Types
  <1>5. OwnInv'
    BY <1>0, <1>2, <1>3, <1>4, OwnNet DEF Types
  <1>6. HeapHeld'
    BY <1>0, <1>2 DEF HeapHeld, Holding, SrvHolds, Ending
  <1> QED
    BY <1>5, <1>6

LEMMA OwnNetConnect ==
  ASSUME OwnInv, HeapHeld, NetConnect
  PROVE  OwnInv' /\ HeapHeld'
  <1> USE DEF OwnInv
  <1>0. /\ UNCHANGED <<sessidctr, conn, table, pool, srv, heap, twice, leaked>> /\ net.pc = "connect"
    BY DEF NetConnect
  <1>1. NetTypes' /\ net'.pc \in {"data", "check"} /\ net'.h = net.h /\ net'.n = net.n /\ (net'.pc = "data" => net.n > 0)
    <2>1. net' = [net EXCEPT !.pc = IF net.n > 0 THEN "data" ELSE "check"]
      BY DEF NetConnect
    <2>2. CASE net.n > 0
      BY <2>1, <2>2 DEF NetTypes, Types
    <2>3. CASE ~(net.n > 0)
      BY <2>1, <2>3 DEF NetTypes, Types
    <2> QED
      BY <2>2, <2>3
  <1>2. net.h \in Handle
    BY <1>0 DEF NetFits
  <1>3. /\ HdlTypes'
        /\ \A h \in Handle : hdl'[h].pcb = hdl[h].pcb /\ hdl'[h].sess = hdl[h].sess /\ hdl'[h].rbuf = hdl[h].rbuf
    <2>1. CASE hdl' = [hdl EXCEPT ![net.h].newconn = FALSE]
      <3>1. \A h \in Handle :
               /\ hdl'[h].pcb = hdl[h].pcb /\ hdl'[h].sess = hdl[h].sess /\ hdl'[h].rbuf = hdl[h].rbuf
               /\ hdl'[h] \in [sess : Sess \cup {0}, pcb : Sess \cup {0}, rbuf : BufSet, newconn : BOOLEAN]
        BY <1>2, <2>1 DEF HdlTypes, Types
      <3> QED
        BY <2>1, <3>1 DEF HdlTypes, Types
    <2>2. CASE hdl' = hdl
      BY <2>2 DEF HdlTypes, Types
    <2> QED
      BY <2>1, <2>2 DEF NetConnect
  <1>4. NetFits' /\ RbufFits'
    BY <1>0, <1>1, <1>2, <1>3 DEF NetFits, RbufFits, IsBuf
  <1>5. /\ queue' \in Seq(MsgSet) /\ QueueFits' /\ Len(queue) <= Len(queue')
        /\ \A i \in 1 .. Len(queue) : i \in 1 .. Len(queue') /\ queue'[i] = queue[i]
    <2>1. CASE queue' = queue
      BY <2>1, FieldTypes DEF QueueFits, Types
    <2>2. CASE queue' # queue
      <3>1. PICK m \in MsgSet : m.type = "connect" /\ m.buf = NoBuf /\ queue' = Append(queue, m)
        <4>1. queue' = Append(queue, [type |-> "connect", h |-> net.h, sess |-> hdl[net.h].sess, buf |-> NoBuf])
          BY <2>2 DEF NetConnect, Enqueue
        <4>2. [type |-> "connect", h |-> net.h, sess |-> hdl[net.h].sess, buf |-> NoBuf] \in MsgSet
          BY <1>2, FieldTypes DEF MsgSet
        <4> QED
          BY <4>1, <4>2
      <3> QED
        BY <3>1, AppendFacts DEF QueueFits, Types
    <2> QED
      BY <2>1, <2>2
  <1>6. OwnInv'
    BY <1>0, <1>1, <1>3, <1>4, <1>5, OwnNet DEF Types, ConnTypes
  <1>7. HeapHeld'
    <2> SUFFICES ASSUME NEW x \in heap PROVE Holding(x)' \/ x \in leaked
      BY <1>0 DEF HeapHeld
    <2>1. Holding(x) \/ x \in leaked
      BY DEF HeapHeld
    <2> QED
      BY <1>0, <1>3, <1>5, <2>1 DEF Holding, Id, SrvHolds, Ending
  <1> QED
    BY <1>6, <1>7

\* The buffer that NetData fills is that of the open connection.
LEMMA DataFacts ==
  ASSUME OwnInv, NetData, Valid(net.h)
  PROVE  \E b \in BufSet, s \in Sess :
            /\ s = hdl[net.h].pcb /\ s = hdl[net.h].sess /\ conn[s].st = "open" /\ conn[s].h = net.h
            /\ b = Grown(hdl[net.h].rbuf, s, net.n) /\ b.sess = s /\ b.hi = conn[s].sent
            /\ net.h \in Handle \ pool
            /\ hdl' = [hdl EXCEPT ![net.h].rbuf = b] /\ HdlTypes'
            /\ hdl'[net.h].rbuf = b /\ hdl'[net.h].pcb = s /\ hdl'[net.h].sess = s
            /\ \A h \in Handle : h # net.h => hdl'[h] = hdl[h]
            /\ \A h \in Handle : hdl'[h].pcb = hdl[h].pcb /\ hdl'[h].sess = hdl[h].sess
            /\ heap' = heap \cup {Id(b)} /\ Id(b) \in Sess \X Nat
            /\ IF IsComplete(b)
               THEN net' = [net EXCEPT !.pc = "unlink", !.buf = b]
               ELSE net' = Idle
  <1> USE DEF OwnInv
  <1>1. PICK s \in Sess : s = hdl[net.h].pcb /\ net.h \in Handle /\ conn[s].st = "open" /\ conn[s].h = net.h
    <2>1. net.h \in Handle /\ hdl[net.h].pcb # 0 /\ conn[hdl[net.h].pcb].st = "open"
      BY DEF NetData, NetFits
    <2>2. hdl[net.h].pcb \in Sess /\ conn[hdl[net.h].pcb].h = net.h
      BY <2>1, FieldTypes DEF PcbFits
    <2> QED
      BY <2>1, <2>2
  <1>2. hdl[net.h].sess = s /\ net.h \notin pool
    BY <1>1 DEF ConnFits
  <1>3. PICK b : b = Grown(hdl[net.h].rbuf, s, net.n)
    OBVIOUS
  <1>4. b \in BufSet /\ b.sess = s /\ b.hi = conn[s].sent
    <2>1. hdl[net.h].rbuf.lo \in Nat
      BY <1>1, FieldTypes DEF BufSet
    <2>2. conn[s].sent \in Nat /\ net.n \in Nat /\ conn[s].sent - net.n + 1 \in Nat
      <3>1. conn[s].sent \in Nat /\ net.n \in Nat /\ net.n <= conn[s].sent
        BY <1>1, FieldTypes DEF NetFits, NetData
      <3> QED
        BY <3>1
    <2> QED
      BY <1>3, <2>1, <2>2 DEF Grown, BufSet
  <1>5. /\ hdl' = [hdl EXCEPT ![net.h].rbuf = b] /\ heap' = heap \cup {Id(b)}
        /\ IF IsComplete(b) THEN net' = [net EXCEPT !.pc = "unlink", !.buf = b] ELSE net' = Idle
    BY <1>1, <1>2, <1>3 DEF NetData
  <1>6. /\ hdl'[net.h].rbuf = b /\ hdl'[net.h].pcb = s /\ hdl'[net.h].sess = s
        /\ \A h \in Handle : h # net.h => hdl'[h] = hdl[h]
    BY <1>1, <1>2, <1>5 DEF HdlTypes, Types
  <1>7. HdlTypes'
    BY <1>1, <1>4, <1>5 DEF HdlTypes, Types
  <1>8. Id(b) \in Sess \X Nat
    BY <1>4 DEF Id, BufSet
  <1>9. \A h \in Handle : hdl'[h].pcb = hdl[h].pcb /\ hdl'[h].sess = hdl[h].sess
    BY <1>1, <1>2, <1>6
  <1>10. b \in BufSet
    BY <1>4
  <1> WITNESS b \in BufSet, s \in Sess
  <1> QED
    BY <1>1, <1>2, <1>3, <1>4, <1>5, <1>6, <1>7, <1>8, <1>9

LEMMA OwnNetData ==
  ASSUME OwnInv, HeapHeld, NetData
  PROVE  OwnInv' /\ HeapHeld'
  <1> USE DEF OwnInv
  <1>0. /\ UNCHANGED <<sessidctr, conn, table, pool, queue, srv, twice, leaked>> /\ net.pc = "data"
    BY DEF NetData
  <1>1. CASE ~Valid(net.h)
    <2>1. UNCHANGED <<hdl, heap>> /\ net' = Idle
      BY <1>1 DEF NetData
    <2>2. NetTypes' /\ NetFits' /\ net'.pc = "idle"
      BY <2>1, FieldTypes DEF Idle, NetTypes, NetFits
    <2>3. RbufFits' /\ QueueFits' /\ HdlTypes' /\ ConnTypes' /\ queue' \in Seq(MsgSet) /\ heap' \subseteq Sess \X Nat
      BY <1>0, <2>1 DEF RbufFits, QueueFits, HdlTypes, ConnTypes, Types
    <2>4. OwnInv'
      BY <1>0, <2>1, <2>2, <2>3, OwnNet DEF Types
    <2>5. HeapHeld'
      BY <1>0, <2>1 DEF HeapHeld, Holding, SrvHolds, Ending
    <2> QED
      BY <2>4, <2>5
  <1>2. CASE Valid(net.h)
    <2>1. PICK b \in BufSet, s \in Sess :
            /\ s = hdl[net.h].pcb /\ s = hdl[net.h].sess /\ conn[s].st = "open" /\ conn[s].h = net.h
            /\ b = Grown(hdl[net.h].rbuf, s, net.n) /\ b.sess = s
            /\ net.h \in Handle \ pool /\ HdlTypes'
            /\ hdl'[net.h].rbuf = b /\ hdl'[net.h].pcb = s /\ hdl'[net.h].sess = s
            /\ \A h \in Handle : h # net.h => hdl'[h] = hdl[h]
            /\ \A h \in Handle : hdl'[h].pcb = hdl[h].pcb /\ hdl'[h].sess = hdl[h].sess
            /\ heap' = heap \cup {Id(b)} /\ Id(b) \in Sess \X Nat
            /\ IF IsComplete(b)
               THEN net' = [net EXCEPT !.pc = "unlink", !.buf = b]
               ELSE net' = Idle
      BY <1>2, DataFacts
    <2>2. NetTypes' /\ NetFits'
      <3>1. CASE net' = Idle
        BY <3>1, FieldTypes DEF Idle, NetTypes, NetFits
      <3>2. CASE net' = [net EXCEPT !.pc = "unlink", !.buf = b]
        <4>1. NetTypes' /\ net'.pc = "unlink" /\ net'.h = net.h /\ net'.buf = b
          BY <3>2 DEF NetTypes, Types
        <4> QED
          BY <1>0, <2>1, <4>1, FieldTypes DEF NetFits
      <3> QED
        BY <2>1, <3>1, <3>2
    <2>3. RbufFits'
      <3>1. ASSUME NEW h \in Handle, IsBuf(hdl'[h].rbuf) PROVE hdl'[h].rbuf.sess = hdl'[h].sess
        BY <2>1, <3>1 DEF RbufFits
      <3> QED
        BY <3>1 DEF RbufFits, IsBuf
    <2>4. QueueFits' /\ ConnTypes' /\ queue' \in Seq(MsgSet) /\ table' \in [Handle -> Handle \cup {0}]
      BY <1>0 DEF QueueFits, ConnTypes, Types
    <2>5. heap' \subseteq Sess \X Nat
      BY <2>1 DEF Types
    <2>6. \A h \in pool : hdl'[h].rbuf = hdl[h].rbuf
      BY <2>1 DEF Types
    <2>7. OwnInv'
      BY <1>0, <2>1, <2>2, <2>3, <2>4, <2>5, <2>6, OwnNet
    <2>8. HeapHeld'
      <3> SUFFICES ASSUME NEW x \in heap' PROVE Holding(x)' \/ x \in leaked
        BY <1>0 DEF HeapHeld
      <3>1. Id(hdl'[net.h].rbuf) = x => Holding(x)'
        BY <2>1 DEF Holding, Id
      <3>2. CASE x = Id(b)
        BY <2>1, <3>1, <3>2
      <3>3. CASE x \in heap /\ x # Id(b)
        <4>1. Holding(x) \/ x \in leaked
          BY <3>3 DEF HeapHeld
        <4>2. Id(hdl[net.h].rbuf) # x
          <5>1. CASE IsBuf(hdl[net.h].rbuf)
            <6>1. hdl[net.h].rbuf.sess = s /\ b.lo = hdl[net.h].rbuf.lo
              BY <2>1, <5>1 DEF RbufFits, Grown
            <6> QED
              BY <2>1, <3>3, <6>1 DEF Id
          <5>2. CASE ~IsBuf(hdl[net.h].rbuf)
            <6>1. x \in Sess \X Nat
              BY <3>3 DEF Types
            <6> QED
              BY <5>2, <6>1, FieldTypes DEF IsBuf, Id
          <5> QED
            BY <5>1, <5>2
        <4>3. ASSUME NEW h \in Handle, Id(hdl[h].rbuf) = x PROVE Holding(x)'
          BY <2>1, <4>2, <4>3 DEF Holding, Id
        <4> QED
          BY <1>0, <4>1, <4>3 DEF Holding, SrvHolds, Ending
      <3> QED
        BY <2>1, <3>2, <3>3
    <2> QED
      BY <2>7, <2>8
  <1> QED
    BY <1>1, <1>2

LEMMA OwnNetUnlink ==
  ASSUME OwnInv, HeapHeld, NetUnlink
  PROVE  OwnInv' /\ HeapHeld'
  <1> USE DEF OwnInv
  <1>0. /\ UNCHANGED <<sessidctr, conn, table, pool, queue, srv, heap, twice, leaked>> /\ net.pc = "unlink"
        /\ net.h \in Handle /\ hdl[net.h].rbuf = net.buf /\ hdl[net.h].pcb # 0
    BY DEF NetUnlink, NetFits
  <1>1. NetTypes' /\ net'.pc = "enqueue" /\ net'.h = net.h /\ net'.buf = net.buf
    BY DEF NetUnlink, NetTypes, Types
  <1>2. /\ HdlTypes'
        /\ \A h \in Handle : /\ hdl'[h].pcb = hdl[h].pcb /\ hdl'[h].sess = hdl[h].sess
                             /\ hdl'[h].rbuf = hdl[h].rbuf \/ (h = net.h /\ hdl'[h].rbuf = NoBuf)
    <2>1. CASE hdl' = [hdl EXCEPT ![net.h].rbuf = NoBuf]
      <3>1. \A h \in Handle :
               /\ hdl'[h].pcb = hdl[h].pcb /\ hdl'[h].sess = hdl[h].sess
               /\ hdl'[h].rbuf = hdl[h].rbuf \/ (h = net.h /\ hdl'[h].rbuf = NoBuf)
        BY <1>0, <2>1 DEF HdlTypes, Types
      <3>3. NoBuf \in BufSet
        BY FieldTypes
      <3>2. HdlTypes'
        BY <1>0, <2>1, <3>3 DEF HdlTypes, Types
      <3> QED
        BY <3>1, <3>2
    <2>2. CASE hdl' = hdl
      BY <2>2 DEF HdlTypes, Types
    <2> QED
      BY <2>1, <2>2 DEF NetUnlink
  <1>3. net.h \notin pool
    BY <1>0 DEF PoolFits
  <1>4. NetFits' /\ RbufFits'
    BY <1>0, <1>1, <1>2 DEF NetFits, RbufFits, IsBuf, NoBuf
  <1>5. QueueFits' /\ ConnTypes' /\ queue' \in Seq(MsgSet) /\ table' \in [Handle -> Handle \cup {0}]
        /\ heap' \subseteq Sess \X Nat
    BY <1>0 DEF QueueFits, ConnTypes, Types
  <1>6. OwnInv'
    <2>1. \A h \in pool : hdl'[h].rbuf = hdl[h].rbuf
      BY <1>2, <1>3 DEF Types
    <2> QED
      BY <1>0, <1>1, <1>2, <1>4, <1>5, <2>1, OwnNet
  <1>7. HeapHeld'
    <2> SUFFICES ASSUME NEW x \in heap PROVE Holding(x)' \/ x \in leaked
      BY <1>0 DEF HeapHeld
    <2>1. Holding(x) \/ x \in leaked
      BY DEF HeapHeld
    <2>2. ASSUME NEW h \in Handle, Id(hdl[h].rbuf) = x PROVE Holding(x)'
      BY <1>0, <1>1, <1>2, <2>2 DEF Holding, Id
    <2> QED
      BY <1>0, <1>1, <2>1, <2>2 DEF Holding, Id, SrvHolds, Ending
  <1> QED
    BY <1>6, <1>7

LEMMA OwnNetEnqueue ==
  ASSUME OwnInv, HeapHeld, NetEnqueue
  PROVE  OwnInv' /\ HeapHeld'
  <1> USE DEF OwnInv
  <1>0. /\ UNCHANGED <<sessidctr, conn, table, hdl, pool, srv, heap, twice, leaked>> /\ net.pc = "enqueue"
        /\ net.h \in Handle /\ net' = Idle
    BY DEF NetEnqueue, NetFits
  <1>1. NetTypes' /\ NetFits' /\ net'.pc = "idle"
    BY <1>0, FieldTypes DEF Idle, NetTypes, NetFits
  <1>2. PICK m \in MsgSet : m.type = "message" /\ m.buf = net.buf /\ queue' = Append(queue, m)
    <2>1. [type |-> "message", h |-> net.h, sess |-> net.buf.sess, buf |-> net.buf] \in MsgSet
      BY <1>0, FieldTypes DEF MsgSet, BufSet
    <2> QED
      BY <2>1 DEF NetEnqueue, Enqueue
  <1>3. /\ queue' \in Seq(MsgSet) /\ QueueFits' /\ Len(queue') = Len(queue) + 1 /\ Len(queue) \in Nat
        /\ \A i \in 1 .. Len(queue) : i \in 1 .. Len(queue') /\ queue'[i] = queue[i]
        /\ queue'[Len(queue) + 1].buf = net.buf
    BY <1>2, AppendFacts DEF QueueFits, Types
  <1>4. OwnInv'
    BY <1>0, <1>1, <1>3, OwnNet DEF Types, ConnTypes, HdlTypes, RbufFits
  <1>5. HeapHeld'
    <2> SUFFICES ASSUME NEW x \in heap PROVE Holding(x)' \/ x \in leaked
      BY <1>0 DEF HeapHeld
    <2>1. Holding(x) \/ x \in leaked
      BY DEF HeapHeld
    <2>2. ASSUME NEW i \in 1 .. Len(queue), Id(queue[i].buf) = x PROVE Holding(x)'
      BY <1>3, <2>2 DEF Holding, Id
    <2>3. CASE Id(net.buf) = x
      BY <1>3, <2>3 DEF Holding, Id
    <2> QED
      BY <1>0, <2>1, <2>2, <2>3 DEF Holding, SrvHolds, Ending
  <1> QED
    BY <1>4, <1>5

LEMMA OwnNetCheck ==
  ASSUME OwnInv, HeapHeld, NetCheck
  PROVE  OwnInv' /\ HeapHeld'
  <1> USE DEF OwnInv
  <1>0. /\ UNCHANGED <<sessidctr, conn, hdl, pool, queue, srv, heap, twice, leaked>> /\ net.pc = "check"
        /\ net.h \in Handle /\ hdl[net.h].pcb \in Sess \cup {0}
    BY FieldTypes DEF NetCheck, NetFits
  <1>1. NetTypes' /\ NetFits'
    <2>1. CASE net' = Idle
      BY <2>1, FieldTypes DEF Idle, NetTypes, NetFits
    <2>2. CASE net' = [net EXCEPT !.pc = "free", !.pcb = hdl[net.h].pcb]
      <3>1. NetTypes' /\ net'.pc = "free" /\ net'.h = net.h /\ net'.pcb = hdl[net.h].pcb
        BY <1>0, <2>2 DEF NetTypes, Types
      <3> QED
        BY <1>0, <3>1 DEF NetFits
    <2> QED
      BY <2>1, <2>2 DEF NetCheck
  <1>2. table' \in [Handle -> Handle \cup {0}]
    BY DEF NetCheck, Types
  <1>3. OwnInv'
    BY <1>0, <1>1, <1>2, OwnNet DEF Types, ConnTypes, HdlTypes, RbufFits, QueueFits
  <1>4. HeapHeld'
    BY <1>0 DEF HeapHeld, Holding, SrvHolds, Ending
  <1> QED
    BY <1>3, <1>4

LEMMA OwnNetFree ==
  ASSUME OwnInv, HeapHeld, NetFree
  PROVE  OwnInv' /\ HeapHeld'
  <1> USE DEF OwnInv
  <1>0. /\ UNCHANGED <<sessidctr, table, queue, srv, leaked>> /\ net' = Idle /\ net.pc = "free"
        /\ pool' = pool \cup {net.h}
        /\ hdl' = [hdl EXCEPT ![net.h].pcb = 0, ![net.h].rbuf = NoBuf]
        /\ Release(hdl[net.h].rbuf) /\ conn' = Closed(net.pcb)
    BY DEF NetFree
  <1>1. PICK s \in Sess : s = net.pcb /\ s = hdl[net.h].pcb /\ net.h \in Handle /\ conn[s].st = "open"
                          /\ conn[s].h = net.h
    <2>1. net.h \in Handle /\ hdl[net.h].pcb # 0 /\ conn[hdl[net.h].pcb].st = "open" /\ net.pcb = hdl[net.h].pcb
      BY <1>0 DEF NetFits
    <2>2. hdl[net.h].pcb \in Sess /\ conn[hdl[net.h].pcb].h = net.h
      BY <2>1, FieldTypes DEF PcbFits
    <2> QED
      BY <2>1, <2>2
  <1>2. /\ ConnTypes' /\ conn'[s].st = "closed" /\ conn'[s].h = conn[s].h
        /\ \A t \in Sess : t # s => conn'[t] = conn[t]
    <2>1. conn' = [conn EXCEPT ![s].st = "closed"]
      BY <1>0, <1>1, FieldTypes DEF Closed
    <2> QED
      BY <2>1 DEF ConnTypes, Types
  <1>3. /\ hdl'[net.h].pcb = 0 /\ hdl'[net.h].rbuf = NoBuf /\ HdlTypes'
        /\ \A h \in Handle : h # net.h => hdl'[h] = hdl[h]
    <2>1. NoBuf \in BufSet
      BY FieldTypes
    <2> QED
      BY <1>0, <1>1, <2>1 DEF HdlTypes, Types
  <1>4. heap' \subseteq heap /\ Id(hdl[net.h].rbuf) \notin heap' /\ twice' \in BOOLEAN
    BY <1>0, <1>1, ReleaseFacts, FieldTypes
  <1>5. NetTypes' /\ NetFits' /\ net'.pc = "idle"
    BY <1>0, FieldTypes DEF Idle, NetTypes, NetFits
  <1>6. Types'
    BY <1>0, <1>1, <1>2, <1>3, <1>4, <1>5 DEF Types, SrvTypes
  <1>7. ConnFits'
    <2>1. ASSUME NEW t \in Sess, t # s
          PROVE  /\ conn'[t].st # "none" => t <= sessidctr' /\ conn'[t].h \in Handle
                 /\ conn'[t].st = "open" => /\ conn'[t].h \notin pool'
                                            /\ hdl'[conn'[t].h].pcb = t /\ hdl'[conn'[t].h].sess = t
      <3>1. conn'[t] = conn[t] /\ (conn[t].st = "open" => conn[t].h # net.h)
        BY <1>1, <1>2, <2>1 DEF ConnFits
      <3>2. pool' = pool \cup {net.h} /\ sessidctr' = sessidctr
        BY <1>0
      <3>3. conn[t].st # "none" => t <= sessidctr /\ conn[t].h \in Handle
        BY DEF ConnFits
      <3>4. conn[t].st = "open" => /\ conn[t].h \in Handle /\ conn[t].h \notin pool
                                   /\ hdl[conn[t].h].pcb = t /\ hdl[conn[t].h].sess = t
        BY DEF ConnFits
      <3>5. conn[t].st = "open" => hdl'[conn[t].h] = hdl[conn[t].h]
        BY <1>3, <3>1, <3>4
      <3> HIDE DEF OwnInv
      <3> QED
        BY <3>1, <3>2, <3>3, <3>4, <3>5
    <2>2. s <= sessidctr' /\ conn'[s].h \in Handle /\ conn'[s].st = "closed"
      BY <1>0, <1>1, <1>2 DEF ConnFits
    <2> QED
      BY <2>1, <2>2 DEF ConnFits
  <1>8. PcbFits'
    <2> SUFFICES ASSUME NEW h \in Handle, hdl'[h].pcb # 0
                 PROVE  /\ conn'[hdl'[h].pcb].h = h
                        /\ \/ conn'[hdl'[h].pcb].st = "open"
                           \/ /\ conn'[hdl'[h].pcb].st = "closed" /\ srv.pc = "free" /\ srv.h = h
                              /\ srv.pcb = hdl'[h].pcb
      BY <1>0 DEF PcbFits
    <2>1. h # net.h /\ hdl'[h] = hdl[h] /\ hdl[h].pcb \in Sess /\ hdl[h].pcb # s
      BY <1>1, <1>3, FieldTypes DEF PcbFits
    <2> QED
      BY <1>2, <2>1 DEF PcbFits
  <1>9. PoolFits' /\ RbufFits' /\ QueueFits'
    <2>1. PoolFits'
      BY <1>0, <1>1, <1>3 DEF PoolFits, Types
    <2>2. ASSUME NEW h \in Handle PROVE IsBuf(hdl'[h].rbuf) => hdl'[h].rbuf.sess = hdl'[h].sess
      <3>1. CASE h = net.h
        BY <1>3, <3>1 DEF IsBuf, NoBuf
      <3>2. CASE h # net.h
        BY <1>3, <3>2 DEF RbufFits
      <3> QED
        BY <3>1, <3>2
    <2>3. QueueFits'
      BY <1>0 DEF QueueFits
    <2> QED
      BY <2>1, <2>2, <2>3 DEF RbufFits, IsBuf
  <1>10. SrvFits'
    <2>1. srv.pc \in {"close", "free"} /\ srv.pcb # 0 =>
             conn'[srv.pcb].st # "none" /\ conn'[srv.pcb].h = srv.h
      BY <1>2, FieldTypes DEF SrvFits
    <2>2. srv.pc = "free" /\ srv.pcb # 0 =>
             conn'[srv.pcb].st = "closed" /\ hdl'[srv.h].pcb = srv.pcb
      <3>1. srv.pc = "free" /\ srv.pcb # 0 => srv.h # net.h /\ srv.h \in Handle /\ srv.pcb # s /\ srv.pcb \in Sess
        BY <1>1, FieldTypes DEF SrvFits
      <3> QED
        BY <1>2, <1>3, <3>1 DEF SrvFits
    <2> QED
      BY <1>0, <2>1, <2>2 DEF SrvFits, Ending
  <1>11. HeapHeld'
    <2> SUFFICES ASSUME NEW x \in heap' PROVE Holding(x)' \/ x \in leaked
      BY <1>0 DEF HeapHeld
    <2>1. Holding(x) \/ x \in leaked
      BY <1>4 DEF HeapHeld
    <2>2. ASSUME NEW h \in Handle, Id(hdl[h].rbuf) = x PROVE Holding(x)'
      BY <1>3, <1>4, <2>2 DEF Holding, Id
    <2> QED
      BY <1>0, <2>1, <2>2 DEF Holding, SrvHolds, Ending
  <1> QED
    BY <1>5, <1>6, <1>7, <1>8, <1>9, <1>10, <1>11

LEMMA OwnSrvRecv ==
  ASSUME OwnInv, HeapHeld, SrvRecv
  PROVE  OwnInv' /\ HeapHeld'
  <1> USE DEF OwnInv
  <1>0. /\ UNCHANGED <<sessidctr, conn, table, hdl, pool, net, leaked>> /\ srv.pc = "idle" /\ queue # <<>>
        /\ queue' = Tail(queue)
    BY DEF SrvRecv
  <1>1. PICK m \in MsgSet : m = queue[1] /\ m = Head(queue)
    BY <1>0, TailFacts DEF Types
  <1>2. /\ queue' \in Seq(MsgSet) /\ Len(queue') = Len(queue) - 1 /\ Len(queue) \in Nat \ {0}
        /\ \A i \in 1 .. Len(queue') : queue'[i] = queue[i + 1]
    BY <1>0, TailFacts DEF Types
  <1>3. QueueFits' /\ (m.type = "connect" => m.buf = NoBuf)
    BY <1>1, <1>2 DEF QueueFits
  <1>4. CASE Valid(m.h)
    <2>1. /\ srv' = [srv EXCEPT !.pc = IF m.type = "connect" THEN "send" ELSE "decode",
                                !.msg = m, !.at = 0, !.kind = "hello", !.bye = FALSE]
          /\ UNCHANGED <<heap, twice>>
      BY <1>1, <1>4 DEF SrvRecv
    <2>2. /\ SrvTypes' /\ srv'.pc = (IF m.type = "connect" THEN "send" ELSE "decode") /\ srv'.msg = m
      BY <2>1 DEF SrvTypes, SrvSet, Types
    <2>3. SrvFits' /\ SrvHolds'
      BY <1>3, <2>2 DEF SrvFits, Ending, SrvHolds
    <2>4. OwnInv'
      BY <1>0, <1>2, <1>3, <2>1, <2>2, <2>3, SrvOnly DEF Types
    <2>5. HeapHeld'
      <3> SUFFICES ASSUME NEW x \in heap PROVE Holding(x)' \/ x \in leaked
        BY <1>0, <2>1 DEF HeapHeld
      <3>1. Holding(x) \/ x \in leaked
        BY DEF HeapHeld
      <3>2. ASSUME NEW i \in 1 .. Len(queue), Id(queue[i].buf) = x PROVE Holding(x)'
        <4>1. CASE i = 1
          BY <1>1, <2>2, <2>3, <3>2, <4>1 DEF Holding, Id
        <4>2. CASE i # 1
          <5>1. i - 1 \in 1 .. Len(queue') /\ queue'[i - 1] = queue[i]
            BY <1>2, <4>2
          <5> QED
            BY <3>2, <5>1 DEF Holding, Id
        <4> QED
          BY <4>1, <4>2
      <3> QED
        BY <1>0, <3>1, <3>2 DEF Holding, SrvHolds
    <2> QED
      BY <2>4, <2>5
  <1>5. CASE ~Valid(m.h)
    <2>1. srv' = srv /\ Release(m.buf) /\ m.buf \in BufSet
      BY <1>1, <1>5 DEF SrvRecv, MsgSet
    <2>2. heap' \subseteq heap /\ Id(m.buf) \notin heap' /\ twice' \in BOOLEAN
      BY <2>1, ReleaseFacts
    <2>3. SrvFits' /\ SrvTypes'
      BY <1>0, <2>1 DEF SrvFits, Ending, SrvTypes, Types
    <2>4. OwnInv'
      BY <1>0, <1>2, <1>3, <2>2, <2>3, SrvOnly DEF Types
    <2>5. HeapHeld'
      <3> SUFFICES ASSUME NEW x \in heap' PROVE Holding(x)' \/ x \in leaked
        BY <1>0 DEF HeapHeld
      <3>1. Holding(x) \/ x \in leaked
        BY <2>2 DEF HeapHeld
      <3>2. ASSUME NEW i \in 1 .. Len(queue), Id(queue[i].buf) = x PROVE Holding(x)'
        <4>1. CASE i = 1
          BY <1>1, <2>2, <3>2, <4>1
        <4>2. CASE i # 1
          <5>1. i - 1 \in 1 .. Len(queue') /\ queue'[i - 1] = queue[i]
            BY <1>2, <4>2
          <5> QED
            BY <3>2, <5>1 DEF Holding, Id
        <4> QED
          BY <4>1, <4>2
      <3> QED
        BY <1>0, <3>1, <3>2 DEF Holding, SrvHolds
    <2> QED
      BY <2>4, <2>5
  <1> QED
    BY <1>4, <1>5

\* The three ways to go on at "decode"
LEMMA DecodeCases ==
  ASSUME Types, SrvDecode
  PROVE  \/ /\ Decoded(srv.msg.buf) = <<>> /\ srv' = Disconnect(srv.msg.h, "idle")
            /\ leaked' = leaked \cup {Id(srv.msg.buf)} /\ UNCHANGED <<heap, twice, done>>
         \/ /\ Decoded(srv.msg.buf) # <<>> /\ srv.at = Len(Decoded(srv.msg.buf))
            /\ srv' = Disconnect(srv.msg.h, "idle") \/ srv' = [srv EXCEPT !.pc = "idle"]
            /\ Release(srv.msg.buf) /\ UNCHANGED <<leaked, done>>
         \/ /\ Decoded(srv.msg.buf) # <<>> /\ srv.at # Len(Decoded(srv.msg.buf))
            /\ \E k \in Kinds : srv' = [srv EXCEPT !.pc = "rpc", !.at = @ + 1, !.kind = k]
            /\ done' = [done EXCEPT ![srv.msg.sess] = Decoded(srv.msg.buf)[srv.at + 1]]
            /\ UNCHANGED <<heap, twice, leaked>>
  BY Zenon DEF SrvDecode

LEMMA OwnSrvDecode ==
  ASSUME OwnInv, HeapHeld, SrvDecode
  PROVE  OwnInv' /\ HeapHeld'
  <1> USE DEF OwnInv
  <1>0. /\ UNCHANGED <<sessidctr, conn, table, hdl, pool, queue, net>> /\ srv.pc = "decode"
        /\ srv.msg.h \in Handle \cup {0} /\ srv.msg.buf \in BufSet /\ QueueFits'
        /\ table' \in [Handle -> Handle \cup {0}] /\ queue' \in Seq(MsgSet) /\ twice \in BOOLEAN
    BY FieldTypes DEF SrvDecode, QueueFits, Types
  <1>1. ASSUME srv' = Disconnect(srv.msg.h, "idle") PROVE SrvTypes' /\ SrvFits'
    <2>1. SrvTypes' /\ srv'.pc = "check" /\ srv'.then = "idle"
      BY <1>0, <1>1, DisconnectFacts
    <2> QED
      BY <2>1 DEF SrvFits, Ending
  <1>2. CASE /\ srv' = Disconnect(srv.msg.h, "idle")
             /\ leaked' = leaked \cup {Id(srv.msg.buf)} /\ UNCHANGED <<heap, twice, done>>
    <2>1. OwnInv'
      BY <1>0, <1>1, <1>2, SrvOnly
    <2>2. HeapHeld'
      BY <1>0, <1>2, HeldOn
    <2> QED
      BY <2>1, <2>2
  <1>3. CASE /\ srv' = Disconnect(srv.msg.h, "idle") \/ srv' = [srv EXCEPT !.pc = "idle"]
             /\ Release(srv.msg.buf) /\ UNCHANGED <<leaked, done>>
    <2>1. heap' \subseteq heap /\ Id(srv.msg.buf) \notin heap' /\ twice' \in BOOLEAN
      BY <1>0, <1>3, ReleaseFacts
    <2>2. SrvTypes' /\ SrvFits'
      <3>1. CASE srv' = [srv EXCEPT !.pc = "idle"]
        <4>1. SrvTypes' /\ srv'.pc = "idle"
          BY <3>1 DEF SrvTypes, SrvSet, Types
        <4> QED
          BY <4>1 DEF SrvFits, Ending
      <3> QED
        BY <1>1, <1>3, <3>1
    <2>3. OwnInv'
      BY <1>0, <2>1, <2>2, SrvOnly
    <2>4. HeapHeld'
      BY <1>0, <1>3, <2>1, HeldOn
    <2> QED
      BY <2>3, <2>4
  <1>4. CASE /\ \E k \in Kinds : srv' = [srv EXCEPT !.pc = "rpc", !.at = @ + 1, !.kind = k]
             /\ UNCHANGED <<heap, twice, leaked>>
    <2>1. SrvTypes' /\ srv'.pc = "rpc" /\ srv'.kind \in Kinds /\ srv'.msg = srv.msg
      <3>1. PICK k \in Kinds : srv' = [srv EXCEPT !.pc = "rpc", !.at = @ + 1, !.kind = k]
        BY <1>4
      <3>2. srv.at + 1 \in Nat
        BY FieldTypes
      <3>3. srv' = [srv EXCEPT !.pc = "rpc", !.at = srv.at + 1, !.kind = k]
        BY <3>1 DEF SrvTypes, SrvSet, Types
      <3> QED
        BY <3>2, <3>3 DEF SrvTypes, SrvSet, Types
    <2>2. SrvFits' /\ SrvHolds'
      BY <2>1 DEF SrvFits, Ending, SrvHolds
    <2>3. OwnInv'
      BY <1>0, <1>4, <2>1, <2>2, SrvOnly
    <2>4. HeapHeld'
      BY <1>0, <1>4, <2>1, <2>2, HeldOn
    <2> QED
      BY <2>3, <2>4
  <1> QED
    BY <1>2, <1>3, <1>4, DecodeCases

\* Where the handler goes from a request or a transmission.
LEMMA MoveFacts ==
  ASSUME OwnInv, SrvRpc \/ SrvSend \/ SrvWrite \/ SrvCheck
  PROVE  /\ UNCHANGED <<sessidctr, conn, table, hdl, pool, queue, net, heap, twice, leaked, done>>
         /\ SrvTypes' /\ SrvFits' /\ srv.pc # "free" /\ srv.pc # "idle"
         /\ srv'.msg.buf = srv.msg.buf /\ srv'.msg.sess = srv.msg.sess /\ srv'.msg.type = srv.msg.type
         /\ srv'.at = srv.at
         /\ SrvHolds /\ srv.msg.buf # NoBuf => SrvHolds'
  <1> USE DEF OwnInv
  <1>0. /\ UNCHANGED <<sessidctr, conn, table, hdl, pool, queue, net, heap, twice, leaked, done>>
        /\ srv.pc \in {"rpc", "send", "write", "check"} /\ srv.msg.h \in Handle \cup {0} /\ "hello" \notin Kinds
    BY FieldTypes, NconfAssumption DEF SrvRpc, SrvSend, SrvWrite, SrvCheck
  <1>1. ASSUME NEW h \in Handle \cup {0}, NEW p \in {"decode", "send"}, srv' = Disconnect(h, p), srv.kind # "hello"
        PROVE  /\ SrvTypes' /\ SrvFits' /\ SrvHolds' /\ srv'.msg = srv.msg /\ srv'.at = srv.at
    <2>1. SrvTypes' /\ srv'.pc = "check" /\ srv'.then = p /\ srv'.kind = srv.kind /\ srv'.msg = srv.msg /\ srv'.at = srv.at
      BY <1>1, DisconnectFacts
    <2> QED
      BY <1>1, <2>1 DEF SrvFits, Ending, SrvHolds
  <1>2. ASSUME \/ srv' = [srv EXCEPT !.pc = "decode"] \/ srv' = [srv EXCEPT !.pc = "decode", !.bye = TRUE]
               \/ srv.kind # "hello" /\ srv' = [srv EXCEPT !.pc = "send"]
               \/ srv.pc = "send" /\ srv' = [srv EXCEPT !.pc = "write"]
        PROVE  /\ SrvTypes' /\ SrvFits' /\ SrvHolds' /\ srv'.msg = srv.msg /\ srv'.at = srv.at
    <2>1. /\ SrvTypes' /\ srv'.msg = srv.msg /\ srv'.at = srv.at /\ srv'.kind = srv.kind
          /\ \/ srv'.pc = "decode"
             \/ srv'.pc = "send" /\ srv.kind # "hello"
             \/ srv'.pc = "write" /\ srv.pc = "send"
      <3> USE DEF SrvTypes, SrvSet, Types
      <3>1. CASE srv' = [srv EXCEPT !.pc = "decode"]
        <4>1. srv'.pc = "decode"
          BY <3>1
        <4>2. SrvTypes' /\ srv'.msg = srv.msg /\ srv'.at = srv.at /\ srv'.kind = srv.kind
          BY <3>1
        <4> QED
          BY <4>1, <4>2
      <3>2. CASE srv' = [srv EXCEPT !.pc = "decode", !.bye = TRUE]
        <4>1. srv'.pc = "decode"
          BY <3>2
        <4>2. SrvTypes' /\ srv'.msg = srv.msg /\ srv'.at = srv.at /\ srv'.kind = srv.kind
          BY <3>2
        <4> QED
          BY <4>1, <4>2
      <3>3. CASE srv.kind # "hello" /\ srv' = [srv EXCEPT !.pc = "send"]
        BY <3>3
      <3>4. CASE srv.pc = "send" /\ srv' = [srv EXCEPT !.pc = "write"]
        BY <3>4
      <3> QED
        BY <1>2, <3>1, <3>2, <3>3, <3>4
    <2> QED
      BY <2>1 DEF SrvFits, Ending, SrvHolds
  <1>3. CASE SrvRpc
    <2>1. srv.pc = "rpc" /\ srv.kind \in Kinds /\ srv.kind # "hello"
      BY <1>0, <1>3 DEF SrvRpc, SrvFits
    <2>2. \/ srv' = [srv EXCEPT !.pc = "decode"] \/ srv' = [srv EXCEPT !.pc = "decode", !.bye = TRUE]
          \/ srv' = [srv EXCEPT !.pc = "send"]
          \/ \E h \in Handle \cup {0}, p \in {"decode", "send"} : srv' = Disconnect(h, p)
      <3>1. srv.kind \in {"get", "edit", "silent", "refused", "close", "kill", "unknown"}
        BY <2>1, NconfAssumption
      <3>2. CASE srv.kind = "kill"
        <4>1. \E h \in Handle \cup {0} : srv' = IF h = 0 THEN [srv EXCEPT !.pc = "send"] ELSE Disconnect(h, "send")
          BY <1>3, <3>2 DEF SrvRpc
        <4> QED
          BY <4>1
      <3>3. CASE srv.kind # "kill"
        BY <1>0, <1>3, <3>1, <3>3 DEF SrvRpc
      <3> QED
        BY <3>2, <3>3
    <2> QED
      BY <1>0, <1>1, <1>2, <2>1, <2>2
  <1>4. CASE srv.pc \in {"send", "write"} /\ \E ok \in BOOLEAN : srv' = AfterSend(ok)
    <2>1. CASE srv.kind = "hello"
      <3>1. srv' = [srv EXCEPT !.pc = "idle"]
        BY <1>4, <2>1 DEF AfterSend
      <3>2. SrvTypes' /\ srv'.pc = "idle" /\ srv'.msg = srv.msg /\ srv'.at = srv.at
        BY <3>1 DEF SrvTypes, SrvSet, Types
      <3>3. srv.msg.buf = NoBuf
        BY <1>4, <2>1 DEF SrvFits
      <3> QED
        BY <1>0, <3>2, <3>3 DEF SrvFits, Ending
    <2>2. CASE srv.kind # "hello"
      <3>1. srv' = [srv EXCEPT !.pc = "decode"] \/ srv' = Disconnect(srv.msg.h, "decode")
        BY <1>4, <2>2 DEF AfterSend
      <3> QED
        BY <1>0, <1>1, <1>2, <2>2, <3>1
    <2> QED
      BY <2>1, <2>2
  <1>5. CASE SrvSend
    BY <1>0, <1>2, <1>4, <1>5 DEF SrvSend
  <1>6. CASE SrvWrite
    BY <1>4, <1>6 DEF SrvWrite
  <1>7. CASE SrvCheck
    <2>1. srv.pc = "check"
      BY <1>7 DEF SrvCheck
    <2>2. CASE Valid(srv.h)
      <3>1. PICK i \in Handle : srv' = [srv EXCEPT !.pc = "clear", !.i = i]
        BY <1>7, <2>2 DEF SrvCheck
      <3>2. /\ SrvTypes' /\ srv'.pc = "clear" /\ srv'.i = i /\ srv'.h = srv.h /\ srv'.msg = srv.msg /\ srv'.at = srv.at
            /\ srv'.then = srv.then /\ srv'.kind = srv.kind
        BY <3>1 DEF SrvTypes, SrvSet, Types
      <3>3. srv.h \in Handle
        BY <2>2, FieldTypes DEF Valid
      <3> QED
        BY <1>0, <2>1, <3>2, <3>3 DEF SrvFits, Ending, SrvHolds
    <2>3. CASE ~Valid(srv.h)
      <3>1. srv' = [Forget(srv) EXCEPT !.pc = srv.then]
        BY <1>7, <2>3 DEF SrvCheck
      <3>2. srv.then # "none" /\ (srv.then # "idle" => srv.kind # "hello")
        BY <2>1 DEF SrvFits, Ending
      <3>3. srv.then \in {"idle", "decode", "send"}
        BY <3>2 DEF Types, SrvTypes, SrvSet
      <3>4. /\ SrvTypes' /\ srv'.pc = srv.then /\ srv'.kind = srv.kind /\ srv'.at = srv.at
            /\ srv'.msg.buf = srv.msg.buf /\ srv'.msg.sess = srv.msg.sess /\ srv'.msg.type = srv.msg.type
        BY <3>1, <3>2, GoOn
      <3> QED
        BY <1>0, <2>1, <3>2, <3>3, <3>4 DEF SrvFits, Ending, SrvHolds
    <2> QED
      BY <2>2, <2>3
  <1> QED
    BY <1>3, <1>5, <1>6, <1>7

LEMMA OwnMove ==
  ASSUME OwnInv, HeapHeld, SrvRpc \/ SrvSend \/ SrvWrite \/ SrvCheck
  PROVE  OwnInv' /\ HeapHeld'
  <1>1. OwnInv'
    BY MoveFacts, SrvOnly DEF OwnInv, Types, QueueFits
  <1>2. HeapHeld'
    BY MoveFacts, HeldOn, NoBufNotHeld DEF OwnInv
  <1> QED
    BY <1>1, <1>2

LEMMA ClearFacts ==
  ASSUME OwnInv, SrvClear
  PROVE  /\ UNCHANGED <<sessidctr, conn, hdl, pool, queue, net, heap, twice, leaked, done>>
         /\ srv.pc = "clear" /\ table' \in [Handle -> Handle \cup {0}]
         /\ \A i \in Handle : table'[i] = table[i] \/ table'[i] = 0
         /\ SrvTypes' /\ srv'.pc = "close" /\ srv'.pcb = hdl[srv.h].pcb /\ srv'.h = srv.h /\ srv.h \in Handle
         /\ srv'.then = srv.then /\ srv'.kind = srv.kind /\ srv'.msg = srv.msg /\ srv'.at = srv.at
  <1> USE DEF OwnInv
  <1>1. srv.pc = "clear" /\ srv.h \in Handle /\ srv.i \in Handle
    BY DEF SrvClear, SrvFits
  <1>2. hdl[srv.h].pcb \in Sess \cup {0}
    BY <1>1, FieldTypes
  <1>3. /\ SrvTypes' /\ srv'.pc = "close" /\ srv'.pcb = hdl[srv.h].pcb /\ srv'.h = srv.h
        /\ srv'.then = srv.then /\ srv'.kind = srv.kind /\ srv'.msg = srv.msg /\ srv'.at = srv.at
    BY <1>2 DEF SrvClear, SrvTypes, SrvSet, Types
  <1>4. table' = [table EXCEPT ![srv.i] = 0] /\ table \in [Handle -> Handle \cup {0}]
    BY DEF SrvClear, Types
  <1> QED
    BY <1>1, <1>3, <1>4 DEF SrvClear

LEMMA OwnSrvClear ==
  ASSUME OwnInv, HeapHeld, SrvClear
  PROVE  OwnInv' /\ HeapHeld'
  <1> USE DEF OwnInv
  <1>1. srv'.pcb # 0 => conn[srv'.pcb].st # "none" /\ conn[srv'.pcb].h = srv'.h
    BY ClearFacts DEF PcbFits
  <1>2. SrvFits'
    BY <1>1, ClearFacts DEF SrvFits, Ending
  <1>3. OwnInv'
    BY <1>2, ClearFacts, SrvOnly DEF Types, QueueFits
  <1>4. SrvHolds => SrvHolds'
    BY ClearFacts DEF SrvHolds, Ending
  <1>5. HeapHeld'
    BY <1>4, ClearFacts, HeldOn
  <1> QED
    BY <1>3, <1>5

\* A connection that is closed here without a second release was open.
LEMMA CloseFacts ==
  ASSUME OwnInv, SrvClose, ~twice'
  PROVE  /\ UNCHANGED <<sessidctr, table, hdl, pool, queue, net, heap, leaked, done>> /\ twice' \in BOOLEAN
         /\ SrvTypes' /\ srv.pc = "close" /\ srv'.pc = "free" /\ srv'.pcb = srv.pcb /\ srv'.h = srv.h /\ srv.h \in Handle
         /\ srv'.then = srv.then /\ srv'.kind = srv.kind /\ srv'.msg = srv.msg /\ srv'.at = srv.at
         /\ ConnTypes'
         /\ srv.pcb = 0 => conn' = conn
         /\ srv.pcb # 0 => /\ srv.pcb \in Sess /\ net.pc = "idle"
                           /\ conn[srv.pcb].st = "open" /\ conn[srv.pcb].h = srv.h /\ hdl[srv.h].pcb = srv.pcb
                           /\ conn'[srv.pcb].st = "closed" /\ conn'[srv.pcb].h = conn[srv.pcb].h
                           /\ conn'[srv.pcb].sent = conn[srv.pcb].sent
                           /\ \A s \in Sess : s # srv.pcb => conn'[s] = conn[s]
  <1> USE DEF OwnInv
  <1>1. /\ UNCHANGED <<sessidctr, table, hdl, pool, queue, net, heap, leaked, done>> /\ srv.pc = "close"
        /\ conn' = Closed(srv.pcb) /\ (srv.pcb # 0 => net.pc = "idle")
    BY DEF SrvClose
  <1>2. /\ SrvTypes' /\ srv'.pc = "free" /\ srv'.pcb = srv.pcb /\ srv'.h = srv.h /\ srv.h \in Handle
        /\ srv'.then = srv.then /\ srv'.kind = srv.kind /\ srv'.msg = srv.msg /\ srv'.at = srv.at
    BY <1>1 DEF SrvClose, SrvTypes, SrvSet, Types, SrvFits
  <1>3. twice' \in BOOLEAN /\ ~(srv.pcb # 0 /\ conn[srv.pcb].st = "closed")
    BY Zenon DEF SrvClose
  <1>4. CASE srv.pcb = 0
    BY <1>1, <1>2, <1>3, <1>4 DEF Closed, ConnTypes, Types
  <1>5. CASE srv.pcb # 0
    <2>1. srv.pcb \in Sess /\ conn[srv.pcb].st \in {"none", "open", "closed"}
      BY <1>5, FieldTypes
    <2>2. conn[srv.pcb].st = "open" /\ conn[srv.pcb].h = srv.h
      BY <1>1, <1>3, <1>5, <2>1 DEF SrvFits
    <2>3. hdl[srv.h].pcb = srv.pcb
      BY <2>1, <2>2 DEF ConnFits
    <2>4. conn' = [conn EXCEPT ![srv.pcb].st = "closed"]
      BY <1>1, <1>5 DEF Closed
    <2>5. /\ ConnTypes' /\ conn'[srv.pcb].st = "closed" /\ conn'[srv.pcb].h = conn[srv.pcb].h
          /\ conn'[srv.pcb].sent = conn[srv.pcb].sent
          /\ \A s \in Sess : s # srv.pcb => conn'[s] = conn[s]
      BY <2>1, <2>4 DEF ConnTypes, Types
    <2> QED
      BY <1>1, <1>2, <1>3, <1>5, <2>1, <2>2, <2>3, <2>5
  <1> QED
    BY <1>4, <1>5

LEMMA OwnSrvClose ==
  ASSUME OwnInv, HeapHeld, SrvClose, ~twice'
  PROVE  OwnInv' /\ HeapHeld'
  <1> USE DEF OwnInv
  <1>0. /\ UNCHANGED <<sessidctr, table, hdl, pool, queue, net, heap, leaked, done>> /\ twice' \in BOOLEAN
        /\ SrvTypes' /\ srv.pc = "close" /\ srv'.pc = "free" /\ srv'.pcb = srv.pcb /\ srv'.h = srv.h /\ srv.h \in Handle
        /\ srv'.then = srv.then /\ srv'.kind = srv.kind /\ srv'.msg = srv.msg /\ ConnTypes'
    BY CloseFacts
  <1>1. SrvHolds => SrvHolds'
    BY <1>0 DEF SrvHolds, Ending
  <1>2. HeapHeld'
    BY <1>0, <1>1, HeldOn
  <1>3. CASE srv.pcb = 0
    <2>1. conn' = conn
      BY <1>3, CloseFacts
    <2>2. SrvFits'
      BY <1>0, <1>3 DEF SrvFits, Ending
    <2>3. OwnInv'
      BY <1>0, <2>1, <2>2, SrvOnly DEF Types, QueueFits
    <2> QED
      BY <1>2, <2>3
  <1>4. CASE srv.pcb # 0
    <2>0. /\ srv.pcb \in Sess /\ net.pc = "idle"
          /\ conn[srv.pcb].st = "open" /\ conn[srv.pcb].h = srv.h /\ hdl[srv.h].pcb = srv.pcb
          /\ conn'[srv.pcb].st = "closed" /\ conn'[srv.pcb].h = conn[srv.pcb].h
          /\ \A s \in Sess : s # srv.pcb => conn'[s] = conn[s]
      BY <1>4, CloseFacts
    <2>1. Types'
      BY <1>0 DEF Types, HdlTypes, NetTypes
    <2>2. ConnFits'
      <3>1. ASSUME NEW t \in Sess
            PROVE  /\ conn'[t].st # "none" => t <= sessidctr /\ conn'[t].h \in Handle
                   /\ conn'[t].st = "open" => /\ conn'[t].h \notin pool
                                              /\ hdl[conn'[t].h].pcb = t /\ hdl[conn'[t].h].sess = t
        <4>1. CASE t = srv.pcb
          BY <2>0, <4>1 DEF ConnFits
        <4>2. CASE t # srv.pcb
          BY <2>0, <4>2 DEF ConnFits
        <4> QED
          BY <4>1, <4>2
      <3> QED
        BY <1>0, <3>1 DEF ConnFits
    <2>3. PcbFits'
      <3> SUFFICES ASSUME NEW h \in Handle, hdl[h].pcb # 0
                   PROVE  /\ conn'[hdl[h].pcb].h = h
                          /\ \/ conn'[hdl[h].pcb].st = "open"
                             \/ /\ conn'[hdl[h].pcb].st = "closed" /\ srv'.pc = "free" /\ srv'.h = h
                                /\ srv'.pcb = hdl[h].pcb
        BY <1>0 DEF PcbFits
      <3>1. hdl[h].pcb \in Sess /\ conn[hdl[h].pcb].h = h /\ conn[hdl[h].pcb].st = "open"
        BY <1>0, FieldTypes DEF PcbFits
      <3>2. CASE hdl[h].pcb = srv.pcb
        BY <1>0, <2>0, <3>1, <3>2
      <3>3. CASE hdl[h].pcb # srv.pcb
        BY <2>0, <3>1, <3>3
      <3> QED
        BY <3>2, <3>3
    <2>4. PoolFits' /\ RbufFits' /\ QueueFits' /\ NetFits'
      BY <1>0, <2>0 DEF PoolFits, RbufFits, QueueFits, NetFits
    <2>5. SrvFits'
      BY <1>0, <2>0 DEF SrvFits, Ending
    <2> QED
      BY <1>2, <2>1, <2>2, <2>3, <2>4, <2>5
  <1> QED
    BY <1>3, <1>4

LEMMA FreeFacts ==
  ASSUME OwnInv, SrvFree, ~twice'
  PROVE  /\ UNCHANGED <<sessidctr, conn, table, queue, net, leaked, done>> /\ srv.pc = "free"
         /\ twice' \in BOOLEAN /\ srv.pcb \in Sess /\ srv.h \in Handle
         /\ conn[srv.pcb].st = "closed" /\ hdl[srv.h].pcb = srv.pcb
         /\ pool' = pool \cup {srv.h}
         /\ heap' = heap \ {Id(hdl[srv.h].rbuf)}
         /\ HdlTypes' /\ hdl'[srv.h].pcb = 0 /\ hdl'[srv.h].rbuf = NoBuf
         /\ \A h \in Handle : h # srv.h => hdl'[h] = hdl[h]
         /\ \A s \in Sess : conn[s].st = "open" => conn[s].h # srv.h
         /\ srv.then \in {"idle", "decode", "send"} /\ srv'.pc = srv.then /\ SrvTypes'
         /\ srv'.kind = srv.kind /\ srv'.at = srv.at
         /\ srv'.msg.buf = srv.msg.buf /\ srv'.msg.sess = srv.msg.sess /\ srv'.msg.type = srv.msg.type
  <1> USE DEF OwnInv
  <1>1. /\ UNCHANGED <<sessidctr, conn, table, queue, net, leaked, done>> /\ srv.pc = "free"
        /\ pool' = pool \cup {srv.h} /\ srv' = [Forget(srv) EXCEPT !.pc = srv.then]
        /\ hdl' = [hdl EXCEPT ![srv.h].pcb = 0, ![srv.h].rbuf = NoBuf]
        /\ heap' = heap \ {Id(hdl[srv.h].rbuf)}
    BY DEF SrvFree
  <1>2. twice' \in BOOLEAN /\ srv.pcb # 0
    BY Zenon DEF SrvFree
  <1>3. srv.pcb \in Sess /\ srv.h \in Handle /\ conn[srv.pcb].st = "closed" /\ hdl[srv.h].pcb = srv.pcb
    BY <1>1, <1>2, FieldTypes DEF SrvFits
  <1>4. \A s \in Sess : conn[s].st = "open" => conn[s].h # srv.h
    BY <1>3 DEF ConnFits
  <1>5. HdlTypes' /\ hdl'[srv.h].pcb = 0 /\ hdl'[srv.h].rbuf = NoBuf /\ \A h \in Handle : h # srv.h => hdl'[h] = hdl[h]
    <2>1. NoBuf \in BufSet
      BY FieldTypes
    <2> QED
      BY <1>1, <1>3, <2>1 DEF HdlTypes, Types
  <1>6. srv.then # "none"
    BY <1>1 DEF SrvFits, Ending
  <1>7. srv.then \in {"idle", "decode", "send"}
    BY <1>6 DEF Types, SrvTypes, SrvSet
  <1>8. /\ SrvTypes' /\ srv'.pc = srv.then /\ srv'.kind = srv.kind /\ srv'.at = srv.at
        /\ srv'.msg.buf = srv.msg.buf /\ srv'.msg.sess = srv.msg.sess /\ srv'.msg.type = srv.msg.type
    BY <1>1, <1>6, GoOn
  <1> QED
    BY <1>1, <1>2, <1>3, <1>4, <1>5, <1>7, <1>8

LEMMA OwnSrvFree ==
  ASSUME OwnInv, HeapHeld, SrvFree, ~twice'
  PROVE  OwnInv' /\ HeapHeld'
  <1> USE DEF OwnInv
  <1>0. /\ UNCHANGED <<sessidctr, conn, table, queue, net, leaked, done>> /\ srv.pc = "free"
        /\ twice' \in BOOLEAN /\ srv.pcb \in Sess /\ srv.h \in Handle
        /\ conn[srv.pcb].st = "closed" /\ hdl[srv.h].pcb = srv.pcb
        /\ pool' = pool \cup {srv.h}
        /\ heap' = heap \ {Id(hdl[srv.h].rbuf)}
    BY FreeFacts
  <1>1. /\ HdlTypes' /\ hdl'[srv.h].pcb = 0 /\ hdl'[srv.h].rbuf = NoBuf
        /\ \A h \in Handle : h # srv.h => hdl'[h] = hdl[h]
        /\ \A s \in Sess : conn[s].st = "open" => conn[s].h # srv.h
    BY FreeFacts
  <1>2. /\ srv.then \in {"idle", "decode", "send"} /\ srv'.pc = srv.then /\ SrvTypes'
        /\ srv'.kind = srv.kind /\ srv'.msg.buf = srv.msg.buf
    BY FreeFacts
  <1>3. Types'
    BY <1>0, <1>1, <1>2 DEF Types, ConnTypes, NetTypes
  <1>4. ConnFits'
    BY <1>0, <1>1 DEF ConnFits
  <1>5. PcbFits'
    <2> SUFFICES ASSUME NEW h \in Handle, hdl'[h].pcb # 0
                 PROVE  conn[hdl'[h].pcb].h = h /\ conn[hdl'[h].pcb].st = "open"
      BY <1>0 DEF PcbFits
    <2>1. h # srv.h /\ hdl'[h] = hdl[h]
      BY <1>1
    <2> QED
      BY <2>1 DEF PcbFits
  <1>6. PoolFits' /\ QueueFits'
    BY <1>0, <1>1 DEF PoolFits, QueueFits, Types
  <1>7. RbufFits'
    <2>1. ASSUME NEW h \in Handle PROVE IsBuf(hdl'[h].rbuf) => hdl'[h].rbuf.sess = hdl'[h].sess
      <3>1. CASE h = srv.h
        BY <1>1, <3>1 DEF IsBuf, NoBuf
      <3>2. CASE h # srv.h
        BY <1>1, <3>2 DEF RbufFits
      <3> QED
        BY <3>1, <3>2
    <2> QED
      BY <2>1 DEF RbufFits, IsBuf
  <1>8. NetFits'
    <2>1. net.pc # "idle" => net.h \in Handle /\ net.h # srv.h
      BY <1>0 DEF NetFits
    <2> QED
      BY <1>0, <1>1, <2>1 DEF NetFits
  <1>9. SrvFits'
    BY <1>0, <1>2 DEF SrvFits, Ending
  <1>10. HeapHeld'
    <2> SUFFICES ASSUME NEW x \in heap' PROVE Holding(x)' \/ x \in leaked
      BY <1>0 DEF HeapHeld
    <2>1. Holding(x) \/ x \in leaked
      BY <1>0 DEF HeapHeld
    <2>2. ASSUME NEW h \in Handle, Id(hdl[h].rbuf) = x PROVE Holding(x)'
      BY <1>0, <1>1, <2>2 DEF Holding, Id
    <2>3. SrvHolds => SrvHolds'
      BY <1>0, <1>2 DEF SrvHolds, Ending
    <2> QED
      BY <1>0, <1>2, <2>1, <2>2, <2>3 DEF Holding, Id
  <1> QED
    BY <1>3, <1>4, <1>5, <1>6, <1>7, <1>8, <1>9, <1>10

LEMMA LeakNext ==
  ASSUME LeakInv, [Next]_vars
  PROVE  LeakInv'
  <1>1. CASE Next
    <2> SUFFICES ASSUME ~twice' PROVE OwnInv' /\ HeapHeld'
      BY DEF LeakInv
    <2>1. ~twice /\ OwnInv /\ HeapHeld
      BY <1>1 DEF Next, NetStep, SrvStep, ClientStep, LeakInv
    <2>2. CASE Accept \/ Callback
      BY <2>1, <2>2, OwnAccept, OwnCallback
    <2>3. CASE NetConnect \/ NetData \/ NetUnlink \/ NetEnqueue \/ NetCheck \/ NetFree
      BY <2>1, <2>3, OwnNetConnect, OwnNetData, OwnNetUnlink, OwnNetEnqueue, OwnNetCheck, OwnNetFree
    <2>4. CASE SrvRecv \/ SrvDecode \/ SrvRpc \/ SrvSend \/ SrvWrite \/ SrvCheck
      BY <2>1, <2>4, OwnSrvRecv, OwnSrvDecode, OwnMove
    <2>5. CASE SrvClear \/ SrvClose \/ SrvFree
      BY <2>1, <2>5, OwnSrvClear, OwnSrvClose, OwnSrvFree
    <2> QED
      BY <1>1, <2>2, <2>3, <2>4, <2>5 DEF Next, NetStep, SrvStep, ClientStep
  <1>2. CASE UNCHANGED vars
    BY <1>2 DEF vars, LeakInv, OwnInv, HeapHeld, Holding, SrvHolds, Types, ConnTypes, HdlTypes, NetTypes,
       SrvTypes, ConnFits, PcbFits, PoolFits, NetFits, SrvFits, RbufFits, QueueFits, Ending
  <1> QED
    BY <1>1, <1>2

\* A read buffer that is allocated belongs to a connection, to a queued message
\* or to the work of a thread, or its message could not be parsed: neither thread
\* drops one, whichever ends the connection and when (nconf_tlscon.c,
\* nconf_msghdlr.c).
THEOREM BuffersNeverLost == Spec => []NoBufferLeak
  <1>1. LeakInv => NoBufferLeak
    <2> SUFFICES ASSUME OwnInv, HeapHeld, NEW x \in heap, ~twice PROVE x \in Held \cup leaked
      BY DEF LeakInv, NoBufferLeak
    <2>1. Holding(x) \/ x \in leaked
      BY DEF HeapHeld
    <2>2. DOMAIN queue = 1 .. Len(queue)
      BY DEF OwnInv, Types
    <2> QED
      BY <2>1, <2>2 DEF Holding, Held, SrvHolds
  <1>2. LeakInv /\ [Next]_vars => LeakInv'
    BY LeakNext
  <1> QED
    BY <1>1, <1>2, InitOwn, PTL DEF Spec

-----------------------------------------------------------------------------
(* The parts of a session, and the buffers that they are in                *)

\* The parts of session s that were taken from the connection
Arrived(s) ==
  IF net.pc \in {"connect", "data"} /\ hdl[net.h].pcb = s THEN conn[s].sent - net.n ELSE conn[s].sent

NetHolds == net.pc \in {"unlink", "enqueue"}

\* A buffer with a message that can be decoded as a whole
Whole(b) ==
  b.sess # 0 => /\ conn[b.sess].st # "none" /\ 1 <= b.lo /\ b.lo <= b.hi /\ b.hi <= Arrived(b.sess)
                /\ IsComplete(b) /\ (b.hi - b.lo + 1) \div 2 <= MaxDecode

\* b was read before c, when both are of one session.
Before(b, c) == b.sess # 0 /\ b.sess = c.sess => b.hi < c.lo

\* Nothing of b was served yet.
Fresh(b) == b.sess # 0 => 2 * done[b.sess] < b.lo

Counts ==
  /\ done \in [Sess -> Nat]
  /\ \A s \in Sess : 2 * done[s] <= Arrived(s) /\ (conn[s].st = "none" => done[s] = 0)

\* A message in the queue is of the session that had the handle.
Tagged(m) ==
  IF m.buf.sess = 0 THEN m.buf = NoBuf
  ELSE /\ m.h \in Handle /\ conn[m.buf.sess].h = m.h
       /\ m.sess = m.buf.sess /\ m.type # "connect"

\* A queued message: what came before it and what comes after it
QueuedFits(i) ==
  /\ Whole(queue[i].buf) /\ Fresh(queue[i].buf) /\ Tagged(queue[i])
  /\ \A j \in 1 .. Len(queue) : i < j => Before(queue[i].buf, queue[j].buf)
  /\ NetHolds => Before(queue[i].buf, net.buf)
  /\ srv.pc # "idle" => Before(srv.msg.buf, queue[i].buf)

NetBufFits ==
  NetHolds => /\ Whole(net.buf) /\ Fresh(net.buf) /\ net.buf.sess = hdl[net.h].sess /\ net.buf.sess # 0
              /\ srv.pc # "idle" => Before(srv.msg.buf, net.buf)

\* The handle of session s is in the table.
Listed(s) == conn[s].st = "open" /\ Valid(conn[s].h)

\* A read buffer that is still filled holds the first part of a request.
FillingFits(s) ==
  Listed(s) /\ IsBuf(hdl[conn[s].h].rbuf) /\ ~(net.pc = "unlink" /\ net.h = conn[s].h) =>
     LET r == hdl[conn[s].h].rbuf
     IN  /\ r.lo = r.hi /\ r.lo % 2 = 1 /\ r.hi = Arrived(s) /\ 2 * done[s] < r.lo
         /\ ~(net.pc = "enqueue" /\ net.h = conn[s].h)
         /\ \A i \in 1 .. Len(queue) : Before(queue[i].buf, r)
         /\ srv.pc # "idle" => Before(srv.msg.buf, r)

\* The message in progress, of whose requests srv.at are served
InProgress ==
  /\ srv.pc # "idle" /\ srv.msg.buf.sess = 0 => srv.msg.buf = NoBuf
  /\ srv.pc # "idle" /\ srv.msg.buf.sess # 0 =>
     /\ Whole(srv.msg.buf) /\ srv.msg.sess = srv.msg.buf.sess /\ srv.msg.type # "connect"
     /\ srv.at = 0 => Fresh(srv.msg.buf)
     /\ srv.msg.buf.lo % 2 = 1 =>
          /\ srv.at > 0 \/ conn[srv.msg.buf.sess].st = "open" =>
                2 * done[srv.msg.buf.sess] = srv.msg.buf.lo - 1 + 2 * srv.at
          /\ srv.msg.buf.lo - 1 + 2 * srv.at <= srv.msg.buf.hi

\* One that starts in the middle of a request ends the session.
Undecodable == srv.pc # "idle" /\ srv.msg.buf.sess # 0 /\ srv.msg.buf.lo % 2 = 0

GivingUp ==
  Undecodable =>
     /\ srv.at = 0 /\ srv.msg.h = conn[srv.msg.buf.sess].h
     /\ srv.pc = "decode" \/ (Ending /\ srv.then = "idle" /\ srv.h = srv.msg.h)
     /\ srv.pc = "close" /\ conn[srv.msg.buf.sess].st = "open" => srv.pcb = srv.msg.buf.sess
     /\ srv.pc = "free" => conn[srv.msg.buf.sess].st # "open"

\* Part p of session s is in b.
Within(b, s, p) == b.sess = s /\ b.lo <= p /\ p <= b.hi

Kept(s, p) ==
  \/ Within(hdl[conn[s].h].rbuf, s, p)
  \/ \E i \in 1 .. Len(queue) : Within(queue[i].buf, s, p)
  \/ NetHolds /\ Within(net.buf, s, p)
  \/ SrvHolds /\ Within(srv.msg.buf, s, p)

\* Every request of a listed session that arrived and was not served is in some
\* buffer.
AllKept(s) ==
  Listed(s) /\ ~(Undecodable /\ Ending /\ srv.msg.buf.sess = s) =>
     \A k \in Nat : done[s] < k /\ 2 * k <= Arrived(s) => Kept(s, 2 * k)

PartInv ==
  /\ Counts /\ NetBufFits /\ InProgress /\ GivingUp
  /\ \A i \in 1 .. Len(queue) : QueuedFits(i)
  /\ \A s \in Sess : FillingFits(s) /\ AllKept(s)

OrderInv == LeakInv /\ (~twice => PartInv)

\* A connection stays what it is, or ends.
SteadyConn ==
  \A s \in Sess :
     /\ Arrived(s) \in Nat /\ Arrived(s)' \in Nat
     /\ conn[s].st # "none" => conn'[s].st # "none" /\ conn'[s].h = conn[s].h /\ Arrived(s) <= Arrived(s)'
     /\ conn'[s].st = "open" /\ conn[s].st # "none" => conn[s].st = "open"

\* Nothing arrives for session s, unless it is new.
SteadyFor(s) ==
  Listed(s)' =>
     \/ conn[s].st = "none" /\ hdl'[conn'[s].h].rbuf.sess # s /\ Arrived(s)' = 0
     \/ /\ Listed(s) /\ conn'[s].h = conn[s].h /\ hdl'[conn[s].h].rbuf = hdl[conn[s].h].rbuf
        /\ Arrived(s)' = Arrived(s)

Steady == done' = done /\ SteadyConn /\ \A s \in Sess : SteadyFor(s)

\* The queue has got no message but such without a buffer.
QueueKept ==
  /\ \A i \in 1 .. Len(queue) : i \in 1 .. Len(queue') /\ queue'[i] = queue[i]
  /\ \A i \in 1 .. Len(queue') : i \in 1 .. Len(queue) \/ queue'[i].buf = NoBuf

NetKept ==
  /\ NetHolds' <=> NetHolds
  /\ NetHolds => net'.pc = net.pc /\ net'.h = net.h /\ net'.buf = net.buf /\ hdl'[net.h].sess = hdl[net.h].sess

SrvKept ==
  srv'.pc # "idle" => /\ srv.pc # "idle" /\ srv'.msg.buf = srv.msg.buf /\ srv'.msg.sess = srv.msg.sess
                      /\ srv'.msg.type = srv.msg.type /\ srv'.at = srv.at

LEMMA BufFields ==
  ASSUME NEW b \in BufSet
  PROVE  b.sess \in Sess \cup {0} /\ b.lo \in Nat /\ b.hi \in Nat
  BY DEF BufSet

LEMMA WholeFrame ==
  ASSUME SteadyConn, NEW b \in BufSet, Whole(b)
  PROVE  Whole(b)'
  <1>1. CASE b.sess = 0
    BY <1>1 DEF Whole
  <1>2. CASE b.sess # 0
    <2>1. b.sess \in Sess /\ b.hi \in Nat
      BY <1>2, BufFields
    <2>2. b.hi <= Arrived(b.sess)' /\ conn'[b.sess].st # "none"
      BY <1>2, <2>1 DEF Whole, SteadyConn
    <2> QED
      BY <1>2, <2>2 DEF Whole, IsComplete
  <1> QED
    BY <1>1, <1>2

LEMMA CountsFrame ==
  ASSUME Counts, SteadyConn, done' = done
  PROVE  Counts'
  <1>1. ASSUME NEW s \in Sess PROVE 2 * done[s] <= Arrived(s)' /\ (conn'[s].st = "none" => done[s] = 0)
    <2>1. 2 * done[s] <= Arrived(s) /\ (conn[s].st = "none" => done[s] = 0) /\ done[s] \in Nat
      BY DEF Counts
    <2>2. CASE conn[s].st # "none"
      BY <2>1, <2>2 DEF SteadyConn
    <2>3. CASE conn[s].st = "none"
      BY <2>1, <2>3 DEF SteadyConn
    <2> QED
      BY <2>2, <2>3
  <1> QED
    BY <1>1 DEF Counts

LEMMA ProgressFrame ==
  ASSUME Types, done \in [Sess -> Nat], InProgress, SteadyConn, done' = done, SrvKept
  PROVE  InProgress'
  <1> SUFFICES ASSUME srv'.pc # "idle", srv'.msg.buf.sess # 0 PROVE InProgress'
    BY DEF InProgress, SrvKept
  <1>1. srv.pc # "idle" /\ srv'.msg.buf = srv.msg.buf /\ srv'.msg.sess = srv.msg.sess
        /\ srv'.msg.type = srv.msg.type /\ srv'.at = srv.at
    BY DEF SrvKept
  <1>2. PICK b \in BufSet : b = srv.msg.buf
    BY FieldTypes
  <1>3. /\ Whole(b) /\ srv.msg.sess = b.sess /\ srv.msg.type # "connect"
        /\ srv.at = 0 => Fresh(b)
        /\ b.lo % 2 = 1 =>
             /\ srv.at > 0 \/ conn[b.sess].st = "open" => 2 * done[b.sess] = b.lo - 1 + 2 * srv.at
             /\ b.lo - 1 + 2 * srv.at <= b.hi
    BY <1>1, <1>2 DEF InProgress
  <1>4. Whole(b)' /\ (Fresh(b) => Fresh(b)') /\ b.sess \in Sess
    <2>1. Whole(b)' /\ b.sess \in Sess
      BY <1>1, <1>2, <1>3, WholeFrame, BufFields
    <2> QED
      BY <2>1 DEF Fresh
  <1>5. conn'[b.sess].st = "open" => conn[b.sess].st = "open"
    BY <1>1, <1>2, <1>3, <1>4 DEF SteadyConn, Whole
  <1>6. Whole(srv.msg.buf)' /\ (srv.at = 0 => Fresh(srv.msg.buf)')
    BY <1>1, <1>2, <1>3, <1>4 DEF Whole, Fresh, IsComplete
  <1> QED
    BY <1>1, <1>2, <1>3, <1>5, <1>6 DEF InProgress

\* What was put into the queue, and what the handler took, is not after the
\* read buffer of the session.
LEMMA FillFrame ==
  ASSUME OwnInv, OwnInv', NEW s \in Sess, FillingFits(s), SteadyFor(s), done' = done,
         net.pc = "unlink" /\ net.h = conn[s].h => net'.pc = "unlink" /\ net'.h = conn[s].h,
         net'.pc = "enqueue" /\ net'.h = conn[s].h => net.pc = "enqueue" /\ net.h = conn[s].h,
         \A i \in 1 .. Len(queue') :
            queue'[i].buf.sess # s \/ \E j \in 1 .. Len(queue) : queue'[i].buf = queue[j].buf,
         srv'.pc # "idle" =>
            \/ srv.pc # "idle" /\ srv'.msg.buf = srv.msg.buf
            \/ \E j \in 1 .. Len(queue) : srv'.msg.buf = queue[j].buf
  PROVE  FillingFits(s)'
  <1> SUFFICES ASSUME Listed(s)', IsBuf(hdl[conn[s].h].rbuf)', ~(net'.pc = "unlink" /\ net'.h = conn'[s].h)
               PROVE  FillingFits(s)'
    BY DEF FillingFits
  <1>1. conn'[s].h \in Handle /\ hdl'[conn'[s].h].sess = s
    BY DEF Listed, OwnInv, ConnFits
  <1>2. hdl'[conn'[s].h].rbuf.sess = s
    BY <1>1 DEF OwnInv, RbufFits, IsBuf
  <1>3. /\ Listed(s) /\ conn'[s].h = conn[s].h /\ hdl'[conn[s].h].rbuf = hdl[conn[s].h].rbuf
        /\ Arrived(s)' = Arrived(s)
    BY <1>2 DEF SteadyFor
  <1>4. PICK r \in BufSet : r = hdl[conn[s].h].rbuf
    BY <1>1, <1>3, FieldTypes DEF OwnInv
  <1>5. /\ r.lo = r.hi /\ r.lo % 2 = 1 /\ r.hi = Arrived(s) /\ 2 * done[s] < r.lo /\ r.sess = s
        /\ ~(net.pc = "enqueue" /\ net.h = conn[s].h)
        /\ \A i \in 1 .. Len(queue) : Before(queue[i].buf, r)
        /\ srv.pc # "idle" => Before(srv.msg.buf, r)
    BY <1>2, <1>3, <1>4 DEF FillingFits, IsBuf
  <1>6. ~(net'.pc = "enqueue" /\ net'.h = conn'[s].h)
    BY <1>3, <1>5
  <1>7. ASSUME NEW i \in 1 .. Len(queue') PROVE Before(queue'[i].buf, r)
    BY <1>5 DEF Before
  <1>8. srv'.pc # "idle" => Before(srv'.msg.buf, r)
    BY <1>5 DEF Before
  <1> QED
    BY <1>3, <1>4, <1>5, <1>6, <1>7, <1>8 DEF FillingFits, Before

LEMMA KeptFrame ==
  ASSUME NEW s \in Sess, done \in [Sess -> Nat], done' = done, AllKept(s), SteadyFor(s),
         \A k \in Nat : Listed(s) /\ Listed(s)' /\ ~(Undecodable /\ Ending /\ srv.msg.buf.sess = s)'
                         /\ done[s] < k /\ Kept(s, 2 * k) => Kept(s, 2 * k)',
         Listed(s)' /\ Undecodable /\ Ending /\ srv.msg.buf.sess = s =>
            Undecodable' /\ Ending' /\ srv'.msg.buf.sess = s
  PROVE  AllKept(s)'
  <1> SUFFICES ASSUME Listed(s)', ~(Undecodable /\ Ending /\ srv.msg.buf.sess = s)',
                      NEW k \in Nat, done[s] < k, 2 * k <= Arrived(s)'
               PROVE  Kept(s, 2 * k)'
    BY DEF AllKept
  <1>1. ~(Arrived(s)' = 0)
    BY DEF SteadyFor
  <1>2. Listed(s) /\ Arrived(s)' = Arrived(s)
    BY <1>1 DEF SteadyFor
  <1>3. ~(Undecodable /\ Ending /\ srv.msg.buf.sess = s)
    OBVIOUS
  <1>4. Kept(s, 2 * k)
    BY <1>2, <1>3 DEF AllKept
  <1> QED
    BY <1>2, <1>4

LEMMA PartFrameKept ==
  ASSUME OwnInv, PartInv, OwnInv', Steady, QueueKept, NetKept, SrvKept, GivingUp',
         \A s \in Sess, k \in Nat :
            /\ Listed(s)' /\ ~(Undecodable /\ Ending /\ srv.msg.buf.sess = s)' /\ done[s] < k
            /\ SrvHolds /\ Within(srv.msg.buf, s, 2 * k)
            => SrvHolds' /\ srv'.msg.buf = srv.msg.buf,
         \A s \in Sess : Listed(s)' /\ Undecodable /\ Ending /\ srv.msg.buf.sess = s =>
                            Undecodable' /\ Ending' /\ srv'.msg.buf.sess = s
  PROVE  PartInv'
  <1>0. /\ Types /\ Types' /\ done' = done /\ done \in [Sess -> Nat] /\ Len(queue) \in Nat /\ Len(queue') \in Nat
        /\ SteadyConn
    <2>1. Types /\ Types' /\ done' = done /\ done \in [Sess -> Nat] /\ SteadyConn
      BY DEF OwnInv, PartInv, Counts, Steady
    <2>2. queue \in Seq(MsgSet) /\ queue' \in Seq(MsgSet)
      BY <2>1 DEF Types
    <2> QED
      BY <2>1, <2>2
  <1>b. /\ net.buf \in BufSet /\ srv.msg.buf \in BufSet /\ \A i \in 1 .. Len(queue) : queue[i].buf \in BufSet
    BY <1>0, FieldTypes
  <1>1. Counts'
    BY <1>0, CountsFrame DEF PartInv
  <1>2. \A b \in BufSet : Fresh(b) => Fresh(b)'
    BY <1>0 DEF Fresh
  <1>3. NetBufFits'
    <2>1. CASE ~NetHolds'
      BY <2>1 DEF NetBufFits
    <2>2. CASE NetHolds'
      <3>1. NetHolds /\ net'.buf = net.buf /\ net'.h = net.h /\ hdl'[net.h].sess = hdl[net.h].sess
        BY <2>2 DEF NetKept
      <3>2. Whole(net.buf) /\ Fresh(net.buf) /\ net.buf.sess = hdl[net.h].sess /\ net.buf.sess # 0
            /\ (srv.pc # "idle" => Before(srv.msg.buf, net.buf))
        BY <3>1 DEF PartInv, NetBufFits
      <3>3. Whole(net.buf)'
        <4>1. PICK b \in BufSet : b = net.buf
          BY <1>b
        <4>2. Whole(b)'
          BY <1>0, <3>2, <4>1, WholeFrame
        <4> QED
          BY <3>1, <4>1, <4>2 DEF Whole, IsComplete
      <3>4. Fresh(net.buf)'
        BY <1>0, <3>1, <3>2 DEF Fresh
      <3>5. srv'.pc # "idle" => Before(srv.msg.buf, net.buf)'
        BY <3>1, <3>2 DEF Before, SrvKept
      <3> QED
        BY <3>1, <3>2, <3>3, <3>4, <3>5 DEF NetBufFits
    <2> QED
      BY <2>1, <2>2
  <1>4. InProgress'
    BY <1>0, ProgressFrame DEF PartInv
  <1>5. ASSUME NEW i \in 1 .. Len(queue') PROVE QueuedFits(i)'
    <2>1. CASE queue'[i].buf.sess = 0
      <3>1. queue'[i].buf = NoBuf
        BY <2>1 DEF QueueKept, PartInv, QueuedFits, Tagged
      <3> QED
        BY <2>1, <3>1 DEF QueuedFits, Whole, Fresh, Tagged, Before
    <2>2. CASE queue'[i].buf.sess # 0
      <3>1. i \in 1 .. Len(queue) /\ queue'[i] = queue[i] /\ QueuedFits(i)
        BY <2>2 DEF QueueKept, PartInv, NoBuf
      <3>2. PICK b \in BufSet : b = queue[i].buf
        BY <1>b, <3>1
      <3>3. Whole(b)' /\ Fresh(b)'
        BY <1>0, <1>2, <3>1, <3>2, WholeFrame DEF QueuedFits
      <3>4. Whole(queue[i].buf)' /\ Fresh(queue[i].buf)'
        BY <3>1, <3>2, <3>3 DEF Whole, Fresh, IsComplete
      <3>5. Tagged(queue[i])'
        <4>1. b.sess \in Sess /\ conn[b.sess].st # "none" /\ conn[b.sess].h = queue[i].h
          BY <2>2, <3>1, <3>2, BufFields DEF QueuedFits, Whole, Tagged
        <4> QED
          BY <1>0, <3>1, <3>2, <4>1 DEF Tagged, QueuedFits, SteadyConn
      <3>6. ASSUME NEW j \in 1 .. Len(queue'), i < j PROVE Before(queue'[i].buf, queue'[j].buf)
        <4>1. CASE j \in 1 .. Len(queue)
          BY <3>1, <3>6, <4>1 DEF QueueKept, QueuedFits
        <4>2. CASE j \notin 1 .. Len(queue)
          <5>1. queue'[j].buf.sess = 0
            BY <3>6, <4>2 DEF QueueKept, NoBuf
          <5> QED
            BY <2>2, <5>1 DEF Before
        <4> QED
          BY <4>1, <4>2
      <3>7. NetHolds' => Before(queue'[i].buf, net'.buf)
        BY <3>1 DEF NetKept, QueuedFits, Before
      <3>8. srv'.pc # "idle" => Before(srv'.msg.buf, queue'[i].buf)
        BY <3>1 DEF SrvKept, QueuedFits, Before
      <3> QED
        BY <3>4, <3>5, <3>6, <3>7, <3>8 DEF QueuedFits, Before
    <2> QED
      BY <2>1, <2>2
  <1>6. ASSUME NEW s \in Sess PROVE FillingFits(s)'
    <2>1. FillingFits(s) /\ SteadyFor(s)
      BY DEF PartInv, Steady
    <2>2. /\ net.pc = "unlink" /\ net.h = conn[s].h => net'.pc = "unlink" /\ net'.h = conn[s].h
          /\ net'.pc = "enqueue" /\ net'.h = conn[s].h => net.pc = "enqueue" /\ net.h = conn[s].h
      BY DEF NetKept, NetHolds
    <2>3. \A i \in 1 .. Len(queue') :
             queue'[i].buf.sess # s \/ \E j \in 1 .. Len(queue) : queue'[i].buf = queue[j].buf
      <3> SUFFICES ASSUME NEW i \in 1 .. Len(queue'), i \notin 1 .. Len(queue)
                   PROVE  queue'[i].buf.sess # s
        BY DEF QueueKept
      <3>1. queue'[i].buf.sess = 0
        BY DEF QueueKept, NoBuf
      <3> QED
        BY <1>0, <3>1, FieldTypes
    <2>4. srv'.pc # "idle" => srv.pc # "idle" /\ srv'.msg.buf = srv.msg.buf
      BY DEF SrvKept
    <2> QED
      BY <1>0, <2>1, <2>2, <2>3, <2>4, FillFrame
  <1>7. ASSUME NEW s \in Sess PROVE AllKept(s)'
    <2>1. AllKept(s) /\ SteadyFor(s)
      BY DEF PartInv, Steady
    <2>2. ASSUME NEW k \in Nat, Listed(s), Listed(s)', ~(Undecodable /\ Ending /\ srv.msg.buf.sess = s)',
                 done[s] < k, Kept(s, 2 * k)
          PROVE  Kept(s, 2 * k)'
      <3>1. conn'[s].h = conn[s].h /\ hdl'[conn[s].h].rbuf = hdl[conn[s].h].rbuf
        BY <2>1, <2>2 DEF SteadyFor, Listed
      <3>2. CASE Within(hdl[conn[s].h].rbuf, s, 2 * k)
        BY <3>1, <3>2 DEF Kept, Within
      <3>3. CASE \E i \in 1 .. Len(queue) : Within(queue[i].buf, s, 2 * k)
        BY <3>3 DEF Kept, Within, QueueKept
      <3>4. CASE NetHolds /\ Within(net.buf, s, 2 * k)
        BY <3>4 DEF Kept, Within, NetKept
      <3>5. CASE SrvHolds /\ Within(srv.msg.buf, s, 2 * k)
        BY <2>2, <3>5 DEF Kept, Within
      <3> QED
        BY <2>2, <3>2, <3>3, <3>4, <3>5 DEF Kept
    <2> QED
      BY <1>0, <2>1, <2>2, KeptFrame
  <1> QED
    BY <1>1, <1>3, <1>4, <1>5, <1>6, <1>7 DEF PartInv

LEMMA PartFrame ==
  ASSUME OwnInv, PartInv, OwnInv', Steady, QueueKept, NetKept, SrvKept, GivingUp',
         SrvHolds /\ srv.msg.buf # NoBuf => SrvHolds' /\ srv'.msg.buf = srv.msg.buf,
         \A s \in Sess : Listed(s)' /\ Undecodable /\ Ending /\ srv.msg.buf.sess = s =>
                            Undecodable' /\ Ending' /\ srv'.msg.buf.sess = s
  PROVE  PartInv'
  <1>1. ASSUME NEW s \in Sess, NEW k \in Nat, SrvHolds, Within(srv.msg.buf, s, 2 * k)
        PROVE  SrvHolds' /\ srv'.msg.buf = srv.msg.buf
    <2>1. srv.msg.buf # NoBuf
      BY <1>1, FieldTypes DEF Within, NoBuf, OwnInv
    <2> QED
      BY <1>1, <2>1
  <1> QED
    BY <1>1, PartFrameKept

\* What the handler is at does not change with the other thread.
LEMMA SrvStays ==
  ASSUME OwnInv, PartInv, Steady, srv' = srv
  PROVE  /\ SrvKept /\ GivingUp' /\ (SrvHolds /\ srv.msg.buf # NoBuf => SrvHolds' /\ srv'.msg.buf = srv.msg.buf)
         /\ \A s \in Sess : Listed(s)' /\ Undecodable /\ Ending /\ srv.msg.buf.sess = s =>
                               Undecodable' /\ Ending' /\ srv'.msg.buf.sess = s
  <1>1. GivingUp'
    <2> SUFFICES ASSUME Undecodable PROVE GivingUp'
      BY DEF GivingUp, Undecodable
    <2>1. srv.msg.buf.sess \in Sess
      BY FieldTypes, BufFields DEF Undecodable, OwnInv
    <2>2. conn[srv.msg.buf.sess].st # "none"
      BY DEF PartInv, InProgress, Whole, Undecodable
    <2>3. /\ conn'[srv.msg.buf.sess].h = conn[srv.msg.buf.sess].h
          /\ conn'[srv.msg.buf.sess].st = "open" => conn[srv.msg.buf.sess].st = "open"
      BY <2>1, <2>2 DEF Steady, SteadyConn
    <2> QED
      BY <2>3 DEF PartInv, GivingUp, Undecodable, Ending
  <1> QED
    BY <1>1 DEF SrvKept, SrvHolds, Ending, Undecodable

LEMMA PartAccept ==
  ASSUME OwnInv, PartInv, OwnInv', Accept
  PROVE  PartInv'
  <1>0. /\ UNCHANGED <<queue, net, srv, done>> /\ net.pc = "idle" /\ Types /\ Types'
        /\ sessidctr < MaxSess /\ sessidctr \in Nat
    BY DEF Accept, OwnInv, Types
  <1>1. Steady
    <2>1. CASE UNCHANGED <<table, pool, hdl, conn>>
      <3>1. \A s \in Sess : Arrived(s)' = Arrived(s) /\ Arrived(s) \in Nat
        BY <1>0, <2>1, FieldTypes DEF Arrived
      <3> QED
        BY <1>0, <2>1, <3>1 DEF Steady, SteadyConn, SteadyFor, Listed, Valid
    <2>2. CASE ~UNCHANGED <<table, pool, hdl, conn>>
      <3>1. PICK i \in Handle, h \in pool :
               /\ table' = [table EXCEPT ![i] = h]
               /\ hdl' = [hdl EXCEPT ![h] = [sess |-> sessidctr + 1, pcb |-> sessidctr + 1,
                                             rbuf |-> NoBuf, newconn |-> TRUE]]
               /\ conn' = [conn EXCEPT ![sessidctr + 1] = [st |-> "open", h |-> h, sent |-> 0]]
        BY <2>2 DEF Accept
      <3>2. PICK s \in Sess : s = sessidctr + 1
        BY <1>0, NconfAssumption DEF Sess
      <3>3. h \in Handle
        BY <1>0 DEF Types
      <3>4. /\ conn'[s].st = "open" /\ conn'[s].h = h /\ conn'[s].sent = 0
            /\ \A t \in Sess : t # s => conn'[t] = conn[t]
        BY <1>0, <3>1, <3>2 DEF Types, ConnTypes
      <3>5. hdl'[h].rbuf = NoBuf /\ \A g \in Handle : g # h => hdl'[g] = hdl[g]
        BY <1>0, <3>1, <3>3 DEF Types, HdlTypes
      <3>6. \A t \in Sess : Arrived(t)' = conn'[t].sent /\ Arrived(t) = conn[t].sent
        BY <1>0 DEF Arrived
      <3>7. \A t \in Sess : conn[t].st # "none" => t # s
        BY <1>0, <3>2, FieldTypes DEF OwnInv, ConnFits
      <3>8. ASSUME NEW t \in Sess, conn[t].st = "open"
            PROVE  hdl'[conn[t].h] = hdl[conn[t].h] /\ (Valid(conn[t].h)' => Valid(conn[t].h))
        <4>1. conn[t].h \in Handle /\ conn[t].h # h /\ conn'[t].h = conn[t].h
          BY <3>4, <3>7, <3>8 DEF OwnInv, ConnFits
        <4>2. \A j \in Handle : table'[j] = table[j] \/ table'[j] = h
          BY <1>0, <3>1 DEF Types
        <4> QED
          BY <3>5, <4>1, <4>2 DEF Valid
      <3>9. ASSUME NEW t \in Sess
            PROVE  /\ Arrived(t)' \in Nat /\ Arrived(t) \in Nat
                   /\ conn[t].st # "none" => conn'[t].st # "none" /\ conn'[t].h = conn[t].h /\ Arrived(t)' = Arrived(t)
        <4>1. CASE t = s
          BY <1>0, <3>4, <3>6, <3>7, <4>1, FieldTypes
        <4>2. CASE t # s
          BY <1>0, <3>4, <3>6, <4>2, FieldTypes
        <4> QED
          BY <4>1, <4>2
      <3>10. ASSUME NEW t \in Sess, conn[t].st = "none", conn'[t].st # "none"
             PROVE  hdl'[conn'[t].h].rbuf.sess # t /\ Arrived(t)' = 0
        <4>1. t = s /\ t # 0
          BY <1>0, <3>4, <3>10, FieldTypes
        <4> QED
          BY <3>4, <3>5, <3>6, <4>1 DEF NoBuf
      <3>11. ASSUME NEW t \in Sess, conn'[t].st = "open", conn[t].st # "none"
             PROVE  conn[t].st = "open"
        BY <3>4, <3>7, <3>11
      <3>12. SteadyConn
        BY <3>9, <3>11 DEF SteadyConn
      <3>13. ASSUME NEW t \in Sess PROVE SteadyFor(t)
        <4>1. CASE conn[t].st = "none"
          BY <3>10, <4>1 DEF SteadyFor, Listed
        <4>2. CASE conn[t].st # "none"
          BY <3>8, <3>9, <3>11, <4>2 DEF SteadyFor, Listed, Valid
        <4> QED
          BY <4>1, <4>2
      <3> QED
        BY <1>0, <3>12, <3>13 DEF Steady
    <2> QED
      BY <2>1, <2>2
  <1> QED
    BY <1>0, <1>1, SrvStays, PartFrame DEF QueueKept, NetKept, NetHolds

\* The steps of the TCP/IP thread that take no part from the connection
LEMMA SteadyNet ==
  ASSUME OwnInv, OwnInv', done' = done,
         \A s \in Sess : /\ Arrived(s)' = Arrived(s) /\ conn'[s].h = conn[s].h
                         /\ conn[s].st # "none" => conn'[s].st # "none"
                         /\ conn'[s].st = "open" => conn[s].st = "open"
                         /\ conn'[s].st # "none" => conn[s].st # "none",
         \A s \in Sess : conn'[s].st = "open" => hdl'[conn[s].h].rbuf = hdl[conn[s].h].rbuf,
         \A i \in Handle : table'[i] = table[i] \/ table'[i] = 0
  PROVE  Steady
  <1>1. ASSUME NEW s \in Sess PROVE Arrived(s) \in Nat
    <2>1. Types /\ conn[s].sent \in Nat /\ net.n \in Nat
      BY FieldTypes DEF OwnInv
    <2>2. net.pc \in {"connect", "data"} => net.n <= conn[hdl[net.h].pcb].sent
      BY DEF OwnInv, NetFits
    <2> QED
      BY <2>1, <2>2 DEF Arrived
  <1>2. ASSUME NEW s \in Sess, conn[s].st = "open" PROVE Valid(conn[s].h)' => Valid(conn[s].h)
    <2>1. conn[s].h \in Handle /\ conn[s].h # 0 /\ conn'[s].h = conn[s].h
      BY <1>2, FieldTypes DEF OwnInv, ConnFits
    <2> QED
      BY <2>1 DEF Valid
  <1>3. SteadyConn
    BY <1>1 DEF SteadyConn
  <1>4. ASSUME NEW s \in Sess PROVE SteadyFor(s)
    BY <1>2 DEF SteadyFor, Listed, Valid
  <1> QED
    BY <1>3, <1>4 DEF Steady

LEMMA PartCallback ==
  ASSUME OwnInv, PartInv, OwnInv', Callback
  PROVE  PartInv'
  <1>0. /\ UNCHANGED <<sessidctr, table, hdl, pool, queue, srv, done>> /\ net.pc = "idle" /\ Types /\ Types'
    BY DEF Callback, OwnInv
  <1>1. PICK s \in Sess :
          /\ conn[s].st = "open"
          /\ \/ \E n \in 1 .. MaxSeg :
                   /\ net' = [Idle EXCEPT !.pc = "connect", !.h = conn[s].h, !.n = n]
                   /\ conn' = [conn EXCEPT ![s].sent = @ + n]
             \/ \E p \in {"connect", "check"} :
                   /\ net' = [Idle EXCEPT !.pc = p, !.h = conn[s].h]
                   /\ conn' = conn
    BY DEF Callback
  <1>2. PICK n \in Nat :
          /\ net'.pc \in {"connect", "check"} /\ net'.h = conn[s].h /\ net'.n = n
          /\ net'.pc = "check" => n = 0
          /\ conn'[s].sent = conn[s].sent + n
          /\ \A t \in Sess : conn'[t].st = conn[t].st /\ conn'[t].h = conn[t].h
          /\ \A t \in Sess : t # s => conn'[t] = conn[t]
    <2>1. CASE \E n \in 1 .. MaxSeg :
                   /\ net' = [Idle EXCEPT !.pc = "connect", !.h = conn[s].h, !.n = n]
                   /\ conn' = [conn EXCEPT ![s].sent = @ + n]
      <3>1. PICK n \in 1 .. MaxSeg :
                   /\ net' = [Idle EXCEPT !.pc = "connect", !.h = conn[s].h, !.n = n]
                   /\ conn' = [conn EXCEPT ![s].sent = @ + n]
        BY <2>1
      <3>2. n \in Nat
        BY NconfAssumption
      <3>3. net'.pc = "connect" /\ net'.h = conn[s].h /\ net'.n = n
        BY <3>1 DEF Idle
      <3>4. /\ conn'[s].sent = conn[s].sent + n
            /\ \A t \in Sess : conn'[t].st = conn[t].st /\ conn'[t].h = conn[t].h
            /\ \A t \in Sess : t # s => conn'[t] = conn[t]
        BY <1>0, <3>1, <3>2 DEF ConnTypes, Types
      <3> QED
        BY <3>2, <3>3, <3>4
    <2>2. CASE \E p \in {"connect", "check"} :
                   /\ net' = [Idle EXCEPT !.pc = p, !.h = conn[s].h]
                   /\ conn' = conn
      <3>1. net'.pc \in {"connect", "check"} /\ net'.h = conn[s].h /\ net'.n = 0 /\ conn' = conn
        BY <2>2 DEF Idle
      <3>2. conn[s].sent = conn[s].sent + 0
        BY <1>0, FieldTypes
      <3> QED
        BY <3>1, <3>2
    <2> QED
      BY <1>1, <2>1, <2>2
  <1>3. hdl[conn[s].h].pcb = s
    BY <1>1 DEF OwnInv, ConnFits
  <1>4. ASSUME NEW t \in Sess PROVE Arrived(t)' = Arrived(t)
    <2>1. Arrived(t) = conn[t].sent /\ conn[t].sent \in Nat
      BY <1>0, FieldTypes DEF Arrived
    <2>2. CASE t = s
      BY <1>0, <1>2, <1>3, <2>1, <2>2 DEF Arrived
    <2>3. CASE t # s
      BY <1>0, <1>2, <1>3, <2>1, <2>3 DEF Arrived
    <2> QED
      BY <2>2, <2>3
  <1>5. Steady
    BY <1>0, <1>2, <1>4, SteadyNet
  <1> QED
    BY <1>0, <1>2, <1>5, SrvStays, PartFrame DEF QueueKept, NetKept, NetHolds

LEMMA PartNetConnect ==
  ASSUME OwnInv, PartInv, OwnInv', NetConnect
  PROVE  PartInv'
  <1>0. /\ UNCHANGED <<sessidctr, conn, table, pool, srv, done>> /\ net.pc = "connect" /\ Types /\ Types'
        /\ net.h \in Handle
    BY DEF NetConnect, OwnInv, NetFits
  <1>1. net'.pc \in {"data", "check"} /\ net'.h = net.h /\ net'.n = net.n /\ (net'.pc = "check" => net.n = 0)
    <2>1. net' = [net EXCEPT !.pc = IF net.n > 0 THEN "data" ELSE "check"] /\ net.n \in Nat
      BY <1>0, FieldTypes DEF NetConnect
    <2>2. CASE net.n > 0
      BY <1>0, <2>1, <2>2 DEF NetTypes, Types
    <2>3. CASE ~(net.n > 0)
      BY <1>0, <2>1, <2>3 DEF NetTypes, Types
    <2> QED
      BY <2>2, <2>3
  <1>2. \A h \in Handle : hdl'[h].pcb = hdl[h].pcb /\ hdl'[h].sess = hdl[h].sess /\ hdl'[h].rbuf = hdl[h].rbuf
    BY <1>0 DEF NetConnect, HdlTypes, Types
  <1>3. QueueKept
    <2>1. CASE queue' = queue
      BY <2>1 DEF QueueKept
    <2>2. CASE queue' # queue
      <3>1. PICK m \in MsgSet : m.buf = NoBuf /\ queue' = Append(queue, m)
        <4>1. queue' = Append(queue, [type |-> "connect", h |-> net.h, sess |-> hdl[net.h].sess, buf |-> NoBuf])
          BY <2>2 DEF NetConnect, Enqueue
        <4>2. [type |-> "connect", h |-> net.h, sess |-> hdl[net.h].sess, buf |-> NoBuf] \in MsgSet
          BY <1>0, FieldTypes DEF MsgSet
        <4> QED
          BY <4>1, <4>2
      <3> QED
        BY <1>0, <3>1, AppendFacts DEF QueueKept, NoBuf, Types
    <2> QED
      BY <2>1, <2>2
  <1>4. ASSUME NEW t \in Sess PROVE Arrived(t)' = Arrived(t)
    <2>1. conn[t].sent \in Nat /\ net.n \in Nat /\ hdl'[net.h].pcb = hdl[net.h].pcb
      BY <1>0, <1>2, FieldTypes
    <2> QED
      BY <1>0, <1>1, <2>1 DEF Arrived
  <1>5. Steady
    <2>1. \A s \in Sess : conn[s].st = "open" => conn[s].h \in Handle
      BY DEF OwnInv, ConnFits
    <2> QED
      BY <1>0, <1>2, <1>4, <2>1, SteadyNet
  <1>6. NetKept
    BY <1>0, <1>1 DEF NetKept, NetHolds
  <1> QED
    BY <1>0, <1>3, <1>5, <1>6, SrvStays, PartFrame

LEMMA PartNetCheck ==
  ASSUME OwnInv, PartInv, OwnInv', NetCheck
  PROVE  PartInv'
  <1>0. /\ UNCHANGED <<sessidctr, conn, hdl, pool, queue, srv, done>> /\ net.pc = "check" /\ Types /\ Types'
    BY DEF NetCheck, OwnInv
  <1>1. net'.pc \in {"idle", "free"}
    <2>1. CASE net' = Idle
      BY <2>1 DEF Idle
    <2>2. CASE net' = [net EXCEPT !.pc = "free", !.pcb = hdl[net.h].pcb]
      BY <1>0, <2>2 DEF NetTypes, Types
    <2> QED
      BY <2>1, <2>2 DEF NetCheck
  <1>2. \A i \in Handle : table'[i] = table[i] \/ table'[i] = 0
    BY <1>0 DEF NetCheck, Types
  <1>3. \A t \in Sess : Arrived(t)' = Arrived(t)
    BY <1>0, <1>1 DEF Arrived
  <1>4. Steady
    BY <1>0, <1>2, <1>3, SteadyNet
  <1>5. NetKept /\ QueueKept
    BY <1>0, <1>1 DEF NetKept, NetHolds, QueueKept
  <1> QED
    BY <1>0, <1>4, <1>5, SrvStays, PartFrame

LEMMA PartNetFree ==
  ASSUME OwnInv, PartInv, OwnInv', NetFree
  PROVE  PartInv'
  <1>0. /\ UNCHANGED <<sessidctr, table, queue, srv, done>> /\ net' = Idle /\ net.pc = "free" /\ Types /\ Types'
        /\ hdl' = [hdl EXCEPT ![net.h].pcb = 0, ![net.h].rbuf = NoBuf]
        /\ conn' = Closed(net.pcb) /\ net'.pc = "idle"
    BY DEF NetFree, OwnInv, Idle
  <1>1. PICK s \in Sess : s = net.pcb /\ s = hdl[net.h].pcb /\ net.h \in Handle /\ conn[s].st = "open"
                          /\ conn[s].h = net.h
    <2>1. net.h \in Handle /\ hdl[net.h].pcb # 0 /\ conn[hdl[net.h].pcb].st = "open" /\ net.pcb = hdl[net.h].pcb
      BY <1>0 DEF OwnInv, NetFits
    <2>2. hdl[net.h].pcb \in Sess /\ conn[hdl[net.h].pcb].h = net.h
      BY <1>0, <2>1, FieldTypes DEF OwnInv, PcbFits
    <2> QED
      BY <2>1, <2>2
  <1>2. /\ conn'[s].st = "closed" /\ conn'[s].h = conn[s].h /\ conn'[s].sent = conn[s].sent
        /\ \A t \in Sess : t # s => conn'[t] = conn[t]
    <2>1. conn' = [conn EXCEPT ![s].st = "closed"]
      BY <1>0, <1>1, FieldTypes DEF Closed
    <2> QED
      BY <1>0, <2>1 DEF ConnTypes, Types
  <1>3. \A h \in Handle : h # net.h => hdl'[h] = hdl[h]
    BY <1>0, <1>1 DEF HdlTypes, Types
  <1>4. ASSUME NEW t \in Sess PROVE Arrived(t)' = Arrived(t)
    BY <1>0, <1>2 DEF Arrived
  <1>5. ASSUME NEW t \in Sess, conn'[t].st = "open"
        PROVE  conn[t].st = "open" /\ hdl'[conn[t].h].rbuf = hdl[conn[t].h].rbuf
    <2>1. t # s /\ conn'[t] = conn[t]
      BY <1>2, <1>5
    <2>2. conn[t].h \in Handle /\ conn[t].h # net.h
      BY <1>1, <1>5, <2>1 DEF OwnInv, ConnFits
    <2> QED
      BY <1>3, <1>5, <2>1, <2>2
  <1>6. Steady
    BY <1>0, <1>1, <1>2, <1>4, <1>5, SteadyNet
  <1>7. NetKept /\ QueueKept
    BY <1>0 DEF NetKept, NetHolds, QueueKept
  <1> QED
    BY <1>0, <1>6, <1>7, SrvStays, PartFrame

LEMMA PartMove ==
  ASSUME OwnInv, PartInv, OwnInv', SrvRpc \/ SrvSend \/ SrvWrite \/ SrvCheck
  PROVE  PartInv'
  <1>0. /\ UNCHANGED <<sessidctr, conn, table, hdl, pool, queue, net, heap, twice, leaked, done>>
        /\ srv.pc # "free" /\ srv.pc # "idle"
        /\ srv'.msg.buf = srv.msg.buf /\ srv'.msg.sess = srv.msg.sess /\ srv'.msg.type = srv.msg.type
        /\ srv'.at = srv.at
        /\ SrvHolds /\ srv.msg.buf # NoBuf => SrvHolds'
    BY MoveFacts
  <1>1. Steady
    BY <1>0, SteadyNet DEF Arrived
  <1>2. SrvKept /\ NetKept /\ QueueKept
    BY <1>0 DEF SrvKept, NetKept, NetHolds, QueueKept
  <1>3. /\ GivingUp'
        /\ \A s \in Sess : Listed(s)' /\ Undecodable /\ Ending /\ srv.msg.buf.sess = s =>
                              Undecodable' /\ Ending' /\ srv'.msg.buf.sess = s
    <2>1. CASE ~Undecodable
      <3>1. ~Undecodable'
        BY <1>0, <2>1 DEF Undecodable
      <3> QED
        BY <2>1, <3>1 DEF GivingUp
    <2>2. CASE Undecodable
      <3>1. /\ srv.at = 0 /\ srv.msg.h = conn[srv.msg.buf.sess].h
            /\ srv.pc = "decode" \/ (Ending /\ srv.then = "idle" /\ srv.h = srv.msg.h)
        BY <2>2 DEF PartInv, GivingUp
      <3>2. SrvCheck /\ srv.pc = "check"
        BY <3>1 DEF SrvRpc, SrvSend, SrvWrite, SrvCheck, Ending
      <3>3. srv.then = "idle" /\ srv.h = srv.msg.h
        BY <3>1, <3>2
      <3>4. CASE Valid(srv.h)
        <4>1. PICK i \in Handle : srv' = [srv EXCEPT !.pc = "clear", !.i = i]
          BY <3>2, <3>4 DEF SrvCheck
        <4>2. srv'.pc = "clear" /\ srv'.then = srv.then /\ srv'.h = srv.h /\ srv'.msg = srv.msg
          BY <4>1 DEF OwnInv, Types, SrvTypes, SrvSet
        <4> QED
          BY <1>0, <2>2, <3>1, <3>3, <4>2 DEF GivingUp, Undecodable, Ending
      <3>5. CASE ~Valid(srv.h)
        <4>1. srv' = [Forget(srv) EXCEPT !.pc = srv.then]
          BY <3>2, <3>5 DEF SrvCheck
        <4>2. srv'.pc = "idle"
          BY <3>3, <4>1, GoOn DEF OwnInv
        <4>3. ~Undecodable'
          BY <4>2 DEF Undecodable
        <4>4. ~Listed(srv.msg.buf.sess)'
          BY <1>0, <3>1, <3>3, <3>5 DEF Listed, Valid
        <4> QED
          BY <1>0, <4>3, <4>4 DEF GivingUp, Listed
      <3> QED
        BY <3>4, <3>5
    <2> QED
      BY <2>1, <2>2
  <1> QED
    BY <1>0, <1>1, <1>2, <1>3, PartFrame

LEMMA PartSrvClear ==
  ASSUME OwnInv, PartInv, OwnInv', SrvClear
  PROVE  PartInv'
  <1>0. /\ UNCHANGED <<sessidctr, conn, hdl, pool, queue, net, heap, twice, leaked, done>>
        /\ srv.pc = "clear" /\ \A i \in Handle : table'[i] = table[i] \/ table'[i] = 0
        /\ srv'.pc = "close" /\ srv'.pcb = hdl[srv.h].pcb /\ srv'.h = srv.h /\ srv.h \in Handle
        /\ srv'.then = srv.then /\ srv'.msg = srv.msg /\ srv'.at = srv.at
    BY ClearFacts
  <1>1. Steady
    BY <1>0, SteadyNet DEF Arrived
  <1>2. SrvKept /\ NetKept /\ QueueKept
    BY <1>0 DEF SrvKept, NetKept, NetHolds, QueueKept
  <1>3. Ending /\ Ending' /\ (SrvHolds => SrvHolds') /\ (Undecodable' <=> Undecodable)
    BY <1>0 DEF Ending, SrvHolds, Undecodable
  <1>4. GivingUp'
    <2> SUFFICES ASSUME Undecodable PROVE GivingUp'
      BY <1>3 DEF GivingUp
    <2>1. /\ srv.at = 0 /\ srv.msg.h = conn[srv.msg.buf.sess].h
          /\ Ending /\ srv.then = "idle" /\ srv.h = srv.msg.h
      BY <1>0 DEF PartInv, GivingUp
    <2>2. srv.msg.buf.sess \in Sess
      BY FieldTypes, BufFields DEF Undecodable, OwnInv
    <2>3. conn[srv.msg.buf.sess].st = "open" => hdl[srv.h].pcb = srv.msg.buf.sess
      BY <2>1, <2>2 DEF OwnInv, ConnFits
    <2> QED
      BY <1>0, <1>3, <2>1, <2>3 DEF GivingUp
  <1> QED
    BY <1>0, <1>1, <1>2, <1>3, <1>4, PartFrame

LEMMA PartSrvClose ==
  ASSUME OwnInv, PartInv, OwnInv', SrvClose, ~twice'
  PROVE  PartInv'
  <1>0. /\ UNCHANGED <<sessidctr, table, hdl, pool, queue, net, heap, leaked, done>>
        /\ srv.pc = "close" /\ srv'.pc = "free" /\ srv'.pcb = srv.pcb /\ srv'.h = srv.h
        /\ srv'.then = srv.then /\ srv'.msg = srv.msg /\ srv'.at = srv.at
    BY CloseFacts
  <1>1. /\ \A s \in Sess : /\ conn'[s].h = conn[s].h /\ conn'[s].sent = conn[s].sent
                           /\ conn'[s].st # "none" <=> conn[s].st # "none"
                           /\ conn'[s].st = "open" => conn[s].st = "open" /\ s # srv.pcb
    <2>1. CASE srv.pcb = 0
      <3>1. conn' = conn
        BY <2>1, CloseFacts
      <3> QED
        BY <2>1, <3>1, FieldTypes DEF OwnInv
    <2>2. CASE srv.pcb # 0
      <3>1. /\ srv.pcb \in Sess /\ conn[srv.pcb].st = "open"
            /\ conn'[srv.pcb].st = "closed" /\ conn'[srv.pcb].h = conn[srv.pcb].h
            /\ conn'[srv.pcb].sent = conn[srv.pcb].sent
            /\ \A s \in Sess : s # srv.pcb => conn'[s] = conn[s]
        BY <2>2, CloseFacts
      <3> QED
        BY <3>1
    <2> QED
      BY <2>1, <2>2
  <1>2. \A s \in Sess : Arrived(s)' = Arrived(s)
    BY <1>0, <1>1 DEF Arrived
  <1>3. Steady
    BY <1>0, <1>1, <1>2, SteadyNet
  <1>4. SrvKept /\ NetKept /\ QueueKept
    BY <1>0 DEF SrvKept, NetKept, NetHolds, QueueKept
  <1>5. Ending /\ Ending' /\ (SrvHolds => SrvHolds') /\ (Undecodable' <=> Undecodable)
    BY <1>0 DEF Ending, SrvHolds, Undecodable
  <1>6. GivingUp'
    <2> SUFFICES ASSUME Undecodable PROVE GivingUp'
      BY <1>5 DEF GivingUp
    <2>1. /\ srv.at = 0 /\ srv.msg.h = conn[srv.msg.buf.sess].h
          /\ Ending /\ srv.then = "idle" /\ srv.h = srv.msg.h
          /\ conn[srv.msg.buf.sess].st = "open" => srv.pcb = srv.msg.buf.sess
      BY <1>0 DEF PartInv, GivingUp
    <2>2. srv.msg.buf.sess \in Sess
      BY FieldTypes, BufFields DEF Undecodable, OwnInv
    <2>3. conn'[srv.msg.buf.sess].st # "open" /\ conn'[srv.msg.buf.sess].h = conn[srv.msg.buf.sess].h
      BY <1>1, <2>1, <2>2
    <2> QED
      BY <1>0, <1>5, <2>1, <2>3 DEF GivingUp
  <1> QED
    BY <1>0, <1>3, <1>4, <1>5, <1>6, PartFrame

LEMMA PartSrvFree ==
  ASSUME OwnInv, PartInv, OwnInv', SrvFree, ~twice'
  PROVE  PartInv'
  <1>0. /\ UNCHANGED <<sessidctr, conn, table, queue, net, leaked, done>> /\ srv.pc = "free"
        /\ srv.pcb \in Sess /\ srv.h \in Handle
        /\ conn[srv.pcb].st = "closed" /\ hdl[srv.h].pcb = srv.pcb
        /\ \A h \in Handle : h # srv.h => hdl'[h] = hdl[h]
        /\ \A s \in Sess : conn[s].st = "open" => conn[s].h # srv.h
    BY FreeFacts
  <1>1. /\ srv.then \in {"idle", "decode", "send"} /\ srv'.pc = srv.then /\ srv'.at = srv.at
        /\ srv'.msg.buf = srv.msg.buf /\ srv'.msg.sess = srv.msg.sess /\ srv'.msg.type = srv.msg.type
    BY FreeFacts
  <1>2. net.pc # "idle" => net.h \in Handle /\ net.h # srv.h /\ hdl'[net.h] = hdl[net.h]
    BY <1>0 DEF OwnInv, NetFits
  <1>3. \A s \in Sess : Arrived(s)' = Arrived(s)
    BY <1>0, <1>2 DEF Arrived
  <1>4. Steady
    <2>1. \A s \in Sess : conn[s].st = "open" => conn[s].h \in Handle
      BY DEF OwnInv, ConnFits
    <2> QED
      BY <1>0, <1>3, <2>1, SteadyNet
  <1>5. SrvKept /\ QueueKept
    BY <1>0, <1>1 DEF SrvKept, QueueKept
  <1>6. NetKept
    BY <1>0, <1>2 DEF NetKept, NetHolds
  <1>7. SrvHolds => SrvHolds'
    BY <1>0, <1>1 DEF SrvHolds, Ending
  <1>8. /\ GivingUp'
        /\ \A s \in Sess : Listed(s)' /\ Undecodable /\ Ending /\ srv.msg.buf.sess = s =>
                              Undecodable' /\ Ending' /\ srv'.msg.buf.sess = s
    <2>1. CASE ~Undecodable
      <3>1. ~Undecodable'
        BY <1>0, <1>1, <2>1 DEF Undecodable
      <3> QED
        BY <2>1, <3>1 DEF GivingUp
    <2>2. CASE Undecodable
      <3>1. srv.then = "idle" /\ conn[srv.msg.buf.sess].st # "open"
        BY <1>0, <2>2 DEF PartInv, GivingUp
      <3>2. ~Undecodable' /\ ~Listed(srv.msg.buf.sess)'
        BY <1>0, <1>1, <3>1 DEF Undecodable, Listed
      <3> QED
        BY <1>1, <3>2 DEF GivingUp, Listed
    <2> QED
      BY <2>1, <2>2
  <1> QED
    BY <1>1, <1>4, <1>5, <1>6, <1>7, <1>8, PartFrame

LEMMA ArrivedNat ==
  ASSUME OwnInv, NEW s \in Sess
  PROVE  Arrived(s) \in Nat /\ Arrived(s) <= conn[s].sent /\ conn[s].sent \in Nat
  <1>1. Types /\ conn[s].sent \in Nat /\ net.n \in Nat
    BY FieldTypes DEF OwnInv
  <1>2. net.pc \in {"connect", "data"} => net.n <= conn[hdl[net.h].pcb].sent
    BY DEF OwnInv, NetFits
  <1> QED
    BY <1>1, <1>2 DEF Arrived

\* The segment of a connection that is ended at this moment is not taken.
LEMMA PartNetDataLate ==
  ASSUME OwnInv, PartInv, OwnInv', NetData, ~Valid(net.h)
  PROVE  PartInv'
  <1>0. /\ UNCHANGED <<conn, table, hdl, queue, srv, done>> /\ net' = Idle /\ net.pc = "data"
        /\ net'.pc = "idle" /\ ~Valid(net.h)'
    BY DEF NetData, Idle, Valid
  <1>1. ASSUME NEW s \in Sess PROVE Arrived(s)' = conn[s].sent /\ (hdl[net.h].pcb # s => Arrived(s) = conn[s].sent)
    BY <1>0 DEF Arrived
  <1>2. SteadyConn
    BY <1>0, <1>1, ArrivedNat DEF SteadyConn
  <1>3. ASSUME NEW s \in Sess PROVE SteadyFor(s)
    <2>1. CASE hdl[net.h].pcb = s
      <3>1. conn[s].h = net.h
        BY <1>0, <2>1, FieldTypes DEF OwnInv, NetFits, PcbFits
      <3> QED
        BY <1>0, <3>1 DEF SteadyFor, Listed, Valid
    <2>2. CASE hdl[net.h].pcb # s
      BY <1>0, <1>1, <2>2 DEF SteadyFor, Listed, Valid
    <2> QED
      BY <2>1, <2>2
  <1>4. Steady
    BY <1>0, <1>2, <1>3 DEF Steady
  <1> QED
    BY <1>0, <1>4, SrvStays, PartFrame DEF QueueKept, NetKept, NetHolds

LEMMA HalfMonotone ==
  ASSUME NEW x \in Nat, NEW y \in Nat, x <= y
  PROVE  x \div 2 <= y \div 2
  OBVIOUS

\* The read buffer after the segment: what came before it was read before.
LEMMA GrownFacts ==
  ASSUME OwnInv, PartInv, net.pc = "data", Valid(net.h), (MaxSeg + 1) \div 2 <= MaxDecode,
         NEW b \in BufSet, NEW s \in Sess,
         s = hdl[net.h].pcb, s = hdl[net.h].sess, conn[s].st = "open", conn[s].h = net.h, net.h \in Handle,
         b = Grown(hdl[net.h].rbuf, s, net.n), b.sess = s, b.hi = conn[s].sent
  PROVE  /\ 1 <= b.lo /\ b.lo <= b.hi /\ Arrived(s) <= b.hi /\ b.lo <= Arrived(s) + 1
         /\ 2 * done[s] < b.lo /\ (b.hi - b.lo + 1) \div 2 <= MaxDecode
         /\ \A i \in 1 .. Len(queue) : Before(queue[i].buf, b)
         /\ srv.pc # "idle" => Before(srv.msg.buf, b)
         /\ \A p \in Nat : Within(hdl[net.h].rbuf, s, p) => Within(b, s, p)
  <1>0. /\ net.n \in Nat /\ net.n > 0 /\ net.n <= MaxSeg /\ conn[s].sent \in Nat /\ net.n <= conn[s].sent
        /\ Arrived(s) = conn[s].sent - net.n /\ MaxSeg \in Nat /\ MaxDecode \in Nat /\ Arrived(s) \in Nat
    BY ArrivedNat, FieldTypes, NconfAssumption DEF OwnInv, NetFits, Arrived
  <1>1. PICK r \in BufSet : r = hdl[net.h].rbuf
    BY FieldTypes DEF OwnInv
  <1>2. r.lo \in Nat /\ r.hi \in Nat /\ b.lo \in Nat /\ b.hi \in Nat
    BY <1>1, BufFields
  <1>3. done[s] \in Nat /\ 2 * done[s] <= Arrived(s)
    BY DEF PartInv, Counts
  <1>4. CASE IsBuf(r)
    <2>1. b.lo = r.lo
      BY <1>1, <1>4 DEF Grown
    <2>2. /\ r.lo = r.hi /\ r.lo % 2 = 1 /\ r.hi = Arrived(s) /\ 2 * done[s] < r.lo
          /\ \A i \in 1 .. Len(queue) : Before(queue[i].buf, r)
          /\ srv.pc # "idle" => Before(srv.msg.buf, r)
      <3>1. Listed(s) /\ FillingFits(s)
        BY DEF Listed, PartInv
      <3> QED
        BY <1>1, <1>4, <3>1 DEF FillingFits
    <2>3. r.sess = s
      BY <1>1, <1>4 DEF OwnInv, RbufFits, IsBuf
    <2>4. 1 <= b.lo /\ b.lo <= b.hi /\ Arrived(s) <= b.hi /\ b.lo <= Arrived(s) + 1
      BY <1>0, <1>2, <2>1, <2>2
    <2>5. (b.hi - b.lo + 1) \div 2 <= MaxDecode
      <3>1. PICK x \in Nat : x = b.hi - b.lo + 1
        BY <1>2, <2>4
      <3>2. x <= MaxSeg + 1 /\ MaxSeg + 1 \in Nat
        <4>1. b.hi = r.lo + net.n /\ net.n \in Nat /\ net.n <= MaxSeg /\ MaxSeg \in Nat
          BY <1>0, <2>2
        <4> QED
          BY <1>2, <2>1, <3>1, <4>1
      <3>3. x \div 2 <= (MaxSeg + 1) \div 2
        BY <3>2, HalfMonotone
      <3> QED
        BY <1>0, <3>1, <3>3
    <2>6. /\ \A i \in 1 .. Len(queue) : Before(queue[i].buf, b)
          /\ srv.pc # "idle" => Before(srv.msg.buf, b)
      BY <2>1, <2>2, <2>3 DEF Before
    <2>7. \A p \in Nat : Within(hdl[net.h].rbuf, s, p) => Within(b, s, p)
      BY <1>0, <1>1, <1>2, <2>1, <2>2 DEF Within
    <2> QED
      BY <1>2, <2>1, <2>2, <2>4, <2>5, <2>6, <2>7
  <1>5. CASE ~IsBuf(r)
    <2>1. b.lo = Arrived(s) + 1
      BY <1>0, <1>1, <1>5 DEF Grown
    <2>2. 1 <= b.lo /\ b.lo <= b.hi /\ Arrived(s) <= b.hi /\ b.lo <= Arrived(s) + 1 /\ 2 * done[s] < b.lo
      BY <1>0, <1>2, <1>3, <2>1
    <2>3. (b.hi - b.lo + 1) \div 2 <= MaxDecode
      <3>1. b.hi - b.lo + 1 = net.n
        BY <1>0, <2>1
      <3>2. net.n \div 2 <= (MaxSeg + 1) \div 2
        BY <1>0, HalfMonotone
      <3> QED
        BY <1>0, <3>1, <3>2
    <2>4. ASSUME NEW c \in BufSet, Whole(c) PROVE Before(c, b)
      <3> SUFFICES ASSUME c.sess = s, s # 0 PROVE c.hi < b.lo
        BY DEF Before
      <3>1. c.hi <= Arrived(s) /\ c.hi \in Nat
        BY <2>4, BufFields DEF Whole
      <3> QED
        BY <1>0, <2>1, <3>1
    <2>5. ASSUME NEW i \in 1 .. Len(queue) PROVE Before(queue[i].buf, b)
      BY <2>4, FieldTypes DEF PartInv, QueuedFits, OwnInv
    <2>6. ASSUME srv.pc # "idle" PROVE Before(srv.msg.buf, b)
      <3>1. CASE srv.msg.buf.sess = 0
        BY <3>1 DEF Before
      <3>2. CASE srv.msg.buf.sess # 0
        BY <2>4, <2>6, <3>2, FieldTypes DEF PartInv, InProgress, OwnInv
      <3> QED
        BY <3>1, <3>2
    <2>7. \A p \in Nat : ~Within(hdl[net.h].rbuf, s, p)
      BY <1>1, <1>5, FieldTypes DEF Within, IsBuf, OwnInv
    <2> QED
      BY <2>2, <2>3, <2>5, <2>6, <2>7
  <1> QED
    BY <1>4, <1>5

LEMMA OneOdd ==
  ASSUME NEW b \in BufSet, ~IsComplete(b), b.lo <= b.hi
  PROVE  b.lo = b.hi /\ b.lo % 2 = 1
  <1>1. b.lo \in Nat /\ b.hi \in Nat
    BY BufFields
  <1>2. b.lo % 2 # 0
    BY <1>1 DEF IsComplete
  <1>3. ASSUME b.lo # b.hi PROVE FALSE
    <2>1. b.lo + 1 \in b.lo .. b.hi
      BY <1>1, <1>3
    <2>2. (b.lo + 1) % 2 # 0
      BY <2>1 DEF IsComplete
    <2> QED
      BY <1>1, <1>2, <2>2
  <1> QED
    BY <1>1, <1>2, <1>3

LEMMA PartNetData ==
  ASSUME OwnInv, PartInv, OwnInv', NetData, (MaxSeg + 1) \div 2 <= MaxDecode
  PROVE  PartInv'
  <1> SUFFICES ASSUME Valid(net.h) PROVE PartInv'
    BY PartNetDataLate
  <1>0. /\ UNCHANGED <<conn, table, queue, srv, done>> /\ net.pc = "data" /\ Types /\ Types'
        /\ done \in [Sess -> Nat]
    BY DEF NetData, OwnInv, PartInv, Counts
  <1>1. PICK b \in BufSet, s \in Sess :
            /\ s = hdl[net.h].pcb /\ s = hdl[net.h].sess /\ conn[s].st = "open" /\ conn[s].h = net.h
            /\ b = Grown(hdl[net.h].rbuf, s, net.n) /\ b.sess = s /\ b.hi = conn[s].sent
            /\ net.h \in Handle
            /\ hdl'[net.h].rbuf = b /\ hdl'[net.h].pcb = s /\ hdl'[net.h].sess = s
            /\ \A h \in Handle : h # net.h => hdl'[h] = hdl[h]
            /\ IF IsComplete(b)
               THEN net' = [net EXCEPT !.pc = "unlink", !.buf = b]
               ELSE net' = Idle
    BY DataFacts
  <1>2. /\ 1 <= b.lo /\ b.lo <= b.hi /\ Arrived(s) <= b.hi /\ b.lo <= Arrived(s) + 1
        /\ 2 * done[s] < b.lo /\ (b.hi - b.lo + 1) \div 2 <= MaxDecode
        /\ \A i \in 1 .. Len(queue) : Before(queue[i].buf, b)
        /\ srv.pc # "idle" => Before(srv.msg.buf, b)
        /\ \A p \in Nat : Within(hdl[net.h].rbuf, s, p) => Within(b, s, p)
    BY <1>0, <1>1, GrownFacts
  <1>3. IF IsComplete(b) THEN net'.pc = "unlink" /\ net'.h = net.h /\ net'.buf = b ELSE net'.pc = "idle"
    <2>1. CASE IsComplete(b)
      <3>1. net' = [net EXCEPT !.pc = "unlink", !.buf = b]
        BY <1>1, <2>1
      <3> QED
        BY <1>0, <2>1, <3>1 DEF Types, NetTypes
    <2>2. CASE ~IsComplete(b)
      <3>1. net' = Idle
        BY <1>1, <2>2
      <3> QED
        BY <2>2, <3>1 DEF Idle
    <2> QED
      BY <2>1, <2>2
  <1>4. net'.pc \in {"unlink", "idle"} /\ ~NetHolds /\ s # 0 /\ b.lo \in Nat /\ b.hi \in Nat
    BY <1>0, <1>3, FieldTypes, BufFields DEF NetHolds
  <1>5. ASSUME NEW t \in Sess PROVE Arrived(t)' = conn[t].sent /\ (t # s => Arrived(t) = conn[t].sent)
    BY <1>0, <1>1, <1>4 DEF Arrived
  <1>6. SteadyConn
    BY <1>0, <1>5, ArrivedNat DEF SteadyConn
  <1>7. ASSUME NEW t \in Sess, t # s
        PROVE  SteadyFor(t) /\ (Listed(t) => hdl'[conn[t].h] = hdl[conn[t].h])
    <2>1. conn[t].st = "open" => conn[t].h \in Handle /\ hdl[conn[t].h].pcb = t
      BY DEF OwnInv, ConnFits
    <2> QED
      BY <1>0, <1>1, <1>5, <1>7, <2>1 DEF SteadyFor, Listed, Valid
  <1>8. Counts'
    BY <1>0, <1>6, CountsFrame DEF PartInv
  <1>9. InProgress'
    BY <1>0, <1>6, ProgressFrame DEF PartInv, SrvKept
  <1>10. GivingUp'
    BY <1>0 DEF PartInv, GivingUp, Undecodable, Ending
  <1>11. NetBufFits'
    <2> SUFFICES ASSUME IsComplete(b) PROVE NetBufFits'
      BY <1>3 DEF NetBufFits, NetHolds
    <2>0. net'.buf = b
      BY <1>3
    <2>1. Whole(net.buf)'
      <3>1. conn'[s].st # "none" /\ b.hi <= Arrived(s)'
        BY <1>0, <1>1, <1>4, <1>5
      <3>2. Whole(b)'
        BY <1>1, <1>2, <3>1 DEF Whole, IsComplete
      <3> QED
        BY <2>0, <3>2 DEF Whole, IsComplete
    <2>2. Fresh(net.buf)'
      BY <1>0, <1>1, <1>2, <2>0 DEF Fresh
    <2> QED
      BY <1>0, <1>1, <1>2, <1>3, <1>4, <2>1, <2>2 DEF NetBufFits, Before
  <1>12. ASSUME NEW i \in 1 .. Len(queue') PROVE QueuedFits(i)'
    <2>1. QueuedFits(i) /\ i \in 1 .. Len(queue)
      BY <1>0 DEF PartInv
    <2>2. PICK c \in BufSet : c = queue[i].buf
      BY <1>0, <2>1, FieldTypes
    <2>3. Whole(c)'
      BY <1>6, <2>1, <2>2, WholeFrame DEF QueuedFits
    <2>4. Whole(queue[i].buf)'
      BY <1>0, <2>2, <2>3 DEF Whole, IsComplete
    <2>5. NetHolds' => Before(queue'[i].buf, net'.buf)
      BY <1>0, <1>2, <1>3, <2>1 DEF NetHolds, Before
    <2> QED
      BY <1>0, <2>1, <2>4, <2>5 DEF QueuedFits, Fresh, Tagged, Before
  <1>13. ASSUME NEW t \in Sess PROVE FillingFits(t)'
    <2>1. CASE t # s
      BY <1>0, <1>4, <1>7, <2>1, FillFrame DEF PartInv
    <2>2. CASE t = s /\ IsComplete(b)
      BY <1>0, <1>1, <1>3, <2>2 DEF FillingFits
    <2>3. CASE t = s /\ ~IsComplete(b)
      <3>1. b.lo = b.hi /\ b.lo % 2 = 1
        BY <1>2, <2>3, OneOdd
      <3>2. net'.pc = "idle" /\ Arrived(s)' = b.hi /\ hdl'[conn'[s].h].rbuf = b /\ 2 * done'[s] < b.lo
        BY <1>0, <1>1, <1>2, <1>3, <1>5, <2>3
      <3>3. /\ \A i \in 1 .. Len(queue') : Before(queue'[i].buf, b)
            /\ srv'.pc # "idle" => Before(srv'.msg.buf, b)
        BY <1>0, <1>2
      <3> QED
        BY <2>3, <3>1, <3>2, <3>3 DEF FillingFits, Before
    <2> QED
      BY <2>1, <2>2, <2>3
  <1>14. ASSUME NEW t \in Sess PROVE AllKept(t)'
    <2>1. CASE t # s
      <3>1. ASSUME NEW k \in Nat, Listed(t), Kept(t, 2 * k) PROVE Kept(t, 2 * k)'
        <4>1. hdl'[conn'[t].h].rbuf = hdl[conn[t].h].rbuf
          BY <1>0, <1>7, <2>1, <3>1
        <4> QED
          BY <1>0, <1>4, <3>1, <4>1 DEF Kept, Within, SrvHolds, Ending
      <3>2. AllKept(t) /\ SteadyFor(t)
        BY <1>7, <2>1 DEF PartInv
      <3> QED
        BY <1>0, <3>1, <3>2, KeptFrame DEF Undecodable, Ending
    <2>2. CASE t = s
      <3> SUFFICES ASSUME ~(Undecodable /\ Ending /\ srv.msg.buf.sess = s)',
                          NEW k \in Nat, done[s] < k, 2 * k <= conn[s].sent
                   PROVE  Kept(s, 2 * k)'
        BY <1>0, <1>5, <2>2 DEF AllKept
      <3>1. hdl'[conn'[s].h].rbuf = b
        BY <1>0, <1>1
      <3>2. CASE 2 * k <= Arrived(s)
        <4>1. Listed(s) /\ ~(Undecodable /\ Ending /\ srv.msg.buf.sess = s)
          BY <1>0, <1>1 DEF Listed, Undecodable, Ending
        <4>2. Kept(s, 2 * k)
          BY <3>2, <4>1 DEF PartInv, AllKept
        <4>3. CASE Within(hdl[conn[s].h].rbuf, s, 2 * k)
          <5>1. Within(b, s, 2 * k)
            <6>1. \A p \in Nat : Within(hdl[net.h].rbuf, s, p) => Within(b, s, p)
              BY <1>2
            <6>2. conn[s].h = net.h /\ 2 * k \in Nat
              BY <1>1
            <6> QED
              BY <4>3, <6>1, <6>2, Zenon
          <5> QED
            BY <3>1, <5>1 DEF Kept, Within
        <4> QED
          BY <1>0, <1>4, <4>2, <4>3 DEF Kept, Within, SrvHolds, Ending
      <3>3. CASE 2 * k > Arrived(s)
        <4>1. b.sess = s /\ b.hi = conn[s].sent /\ b.lo <= Arrived(s) + 1
          BY <1>1, <1>2
        <4>2. b.lo \in Nat /\ Arrived(s) \in Nat /\ conn[s].sent \in Nat
          BY BufFields, ArrivedNat
        <4>3. b.lo <= 2 * k
          BY <3>3, <4>1, <4>2
        <4>4. Within(b, s, 2 * k)
          BY <4>1, <4>3 DEF Within
        <4> QED
          BY <3>1, <4>4 DEF Kept, Within
      <3> QED
        BY <3>2, <3>3, ArrivedNat
    <2> QED
      BY <2>1, <2>2
  <1> QED
    BY <1>8, <1>9, <1>10, <1>11, <1>12, <1>13, <1>14 DEF PartInv

\* The session whose message the TCP/IP thread holds
LEMMA HolderFacts ==
  ASSUME OwnInv, PartInv, NetHolds
  PROVE  \E s \in Sess : /\ s = net.buf.sess /\ s # 0 /\ net.h \in Handle /\ conn[s].st = "open" /\ conn[s].h = net.h
                         /\ hdl[net.h].sess = s
                         /\ \A t \in Sess : t # s /\ conn[t].st = "open" => conn[t].h # net.h
  <1>1. net.pc # "idle"
    BY DEF NetHolds
  <1>2. net.h \in Handle /\ hdl[net.h].pcb # 0 /\ conn[hdl[net.h].pcb].st = "open"
    BY <1>1 DEF OwnInv, NetFits
  <1>3. PICK s \in Sess : s = hdl[net.h].pcb
    BY <1>2, FieldTypes DEF OwnInv
  <1>4. conn[s].st = "open" /\ conn[s].h = net.h /\ hdl[net.h].sess = s
    BY <1>2, <1>3 DEF OwnInv, ConnFits, PcbFits
  <1>5. net.buf.sess = hdl[net.h].sess /\ net.buf.sess # 0
    BY DEF PartInv, NetBufFits
  <1>6. \A t \in Sess : t # s /\ conn[t].st = "open" => conn[t].h # net.h
    BY <1>3 DEF OwnInv, ConnFits
  <1> QED
    BY <1>2, <1>4, <1>5, <1>6

LEMMA PartNetUnlink ==
  ASSUME OwnInv, PartInv, OwnInv', NetUnlink
  PROVE  PartInv'
  <1>0. /\ UNCHANGED <<conn, table, queue, srv, done>> /\ net.pc = "unlink" /\ Types /\ Types' /\ NetHolds
        /\ done \in [Sess -> Nat] /\ hdl[net.h].rbuf = net.buf
    BY DEF NetUnlink, OwnInv, PartInv, Counts, NetHolds, NetFits
  <1>1. net'.pc = "enqueue" /\ net'.h = net.h /\ net'.buf = net.buf /\ NetHolds'
    <2>1. net'.pc = "enqueue" /\ net'.h = net.h /\ net'.buf = net.buf
      BY <1>0 DEF NetUnlink, Types, NetTypes
    <2> QED
      BY <2>1 DEF NetHolds
  <1>2. PICK s \in Sess : /\ s = net.buf.sess /\ s # 0 /\ net.h \in Handle /\ conn[s].st = "open" /\ conn[s].h = net.h
                          /\ hdl[net.h].sess = s
                          /\ \A t \in Sess : t # s /\ conn[t].st = "open" => conn[t].h # net.h
    BY <1>0, HolderFacts
  <1>3. /\ Valid(net.h) => hdl'[net.h].rbuf = NoBuf
        /\ hdl'[net.h].sess = s /\ \A h \in Handle : h # net.h => hdl'[h] = hdl[h]
    <2>1. CASE Valid(net.h)
      <3>1. hdl' = [hdl EXCEPT ![net.h].rbuf = NoBuf]
        BY <2>1 DEF NetUnlink
      <3> QED
        BY <1>0, <1>2, <3>1 DEF Types, HdlTypes
    <2>2. CASE ~Valid(net.h)
      BY <1>2, <2>2 DEF NetUnlink
    <2> QED
      BY <2>1, <2>2
  <1>4. ASSUME NEW t \in Sess PROVE Arrived(t)' = Arrived(t)
    BY <1>0, <1>1 DEF Arrived
  <1>5. SteadyConn
    BY <1>0, <1>4, ArrivedNat DEF SteadyConn
  <1>6. ASSUME NEW t \in Sess, t # s, conn[t].st = "open"
        PROVE  SteadyFor(t) /\ hdl'[conn[t].h] = hdl[conn[t].h] /\ conn[t].h # net.h
    <2>1. conn[t].h \in Handle /\ conn[t].h # net.h
      BY <1>2, <1>6 DEF OwnInv, ConnFits
    <2> QED
      BY <1>0, <1>3, <1>4, <2>1 DEF SteadyFor, Listed, Valid
  <1>7. Counts' /\ InProgress' /\ GivingUp'
    <2>1. Counts'
      BY <1>0, <1>5, CountsFrame DEF PartInv
    <2>2. InProgress'
      BY <1>0, <1>5, ProgressFrame DEF PartInv, SrvKept
    <2>3. GivingUp'
      BY <1>0 DEF PartInv, GivingUp, Undecodable, Ending
    <2> QED
      BY <2>1, <2>2, <2>3
  <1>8. \A b \in BufSet : Whole(b) => Whole(b)'
    BY <1>5, WholeFrame
  <1>9. NetBufFits'
    <2>1. PICK b \in BufSet : b = net.buf
      BY <1>0, FieldTypes
    <2>2. /\ Whole(b) /\ Fresh(b) /\ b.sess # 0 /\ (srv.pc # "idle" => Before(srv.msg.buf, b))
      BY <1>0, <2>1 DEF PartInv, NetBufFits
    <2>3. Whole(net.buf)'
      BY <1>1, <1>8, <2>1, <2>2 DEF Whole, IsComplete
    <2>4. Fresh(net.buf)' /\ (srv'.pc # "idle" => Before(srv.msg.buf, net.buf)')
      BY <1>0, <1>1, <2>1, <2>2 DEF Fresh, Before
    <2> QED
      BY <1>1, <1>2, <1>3, <2>3, <2>4 DEF NetBufFits
  <1>10. ASSUME NEW i \in 1 .. Len(queue') PROVE QueuedFits(i)'
    <2>1. QueuedFits(i) /\ i \in 1 .. Len(queue)
      BY <1>0 DEF PartInv
    <2>2. PICK c \in BufSet : c = queue[i].buf
      BY <1>0, <2>1, FieldTypes
    <2>3. Whole(queue[i].buf)'
      BY <1>0, <1>8, <2>1, <2>2 DEF Whole, IsComplete, QueuedFits
    <2> QED
      BY <1>0, <1>1, <2>1, <2>3 DEF QueuedFits, Fresh, Tagged, Before
  <1>11. ASSUME NEW t \in Sess PROVE FillingFits(t)'
    <2> SUFFICES ASSUME Listed(t)' PROVE FillingFits(t)'
      BY DEF FillingFits
    <2>0. conn[t].st = "open" /\ Valid(conn[t].h)
      BY <1>0 DEF Listed, Valid
    <2>1. CASE t # s
      BY <1>0, <1>1, <1>6, <2>0, <2>1, FillFrame DEF PartInv
    <2>2. CASE t = s
      <3>1. hdl'[conn'[t].h].rbuf = NoBuf
        BY <1>0, <1>2, <1>3, <2>0, <2>2
      <3>2. ~IsBuf(hdl'[conn'[t].h].rbuf)
        BY <3>1 DEF IsBuf, NoBuf
      <3> QED
        BY <3>2 DEF FillingFits, IsBuf
    <2> QED
      BY <2>1, <2>2
  <1>12. ASSUME NEW t \in Sess PROVE AllKept(t)'
    <2> SUFFICES ASSUME Listed(t)' PROVE AllKept(t)'
      BY DEF AllKept
    <2>0. Listed(t) /\ conn[t].st = "open" /\ Valid(conn[t].h)
      BY <1>0 DEF Listed, Valid
    <2>1. ASSUME NEW k \in Nat, Kept(t, 2 * k) PROVE Kept(t, 2 * k)'
      <3>1. CASE Within(hdl[conn[t].h].rbuf, t, 2 * k)
        <4>1. CASE t # s
          BY <1>0, <1>6, <2>0, <3>1, <4>1 DEF Kept, Within
        <4>2. CASE t = s
          BY <1>0, <1>1, <1>2, <3>1, <4>2 DEF Kept, Within
        <4> QED
          BY <4>1, <4>2
      <3> QED
        BY <1>0, <1>1, <2>1, <3>1 DEF Kept, Within, SrvHolds, Ending
    <2>2. AllKept(t)
      BY DEF PartInv
    <2> QED
      BY <1>0, <1>4, <2>0, <2>1, <2>2 DEF AllKept, Undecodable, Ending
  <1> QED
    BY <1>7, <1>9, <1>10, <1>11, <1>12 DEF PartInv

LEMMA PartNetEnqueue ==
  ASSUME OwnInv, PartInv, OwnInv', NetEnqueue
  PROVE  PartInv'
  <1>0. /\ UNCHANGED <<conn, table, hdl, srv, done>> /\ net.pc = "enqueue" /\ Types /\ Types' /\ NetHolds
        /\ done \in [Sess -> Nat] /\ net'.pc = "idle" /\ ~NetHolds'
    BY DEF NetEnqueue, OwnInv, PartInv, Counts, NetHolds, Idle
  <1>1. PICK s \in Sess : /\ s = net.buf.sess /\ s # 0 /\ net.h \in Handle /\ conn[s].st = "open" /\ conn[s].h = net.h
                          /\ hdl[net.h].sess = s
                          /\ \A t \in Sess : t # s /\ conn[t].st = "open" => conn[t].h # net.h
    BY <1>0, HolderFacts
  <1>2. PICK b \in BufSet : b = net.buf
    BY <1>0, FieldTypes
  <1>3. PICK m \in MsgSet : /\ m.type = "message" /\ m.h = net.h /\ m.sess = s /\ m.buf = b
                            /\ queue' = Append(queue, m)
    <2>1. queue' = Append(queue, [type |-> "message", h |-> net.h, sess |-> s, buf |-> b])
      BY <1>1, <1>2 DEF NetEnqueue, Enqueue
    <2>2. [type |-> "message", h |-> net.h, sess |-> s, buf |-> b] \in MsgSet
      BY <1>1, <1>2 DEF MsgSet
    <2> QED
      BY <2>1, <2>2
  <1>4. /\ Len(queue') = Len(queue) + 1 /\ Len(queue) \in Nat
        /\ \A i \in 1 .. Len(queue) : queue'[i] = queue[i]
        /\ queue'[Len(queue) + 1] = m
    BY <1>0, <1>3, AppendFacts DEF Types
  <1>5. /\ Whole(b) /\ Fresh(b) /\ b.sess = s /\ (srv.pc # "idle" => Before(srv.msg.buf, b))
        /\ \A i \in 1 .. Len(queue) : Before(queue[i].buf, b)
    BY <1>0, <1>1, <1>2 DEF PartInv, NetBufFits, QueuedFits
  <1>6. ASSUME NEW t \in Sess PROVE Arrived(t)' = Arrived(t)
    BY <1>0 DEF Arrived
  <1>7. SteadyConn /\ \A t \in Sess : SteadyFor(t)
    BY <1>0, <1>6, ArrivedNat DEF SteadyConn, SteadyFor, Listed, Valid
  <1>8. Counts' /\ InProgress' /\ GivingUp' /\ NetBufFits'
    <2>1. Counts'
      BY <1>0, <1>7, CountsFrame DEF PartInv
    <2>2. InProgress'
      BY <1>0, <1>7, ProgressFrame DEF PartInv, SrvKept
    <2>3. GivingUp'
      BY <1>0 DEF PartInv, GivingUp, Undecodable, Ending
    <2> QED
      BY <1>0, <2>1, <2>2, <2>3 DEF NetBufFits
  <1>9. \A c \in BufSet : Whole(c) => Whole(c)'
    BY <1>7, WholeFrame
  <1>10. ASSUME NEW i \in 1 .. Len(queue') PROVE QueuedFits(i)'
    <2>1. CASE i \in 1 .. Len(queue)
      <3>1. QueuedFits(i) /\ queue'[i] = queue[i]
        BY <1>4, <2>1 DEF PartInv
      <3>2. PICK c \in BufSet : c = queue[i].buf
        BY <1>0, <2>1, FieldTypes
      <3>3. Whole(queue[i].buf)'
        BY <1>9, <3>1, <3>2 DEF Whole, IsComplete, QueuedFits
      <3>4. ASSUME NEW j \in 1 .. Len(queue'), i < j PROVE Before(queue'[i].buf, queue'[j].buf)
        <4>1. CASE j \in 1 .. Len(queue)
          BY <1>4, <3>1, <3>4, <4>1 DEF QueuedFits
        <4>2. CASE j = Len(queue) + 1
          BY <1>3, <1>4, <1>5, <2>1, <3>1, <4>2
        <4> QED
          BY <1>4, <4>1, <4>2
      <3> QED
        BY <1>0, <3>1, <3>3, <3>4 DEF QueuedFits, Fresh, Tagged, Before
    <2>2. CASE i = Len(queue) + 1
      <3>1. queue'[i] = m
        BY <1>4, <2>2
      <3>2. Whole(queue[i].buf)' /\ Fresh(queue[i].buf)'
        <4>1. Whole(b)'
          BY <1>5, <1>9
        <4> QED
          BY <1>0, <1>3, <1>5, <3>1, <4>1 DEF Whole, Fresh, IsComplete
      <3>3. Tagged(queue[i])'
        BY <1>0, <1>1, <1>3, <1>5, <3>1 DEF Tagged
      <3>4. ~\E j \in 1 .. Len(queue') : i < j
        BY <1>4, <2>2
      <3> QED
        BY <1>0, <1>3, <1>5, <3>1, <3>2, <3>3, <3>4 DEF QueuedFits, Before
    <2> QED
      BY <1>4, <2>1, <2>2
  <1>11. ASSUME NEW t \in Sess PROVE FillingFits(t)'
    <2>1. CASE t # s
      <3>1. ASSUME NEW i \in 1 .. Len(queue')
            PROVE  queue'[i].buf.sess # t \/ \E j \in 1 .. Len(queue) : queue'[i].buf = queue[j].buf
        BY <1>3, <1>4, <1>5, <2>1
      <3>2. FillingFits(t) /\ SteadyFor(t)
        BY <1>7 DEF PartInv
      <3> QED
        BY <1>0, <3>1, <3>2, FillFrame
    <2>2. CASE t = s
      <3>1. ~(Listed(s) /\ IsBuf(hdl[conn[s].h].rbuf))
        BY <1>0, <1>1 DEF PartInv, FillingFits
      <3> QED
        BY <1>0, <2>2, <3>1 DEF FillingFits, Listed, Valid
    <2> QED
      BY <2>1, <2>2
  <1>12. ASSUME NEW t \in Sess PROVE AllKept(t)'
    <2>1. ASSUME NEW k \in Nat, Kept(t, 2 * k) PROVE Kept(t, 2 * k)'
      <3>1. CASE \E i \in 1 .. Len(queue) : Within(queue[i].buf, t, 2 * k)
        BY <1>4, <3>1 DEF Kept, Within
      <3>2. CASE NetHolds /\ Within(net.buf, t, 2 * k)
        <4>1. Len(queue) + 1 \in 1 .. Len(queue') /\ Within(queue'[Len(queue) + 1].buf, t, 2 * k)
          BY <1>2, <1>3, <1>4, <3>2
        <4> QED
          BY <4>1 DEF Kept, Within
      <3> QED
        BY <1>0, <2>1, <3>1, <3>2 DEF Kept, Within, SrvHolds, Ending
    <2>2. AllKept(t) /\ SteadyFor(t)
      BY <1>7 DEF PartInv
    <2> QED
      BY <1>0, <2>1, <2>2, KeptFrame DEF Undecodable, Ending
  <1> QED
    BY <1>8, <1>10, <1>11, <1>12 DEF PartInv

\* The first message in the queue starts after what was served, when its
\* session goes on.
LEMMA HeadIsNext ==
  ASSUME OwnInv, PartInv, srv.pc = "idle", NEW b \in BufSet, 1 \in 1 .. Len(queue), b = queue[1].buf,
         b.sess # 0, b.lo % 2 = 1, Listed(b.sess)
  PROVE  2 * done[b.sess] = b.lo - 1
  <1>1. PICK s \in Sess : s = b.sess
    BY BufFields
  <1>2. /\ Whole(b) /\ Fresh(b)
        /\ \A j \in 1 .. Len(queue) : 1 < j => Before(b, queue[j].buf)
        /\ NetHolds => Before(b, net.buf)
    BY DEF PartInv, QueuedFits
  <1>3. done[s] \in Nat /\ b.lo \in Nat /\ b.hi \in Nat /\ 2 * done[s] < b.lo /\ b.lo <= b.hi /\ b.hi <= Arrived(s)
    BY <1>1, <1>2, BufFields DEF PartInv, Counts, Fresh, Whole
  <1>4. ASSUME 2 * done[s] # b.lo - 1 PROVE FALSE
    <2>1. PICK k \in Nat : k = done[s] + 1
      BY <1>3
    <2>2. done[s] < k /\ 2 * k < b.lo /\ 2 * k <= Arrived(s)
      <3>1. Arrived(s) \in Nat /\ b.lo % 2 = 1
        BY ArrivedNat
      <3>2. 2 * k < b.lo
        <4>1. PICK lo \in Nat : lo = b.lo
          BY <1>3
        <4>2. PICK d \in Nat : d = done[s]
          BY <1>3
        <4>3. lo % 2 = 1 /\ 2 * d < lo /\ 2 * d # lo - 1
          BY <1>3, <1>4, <3>1, <4>1, <4>2
        <4>4. 2 * (d + 1) < lo
          BY <4>3
        <4> QED
          BY <2>1, <4>1, <4>2, <4>4
      <3> QED
        BY <1>3, <2>1, <3>1, <3>2, SMTT(30)
    <2>3. Kept(s, 2 * k)
      BY <1>1, <2>2 DEF PartInv, AllKept, Undecodable
    <2>4. \A c \in BufSet : Before(b, c) => ~Within(c, s, 2 * k)
      <3> SUFFICES ASSUME NEW c \in BufSet, Before(b, c), Within(c, s, 2 * k) PROVE FALSE
        OBVIOUS
      <3>1. b.hi < c.lo /\ c.lo <= 2 * k /\ c.lo \in Nat
        BY <1>1, BufFields DEF Before, Within
      <3> QED
        BY <1>3, <2>2, <3>1
    <2>5. ~\E i \in 1 .. Len(queue) : Within(queue[i].buf, s, 2 * k)
      <3> SUFFICES ASSUME NEW i \in 1 .. Len(queue), Within(queue[i].buf, s, 2 * k) PROVE FALSE
        OBVIOUS
      <3>1. CASE i = 1
        BY <1>3, <2>2, <3>1 DEF Within
      <3>2. CASE 1 < i
        BY <1>2, <2>4, <3>2, FieldTypes DEF OwnInv
      <3> QED
        BY <3>1, <3>2, FieldTypes DEF OwnInv
    <2>6. ~(NetHolds /\ Within(net.buf, s, 2 * k))
      BY <1>2, <2>4, FieldTypes DEF OwnInv
    <2>7. ~Within(hdl[conn[s].h].rbuf, s, 2 * k)
      <3> SUFFICES ASSUME Within(hdl[conn[s].h].rbuf, s, 2 * k) PROVE FALSE
        OBVIOUS
      <3>1. conn[s].h \in Handle /\ hdl[conn[s].h].rbuf \in BufSet
        BY <1>1, FieldTypes DEF OwnInv, ConnFits, Listed
      <3>2. CASE net.pc = "unlink" /\ net.h = conn[s].h
        <4>1. hdl[conn[s].h].rbuf = net.buf /\ NetHolds
          BY <3>2 DEF OwnInv, NetFits, NetHolds
        <4> QED
          BY <2>6, <4>1
      <3>3. CASE ~(net.pc = "unlink" /\ net.h = conn[s].h)
        <4>1. IsBuf(hdl[conn[s].h].rbuf)
          BY <1>1 DEF Within, IsBuf
        <4>2. \A i \in 1 .. Len(queue) : Before(queue[i].buf, hdl[conn[s].h].rbuf)
          BY <1>1, <3>3, <4>1 DEF PartInv, FillingFits
        <4> QED
          BY <2>4, <3>1, <4>2
      <3> QED
        BY <3>2, <3>3
    <2> QED
      BY <2>3, <2>5, <2>6, <2>7 DEF Kept, SrvHolds
  <1> QED
    BY <1>1, <1>4

LEMMA PartSrvRecv ==
  ASSUME OwnInv, PartInv, OwnInv', SrvRecv
  PROVE  PartInv'
  <1>0. /\ UNCHANGED <<conn, table, hdl, net, done>> /\ srv.pc = "idle" /\ Types /\ Types'
        /\ done \in [Sess -> Nat] /\ queue # <<>> /\ queue' = Tail(queue)
    BY DEF SrvRecv, OwnInv, PartInv, Counts
  <1>1. PICK m \in MsgSet : m = queue[1] /\ m = Head(queue)
    BY <1>0, TailFacts DEF Types
  <1>2. PICK b \in BufSet : b = m.buf
    BY <1>1 DEF MsgSet
  <1>3. /\ Len(queue) \in Nat \ {0} /\ Len(queue') = Len(queue) - 1 /\ 1 \in 1 .. Len(queue)
        /\ \A i \in 1 .. Len(queue') : i + 1 \in 1 .. Len(queue) /\ queue'[i] = queue[i + 1]
        /\ \A i \in 1 .. Len(queue) : i = 1 \/ (i - 1 \in 1 .. Len(queue') /\ queue'[i - 1] = queue[i])
    <2>1. /\ Len(queue) \in Nat \ {0} /\ Len(queue') = Len(queue) - 1
          /\ \A i \in 1 .. Len(queue') : queue'[i] = queue[i + 1]
      BY <1>0, TailFacts DEF Types
    <2> QED
      BY <2>1
  <1>4. /\ Whole(b) /\ Fresh(b) /\ Tagged(m)
        /\ \A j \in 1 .. Len(queue) : 1 < j => Before(b, queue[j].buf)
        /\ NetHolds => Before(b, net.buf)
    BY <1>1, <1>2, <1>3 DEF PartInv, QueuedFits
  <1>5. \/ Valid(m.h) /\ srv'.pc \in {"send", "decode"} /\ (m.type # "connect" => srv'.pc = "decode")
           /\ srv'.msg = m /\ srv'.at = 0
        \/ ~Valid(m.h) /\ srv' = srv /\ srv'.pc = "idle"
    <2>1. CASE Valid(m.h)
      <3>1. srv' = [srv EXCEPT !.pc = IF m.type = "connect" THEN "send" ELSE "decode",
                               !.msg = m, !.at = 0, !.kind = "hello", !.bye = FALSE]
        BY <1>1, <2>1 DEF SrvRecv
      <3>2. CASE m.type = "connect"
        BY <1>0, <2>1, <3>1, <3>2 DEF Types, SrvTypes, SrvSet
      <3>3. CASE m.type # "connect"
        BY <1>0, <2>1, <3>1, <3>3 DEF Types, SrvTypes, SrvSet
      <3> QED
        BY <3>2, <3>3
    <2>2. CASE ~Valid(m.h)
      BY <1>0, <1>1, <2>2 DEF SrvRecv
    <2> QED
      BY <2>1, <2>2
  <1>6. \A t \in Sess : Arrived(t)' = Arrived(t)
    BY <1>0 DEF Arrived
  <1>7. SteadyConn /\ \A t \in Sess : SteadyFor(t)
    BY <1>0, <1>6, ArrivedNat DEF SteadyConn, SteadyFor, Listed, Valid
  <1>8. \A c \in BufSet : (Whole(c) => Whole(c)') /\ (Fresh(c) => Fresh(c)')
    BY <1>0, <1>7, WholeFrame DEF Fresh
  <1>9. Counts'
    BY <1>0, <1>7, CountsFrame DEF PartInv
  <1>10. srv'.pc # "idle" => srv'.msg = m /\ srv'.msg.buf = b /\ Valid(m.h) /\ srv'.at = 0
                             /\ (m.type # "connect" => srv'.pc = "decode") /\ srv'.pc \in {"send", "decode"}
    BY <1>2, <1>5
  <1>11. InProgress'
    <2> SUFFICES ASSUME srv'.pc # "idle", b.sess # 0 PROVE InProgress'
      BY <1>2, <1>4, <1>10 DEF InProgress, Tagged
    <2>1. b.sess \in Sess /\ b.lo \in Nat /\ b.hi \in Nat
      BY BufFields
    <2>2. m.sess = b.sess /\ m.type # "connect" /\ conn[b.sess].h = m.h
      BY <1>2, <1>4 DEF Tagged
    <2>3. Whole(srv.msg.buf)' /\ Fresh(srv.msg.buf)'
      BY <1>4, <1>8, <1>10 DEF Whole, Fresh, IsComplete
    <2>4. b.lo <= b.hi
      BY <1>4 DEF Whole
    <2>5. b.lo % 2 = 1 /\ conn[b.sess].st = "open" => 2 * done[b.sess] = b.lo - 1
      BY <1>0, <1>1, <1>2, <1>3, <1>10, <2>2, HeadIsNext DEF Listed
    <2>6. b.lo % 2 = 1 => /\ srv'.at > 0 \/ conn[b.sess].st = "open" => 2 * done[b.sess] = b.lo - 1 + 2 * srv'.at
                          /\ b.lo - 1 + 2 * srv'.at <= b.hi
      BY <1>10, <2>1, <2>4, <2>5
    <2> QED
      BY <1>0, <1>10, <2>2, <2>3, <2>6 DEF InProgress
  <1>12. GivingUp'
    BY <1>0, <1>2, <1>4, <1>10 DEF GivingUp, Undecodable, Tagged
  <1>13. NetBufFits'
    <2> SUFFICES ASSUME NetHolds PROVE NetBufFits'
      BY <1>0 DEF NetBufFits, NetHolds
    <2>1. PICK c \in BufSet : c = net.buf
      BY <1>0, FieldTypes
    <2>2. Whole(c) /\ Fresh(c) /\ c.sess = hdl[net.h].sess /\ c.sess # 0
      BY <2>1 DEF PartInv, NetBufFits
    <2>3. Whole(net.buf)' /\ Fresh(net.buf)'
      BY <1>0, <1>8, <2>1, <2>2 DEF Whole, Fresh, IsComplete
    <2> QED
      BY <1>0, <1>4, <1>10, <2>1, <2>2, <2>3 DEF NetBufFits, Before
  <1>14. ASSUME NEW i \in 1 .. Len(queue') PROVE QueuedFits(i)'
    <2>1. i + 1 \in 1 .. Len(queue) /\ queue'[i] = queue[i + 1] /\ QueuedFits(i + 1) /\ 1 < i + 1
      BY <1>3 DEF PartInv
    <2>2. PICK c \in BufSet : c = queue'[i].buf
      BY <1>0, <2>1, FieldTypes
    <2>3. Whole(c)' /\ Fresh(c)'
      BY <1>8, <2>1, <2>2 DEF QueuedFits
    <2>4. Whole(queue[i].buf)' /\ Fresh(queue[i].buf)'
      BY <2>2, <2>3 DEF Whole, Fresh, IsComplete
    <2>5. ASSUME NEW j \in 1 .. Len(queue'), i < j PROVE Before(queue'[i].buf, queue'[j].buf)
      <3>1. j + 1 \in 1 .. Len(queue) /\ queue'[j] = queue[j + 1] /\ i + 1 < j + 1
        BY <1>3, <2>5
      <3> QED
        BY <2>1, <3>1 DEF QueuedFits
    <2>6. srv'.pc # "idle" => Before(srv'.msg.buf, queue'[i].buf)
      BY <1>4, <1>10, <2>1
    <2>7. NetHolds' => Before(queue'[i].buf, net'.buf)
      BY <1>0, <2>1 DEF QueuedFits, NetHolds
    <2>8. Tagged(queue[i])'
      BY <1>0, <2>1 DEF QueuedFits, Tagged
    <2> QED
      BY <2>4, <2>5, <2>6, <2>7, <2>8 DEF QueuedFits, Before
  <1>15. ASSUME NEW t \in Sess PROVE FillingFits(t)'
    <2>1. FillingFits(t) /\ SteadyFor(t)
      BY <1>7 DEF PartInv
    <2>2. \A i \in 1 .. Len(queue') : \E j \in 1 .. Len(queue) : queue'[i].buf = queue[j].buf
      BY <1>3
    <2>3. srv'.pc # "idle" => \E j \in 1 .. Len(queue) : srv'.msg.buf = queue[j].buf
      BY <1>1, <1>2, <1>3, <1>10
    <2> QED
      BY <1>0, <2>1, <2>2, <2>3, FillFrame
  <1>16. ASSUME NEW t \in Sess PROVE AllKept(t)'
    <2>1. ASSUME NEW k \in Nat, Kept(t, 2 * k), Listed(t) PROVE Kept(t, 2 * k)'
      <3>1. CASE \E i \in 1 .. Len(queue) : Within(queue[i].buf, t, 2 * k)
        <4>1. PICK i \in 1 .. Len(queue) : Within(queue[i].buf, t, 2 * k)
          BY <3>1
        <4>2. CASE i = 1
          <5>1. Within(b, t, 2 * k) /\ b.sess # 0
            BY <1>0, <1>1, <1>2, <4>1, <4>2, FieldTypes DEF Within
          <5>2. Valid(m.h)
            BY <1>2, <1>4, <2>1, <5>1 DEF Tagged, Within, Listed
          <5>3. srv'.pc \in {"send", "decode"} /\ srv'.msg.buf = b
            BY <1>2, <1>5, <5>2
          <5>4. SrvHolds'
            BY <5>3 DEF SrvHolds, Ending
          <5> QED
            BY <5>1, <5>3, <5>4 DEF Kept, Within
        <4>3. CASE i # 1
          BY <1>3, <4>1, <4>3 DEF Kept, Within
        <4> QED
          BY <4>2, <4>3
      <3> QED
        BY <1>0, <2>1, <3>1 DEF Kept, Within, SrvHolds, NetHolds
    <2>2. AllKept(t) /\ SteadyFor(t)
      BY <1>7 DEF PartInv
    <2> QED
      BY <1>0, <2>1, <2>2, KeptFrame DEF Undecodable
  <1> QED
    BY <1>9, <1>11, <1>12, <1>13, <1>14, <1>15, <1>16 DEF PartInv

\* What nconf_msgdec finds in a buffer of the message handler
LEMMA DecodedFacts ==
  ASSUME NEW b \in BufSet, b.sess # 0 => Whole(b), b.sess = 0 => b = NoBuf
  PROVE  \/ Decoded(b) = <<>> /\ (b.sess = 0 \/ b.lo % 2 = 0)
         \/ \E x \in Nat : /\ b.sess \in Sess /\ b.lo % 2 = 1 /\ Decoded(b) # <<>> /\ Len(Decoded(b)) = x /\ x >= 1
                           /\ b.lo - 1 + 2 * x <= b.hi /\ b.hi <= b.lo + 2 * x
                           /\ \A i \in 1 .. x : Decoded(b)[i] = (b.lo - 1) \div 2 + i
  <1>0. b.lo \in Nat /\ b.hi \in Nat /\ MaxDecode \in Nat
    BY BufFields, NconfAssumption
  <1>1. CASE b.sess = 0
    <2>1. b.lo = 1 /\ b.hi = 0
      BY <1>1 DEF NoBuf
    <2>2. (b.hi - b.lo + 1) \div 2 = 0 /\ b.lo % 2 = 1
      BY <2>1
    <2>3. (IF (b.hi - b.lo + 1) \div 2 < MaxDecode THEN (b.hi - b.lo + 1) \div 2 ELSE MaxDecode) = 0
      BY <1>0, <2>2
    <2>4. Decoded(b) = [i \in 1 .. 0 |-> (b.lo - 1) \div 2 + i]
      BY <2>2, <2>3 DEF Decoded
    <2>5. Decoded(b) = <<>>
      BY <2>4
    <2> QED
      BY <1>1, <2>5
  <1>2. CASE b.sess # 0 /\ b.lo % 2 = 0
    BY <1>2 DEF Decoded
  <1>3. CASE b.sess # 0 /\ b.lo % 2 # 0
    <2>1. PICK lo \in Nat, hi \in Nat : lo = b.lo /\ hi = b.hi
      BY <1>0
    <2>2. lo % 2 = 1 /\ lo <= hi /\ (hi - lo + 1) \div 2 <= MaxDecode /\ \E p \in lo .. hi : p % 2 = 0
      <3>1. Whole(b)
        BY <1>3
      <3> QED
        BY <1>3, <2>1, <3>1 DEF Whole, IsComplete
    <2>3. lo < hi
      BY <2>2
    <2>4. PICK x \in Nat : x = (hi - lo + 1) \div 2
      BY <2>3
    <2>5. x >= 1 /\ lo - 1 + 2 * x <= hi /\ hi <= lo + 2 * x
      BY <2>3, <2>4
    <2>6. (IF (b.hi - b.lo + 1) \div 2 < MaxDecode THEN (b.hi - b.lo + 1) \div 2 ELSE MaxDecode) = x
      BY <1>0, <2>1, <2>2, <2>4
    <2>7. Decoded(b) = [i \in 1 .. x |-> (b.lo - 1) \div 2 + i]
      BY <1>3, <2>6 DEF Decoded
    <2>8. PICK ks : ks = [i \in 1 .. x |-> (b.lo - 1) \div 2 + i]
      OBVIOUS
    <2>9. Len(ks) = x /\ ks \in Seq(Int)
      BY <1>0, <2>8
    <2>10. ks # <<>>
      BY <2>5, <2>9
    <2>11. b.sess \in Sess
      BY <1>3, BufFields
    <2>12. \A i \in 1 .. x : ks[i] = (b.lo - 1) \div 2 + i
      BY <2>8
    <2> QED
      BY <2>1, <2>2, <2>5, <2>7, <2>8, <2>9, <2>10, <2>11, <2>12
  <1> QED
    BY <1>1, <1>2, <1>3

\* A request of session s is served: it is the next of its buffer.
LEMMA ServeFacts ==
  ASSUME OwnInv, PartInv, SrvDecode, Decoded(srv.msg.buf) # <<>>, srv.at # Len(Decoded(srv.msg.buf)),
         NEW b \in BufSet, b = srv.msg.buf
  PROVE  \E s \in Sess, d \in Nat :
            /\ s = b.sess /\ s = srv.msg.sess /\ b.lo % 2 = 1
            /\ d = Decoded(b)[srv.at + 1] /\ 2 * d = b.lo - 1 + 2 * (srv.at + 1) /\ 2 * d <= b.hi
            /\ done[s] < d /\ (conn[s].st = "open" => d = done[s] + 1)
  <1>0. srv.pc = "decode" /\ srv.at \in Nat /\ b.lo \in Nat /\ b.hi \in Nat
    BY FieldTypes, BufFields DEF SrvDecode, OwnInv
  <1>1. (b.sess # 0 => Whole(b)) /\ (b.sess = 0 => b = NoBuf)
    BY <1>0 DEF PartInv, InProgress
  <1>2. PICK x \in Nat : /\ b.sess \in Sess /\ b.lo % 2 = 1 /\ Len(Decoded(b)) = x /\ x >= 1
                         /\ b.lo - 1 + 2 * x <= b.hi /\ b.hi <= b.lo + 2 * x
                         /\ \A i \in 1 .. x : Decoded(b)[i] = (b.lo - 1) \div 2 + i
    BY <1>1, DecodedFacts
  <1>3. PICK s \in Sess : s = b.sess
    BY <1>2
  <1>4. /\ s = srv.msg.sess /\ (srv.at = 0 => Fresh(b)) /\ b.lo - 1 + 2 * srv.at <= b.hi
        /\ srv.at > 0 \/ conn[s].st = "open" => 2 * done[s] = b.lo - 1 + 2 * srv.at
    <2>1. s # 0
      BY FieldTypes DEF OwnInv
    <2> QED
      BY <1>0, <1>2, <1>3, <2>1 DEF PartInv, InProgress
  <1>5. done[s] \in Nat /\ s # 0
    BY FieldTypes DEF PartInv, Counts, OwnInv
  <1>n. PICK lo \in Nat, hi \in Nat, at \in Nat, e \in Nat : lo = b.lo /\ hi = b.hi /\ at = srv.at /\ e = done[s]
    BY <1>0, <1>5
  <1>c. /\ lo % 2 = 1 /\ x >= 1 /\ lo - 1 + 2 * x <= hi /\ hi <= lo + 2 * x /\ lo - 1 + 2 * at <= hi /\ at # x
        /\ at > 0 \/ conn[s].st = "open" => 2 * e = lo - 1 + 2 * at
        /\ at = 0 => 2 * e < lo
    <2>1. srv.at = 0 => 2 * done[s] < b.lo
      BY <1>3, <1>4, <1>5 DEF Fresh
    <2> QED
      BY <1>2, <1>4, <1>n, <2>1
  <1>6. at < x
    BY <1>c
  <1>7. Decoded(b)[at + 1] = (lo - 1) \div 2 + (at + 1)
    <2>1. at + 1 \in 1 .. x
      BY <1>6
    <2> QED
      BY <1>2, <1>n, <2>1
  <1>8. 2 * ((lo - 1) \div 2) = lo - 1 /\ (lo - 1) \div 2 \in Nat
    BY <1>c
  <1>9. PICK d \in Nat : d = (lo - 1) \div 2 + (at + 1) /\ 2 * d = lo - 1 + 2 * (at + 1)
    BY <1>8
  <1>10. 2 * d <= hi
    BY <1>c, <1>6, <1>9
  <1>11. conn[s].st = "open" => d = e + 1
    <2>1. CASE 2 * e = lo - 1 + 2 * at
      BY <1>9, <2>1
    <2> QED
      BY <1>c, <2>1
  <1>12. e < d
    <2>1. CASE at = 0
      BY <1>c, <1>9, <2>1
    <2>2. CASE at > 0
      <3>1. 2 * e = lo - 1 + 2 * at
        BY <1>c, <2>2
      <3> QED
        BY <1>9, <3>1
    <2> QED
      BY <2>1, <2>2
  <1> QED
    BY <1>2, <1>3, <1>4, <1>n, <1>7, <1>9, <1>10, <1>11, <1>12

\* A step of the handler that changes neither connections nor the other thread
LEMMA SteadySrv ==
  ASSUME OwnInv, UNCHANGED <<conn, table, hdl, net, done>>
  PROVE  Steady /\ NetKept
  <1>1. \A t \in Sess : Arrived(t)' = Arrived(t)
    BY DEF Arrived
  <1>2. SteadyConn /\ \A t \in Sess : SteadyFor(t)
    BY <1>1, ArrivedNat DEF SteadyConn, SteadyFor, Listed, Valid
  <1> QED
    BY <1>2 DEF Steady, NetKept, NetHolds

\* The buffer cannot be decoded, or all its requests are served.
LEMMA PartSrvDecodeEnd ==
  ASSUME OwnInv, PartInv, OwnInv', SrvDecode, done' = done,
         Decoded(srv.msg.buf) = <<>> => srv' = Disconnect(srv.msg.h, "idle"),
         Decoded(srv.msg.buf) # <<>> => srv.at = Len(Decoded(srv.msg.buf)),
         srv' = Disconnect(srv.msg.h, "idle") \/ srv' = [srv EXCEPT !.pc = "idle"]
  PROVE  PartInv'
  <1>0. /\ UNCHANGED <<conn, table, hdl, net, queue, done>> /\ srv.pc = "decode" /\ Types /\ Types' /\ ~Ending
        /\ done \in [Sess -> Nat] /\ srv.at \in Nat
    BY FieldTypes DEF SrvDecode, OwnInv, PartInv, Counts, Ending
  <1>1. Steady /\ NetKept /\ QueueKept
    BY <1>0, SteadySrv DEF QueueKept
  <1>2. /\ srv'.pc = "idle" \/ /\ srv'.pc = "check" /\ srv'.h = srv.msg.h /\ srv'.then = "idle"
                               /\ srv'.at = srv.at /\ srv'.msg = srv.msg
        /\ Decoded(srv.msg.buf) = <<>> => srv'.pc = "check"
    <2>1. CASE srv' = Disconnect(srv.msg.h, "idle")
      BY <1>0, <2>1, DisconnectFacts, FieldTypes
    <2>2. CASE srv' = [srv EXCEPT !.pc = "idle"] /\ Decoded(srv.msg.buf) # <<>>
      BY <1>0, <2>2 DEF Types, SrvTypes, SrvSet
    <2> QED
      BY <2>1, <2>2
  <1>3. SrvKept
    BY <1>0, <1>2 DEF SrvKept
  <1>4. GivingUp'
    BY <1>0, <1>2 DEF PartInv, GivingUp, Undecodable, Ending
  <1>5. PICK b \in BufSet : b = srv.msg.buf
    BY <1>0, FieldTypes
  <1>6. /\ b.sess # 0 => Whole(b)
        /\ b.sess = 0 => b = NoBuf
    BY <1>0, <1>5 DEF PartInv, InProgress
  <1>7. ASSUME NEW s \in Sess, NEW k \in Nat, ~(Undecodable /\ Ending /\ srv.msg.buf.sess = s)', done[s] < k,
               Within(srv.msg.buf, s, 2 * k)
        PROVE  FALSE
    <2>1. b.sess = s /\ s # 0 /\ 2 * k <= b.hi /\ b.lo \in Nat /\ b.hi \in Nat /\ done[s] \in Nat
      BY <1>0, <1>5, <1>7, FieldTypes, BufFields DEF Within
    <2>2. CASE Decoded(b) = <<>>
      <3>1. b.lo % 2 = 0
        BY <1>6, <2>1, <2>2, DecodedFacts
      <3>2. srv'.pc = "check" /\ srv'.msg = srv.msg
        BY <1>2, <1>5, <2>2
      <3> QED
        BY <1>5, <1>7, <2>1, <3>1, <3>2 DEF Undecodable, Ending
    <2>3. CASE Decoded(b) # <<>>
      <3>1. PICK x \in Nat : b.lo % 2 = 1 /\ x = srv.at /\ x >= 1 /\ b.hi <= b.lo + 2 * x
        BY <1>5, <1>6, <2>3, DecodedFacts
      <3>2. 2 * done[s] = b.lo - 1 + 2 * x
        BY <1>0, <1>5, <2>1, <3>1 DEF PartInv, InProgress
      <3>3. PICK lo \in Nat, hi \in Nat, e \in Nat : lo = b.lo /\ hi = b.hi /\ e = done[s]
        BY <2>1
      <3>4. 2 * e = lo - 1 + 2 * x /\ hi <= lo + 2 * x /\ 2 * k <= hi /\ e < k
        BY <1>7, <2>1, <3>1, <3>2, <3>3
      <3> QED
        BY <3>4
    <2> QED
      BY <2>2, <2>3
  <1> QED
    BY <1>0, <1>1, <1>3, <1>4, <1>7, PartFrameKept

LEMMA PartSrvServe ==
  ASSUME OwnInv, PartInv, OwnInv', SrvDecode, Decoded(srv.msg.buf) # <<>>, srv.at # Len(Decoded(srv.msg.buf)),
         \E k \in Kinds : srv' = [srv EXCEPT !.pc = "rpc", !.at = @ + 1, !.kind = k],
         done' = [done EXCEPT ![srv.msg.sess] = Decoded(srv.msg.buf)[srv.at + 1]]
  PROVE  PartInv'
  <1>0. /\ UNCHANGED <<conn, table, hdl, net, queue>> /\ srv.pc = "decode" /\ Types /\ Types'
        /\ done \in [Sess -> Nat] /\ srv.at \in Nat
    BY FieldTypes DEF SrvDecode, OwnInv, PartInv, Counts
  <1>1. PICK b \in BufSet : b = srv.msg.buf
    BY <1>0, FieldTypes
  <1>2. PICK s \in Sess, d \in Nat :
            /\ s = b.sess /\ s = srv.msg.sess /\ b.lo % 2 = 1
            /\ d = Decoded(b)[srv.at + 1] /\ 2 * d = b.lo - 1 + 2 * (srv.at + 1) /\ 2 * d <= b.hi
            /\ done[s] < d
    BY <1>1, ServeFacts
  <1>3. /\ done' \in [Sess -> Nat] /\ done'[s] = d /\ \A t \in Sess : t # s => done'[t] = done[t]
    BY <1>0, <1>1, <1>2
  <1>4. /\ srv'.pc = "rpc" /\ srv'.at = srv.at + 1 /\ srv'.msg = srv.msg
    BY <1>0 DEF Types, SrvTypes, SrvSet
  <1>5. \A t \in Sess : Arrived(t)' = Arrived(t)
    BY <1>0 DEF Arrived
  <1>6. SteadyConn
    BY <1>0, <1>5, ArrivedNat DEF SteadyConn
  <1>7. /\ s # 0 /\ b.lo \in Nat /\ b.hi \in Nat /\ done[s] \in Nat /\ Arrived(s) \in Nat
        /\ Whole(b) /\ b.hi <= Arrived(s) /\ conn[s].st # "none" /\ srv.msg.type # "connect"
    <2>1. s # 0 /\ b.lo \in Nat /\ b.hi \in Nat /\ done[s] \in Nat /\ Arrived(s) \in Nat
      BY <1>0, FieldTypes, BufFields, ArrivedNat
    <2>2. Whole(b) /\ srv.msg.type # "connect"
      BY <1>0, <1>1, <1>2, <2>1 DEF PartInv, InProgress
    <2> QED
      BY <1>2, <2>1, <2>2 DEF Whole
  <1>8. \A c \in BufSet : Whole(c) => Whole(c)'
    BY <1>6, WholeFrame
  <1>9. \A c \in BufSet : Fresh(c) /\ Before(b, c) => Fresh(c)'
    <2> SUFFICES ASSUME NEW c \in BufSet, Fresh(c), Before(b, c), c.sess # 0 PROVE 2 * done'[c.sess] < c.lo
      BY DEF Fresh
    <2>1. c.sess \in Sess /\ c.lo \in Nat
      BY BufFields
    <2>2. CASE c.sess = s
      BY <1>2, <1>3, <1>7, <2>1, <2>2 DEF Before
    <2>3. CASE c.sess # s
      BY <1>3, <2>1, <2>3 DEF Fresh
    <2> QED
      BY <2>2, <2>3
  <1>10. Counts'
    <2>1. ASSUME NEW t \in Sess PROVE 2 * done'[t] <= Arrived(t)' /\ (conn'[t].st = "none" => done'[t] = 0)
      <3>1. CASE t = s
        <4>1. 2 * d <= Arrived(s)
          BY <1>2, <1>7
        <4> QED
          BY <1>0, <1>3, <1>5, <1>7, <3>1, <4>1
      <3>2. CASE t # s
        BY <1>0, <1>3, <1>5, <3>2 DEF PartInv, Counts
      <3> QED
        BY <3>1, <3>2
    <2> QED
      BY <1>3, <2>1 DEF Counts
  <1>11. InProgress'
    <2>1. srv'.msg.buf = b /\ Whole(srv.msg.buf)' /\ srv'.msg.sess = b.sess /\ srv'.msg.type # "connect"
      <3>1. Whole(b)'
        BY <1>7, <1>8
      <3> QED
        BY <1>1, <1>2, <1>4, <1>7, <3>1 DEF Whole, IsComplete
    <2>2. srv'.at # 0 /\ 2 * done'[b.sess] = b.lo - 1 + 2 * srv'.at /\ b.lo - 1 + 2 * srv'.at <= b.hi
      BY <1>0, <1>2, <1>3, <1>4, <1>7
    <2> QED
      BY <1>2, <1>7, <2>1, <2>2 DEF InProgress
  <1>12. GivingUp' /\ ~Undecodable' /\ ~Undecodable
    BY <1>1, <1>2, <1>4 DEF GivingUp, Undecodable
  <1>13. NetBufFits'
    <2> SUFFICES ASSUME NetHolds PROVE NetBufFits'
      BY <1>0 DEF NetBufFits, NetHolds
    <2>1. PICK c \in BufSet : c = net.buf
      BY <1>0, FieldTypes
    <2>2. Whole(c) /\ Fresh(c) /\ c.sess = hdl[net.h].sess /\ c.sess # 0 /\ Before(b, c)
      BY <1>0, <1>1, <2>1 DEF PartInv, NetBufFits
    <2>3. Whole(net.buf)' /\ Fresh(net.buf)'
      <3>1. Whole(c)' /\ Fresh(c)'
        BY <1>8, <1>9, <2>2
      <3> QED
        BY <1>0, <2>1, <3>1 DEF Whole, Fresh, IsComplete
    <2> QED
      BY <1>0, <1>1, <1>4, <2>1, <2>2, <2>3 DEF NetBufFits, Before
  <1>14. ASSUME NEW i \in 1 .. Len(queue') PROVE QueuedFits(i)'
    <2>1. i \in 1 .. Len(queue) /\ QueuedFits(i)
      BY <1>0 DEF PartInv
    <2>2. PICK c \in BufSet : c = queue[i].buf
      BY <1>0, <2>1, FieldTypes
    <2>3. Whole(c) /\ Fresh(c) /\ Before(b, c)
      BY <1>0, <1>1, <2>1, <2>2 DEF QueuedFits
    <2>4. Whole(queue[i].buf)' /\ Fresh(queue[i].buf)'
      <3>1. Whole(c)' /\ Fresh(c)'
        BY <1>8, <1>9, <2>3
      <3> QED
        BY <1>0, <2>2, <3>1 DEF Whole, Fresh, IsComplete
    <2>5. srv'.pc # "idle" => Before(srv'.msg.buf, queue'[i].buf)
      BY <1>0, <1>1, <1>4, <2>2, <2>3
    <2> QED
      BY <1>0, <2>1, <2>4, <2>5 DEF QueuedFits, Tagged, Before, NetHolds
  <1>15. ASSUME NEW t \in Sess PROVE FillingFits(t)'
    <2> SUFFICES ASSUME Listed(t)', IsBuf(hdl[conn[t].h].rbuf)', ~(net'.pc = "unlink" /\ net'.h = conn'[t].h)
                 PROVE  FillingFits(t)'
      BY DEF FillingFits
    <2>1. Listed(t) /\ IsBuf(hdl[conn[t].h].rbuf) /\ ~(net.pc = "unlink" /\ net.h = conn[t].h)
      BY <1>0 DEF Listed, Valid, IsBuf
    <2>2. conn[t].h \in Handle /\ hdl[conn[t].h].sess = t
      BY <2>1 DEF Listed, OwnInv, ConnFits
    <2>3. PICK r \in BufSet : r = hdl[conn[t].h].rbuf
      BY <1>0, <2>2, FieldTypes
    <2>4. r.sess = t /\ r.lo \in Nat
      BY <2>1, <2>2, <2>3, BufFields DEF OwnInv, RbufFits
    <2>5. /\ r.lo = r.hi /\ r.lo % 2 = 1 /\ r.hi = Arrived(t) /\ 2 * done[t] < r.lo
          /\ ~(net.pc = "enqueue" /\ net.h = conn[t].h)
          /\ \A i \in 1 .. Len(queue) : Before(queue[i].buf, r)
          /\ Before(b, r)
      BY <1>0, <1>1, <2>1, <2>3 DEF PartInv, FillingFits
    <2>6. 2 * done'[t] < r.lo
      <3>1. CASE t = s
        BY <1>2, <1>3, <1>7, <2>4, <2>5, <3>1 DEF Before
      <3>2. CASE t # s
        BY <1>3, <2>5, <3>2
      <3> QED
        BY <3>1, <3>2
    <2>7. Before(srv'.msg.buf, r)
      BY <1>1, <1>4, <2>5
    <2> QED
      BY <1>0, <1>5, <2>3, <2>5, <2>6, <2>7 DEF FillingFits, Before
  <1>16. ASSUME NEW t \in Sess PROVE AllKept(t)'
    <2> SUFFICES ASSUME Listed(t)', NEW k \in Nat, done'[t] < k, 2 * k <= Arrived(t)' PROVE Kept(t, 2 * k)'
      BY DEF AllKept
    <2>1. Listed(t) /\ 2 * k <= Arrived(t)
      BY <1>0, <1>5 DEF Listed, Valid
    <2>2. done[t] < k
      BY <1>2, <1>3, <1>7
    <2>3. Kept(t, 2 * k)
      BY <1>12, <2>1, <2>2 DEF PartInv, AllKept
    <2> QED
      BY <1>0, <1>4, <2>3 DEF Kept, Within, SrvHolds, Ending, NetHolds
  <1> QED
    BY <1>10, <1>11, <1>12, <1>13, <1>14, <1>15, <1>16 DEF PartInv

LEMMA PartSrvDecode ==
  ASSUME OwnInv, PartInv, OwnInv', SrvDecode
  PROVE  PartInv'
  BY DecodeCases, PartSrvDecodeEnd, PartSrvServe DEF OwnInv

LEMMA InitPart == Init => OrderInv
  <1> SUFFICES ASSUME Init PROVE PartInv
    BY InitOwn DEF OrderInv
  <1>1. OwnInv /\ 0 \notin Sess
    BY InitOwn, FieldTypes DEF OwnInv
  <1>2. ASSUME NEW s \in Sess PROVE conn[s].st = "none" /\ conn[s].sent = 0 /\ done[s] = 0 /\ Arrived(s) = 0
    BY DEF Init, Arrived, Idle
  <1>3. Counts
    BY <1>2 DEF Counts, Init
  <1>4. ~NetHolds /\ srv.pc = "idle" /\ Len(queue) = 0
    BY DEF Init, NetHolds, Idle
  <1>5. NetBufFits /\ InProgress /\ GivingUp
    BY <1>4 DEF NetBufFits, InProgress, GivingUp, Undecodable
  <1>6. \A s \in Sess : FillingFits(s) /\ AllKept(s)
    BY <1>2 DEF FillingFits, AllKept, Listed
  <1> QED
    BY <1>3, <1>4, <1>5, <1>6 DEF PartInv

LEMMA OrderNext ==
  ASSUME (MaxSeg + 1) \div 2 <= MaxDecode, OrderInv, [Next]_vars
  PROVE  OrderInv'
  <1>0. LeakInv'
    BY LeakNext DEF OrderInv
  <1>1. CASE Next
    <2> SUFFICES ASSUME ~twice' PROVE PartInv'
      BY <1>0 DEF OrderInv
    <2>1. ~twice /\ OwnInv /\ PartInv /\ OwnInv'
      BY <1>0, <1>1 DEF Next, NetStep, SrvStep, ClientStep, LeakInv, OrderInv
    <2>2. CASE Accept \/ Callback
      BY <2>1, <2>2, PartAccept, PartCallback
    <2>3. CASE NetConnect \/ NetData \/ NetUnlink \/ NetEnqueue \/ NetCheck \/ NetFree
      BY <2>1, <2>3, PartNetConnect, PartNetData, PartNetUnlink, PartNetEnqueue, PartNetCheck, PartNetFree
    <2>4. CASE SrvRecv \/ SrvDecode \/ SrvRpc \/ SrvSend \/ SrvWrite \/ SrvCheck
      BY <2>1, <2>4, PartSrvRecv, PartSrvDecode, PartMove
    <2>5. CASE SrvClear \/ SrvClose \/ SrvFree
      BY <2>1, <2>5, PartSrvClear, PartSrvClose, PartSrvFree
    <2> QED
      BY <1>1, <2>2, <2>3, <2>4, <2>5 DEF Next, NetStep, SrvStep, ClientStep
  <1>2. CASE UNCHANGED vars
    <2>1. PartInv => PartInv'
      <3>0. UNCHANGED <<conn, hdl, table, pool, queue, net, srv, done, sessidctr>>
        BY <1>2 DEF vars
      <3>1. /\ Counts => Counts'
            /\ NetBufFits => NetBufFits'
        BY <3>0 DEF Counts, NetBufFits, Arrived, NetHolds, Whole, IsComplete, Before, Fresh
      <3>2. /\ InProgress => InProgress'
            /\ GivingUp => GivingUp'
        BY <3>0 DEF InProgress, GivingUp, Undecodable, Ending, Arrived, Whole, IsComplete, Fresh
      <3>3. ASSUME NEW i \in 1 .. Len(queue), QueuedFits(i) PROVE QueuedFits(i)'
        BY <3>0, <3>3 DEF QueuedFits, Arrived, NetHolds, Whole, IsComplete, Before, Fresh, Tagged
      <3>4. ASSUME NEW s \in Sess, FillingFits(s) PROVE FillingFits(s)'
        BY <3>0, <3>4 DEF FillingFits, Arrived, Before, Listed, Valid, IsBuf
      <3>5. ASSUME NEW s \in Sess, AllKept(s) PROVE AllKept(s)'
        <4>1. Listed(s)' = Listed(s) /\ Arrived(s)' = Arrived(s)
          BY <3>0 DEF Listed, Valid, Arrived
        <4>2. (Undecodable /\ Ending /\ srv.msg.buf.sess = s)' = (Undecodable /\ Ending /\ srv.msg.buf.sess = s)
          BY <3>0 DEF Undecodable, Ending
        <4>3. ASSUME NEW k \in Nat, Kept(s, 2 * k) PROVE Kept(s, 2 * k)'
          BY <3>0, <4>3 DEF Kept, Within, NetHolds, SrvHolds, Ending
        <4> QED
          BY <3>0, <3>5, <4>1, <4>2, <4>3 DEF AllKept
      <3> QED
        BY <3>0, <3>1, <3>2, <3>3, <3>4, <3>5 DEF PartInv
    <2>2. twice' = twice
      BY <1>2 DEF vars
    <2> QED
      BY <1>0, <2>1, <2>2 DEF OrderInv
  <1> QED
    BY <1>1, <1>2

\* The requests of a session are served in their order and none of them twice,
\* and none is passed over while the connection is open, whichever thread ends
\* sessions meanwhile, when nconf_msgdec finds room for all the requests that a
\* segment can complete (nconf_msghdlr_client_msg_proc).
THEOREM RequestsServedInOrder ==
  ASSUME (MaxSeg + 1) \div 2 <= MaxDecode
  PROVE  Spec => ServedInOrder
  <1>1. ASSUME OrderInv, [Next]_vars, srv.pc = "decode", srv'.pc = "rpc"
        PROVE  /\ done'[srv.msg.sess] > done[srv.msg.sess]
               /\ conn[srv.msg.sess].st = "open" => done'[srv.msg.sess] = done[srv.msg.sess] + 1
    <2>1. Next
      BY <1>1 DEF vars
    <2>2. OwnInv /\ PartInv
      BY <1>1, <2>1 DEF Next, NetStep, SrvStep, ClientStep, LeakInv, OrderInv
    <2>3. SrvDecode
      <3>1. srv' # srv
        BY <1>1
      <3>2. ~(Accept \/ Callback \/ NetStep)
        BY <3>1 DEF Accept, Callback, NetStep, NetConnect, NetData, NetUnlink, NetEnqueue, NetCheck, NetFree
      <3>3. SrvStep
        BY <2>1, <3>2 DEF Next, ClientStep
      <3> QED
        BY <1>1, <3>3 DEF SrvStep, SrvRecv, SrvRpc, SrvSend, SrvWrite, SrvCheck, SrvClear, SrvClose, SrvFree
    <2>4. PICK b \in BufSet : b = srv.msg.buf
      BY <2>2, FieldTypes DEF OwnInv
    <2>5. /\ Decoded(b) # <<>> /\ srv.at # Len(Decoded(b))
          /\ done' = [done EXCEPT ![srv.msg.sess] = Decoded(b)[srv.at + 1]]
      <3>1. srv' # Disconnect(srv.msg.h, "idle")
        BY <1>1, <2>2, DisconnectFacts, FieldTypes DEF OwnInv
      <3>2. srv' # [srv EXCEPT !.pc = "idle"]
        BY <1>1, <2>2 DEF OwnInv, Types, SrvTypes, SrvSet
      <3> QED
        BY <2>2, <2>3, <2>4, <3>1, <3>2, DecodeCases DEF OwnInv
    <2>6. PICK s \in Sess, d \in Nat :
             /\ s = srv.msg.sess /\ d = Decoded(b)[srv.at + 1]
             /\ done[s] < d /\ (conn[s].st = "open" => d = done[s] + 1)
      BY <2>2, <2>3, <2>4, <2>5, ServeFacts
    <2>7. done \in [Sess -> Nat]
      BY <2>2 DEF PartInv, Counts
    <2>8. done'[s] = d /\ done[s] \in Nat
      BY <2>5, <2>6, <2>7
    <2> QED
      BY <2>6, <2>8
  <1>2. OrderInv /\ [Next]_vars =>
           [srv.pc = "decode" /\ srv'.pc = "rpc" =>
              LET s == srv.msg.sess
              IN  /\ done'[s] > done[s]
                  /\ conn[s].st = "open" => done'[s] = done[s] + 1]_vars
    BY <1>1
  <1>3. OrderInv /\ [Next]_vars => OrderInv'
    BY OrderNext
  <1> QED
    BY <1>2, <1>3, InitPart, PTL DEF Spec, ServedInOrder
=============================================================================
