---------------------------- MODULE FrameProofs ----------------------------
(***************************************************************************)
(* Theorems about the way of a frame: through the event loop of a system   *)
(* (GptpNet), for a ring of any size, any number of messages and either    *)
(* timestamp source; and from a master to a slave port (SyncLink), for any *)
(* number of messages on a link of any length, when a timestamp that has   *)
(* been given up does not come.  The two share no state.                   *)
(***************************************************************************)
EXTENDS GptpNet, SyncLink, SequenceTheorems, TLAPS

-----------------------------------------------------------------------------
(* GptpNet: the ring as a function of its slots s and its indices r and w  *)

\* Indices that go round
Wrap(x) == IF x < MaxTxtsInfo THEN x ELSE x - MaxTxtsInfo

Count(s, r, w) ==
    IF w > r THEN w - r
    ELSE IF w < r THEN MaxTxtsInfo - r + w
    ELSE IF s[r] = 0 THEN 0 ELSE MaxTxtsInfo

Queue(s, r, w) == [i \in 1 .. Count(s, r, w) |-> s[(r + i - 1) % MaxTxtsInfo]]

InUse(s, r, w, i) ==
    IF r < w THEN r <= i /\ i < w
    ELSE IF w < r THEN i < w \/ r <= i ELSE s[r] # 0

\* The slots in use are those from the read index up to the write index.
Ring(s, r, w) ==
    /\ s \in [Slot -> 0 .. MaxSend] /\ r \in Slot /\ w \in Slot
    /\ \A i \in Slot : s[i] # 0 <=> InUse(s, r, w, i)

\* The remainder by which the code moves an index is one subtraction.
LEMMA ModIsWrap ==
    ASSUME NEW x \in 0 .. 2 * MaxTxtsInfo - 1
    PROVE  x % MaxTxtsInfo = Wrap(x)
BY GptpNetAssumption DEF GptpNetAssumption, Wrap

\* An index that is moved on stays in the ring.
LEMMA NextIndex ==
    ASSUME NEW x \in Slot
    PROVE  (x + 1) % MaxTxtsInfo = Wrap(x + 1) /\ Wrap(x + 1) \in Slot
<1>1. x + 1 \in 0 .. 2 * MaxTxtsInfo - 1
  BY GptpNetAssumption DEF GptpNetAssumption, Slot
<1>2. Wrap(x + 1) \in Slot
  BY GptpNetAssumption DEF GptpNetAssumption, Slot, Wrap
<1> QED
  BY <1>1, <1>2, ModIsWrap

\* The requests in a ring are a sequence of message numbers.
LEMMA QueueFacts ==
    ASSUME NEW s, NEW r, NEW w, Ring(s, r, w)
    PROVE  /\ Count(s, r, w) \in 0 .. MaxTxtsInfo
           /\ Queue(s, r, w) \in Seq(1 .. MaxSend)
           /\ Len(Queue(s, r, w)) = Count(s, r, w)
           /\ \A i \in 1 .. Count(s, r, w) : Queue(s, r, w)[i] = s[Wrap(r + i - 1)]
<1> DEFINE n == Count(s, r, w)
           q == Queue(s, r, w)
<1>1. n \in 0 .. MaxTxtsInfo
  BY GptpNetAssumption DEF GptpNetAssumption, Ring, Count, Slot
<1>2. ASSUME NEW i \in 1 .. n
      PROVE  q[i] = s[Wrap(r + i - 1)] /\ q[i] \in 1 .. MaxSend
  <2>1. r + i - 1 \in 0 .. 2 * MaxTxtsInfo - 1
    BY <1>1, GptpNetAssumption DEF GptpNetAssumption, Ring, Slot
  <2>2. q[i] = s[Wrap(r + i - 1)]
    BY <2>1, ModIsWrap DEF Queue
  <2>3. Wrap(r + i - 1) \in Slot /\ InUse(s, r, w, Wrap(r + i - 1))
    BY <1>1, GptpNetAssumption DEF GptpNetAssumption, Ring, Count, Slot, Wrap, InUse
  <2> QED
    BY <2>2, <2>3, GptpNetAssumption DEF GptpNetAssumption, Ring
<1>3. q \in [1 .. n -> 1 .. MaxSend]
  BY <1>2 DEF Queue
<1>4. q \in Seq(1 .. MaxSend) /\ Len(q) = n
  <2> HIDE DEF q, n
  <2>1. n \in Nat
    BY <1>1, GptpNetAssumption DEF GptpNetAssumption
  <2>2. q \in Seq(1 .. MaxSend)
    BY <1>3, <2>1, SeqDef
  <2>3. Len(q) \in Nat /\ 1 .. Len(q) = 1 .. n
    BY <1>3, <2>2, LenProperties
  <2>4. Len(q) = n
    <3>1. n \in 1 .. n \/ n = 0
      BY <2>1
    <3>2. Len(q) \in 1 .. Len(q) \/ Len(q) = 0
      BY <2>3
    <3> QED
      BY <3>1, <3>2, <2>1, <2>3
  <2> QED
    BY <2>2, <2>4
<1> QED
  BY <1>1, <1>2, <1>4

Put(s, w, m) == [s EXCEPT ![w] = m]
Moved(w) == (w + 1) % MaxTxtsInfo

\* A request put into a free slot comes behind the others.
LEMMA PushFacts ==
    ASSUME NEW s, NEW r, NEW w, NEW m \in 1 .. MaxSend, Ring(s, r, w), s[w] = 0
    PROVE  /\ Ring(Put(s, w, m), r, Moved(w))
           /\ Count(s, r, w) < MaxTxtsInfo
           /\ Queue(Put(s, w, m), r, Moved(w)) = Append(Queue(s, r, w), m)
<1> DEFINE t == Put(s, w, m)
           v == Moved(w)
<1>1. v = Wrap(w + 1) /\ v \in Slot
  <2>1. w \in Slot
    BY DEF Ring
  <2> QED
    BY <2>1, NextIndex DEF Moved
<1>2. t \in [Slot -> 0 .. MaxSend] /\ t[w] = m /\ \A i \in Slot \ {w} : t[i] = s[i]
  BY GptpNetAssumption DEF GptpNetAssumption, Ring, Put
<1> HIDE DEF t, v
<1>3. Count(s, r, w) < MaxTxtsInfo /\ Count(t, r, v) = Count(s, r, w) + 1
  <2>1. /\ r \in Slot /\ w \in Slot
        /\ (s[w] # 0 <=> InUse(s, r, w, w)) /\ (s[r] # 0 <=> InUse(s, r, w, r))
    BY DEF Ring
  <2>2. m # 0 /\ MaxTxtsInfo \in Nat \ {0}
    BY GptpNetAssumption DEF GptpNetAssumption
  <2> QED
    BY <1>1, <1>2, <2>1, <2>2 DEF Slot, Count, Wrap, InUse
<1>4. Ring(t, r, v)
  <2> SUFFICES ASSUME NEW i \in Slot PROVE t[i] # 0 <=> InUse(t, r, v, i)
    BY <1>1, <1>2 DEF Ring
  <2>1. s[i] # 0 <=> InUse(s, r, w, i)
    BY DEF Ring
  <2>2. r \in Slot /\ w \in Slot /\ s[r] # 0 <=> InUse(s, r, w, r)
    BY DEF Ring
  <2> QED
    BY <1>1, <1>2, <2>1, <2>2, GptpNetAssumption DEF GptpNetAssumption, Slot, Wrap, InUse, Ring
<1>5. Wrap(r + Count(s, r, w)) = w
  BY GptpNetAssumption DEF GptpNetAssumption, Ring, Slot, Count, Wrap, InUse
<1>6. Queue(t, r, v) = Append(Queue(s, r, w), m)
  <2> DEFINE n == Count(s, r, w)
             q == Queue(s, r, w)
             p == Queue(t, r, v)
  <2>0. /\ n \in Nat /\ n < MaxTxtsInfo /\ r \in 0 .. MaxTxtsInfo - 1
        /\ MaxTxtsInfo \in Nat /\ w \in Slot
    BY <1>3, QueueFacts, GptpNetAssumption DEF GptpNetAssumption, Ring, Slot
  <2>1. /\ n \in 0 .. MaxTxtsInfo /\ q \in Seq(1 .. MaxSend) /\ Len(q) = n
        /\ \A j \in 1 .. n : q[j] = s[Wrap(r + j - 1)]
    BY QueueFacts
  <2>2. /\ p \in Seq(1 .. MaxSend) /\ Len(p) = n + 1
        /\ \A j \in 1 .. n + 1 : p[j] = t[Wrap(r + j - 1)]
    <3>1. /\ p \in Seq(1 .. MaxSend) /\ Len(p) = Count(t, r, v)
          /\ \A j \in 1 .. Count(t, r, v) : p[j] = t[Wrap(r + j - 1)]
      BY ONLY <1>4, QueueFacts
    <3>2. Count(t, r, v) = n + 1
      BY <1>3
    <3> QED
      BY <3>1, <3>2
  <2> HIDE DEF p, q, n
  <2>3. ASSUME NEW i \in 1 .. n + 1 PROVE p[i] = Append(q, m)[i]
    <3>1. p[i] = t[Wrap(r + i - 1)]
      BY <2>2
    <3>2. CASE i = n + 1
      <4>1. r + i - 1 = r + n /\ Wrap(r + n) = w
        BY <3>2, <1>5, <2>0 DEF n
      <4>2. p[i] = m
        BY <3>1, <4>1, <1>2
      <4> QED
        BY <3>2, <4>2, <2>1
    <3>3. CASE i \in 1 .. n
      <4>1. q[i] = s[Wrap(r + i - 1)]
        BY <2>1, <3>3
      <4>2. Wrap(r + n) = w
        BY <1>5 DEF n
      <4>3. Wrap(r + i - 1) \in Slot \ {w}
        BY <3>3, <4>2, <2>0 DEF Slot, Wrap
      <4> QED
        BY <3>1, <3>3, <4>1, <4>3, <1>2, <2>1
    <3>4. i = n + 1 \/ i \in 1 .. n
      BY <2>0
    <3> QED
      BY <3>2, <3>3, <3>4
  <2>4. Append(q, m) \in Seq(1 .. MaxSend) /\ Len(Append(q, m)) = n + 1
    BY <2>1
  <2>5. \A i \in 1 .. Len(p) : p[i] = Append(q, m)[i]
    BY <2>2, <2>3
  <2>6. p = Append(q, m)
    BY <2>2, <2>4, <2>5, SeqEqual
  <2> QED
    BY <2>6 DEF p, q
<1> QED
  BY <1>3, <1>4, <1>6 DEF t, v

\* The request taken out is the oldest.
LEMMA PopFacts ==
    ASSUME NEW s, NEW r, NEW w, Ring(s, r, w), s[r] # 0
    PROVE  /\ Ring(Put(s, r, 0), Moved(r), w)
           /\ Queue(s, r, w) # <<>>
           /\ s[r] = Head(Queue(s, r, w))
           /\ Queue(Put(s, r, 0), Moved(r), w) = Tail(Queue(s, r, w))
<1> DEFINE t == Put(s, r, 0)
           v == Moved(r)
<1>1. v = Wrap(r + 1) /\ v \in Slot
  <2>1. r \in Slot
    BY DEF Ring
  <2> QED
    BY <2>1, NextIndex DEF Moved
<1>2. t \in [Slot -> 0 .. MaxSend] /\ t[r] = 0 /\ \A i \in Slot \ {r} : t[i] = s[i]
  BY GptpNetAssumption DEF GptpNetAssumption, Ring, Put
<1> HIDE DEF t, v
<1>3. Count(s, r, w) > 0 /\ Count(t, v, w) = Count(s, r, w) - 1
  <2>1. v \in Slot /\ (s[v] # 0 <=> InUse(s, r, w, v))
    BY <1>1 DEF Ring
  <2>2. InUse(s, r, w, r)
    BY DEF Ring
  <2>3. r \in Slot /\ w \in Slot /\ MaxTxtsInfo \in Nat \ {0}
    BY GptpNetAssumption DEF GptpNetAssumption, Ring
  <2> QED
    BY <1>1, <1>2, <2>1, <2>2, <2>3 DEF Slot, Count, Wrap, InUse
<1>4. Ring(t, v, w)
  <2> SUFFICES ASSUME NEW i \in Slot PROVE t[i] # 0 <=> InUse(t, v, w, i)
    BY <1>1, <1>2 DEF Ring
  <2>1. s[i] # 0 <=> InUse(s, r, w, i)
    BY DEF Ring
  <2>2. /\ r \in Slot /\ w \in Slot /\ InUse(s, r, w, r)
        /\ s[v] # 0 <=> InUse(s, r, w, v)
    BY <1>1 DEF Ring
  <2> QED
    BY <1>1, <1>2, <2>1, <2>2, GptpNetAssumption DEF GptpNetAssumption, Slot, Wrap, InUse, Ring
<1> DEFINE n == Count(s, r, w)
           q == Queue(s, r, w)
           p == Queue(t, v, w)
<1>0. r \in 0 .. MaxTxtsInfo - 1 /\ MaxTxtsInfo \in Nat \ {0}
  BY GptpNetAssumption DEF GptpNetAssumption, Ring, Slot
<1>5. /\ n \in 1 .. MaxTxtsInfo /\ q \in Seq(1 .. MaxSend) /\ Len(q) = n
      /\ \A j \in 1 .. n : q[j] = s[Wrap(r + j - 1)]
  BY <1>3, QueueFacts
<1>6. q # <<>>
  BY <1>5
<1>7. q[1] = s[r]
  <2> HIDE DEF q, n
  <2>1. 1 \in 1 .. n /\ Wrap(r + 1 - 1) = r
    BY <1>0, <1>5 DEF Wrap
  <2> QED
    BY <1>5, <2>1
<1>8. p = Tail(q)
  <2>1. /\ p \in Seq(1 .. MaxSend) /\ Len(p) = n - 1
        /\ \A j \in 1 .. n - 1 : p[j] = t[Wrap(v + j - 1)]
    <3>1. /\ p \in Seq(1 .. MaxSend) /\ Len(p) = Count(t, v, w)
          /\ \A j \in 1 .. Count(t, v, w) : p[j] = t[Wrap(v + j - 1)]
      BY ONLY <1>4, QueueFacts
    <3>2. Count(t, v, w) = n - 1
      BY <1>3
    <3> QED
      BY <3>1, <3>2
  <2> HIDE DEF p, q, n
  <2>2. ASSUME NEW i \in 1 .. n - 1 PROVE p[i] = q[i + 1]
    <3>1. p[i] = t[Wrap(v + i - 1)]
      BY <2>1
    <3>2. q[i + 1] = s[Wrap(r + i)]
      <4>1. i + 1 \in 1 .. n /\ r + (i + 1) - 1 = r + i
        BY <1>0, <1>5
      <4> QED
        BY <1>5, <4>1
    <3>3. Wrap(v + i - 1) = Wrap(r + i) /\ Wrap(r + i) \in Slot \ {r}
      BY <1>0, <1>1, <1>5 DEF Slot, Wrap
    <3> QED
      BY <3>1, <3>2, <3>3, <1>2
  <2>3. /\ Tail(q) \in Seq(1 .. MaxSend) /\ Len(Tail(q)) = n - 1
        /\ \A i \in 1 .. n - 1 : Tail(q)[i] = q[i + 1]
    BY <1>5, <1>6, HeadTailProperties
  <2>4. \A i \in 1 .. Len(p) : p[i] = Tail(q)[i]
    BY <2>1, <2>2, <2>3
  <2> QED
    BY <2>1, <2>3, <2>4, SeqEqual
<1>9. s[r] = Head(q)
  <2> HIDE DEF q, n
  <2> QED
    BY <1>5, <1>6, <1>7
<1> QED
  BY <1>4, <1>6, <1>8, <1>9 DEF t, v

\* An empty slot at the read index means an empty ring.
LEMMA EmptyFacts ==
    ASSUME NEW s, NEW r, NEW w, Ring(s, r, w), s[r] = 0
    PROVE  Count(s, r, w) = 0 /\ \A i \in Slot : s[i] = 0
BY GptpNetAssumption DEF GptpNetAssumption, Ring, Count, InUse, Slot

-----------------------------------------------------------------------------
(* What a step does to the ring                                            *)

RingInv == Ring(slots, rdi, wri) /\ nsent \in 0 .. MaxSend

\* The three things a step does to the ring
Pushes == push_txts_info(nsent') /\ pc = "cb" /\ nsent < MaxSend /\ nsent' = nsent + 1
Keeps  == UNCHANGED <<ring, nsent>>
Pops   == pop_txts_info /\ nsent' = nsent

\* A request is put into the ring by the send of an event message only, and
\* taken out by process_txts and by a failed send only.
LEMMA RingActions == ASSUME [GnNext]_gnVars PROVE Keeps \/ Pops \/ Pushes
<1>1. CASE UNCHANGED gnVars
  BY <1>1 DEF gnVars, Keeps
<1>2. CASE SendEvent
  BY <1>2 DEF SendEvent, Pushes
<1>3. CASE ProcessTxts
  BY <1>3 DEF ProcessTxts, Keeps, Pops
<1>4. CASE SendFailed
  BY <1>4 DEF SendFailed, Keeps, Pops
<1>5. CASE \/ NoticeCheck \/ LinkCheck \/ ToutCheck \/ Wait \/ ProcessRx \/ RxDone
           \/ CallbackReturns \/ SendGeneral
  BY <1>5 DEF NoticeCheck, LinkCheck, ToutCheck, Wait, ProcessRx, RxDone, CallbackReturns,
              SendGeneral, Keeps
<1>6. CASE Receive \/ TxDone \/ Stamp \/ StatusTask \/ Elapse
  BY <1>6 DEF Receive, TxDone, Stamp, StatusTask, Elapse, Keeps
<1> QED
  BY <1>1, <1>2, <1>3, <1>4, <1>5, <1>6 DEF GnNext, LoopStep

\* A pop takes the oldest request out of the queue.
LEMMA PopStep ==
    ASSUME RingInv, pop_txts_info
    PROVE  /\ Ring(slots', rdi', wri') /\ RingQueue # <<>>
           /\ slots[rdi] = Head(RingQueue) /\ RingQueue' = Tail(RingQueue)
<1>1. RingQueue = Queue(slots, rdi, wri) /\ RingQueue' = Queue(slots', rdi', wri')
  BY DEF RingQueue, Used, Queue, Count
<1>2. slots[rdi] # 0 /\ slots' = Put(slots, rdi, 0) /\ rdi' = Moved(rdi) /\ wri' = wri
  BY DEF pop_txts_info, Put, Moved
<1>3. /\ Ring(slots', rdi', wri') /\ Queue(slots, rdi, wri) # <<>>
      /\ slots[rdi] = Head(Queue(slots, rdi, wri))
      /\ Queue(slots', rdi', wri') = Tail(Queue(slots, rdi, wri))
  <2>1. Ring(slots, rdi, wri)
    BY DEF RingInv
  <2> QED
    BY ONLY <1>2, <2>1, PopFacts
<1> QED
  BY <1>1, <1>3

\* What happens to the queue: nothing, its oldest request goes, or a new one comes.
LEMMA RingStep ==
    ASSUME RingInv, [GnNext]_gnVars
    PROVE  /\ RingInv'
           /\ \/ RingQueue' = RingQueue
              \/ RingQueue # <<>> /\ RingQueue' = Tail(RingQueue)
              \/ /\ nsent' = nsent + 1 /\ nsent' \in 1 .. MaxSend
                 /\ Len(RingQueue) < MaxTxtsInfo /\ RingQueue' = Append(RingQueue, nsent')
<1>1. RingQueue = Queue(slots, rdi, wri) /\ RingQueue' = Queue(slots', rdi', wri')
  BY DEF RingQueue, Used, Queue, Count
<1>2. CASE Keeps
  BY <1>2, <1>1 DEF Keeps, RingInv, ring
<1>3. CASE Pops
  BY <1>3, PopStep DEF Pops, RingInv
<1>4. CASE Pushes
  <2>1. nsent' = nsent + 1 /\ nsent' \in 1 .. MaxSend /\ nsent' \in 0 .. MaxSend
    BY <1>4, GptpNetAssumption DEF GptpNetAssumption, Pushes, RingInv
  <2>2. CASE slots[wri] = 0
    <3>1. /\ slots' = [slots EXCEPT ![wri] = nsent'] /\ wri' = (wri + 1) % MaxTxtsInfo
          /\ rdi' = rdi
      BY <1>4, <2>2 DEF Pushes, push_txts_info
    <3>2. /\ Ring(slots', rdi', wri') /\ Count(slots, rdi, wri) < MaxTxtsInfo
          /\ Queue(slots', rdi', wri') = Append(Queue(slots, rdi, wri), nsent')
      <4>1. Ring(slots, rdi, wri) /\ nsent' \in 1 .. MaxSend
        BY <2>1 DEF RingInv
      <4>2. /\ Ring(slots', rdi, wri') /\ Count(slots, rdi, wri) < MaxTxtsInfo
            /\ Queue(slots', rdi, wri') = Append(Queue(slots, rdi, wri), nsent')
        <5>1. slots' = Put(slots, wri, nsent') /\ wri' = Moved(wri)
          BY <3>1 DEF Put, Moved
        <5> QED
          BY ONLY <2>2, <4>1, <5>1, PushFacts
      <4> QED
        BY <3>1, <4>2
    <3>3. Len(Queue(slots, rdi, wri)) = Count(slots, rdi, wri)
      BY QueueFacts DEF RingInv
    <3> QED
      BY <1>1, <2>1, <3>2, <3>3 DEF RingInv
  <2>3. CASE slots[wri] # 0
    BY <1>1, <1>4, <2>1, <2>3 DEF Pushes, push_txts_info, RingInv
  <2> QED
    BY <2>2, <2>3
<1> QED
  BY <1>2, <1>3, <1>4, RingActions

\* gptpnet_init leaves an empty ring.
LEMMA RingInitially == GnInit => RingInv /\ RingQueue = <<>>
<1> SUFFICES ASSUME GnInit PROVE RingInv /\ RingQueue = <<>>
  OBVIOUS
<1>1. RingInv
  BY GptpNetAssumption DEF GptpNetAssumption, GnInit, RingInv, Ring, Slot, InUse
<1>2. RingQueue = Queue(slots, rdi, wri) /\ Count(slots, rdi, wri) = 0
  BY GptpNetAssumption DEF GptpNetAssumption, GnInit, RingQueue, Used, Queue, Count, Slot
<1>3. RingQueue \in Seq(1 .. MaxSend) /\ Len(RingQueue) = 0
  BY <1>1, <1>2, QueueFacts DEF RingInv
<1> QED
  BY <1>1, <1>3, EmptySeq

\* The ring of transmit timestamp requests in lld_gptpnet.c implements a bounded
\* FIFO queue, whatever its size and however sends, failures, timestamps and
\* wake-ups interleave.
THEOREM RingImplementsFifo == GnSpec => RingIsFifo
<1>1. GnInit => RingInv /\ Fifo!FifoInit
  BY RingInitially DEF Fifo!FifoInit
<1>2. RingInv /\ [GnNext]_gnVars => RingInv' /\ [Fifo!FifoNext]_RingQueue
  <2> SUFFICES ASSUME RingInv, [GnNext]_gnVars PROVE RingInv' /\ [Fifo!FifoNext]_RingQueue
    OBVIOUS
  <2>1. CASE RingQueue' = RingQueue
    BY <2>1, RingStep
  <2>2. CASE RingQueue # <<>> /\ RingQueue' = Tail(RingQueue)
    BY <2>2, RingStep DEF Fifo!FifoNext, Fifo!Get
  <2>3. CASE /\ nsent' \in 1 .. MaxSend
             /\ Len(RingQueue) < MaxTxtsInfo /\ RingQueue' = Append(RingQueue, nsent')
    <3>1. Fifo!Put(nsent')
      BY <2>3 DEF Fifo!Put
    <3> QED
      BY <2>3, <3>1, RingStep DEF Fifo!FifoNext
  <2> QED
    BY <2>1, <2>2, <2>3, RingStep
<1> QED
  BY <1>1, <1>2, PTL DEF GnSpec, RingIsFifo, Fifo!FifoSpec

-----------------------------------------------------------------------------
(* Timestamp events                                                        *)

\* The requests wait in the order of sending, all of them for messages sent
\* after the one of the last event.
Ordered(q, last, n) ==
    /\ last \in 0 .. n
    /\ \A i \in 1 .. Len(q) : last < q[i] /\ q[i] <= n
    /\ \A i, j \in 1 .. Len(q) : i < j => q[i] < q[j]

OrderInv == RingInv /\ Ordered(RingQueue, lastTs, nsent)

\* A timestamp event, and the only change of lastTs, takes the oldest request.
Reports == pop_txts_info /\ lastTs' = slots[rdi] /\ nsent' = nsent
Silent  == lastTs' = lastTs /\ (event' = "TXTS" => event = "TXTS")

\* Every step makes a timestamp event of a request or none.
LEMMA EventActions == ASSUME [GnNext]_gnVars PROVE Reports \/ Silent
<1>1. CASE UNCHANGED gnVars
  BY <1>1 DEF gnVars, loop, Silent
<1>2. CASE SendEvent \/ SendGeneral
  BY <1>2 DEF SendEvent, SendGeneral, Silent, loop
<1>3. CASE ProcessTxts
  BY <1>3 DEF ProcessTxts, Reports, Silent, GoTo, Callback
<1>4. CASE SendFailed \/ NoticeCheck \/ LinkCheck \/ ToutCheck \/ Wait \/ ProcessRx \/ RxDone
           \/ CallbackReturns
  BY <1>4 DEF SendFailed, NoticeCheck, LinkCheck, ToutCheck, Wait, ProcessRx, RxDone,
              CallbackReturns, GoTo, Callback, Silent
<1>5. CASE Receive \/ TxDone \/ Stamp \/ StatusTask \/ Elapse
  BY <1>5 DEF Receive, TxDone, Stamp, StatusTask, Elapse, loop, Silent
<1> QED
  BY <1>1, <1>2, <1>3, <1>4, <1>5 DEF GnNext, LoopStep

\* A queue in order stays so when its oldest request is taken out.
LEMMA OrderedTail ==
    ASSUME NEW q \in Seq(1 .. MaxSend), q # <<>>, NEW last, NEW n \in Nat, Ordered(q, last, n)
    PROVE  /\ last < Head(q) /\ Head(q) \in Nat
           /\ Ordered(Tail(q), last, n) /\ Ordered(Tail(q), Head(q), n)
<1>1. /\ Len(q) \in Nat \ {0} /\ Len(Tail(q)) = Len(q) - 1 /\ Head(q) = q[1]
      /\ \A i \in 1 .. Len(Tail(q)) : Tail(q)[i] = q[i + 1]
  BY HeadTailProperties, EmptySeq, LenProperties
<1>2. \A i \in 1 .. Len(q) : q[i] \in Nat
  BY GptpNetAssumption, ElementOfSeq DEF GptpNetAssumption
<1>3. \A i \in 1 .. Len(Tail(q)) : i \in 1 .. Len(q) /\ i + 1 \in 1 .. Len(q) /\ 1 < i + 1
  BY <1>1
<1>4. 1 \in 1 .. Len(q)
  BY <1>1
<1>5. last \in Nat /\ Head(q) \in 0 .. n /\ last < Head(q) /\ last \in 0 .. n
  BY <1>1, <1>2, <1>4 DEF Ordered
<1>6. ASSUME NEW i \in 1 .. Len(Tail(q))
      PROVE  last < Tail(q)[i] /\ Head(q) < Tail(q)[i] /\ Tail(q)[i] <= n
  BY <1>1, <1>3, <1>4 DEF Ordered
<1>7. ASSUME NEW i \in 1 .. Len(Tail(q)), NEW j \in 1 .. Len(Tail(q)), i < j
      PROVE  Tail(q)[i] < Tail(q)[j]
  <2>1. i + 1 < j + 1
    BY <1>1, <1>7
  <2> QED
    BY <1>1, <1>3, <2>1 DEF Ordered
<1> QED
  BY <1>5, <1>6, <1>7 DEF Ordered

\* A queue in order stays so when a request for a newer message comes.
LEMMA OrderedAppend ==
    ASSUME NEW q \in Seq(1 .. MaxSend), NEW last, NEW n \in Nat, Ordered(q, last, n)
    PROVE  Ordered(q, last, n + 1) /\ Ordered(Append(q, n + 1), last, n + 1)
<1>1. Len(q) \in Nat /\ \A i \in 1 .. Len(q) : q[i] \in Nat
  BY GptpNetAssumption, ElementOfSeq, LenProperties DEF GptpNetAssumption
<1>2. Ordered(q, last, n + 1)
  BY <1>1 DEF Ordered
<1> DEFINE p == Append(q, n + 1)
<1>3. Len(p) = Len(q) + 1 /\ p[Len(q) + 1] = n + 1 /\ \A i \in 1 .. Len(q) : p[i] = q[i]
  BY <1>1
<1> HIDE DEF p
<1>4. \A i \in 1 .. Len(p) : i \in 1 .. Len(q) \/ i = Len(q) + 1
  BY <1>1, <1>3
<1>5. ASSUME NEW i \in 1 .. Len(p) PROVE last < p[i] /\ p[i] <= n + 1
  BY <1>1, <1>3, <1>4 DEF Ordered
<1>6. ASSUME NEW i \in 1 .. Len(p), NEW j \in 1 .. Len(p), i < j PROVE p[i] < p[j]
  <2>1. i \in 1 .. Len(q) /\ p[i] = q[i] /\ q[i] <= n
    BY <1>1, <1>3, <1>4, <1>6 DEF Ordered
  <2> QED
    BY <1>1, <1>3, <1>4, <1>6, <2>1 DEF Ordered
<1>7. Ordered(p, last, n + 1)
  BY <1>2, <1>5, <1>6 DEF Ordered
<1> QED
  BY <1>2, <1>7 DEF p

\* The order is kept by every step, and a timestamp event goes forward.
LEMMA OrderStep ==
    ASSUME OrderInv, [GnNext]_gnVars
    PROVE  OrderInv' /\ (event # "TXTS" /\ event' = "TXTS" => lastTs' > lastTs)
<1>1. RingInv /\ RingInv' /\ nsent \in Nat
  BY RingStep DEF OrderInv, RingInv
<1>2. RingQueue = Queue(slots, rdi, wri) /\ RingQueue \in Seq(1 .. MaxSend)
  BY <1>1, QueueFacts DEF RingInv, RingQueue, Used, Queue, Count
<1>3. CASE Reports
  <2>1. /\ RingQueue # <<>> /\ lastTs' = Head(RingQueue) /\ RingQueue' = Tail(RingQueue)
        /\ nsent' = nsent
    BY <1>1, <1>3, PopStep DEF Reports
  <2>2. lastTs < Head(RingQueue) /\ Ordered(Tail(RingQueue), Head(RingQueue), nsent)
    BY <1>1, <1>2, <2>1, OrderedTail DEF OrderInv
  <2>3. lastTs' > lastTs
    BY <2>1, <2>2 DEF OrderInv, Ordered
  <2> QED
    BY <1>1, <2>1, <2>2, <2>3 DEF OrderInv
<1>4. CASE Silent
  <2>1. nsent' = nsent \/ nsent' = nsent + 1
    BY RingActions DEF Keeps, Pops, Pushes
  <2>2. Ordered(RingQueue, lastTs, nsent')
    BY <1>1, <1>2, <2>1, OrderedAppend DEF OrderInv
  <2>3. CASE RingQueue' = RingQueue
    BY <1>1, <1>4, <2>2, <2>3 DEF OrderInv, Silent
  <2>4. CASE RingQueue # <<>> /\ RingQueue' = Tail(RingQueue)
    <3>1. nsent' \in Nat
      BY <1>1, <2>1
    <3>2. Ordered(Tail(RingQueue), lastTs, nsent')
      BY <1>2, <2>2, <2>4, <3>1, OrderedTail
    <3> QED
      BY <1>1, <1>4, <2>4, <3>2 DEF OrderInv, Silent
  <2>5. CASE nsent' = nsent + 1 /\ RingQueue' = Append(RingQueue, nsent')
    <3>1. Ordered(Append(RingQueue, nsent'), lastTs, nsent')
      BY <1>1, <1>2, <2>5, OrderedAppend DEF OrderInv
    <3> QED
      BY <1>1, <1>4, <2>5, <3>1 DEF OrderInv, Silent
  <2>6. OrderInv'
    BY <1>1, <2>3, <2>4, <2>5, RingStep
  <2> QED
    BY <2>6, <1>4 DEF Silent
<1> QED
  BY <1>3, <1>4, EventActions

\* Timestamp events come in the order of sending and at most one for each
\* message, whatever is refused, fails or finds no timestamp in between.
THEOREM TxtsAlwaysInOrder == GnSpec => TxtsInOrder
<1>1. GnInit => OrderInv
  <2> SUFFICES ASSUME GnInit PROVE OrderInv
    OBVIOUS
  <2>1. RingInv /\ RingQueue = <<>>
    BY RingInitially
  <2>2. Ordered(<<>>, 0, 0)
    BY DEF Ordered
  <2> QED
    BY <2>1, <2>2 DEF OrderInv, GnInit
<1>2. OrderInv /\ [GnNext]_gnVars =>
         OrderInv' /\ [event # "TXTS" /\ event' = "TXTS" => lastTs' > lastTs]_gnVars
  BY OrderStep
<1> QED
  BY <1>1, <1>2, PTL DEF GnSpec, TxtsInOrder

-----------------------------------------------------------------------------
(* Wake-ups                                                                *)

\* The loop is in process_txts, or in process_txts or process_rxdata.
InTxts   == pc = "txts" \/ event = "TXTS"
Draining == InTxts \/ pc = "rx" \/ event = "RECV"

WakeTypes ==
    /\ sem \in Nat /\ statSem \in Nat /\ dma \in Nat
    /\ event \in {"NONE", "TX_MSG_INTERVAL_REQ", "DEVUP", "DEVDOWN", "TIMEOUT", "TXTS", "RECV"}
    /\ event = "NONE" <=> pc \notin {"cb", "failed"}

\* CPTS: a frame or a request that waits has a post, a transmission in
\* progress or the loop behind it, but for the request of a send that has
\* just failed.
FramesCovered == rxq # <<>> => sem > 0 \/ Draining
RequestsCovered ==
    dma = 0 /\ sem = 0 /\ ~InTxts => Len(RingQueue) <= IF pc = "failed" THEN 1 ELSE 0

\* PHY: only messages that were sent have a timestamp; a status frame that
\* waits has a post, and so has a timestamp the loop can use.
SentOnly == air \cup status \cup stamped \subseteq 1 .. nsent
StatusCovered == status # {} => statSem > 0
StampsCovered == sem = 0 /\ ~InTxts => Requests \cap stamped = {}

WakeInv ==
    /\ RingInv /\ WakeTypes /\ SentOnly
    /\ tsSource = "CPTS" => FramesCovered /\ RequestsCovered
    /\ tsSource = "PHY" => StatusCovered /\ StampsCovered

\* The set of requests is empty exactly when the queue is.
LEMMA RingEmpty ==
    ASSUME RingInv
    PROVE  /\ Len(RingQueue) \in Nat
           /\ slots[rdi] = 0 => Len(RingQueue) = 0 /\ Requests = {}
           /\ Len(RingQueue) = 0 => Requests = {}
<1>1. Len(RingQueue) \in Nat /\ Len(RingQueue) = Count(slots, rdi, wri)
  <2>1. RingQueue = Queue(slots, rdi, wri)
    BY DEF RingQueue, Used, Queue, Count
  <2> QED
    BY <2>1, QueueFacts, LenProperties DEF RingInv
<1>2. slots[rdi] = 0 => Len(RingQueue) = 0 /\ Requests = {}
  BY <1>1, EmptyFacts DEF RingInv, Requests
<1>3. Count(slots, rdi, wri) = 0 => slots[rdi] = 0
  BY GptpNetAssumption DEF RingInv, Ring, Count, Slot, GptpNetAssumption
<1> QED
  BY <1>1, <1>2, <1>3

\* What a step does to the number of requests and to the set of them.
LEMMA RequestsStep ==
    ASSUME RingInv, [GnNext]_gnVars
    PROVE  /\ Len(RingQueue) \in Nat /\ Len(RingQueue') \in Nat
           /\ Pops => Len(RingQueue') = Len(RingQueue) - 1 /\ Requests' \subseteq Requests
           /\ Pushes => /\ Len(RingQueue') <= Len(RingQueue) + 1
                        /\ Requests' \subseteq Requests \cup {nsent'}
           /\ Keeps => RingQueue' = RingQueue /\ Requests' = Requests
<1>1. RingQueue = Queue(slots, rdi, wri) /\ RingQueue' = Queue(slots', rdi', wri')
  BY DEF RingQueue, Used, Queue, Count
<1>2. RingInv /\ RingInv'
  BY RingStep
<1>3. /\ RingQueue \in Seq(1 .. MaxSend) /\ RingQueue' \in Seq(1 .. MaxSend)
      /\ Len(RingQueue) \in Nat /\ Len(RingQueue') \in Nat
  BY <1>1, <1>2, QueueFacts, LenProperties DEF RingInv
<1>4. Keeps => RingQueue' = RingQueue /\ Requests' = Requests
  BY <1>1 DEF Keeps, ring, Requests
<1>5. ASSUME Pops
      PROVE  Len(RingQueue') = Len(RingQueue) - 1 /\ Requests' \subseteq Requests
  <2>1. slots' = [slots EXCEPT ![rdi] = 0]
    BY <1>5 DEF Pops, pop_txts_info
  <2>2. RingQueue # <<>> /\ RingQueue' = Tail(RingQueue)
    BY <1>2, <1>5, PopStep DEF Pops
  <2>3. Len(RingQueue') = Len(RingQueue) - 1
    BY <1>3, <2>2, HeadTailProperties
  <2>4. \A i \in Slot : slots'[i] = slots[i] \/ slots'[i] = 0
    BY <1>2, <2>1 DEF RingInv, Ring
  <2> QED
    BY <2>3, <2>4 DEF Requests
<1>6. ASSUME Pushes
      PROVE  /\ Len(RingQueue') <= Len(RingQueue) + 1
             /\ Requests' \subseteq Requests \cup {nsent'}
  <2>1. \A i \in Slot : slots'[i] = slots[i] \/ slots'[i] = nsent'
    BY <1>2, <1>6 DEF Pushes, push_txts_info, RingInv, Ring
  <2>2. Requests' \subseteq Requests \cup {nsent'}
    BY <2>1 DEF Requests
  <2>3. Len(Tail(RingQueue)) <= Len(RingQueue) + 1 \/ RingQueue = <<>>
    BY <1>3, HeadTailProperties
  <2>4. Len(Append(RingQueue, nsent')) = Len(RingQueue) + 1
    BY <1>3
  <2>5. Len(RingQueue') <= Len(RingQueue) + 1
    BY <1>3, <2>3, <2>4, RingStep
  <2> QED
    BY <2>2, <2>5
<1> QED
  BY <1>3, <1>4, <1>5, <1>6

\* Every step keeps every wake-up.
LEMMA WakeStep ==
    ASSUME WakeInv, [GnNext]_gnVars
    PROVE  WakeInv'
<1>1. RingInv /\ RingInv' /\ WakeTypes /\ SentOnly /\ nsent \in Nat
  BY RingStep DEF WakeInv, RingInv
<1>2. /\ Len(RingQueue) \in Nat /\ Len(RingQueue') \in Nat
      /\ Pops => Len(RingQueue') = Len(RingQueue) - 1 /\ Requests' \subseteq Requests
      /\ Pushes => /\ Len(RingQueue') <= Len(RingQueue) + 1
                   /\ Requests' \subseteq Requests \cup {nsent'}
      /\ Keeps => RingQueue' = RingQueue /\ Requests' = Requests
      /\ slots[rdi] = 0 => Len(RingQueue) = 0 /\ Requests = {}
  BY <1>1, RequestsStep, RingEmpty
<1> USE DEF WakeInv, WakeTypes, SentOnly, FramesCovered, RequestsCovered, StatusCovered,
            StampsCovered, InTxts, Draining
<1>3. CASE UNCHANGED gnVars
  <2>1. Keeps
    BY <1>3 DEF gnVars, Keeps
  <2> QED
    BY <1>1, <1>2, <1>3, <2>1 DEF gnVars, loop, hw
<1>4. CASE NoticeCheck \/ LinkCheck \/ ToutCheck \/ Wait \/ RxDone \/ CallbackReturns
  <2>1. Keeps
    BY <1>4 DEF NoticeCheck, LinkCheck, ToutCheck, Wait, RxDone, CallbackReturns, Keeps
  <2>2. CASE NoticeCheck
    BY <1>1, <1>2, <2>1, <2>2 DEF NoticeCheck, GoTo, Callback, hw
  <2>3. CASE LinkCheck
    BY <1>1, <1>2, <2>1, <2>3 DEF LinkCheck, GoTo, Callback, hw
  <2>4. CASE ToutCheck
    BY <1>1, <1>2, <2>1, <2>4 DEF ToutCheck, GoTo, Callback, hw
  <2>5. CASE Wait
    BY <1>1, <1>2, <2>1, <2>5 DEF Wait, GoTo, Callback, hw
  <2>6. CASE RxDone
    BY <1>1, <1>2, <2>1, <2>6 DEF RxDone, GoTo, hw
  <2>7. CASE CallbackReturns
    <3>1. /\ pc = "cb" /\ event # "NONE" /\ event' = "NONE" /\ pc' = Resume
          /\ UNCHANGED <<tsSource, sem, statSem, hw, nsent>>
      BY <1>1, <2>7 DEF CallbackReturns
    <3>2. /\ pc' \notin {"cb", "failed"}
          /\ event = "TXTS" <=> pc' = "txts"
          /\ event = "RECV" <=> pc' = "rx"
      BY <1>1, <3>1 DEF Resume
    <3> QED
      BY <1>1, <1>2, <2>1, <3>1, <3>2 DEF hw
  <2> QED
    BY <1>4, <2>2, <2>3, <2>4, <2>5, <2>6, <2>7
<1>5. CASE ProcessTxts
  <2>1. CASE slots[rdi] = 0
    <3>1. Keeps
      BY <1>5, <2>1 DEF ProcessTxts, Keeps
    <3> QED
      BY <1>1, <1>2, <1>5, <2>1, <3>1 DEF ProcessTxts, GoTo
  <2>2. CASE slots[rdi] # 0
    BY <1>1, <1>2, <1>5, <2>2 DEF ProcessTxts, GoTo, Callback
  <2> QED
    BY <2>1, <2>2
<1>6. CASE ProcessRx
  <2>1. Keeps
    BY <1>6 DEF ProcessRx, Keeps
  <2> QED
    BY <1>1, <1>2, <1>6, <2>1 DEF ProcessRx, GoTo, Callback
<1>7. CASE SendEvent
  <2>1. Pushes
    BY <1>7 DEF SendEvent, Pushes
  <2> QED
    BY <1>1, <1>2, <1>7, <2>1 DEF SendEvent, loop
<1>8. CASE SendGeneral
  <2>1. Keeps
    BY <1>8 DEF SendGeneral, Keeps
  <2> QED
    BY <1>1, <1>2, <1>8, <2>1 DEF SendGeneral, loop
<1>9. CASE SendFailed
  <2>1. CASE slots[rdi] = 0
    <3>1. Keeps
      BY <1>9, <2>1 DEF SendFailed, Keeps
    <3> QED
      BY <1>1, <1>2, <1>9, <2>1, <3>1 DEF SendFailed, GoTo, hw
  <2>2. CASE slots[rdi] # 0
    <3>1. Pops
      BY <1>9, <2>2 DEF SendFailed, Pops
    <3> QED
      BY <1>1, <1>2, <1>9, <3>1 DEF SendFailed, GoTo, hw
  <2> QED
    BY <2>1, <2>2
<1>10. CASE Receive \/ TxDone \/ Stamp \/ StatusTask \/ Elapse
  <2>1. Keeps
    BY <1>10 DEF Receive, TxDone, Stamp, StatusTask, Elapse, Keeps
  <2>2. CASE Receive
    BY <1>1, <1>2, <2>1, <2>2 DEF Receive, txrx_notify_cb, loop
  <2>3. CASE TxDone
    BY <1>1, <1>2, <2>1, <2>3 DEF TxDone, txrx_notify_cb, loop
  <2>4. CASE Stamp
    BY <1>1, <1>2, <2>1, <2>4 DEF Stamp, txrx_notify_cb, loop
  <2>5. CASE StatusTask
    BY <1>1, <1>2, <2>1, <2>5 DEF StatusTask, processStatusFrames, loop
  <2>6. CASE Elapse
    BY <1>1, <1>2, <2>1, <2>6 DEF Elapse, hw
  <2> QED
    BY <1>10, <2>2, <2>3, <2>4, <2>5, <2>6
<1> QED
  BY <1>3, <1>4, <1>5, <1>6, <1>7, <1>8, <1>9, <1>10 DEF GnNext, LoopStep

LEMMA WakeInit == GnInit => WakeInv
<1> SUFFICES ASSUME GnInit PROVE WakeInv
  OBVIOUS
<1>1. RingInv /\ RingQueue = <<>>
  BY RingInitially
<1> QED
  BY <1>1 DEF GnInit, WakeInv, WakeTypes, SentOnly, FramesCovered, RequestsCovered,
       StatusCovered, StampsCovered, Requests, InTxts, Draining

\* The loop never sleeps on an empty semaphore while there is a frame or a
\* request (CPTS), or a timestamp (PHY), for it that no post and no transmission
\* in progress announces.  Of frames received with PHY timestamps nothing is
\* said: gptpnet_statusFrameProcTask does not wake the loop for them.
THEOREM WakeNeverLost == GnSpec => []WakeNotLost
<1>1. GnInit => WakeInv
  BY WakeInit
<1>2. WakeInv /\ [GnNext]_gnVars => WakeInv'
  BY WakeStep
<1>3. WakeInv => WakeNotLost
  <2> SUFFICES ASSUME WakeInv, pc = "wait", sem = 0 PROVE WakeNotLost
    BY DEF WakeNotLost
  <2>1. ~InTxts /\ ~Draining
    BY DEF WakeInv, WakeTypes, InTxts, Draining
  <2>2. Len(RingQueue) \in Nat /\ (Len(RingQueue) = 0 => Requests = {})
    BY RingEmpty DEF WakeInv
  <2> QED
    BY <2>1, <2>2 DEF WakeInv, WakeNotLost, FramesCovered, RequestsCovered, StatusCovered,
         StampsCovered
<1> QED
  BY <1>1, <1>2, <1>3, PTL DEF GnSpec

\* What the other theorems do not say of the types.
GnOtherTypes ==
    /\ tsSource \in Sources /\ tout \in {"none", "set", "passed"} /\ up \in BOOLEAN
    /\ pc \in {"notice", "link", "tout", "wait", "txts", "rx", "cb", "failed"}
    /\ rxq \in Seq({"ptp", "skip"})

\* Every variable of the event loop and of the driver keeps its type; a callback
\* is running exactly when an event is named.
THEOREM NetTypeCorrect == GnSpec => []GnTypeOK
<1>1. GnInit => WakeInv
  BY WakeInit
<1>2. WakeInv /\ [GnNext]_gnVars => WakeInv'
  BY WakeStep
<1>3. ASSUME GnInit
      PROVE  GnOtherTypes
  <2>1. rxq \in Seq({"ptp", "skip"})
    <3>1. rxq = <<>>
      BY <1>3 DEF GnInit
    <3> QED
      BY <3>1, EmptySeq
  <2>2. up \in BOOLEAN
    BY <1>3 DEF GnInit
  <2> QED
    BY <1>3, <2>1, <2>2 DEF GnInit, GnOtherTypes
<1>4. ASSUME WakeInv, GnOtherTypes, [GnNext]_gnVars
      PROVE  GnOtherTypes'
  <2>1. tsSource' = tsSource /\ tout' \in {tout, "none", "set", "passed"} /\ up' \in {up, ~up}
    BY <1>4 DEF GnNext, LoopStep, NoticeCheck, LinkCheck, ToutCheck, Wait, ProcessTxts, ProcessRx,
         SendFailed, RxDone, CallbackReturns, SendEvent, SendGeneral, Receive, TxDone, Stamp,
         StatusTask, processStatusFrames, Elapse, GoTo, Callback, hw, ring, loop, gnVars
  <2>2. pc' \in {"notice", "link", "tout", "wait", "txts", "rx", "cb", "failed"}
    <3>1. pc = "cb" => Resume \in {"notice", "link", "tout", "txts", "rx"}
      BY <1>4 DEF WakeInv, WakeTypes, Resume
    <3> QED
      BY <1>4, <3>1 DEF GnOtherTypes, GnNext, LoopStep, NoticeCheck, LinkCheck, ToutCheck, Wait,
         ProcessTxts, ProcessRx, SendFailed, RxDone, CallbackReturns, SendEvent, SendGeneral, Receive,
         TxDone, Stamp, StatusTask, processStatusFrames, Elapse, GoTo, Callback, hw, ring, loop, gnVars
  <2>3. rxq' \in Seq({"ptp", "skip"})
    <3>1. CASE ProcessRx
      BY <1>4, <3>1, HeadTailProperties DEF ProcessRx, GnOtherTypes
    <3>2. CASE Receive
      <4>1. PICK k \in {"ptp", "skip"} : rxq' = Append(rxq, k)
        BY <3>2 DEF Receive
      <4> QED
        BY <1>4, <4>1, AppendProperties DEF GnOtherTypes
    <3>3. CASE ~ProcessRx /\ ~Receive
      BY <1>4, <3>3 DEF GnOtherTypes, GnNext, LoopStep, NoticeCheck, LinkCheck, ToutCheck, Wait,
         ProcessTxts, SendFailed, RxDone, CallbackReturns, SendEvent, SendGeneral,
         TxDone, Stamp, StatusTask, processStatusFrames, Elapse, hw, ring, loop, gnVars
    <3> QED
      BY <3>1, <3>2, <3>3
  <2> QED
    BY <1>4, <2>1, <2>2, <2>3 DEF GnOtherTypes
<1>5. WakeInv /\ GnOtherTypes => GnTypeOK
  <2> SUFFICES ASSUME WakeInv, GnOtherTypes PROVE GnTypeOK
    OBVIOUS
  <2>1. slots \in [Slot -> 0 .. MaxSend] /\ rdi \in Slot /\ wri \in Slot /\ nsent \in 0 .. MaxSend
    BY DEF WakeInv, RingInv, Ring
  <2>2. 1 .. nsent \subseteq 1 .. MaxSend
    BY <2>1, GptpNetAssumption DEF GptpNetAssumption
  <2>3. status \subseteq 1 .. MaxSend /\ air \subseteq 1 .. MaxSend /\ stamped \subseteq 1 .. MaxSend
    BY <2>2 DEF WakeInv, SentOnly
  <2> QED
    BY <2>1, <2>3 DEF WakeInv, WakeTypes, GnOtherTypes, GnTypeOK
<1> QED
  BY <1>1, <1>2, <1>3, <1>4, <1>5, PTL DEF GnSpec

-----------------------------------------------------------------------------
(* SyncLink: the invariant                                                 *)

TxStamp   == [tx : Nat, seq : Nat, info : Nat]
SyncFrame == [kind : {"sync"}, seq : Nat, tx : Nat, two : BOOLEAN]
FupFrame  == [kind : {"fup"}, seq : Nat, ts : TxStamp, info : Nat]

LinkTypes ==
    /\ sndPc \in {"idle", "start", "sync", "fup"} /\ mdInfo \in Nat
    /\ sndState \in {"INITIALIZING", "SEND_SYNC_TWO_STEP", "SEND_FOLLOW_UP"}
    /\ sndAgain \in BOOLEAN /\ sndTs \in BOOLEAN /\ sndLate \in BOOLEAN
    /\ sndSeq \in Nat \ {0} /\ ntx \in Nat /\ syncTs \in TxStamp /\ sndTxts \subseteq TxStamp
    /\ wire \in Seq(SyncFrame \cup FupFrame) /\ recSync \in SyncFrame /\ recFup \in FupFrame
    /\ measured \in [sync : SyncFrame, fup : FupFrame]

\* A timestamp that may come is of the last transmission, and the machine waits
\* for it.
OneOutstanding ==
    sndTxts # {} =>
        /\ \A t \in sndTxts : t.tx = ntx /\ t.seq = sndSeq /\ sndTxts = {t}
        /\ sndState = "SEND_SYNC_TWO_STEP" /\ sndPc \in {"idle", "start"}
        /\ ~sndAgain /\ ~sndTs /\ ~sndLate

\* The timestamp in hand is of the last transmission while a Follow_Up is to be
\* sent with it.
FupPending ==
    \/ sndTs \/ sndPc = "fup" \/ (sndState = "SEND_FOLLOW_UP" /\ sndAgain /\ sndPc # "sync")

StampIsCurrent ==
    /\ FupPending => syncTs.tx = ntx /\ syncTs.seq = sndSeq
    /\ sndTs => sndPc = "fup" \/ (sndPc = "start" /\ sndState = "SEND_SYNC_TWO_STEP" /\ ~sndAgain)
    /\ sndPc = "sync" => sndState = "SEND_SYNC_TWO_STEP"
    /\ sndPc = "fup" => sndState = "SEND_FOLLOW_UP"

Frames == {wire[i] : i \in DOMAIN wire} \cup {recSync, recFup}

\* The number of a Follow_Up is not used again, and no Sync with it was sent
\* after the transmission that the Follow_Up is about.
SyncOK(y) == y.two => y.tx <= ntx /\ y.seq <= sndSeq
FupOK(f) == f.ts.seq = f.seq /\ f.seq < sndSeq
Paired(y, f) == y.two /\ y.seq = f.seq => y.tx <= f.ts.tx

FramesOK ==
    /\ \A y \in Frames : y.kind = "sync" => SyncOK(y)
    /\ \A f \in Frames : f.kind = "fup" => FupOK(f)
    /\ \A y, f \in Frames : y.kind = "sync" /\ f.kind = "fup" => Paired(y, f)

LinkInv ==
    /\ LinkTypes /\ OneOutstanding /\ StampIsCurrent /\ FramesOK
    /\ rcvPc = "measure" => recFup.seq = recSync.seq
    /\ MeasuresOneSync

-----------------------------------------------------------------------------
(* The frames                                                              *)

Frame == SyncFrame \cup FupFrame

OnWire == {wire[i] : i \in DOMAIN wire}

\* A frame that is taken out leaves the others.
LEMMA RemoveFacts ==
    ASSUME wire \in Seq(Frame), NEW i \in DOMAIN wire
    PROVE  /\ RemoveFrame(i) \in Seq(Frame)
           /\ \A j \in DOMAIN RemoveFrame(i) : RemoveFrame(i)[j] \in OnWire
<1> DEFINE a == SubSeq(wire, 1, i - 1)
           b == SubSeq(wire, i + 1, Len(wire))
<1>1. Len(wire) \in Nat /\ DOMAIN wire = 1 .. Len(wire) /\ i \in 1 .. Len(wire)
  BY DEF Frame
<1>2. \A j \in 1 .. Len(wire) : wire[j] \in OnWire /\ wire[j] \in Frame
  BY <1>1 DEF OnWire
<1>3. /\ a \in Seq(OnWire \cap Frame)
  <2>1. \A j \in 1 .. i - 1 : wire[j] \in OnWire \cap Frame
    BY <1>1, <1>2
  <2> QED
    BY <2>1, <1>1, SubSeqProperties
<1>4. b \in Seq(OnWire \cap Frame)
  <2>1. \A j \in i + 1 .. Len(wire) : wire[j] \in OnWire \cap Frame
    BY <1>1, <1>2
  <2> QED
    BY <2>1, <1>1, SubSeqProperties
<1>5. RemoveFrame(i) \in Seq(OnWire \cap Frame)
  BY <1>3, <1>4, ConcatProperties DEF RemoveFrame
<1> HIDE DEF a, b
<1> QED
  BY <1>5

\* A transmission adds the frame or drops it.
LEMMA TransmitFacts ==
    ASSUME wire \in Seq(Frame), NEW f \in Frame, Transmit(f)
    PROVE  wire' \in Seq(Frame) /\ OnWire' \subseteq OnWire \cup {f}
<1>1. CASE Len(wire) < MaxWire
  <2>1. wire' = Append(wire, f)
    BY <1>1 DEF Transmit
  <2>2. Append(wire, f) \in Seq(Frame) /\ Len(Append(wire, f)) = Len(wire) + 1
        /\ (\A j \in 1 .. Len(wire) : Append(wire, f)[j] = wire[j])
        /\ Append(wire, f)[Len(wire) + 1] = f
    BY AppendProperties
  <2>3. Len(wire) \in Nat /\ DOMAIN wire = 1 .. Len(wire) /\ DOMAIN wire' = 1 .. Len(wire) + 1
    BY <2>1, <2>2
  <2>4. ASSUME NEW j \in DOMAIN wire' PROVE wire'[j] \in OnWire \cup {f}
    <3>1. j \in 1 .. Len(wire) \/ j = Len(wire) + 1
      BY <2>3
    <3> QED
      BY <3>1, <2>1, <2>2, <2>3 DEF OnWire
  <2> QED
    BY <2>1, <2>2, <2>4 DEF OnWire
<1>2. CASE ~(Len(wire) < MaxWire)
  BY <1>2 DEF Transmit, OnWire
<1> QED
  BY <1>1, <1>2

\* A frame is a Sync or a Follow_Up.
LEMMA Kinds ==
    /\ \A y \in Frame : y.kind = "sync" => y \in SyncFrame
    /\ \A y \in Frame : y.kind = "fup" => y \in FupFrame
    /\ \A y \in SyncFrame : y.kind = "sync"
    /\ \A y \in FupFrame : y.kind = "fup"
  BY DEF Frame, SyncFrame, FupFrame

FrameTypes == /\ wire \in Seq(Frame) /\ recSync \in SyncFrame /\ recFup \in FupFrame
              /\ ntx \in Nat /\ sndSeq \in Nat

\* A one-step Sync, which no Follow_Up belongs to.
OneStep == {y \in SyncFrame : ~y.two}

\* The frames stay in order when some go and the counters grow.
LEMMA FewerFrames ==
    ASSUME FrameTypes, FrameTypes', FramesOK, Frames' \subseteq Frames \cup OneStep,
           ntx <= ntx', sndSeq <= sndSeq'
    PROVE  FramesOK'
<1>1. \A y \in Frames : y \in Frame
  BY DEF FrameTypes, Frames, Frame
<1>2. \A y \in OneStep : y.kind = "sync" /\ ~y.two
  BY Kinds DEF OneStep
<1>3. ASSUME NEW y \in Frames', y.kind = "sync" PROVE SyncOK(y)'
  <2>1. CASE y \in OneStep
    BY <2>1, <1>2 DEF SyncOK
  <2>2. CASE y \in Frames
    <3>1. y \in SyncFrame /\ SyncOK(y)
      BY <1>1, <1>3, <2>2, Kinds DEF FramesOK
    <3> QED
      BY <3>1 DEF SyncOK, SyncFrame, FrameTypes
  <2> QED
    BY <2>1, <2>2
<1>4. ASSUME NEW f \in Frames', f.kind = "fup" PROVE f \in Frames /\ FupOK(f)'
  <2>1. f \in Frames /\ f \in FupFrame /\ FupOK(f)
    BY <1>1, <1>2, <1>4, Kinds DEF FramesOK
  <2> QED
    BY <2>1 DEF FupOK, FupFrame, FrameTypes
<1>5. ASSUME NEW y \in Frames', NEW f \in Frames', y.kind = "sync" /\ f.kind = "fup"
      PROVE  Paired(y, f)'
  BY <1>2, <1>4, <1>5 DEF FramesOK, Paired
<1> QED
  BY <1>3, <1>4, <1>5 DEF FramesOK

\* A new Sync carries the number of the machine and counts a transmission.
LEMMA SyncAdded ==
    ASSUME FrameTypes, FrameTypes', FramesOK, NEW n \in SyncFrame,
           n.seq = sndSeq, n.tx = ntx', ntx' = ntx + 1, sndSeq' = sndSeq,
           Frames' \subseteq Frames \cup {n}
    PROVE  FramesOK'
<1>1. \A y \in Frames : y \in Frame
  BY DEF FrameTypes, Frames, Frame
<1>2. n.kind = "sync" /\ n.seq \in Nat /\ n.tx \in Nat
  BY Kinds DEF SyncFrame
<1>3. ASSUME NEW y \in Frames', y.kind = "sync" PROVE SyncOK(y)'
  <2>1. CASE y = n
    BY <2>1, <1>2 DEF SyncOK, FrameTypes
  <2>2. CASE y \in Frames
    <3>1. y \in SyncFrame /\ SyncOK(y)
      BY <1>1, <1>3, <2>2, Kinds DEF FramesOK
    <3> QED
      BY <3>1 DEF SyncOK, SyncFrame, FrameTypes
  <2> QED
    BY <2>1, <2>2
<1>4. ASSUME NEW f \in Frames', f.kind = "fup"
      PROVE  f \in Frames /\ f \in FupFrame /\ FupOK(f) /\ FupOK(f)'
  <2>1. f \in Frames /\ f \in FupFrame /\ FupOK(f)
    BY <1>1, <1>2, <1>4, Kinds DEF FramesOK
  <2> QED
    BY <2>1 DEF FupOK
<1>5. ASSUME NEW y \in Frames', NEW f \in Frames', y.kind = "sync" /\ f.kind = "fup"
      PROVE  Paired(y, f)'
  <2>1. CASE y = n
    BY <2>1, <1>2, <1>4, <1>5 DEF Paired, FupOK, FupFrame, FrameTypes
  <2>2. CASE y \in Frames
    BY <2>2, <1>4, <1>5 DEF Paired, FramesOK
  <2> QED
    BY <2>1, <2>2
<1> QED
  BY <1>3, <1>4, <1>5 DEF FramesOK

\* A new Follow_Up is about the last transmission and uses up the number.
LEMMA FupAdded ==
    ASSUME FrameTypes, FrameTypes', FramesOK, NEW n \in FupFrame,
           n.seq = sndSeq, n.ts.seq = sndSeq, n.ts.tx = ntx, ntx' = ntx, sndSeq' = sndSeq + 1,
           Frames' \subseteq Frames \cup {n}
    PROVE  FramesOK'
<1>1. \A y \in Frames : y \in Frame
  BY DEF FrameTypes, Frames, Frame
<1>2. n.kind = "fup"
  BY Kinds
<1>3. ASSUME NEW y \in Frames', y.kind = "sync"
      PROVE  y \in Frames /\ y \in SyncFrame /\ SyncOK(y) /\ SyncOK(y)'
  <2>1. y \in Frames /\ y \in SyncFrame /\ SyncOK(y)
    BY <1>1, <1>2, <1>3, Kinds DEF FramesOK
  <2> QED
    BY <2>1 DEF SyncOK, SyncFrame, FrameTypes
<1>4. ASSUME NEW f \in Frames', f.kind = "fup" PROVE FupOK(f)'
  <2>1. CASE f = n
    BY <2>1 DEF FupOK, FrameTypes
  <2>2. CASE f \in Frames
    <3>1. f \in FupFrame /\ FupOK(f)
      BY <1>1, <1>4, <2>2, Kinds DEF FramesOK
    <3> QED
      BY <3>1 DEF FupOK, FupFrame, FrameTypes
  <2> QED
    BY <2>1, <2>2
<1>5. ASSUME NEW y \in Frames', NEW f \in Frames', y.kind = "sync" /\ f.kind = "fup"
      PROVE  Paired(y, f)'
  <2>1. CASE f = n
    BY <2>1, <1>3, <1>5 DEF Paired, SyncOK
  <2>2. CASE f \in Frames
    BY <2>2, <1>3, <1>5 DEF Paired, FramesOK
  <2> QED
    BY <2>1, <2>2
<1> QED
  BY <1>3, <1>4, <1>5 DEF FramesOK

-----------------------------------------------------------------------------
(* Steps of the sender                                                     *)

\* What the sender leaves alone.
RcvPart == rcvPc = "measure" => recFup.seq = recSync.seq

SndPart == LinkTypes /\ OneOutstanding /\ StampIsCurrent /\ FramesOK

LEMMA TypesGiveFrames == ASSUME LinkTypes PROVE FrameTypes
  BY DEF LinkTypes, FrameTypes, Frame

\* The events of the sender and the states without a transmission.
LEMMA SndQuiet ==
    ASSUME ~LateTxts, SndPart, UNCHANGED rcvVars,
           \/ RecvMDSyncSend \/ RecvSyncTxts \/ LoseTxts \/ SndTick \/ SndElapse \/ SndDev
           \/ SndInitializing \/ SndCondition
    PROVE  SndPart'
<1>1. LinkTypes'
  <2> USE DEF SndPart, LinkTypes, rcvVars
  <2>1. CASE RecvMDSyncSend BY <2>1 DEF RecvMDSyncSend
  <2>2. CASE RecvSyncTxts BY <2>2 DEF RecvSyncTxts
  <2>3. CASE LoseTxts BY <2>3 DEF LoseTxts
  <2>4. CASE SndTick BY <2>4 DEF SndTick
  <2>5. CASE SndElapse BY <2>5 DEF SndElapse
  <2>6. CASE SndDev BY <2>6 DEF SndDev
  <2>7. CASE SndInitializing
    <3>1. sndTxts' = {} /\ sndSeq' \in {sndSeq, sndSeq + 1}
      BY <2>7 DEF SndInitializing
    <3>2. sndSeq' \in Nat \ {0}
      BY <3>1
    <3> QED
      BY <2>7, <3>1, <3>2 DEF SndInitializing
  <2>8. CASE SndCondition BY <2>8 DEF SndCondition, SndNextPc
  <2> QED
    BY <2>1, <2>2, <2>3, <2>4, <2>5, <2>6, <2>7, <2>8
<1>2. OneOutstanding'
  <2> USE DEF SndPart, OneOutstanding
  <2>1. CASE RecvMDSyncSend BY <2>1 DEF RecvMDSyncSend
  <2>2. CASE RecvSyncTxts
    <3>1. PICK t \in sndTxts : (\A u \in sndTxts : t.tx <= u.tx) /\ sndTxts' = sndTxts \ {t}
      BY <2>2 DEF RecvSyncTxts
    <3> QED
      BY <2>2, <3>1 DEF RecvSyncTxts
  <2>3. CASE LoseTxts BY <2>3 DEF LoseTxts
  <2>4. CASE SndTick BY <2>4 DEF SndTick
  <2>5. CASE SndElapse BY <2>5 DEF SndElapse
  <2>6. CASE SndDev BY <2>6 DEF SndDev
  <2>7. CASE SndInitializing BY <2>7 DEF SndInitializing
  <2>8. CASE SndCondition BY <2>8 DEF SndCondition, SndNextPc
  <2> QED
    BY <2>1, <2>2, <2>3, <2>4, <2>5, <2>6, <2>7, <2>8
<1>3. StampIsCurrent'
  <2> USE DEF SndPart, StampIsCurrent, FupPending
  <2>1. CASE RecvMDSyncSend BY <2>1 DEF RecvMDSyncSend
  <2>2. CASE RecvSyncTxts
    BY <2>2 DEF RecvSyncTxts, OneOutstanding
  <2>3. CASE LoseTxts BY <2>3 DEF LoseTxts
  <2>4. CASE SndTick BY <2>4 DEF SndTick
  <2>5. CASE SndElapse BY <2>5 DEF SndElapse
  <2>6. CASE SndDev BY <2>6 DEF SndDev
  <2>7. CASE SndInitializing BY <2>7 DEF SndInitializing
  <2>8. CASE SndCondition BY <2>8 DEF SndCondition, SndNextPc, LinkTypes
  <2> QED
    BY <2>1, <2>2, <2>3, <2>4, <2>5, <2>6, <2>7, <2>8
<1>4. wire' = wire /\ ntx' = ntx /\ (sndSeq' = sndSeq \/ sndSeq' = sndSeq + 1)
  BY DEF RecvMDSyncSend, RecvSyncTxts, LoseTxts, SndTick, SndElapse, SndDev, SndInitializing,
         SndCondition
<1>5. FramesOK'
  <2>1. FrameTypes /\ FrameTypes' /\ FramesOK
    BY <1>1 DEF SndPart, LinkTypes, FrameTypes, Frame
  <2>2. Frames' = Frames
    BY <1>4 DEF Frames, rcvVars
  <2>3. ntx <= ntx' /\ sndSeq <= sndSeq'
    BY <1>4, <2>1 DEF FrameTypes
  <2> QED
    BY <2>1, <2>2, <2>3, FewerFrames
<1> QED
  BY <1>1, <1>2, <1>3, <1>5 DEF SndPart

\* A Sync is sent, or the driver refuses it.
LEMMA SndSync ==
    ASSUME SndPart, UNCHANGED rcvVars, EnterSendSync
    PROVE  SndPart'
<1> DEFINE n == [kind |-> "sync", seq |-> sndSeq, tx |-> ntx', two |-> TRUE]
           t == [tx |-> ntx', seq |-> sndSeq, info |-> mdInfo]
<1>1. /\ sndPc = "sync" /\ sndPc' = "idle" /\ sndTs' = sndTs /\ syncTs' = syncTs
      /\ sndState' = sndState /\ mdInfo' = mdInfo /\ sndSeq' = sndSeq
      /\ UNCHANGED <<recSync, recFup, measured>>
  BY DEF EnterSendSync, rcvVars
<1>2. sndTxts = {} /\ sndState = "SEND_SYNC_TWO_STEP" /\ ~sndTs
  BY <1>1 DEF SndPart, OneOutstanding, StampIsCurrent
<1>3. FrameTypes
  BY TypesGiveFrames DEF SndPart
<1>4. CASE sndAgain' = TRUE /\ UNCHANGED <<ntx, wire, sndTxts, sndLate>>
  <2>1. LinkTypes'
    BY <1>1, <1>4 DEF SndPart, LinkTypes
  <2>2. FramesOK'
    <3>1. Frames' = Frames
      BY <1>1, <1>4 DEF Frames
    <3> QED
      BY <1>1, <1>3, <1>4, <2>1, <3>1, FewerFrames DEF SndPart, LinkTypes, FrameTypes, Frame
  <2>3. OneOutstanding' /\ StampIsCurrent'
    BY <1>1, <1>2, <1>4 DEF OneOutstanding, StampIsCurrent, FupPending
  <2> QED
    BY <2>1, <2>2, <2>3 DEF SndPart
<1>5. CASE /\ ntx' = ntx + 1 /\ Transmit(n) /\ sndTxts' = sndTxts \cup {t}
           /\ sndLate' = FALSE /\ sndAgain' = FALSE
  <2>1. ntx \in Nat /\ ntx' \in Nat /\ n \in SyncFrame /\ n \in Frame /\ t \in TxStamp
    BY <1>5 DEF SndPart, LinkTypes, SyncFrame, Frame, TxStamp
  <2>2. n.seq = sndSeq /\ n.tx = ntx' /\ t.tx = ntx' /\ t.seq = sndSeq
    OBVIOUS
  <2> HIDE DEF n, t
  <2>3. wire' \in Seq(Frame) /\ OnWire' \subseteq OnWire \cup {n}
    BY <1>3, <1>5, <2>1, TransmitFacts DEF FrameTypes
  <2>4. LinkTypes'
    BY <1>1, <1>2, <1>5, <2>1, <2>3 DEF SndPart, LinkTypes, Frame
  <2>5. FramesOK'
    <3>1. Frames' \subseteq Frames \cup {n}
      BY <1>1, <2>3 DEF Frames, OnWire
    <3>2. FrameTypes'
      BY <2>4 DEF LinkTypes, FrameTypes, Frame
    <3> QED
      BY <1>1, <1>3, <1>5, <2>1, <2>2, <3>1, <3>2, SyncAdded DEF SndPart
  <2>6. OneOutstanding' /\ StampIsCurrent'
    BY <1>1, <1>2, <1>5, <2>2 DEF OneOutstanding, StampIsCurrent, FupPending
  <2> QED
    BY <2>4, <2>5, <2>6 DEF SndPart
<1> QED
  BY <1>4, <1>5 DEF EnterSendSync

\* A Follow_Up is sent with the timestamp of the last transmission, or the
\* driver refuses it.
LEMMA SndFup ==
    ASSUME SndPart, UNCHANGED rcvVars, EnterSendFup
    PROVE  SndPart'
<1> DEFINE n == [kind |-> "fup", seq |-> sndSeq, ts |-> syncTs, info |-> mdInfo]
<1>1. /\ sndPc = "fup" /\ sndPc' = "idle" /\ sndTs' = FALSE /\ syncTs' = syncTs /\ ntx' = ntx
      /\ sndState' = sndState /\ mdInfo' = mdInfo /\ sndTxts' = sndTxts /\ sndLate' = sndLate
      /\ UNCHANGED <<recSync, recFup, measured>>
  BY DEF EnterSendFup, rcvVars
<1>2. sndTxts = {} /\ sndState = "SEND_FOLLOW_UP" /\ syncTs.tx = ntx /\ syncTs.seq = sndSeq
  BY <1>1 DEF SndPart, OneOutstanding, StampIsCurrent, FupPending
<1>3. FrameTypes
  BY TypesGiveFrames DEF SndPart
<1>4. CASE sndAgain' = TRUE /\ UNCHANGED <<sndSeq, wire>>
  <2>1. LinkTypes'
    BY <1>1, <1>4 DEF SndPart, LinkTypes
  <2>2. FramesOK'
    <3>1. Frames' = Frames
      BY <1>1, <1>4 DEF Frames
    <3> QED
      BY <1>1, <1>3, <1>4, <2>1, <3>1, FewerFrames DEF SndPart, LinkTypes, FrameTypes, Frame
  <2>3. OneOutstanding' /\ StampIsCurrent'
    BY <1>1, <1>2, <1>4 DEF OneOutstanding, StampIsCurrent, FupPending
  <2> QED
    BY <2>1, <2>2, <2>3 DEF SndPart
<1>5. CASE Transmit(n) /\ sndSeq' = sndSeq + 1 /\ sndAgain' = FALSE
  <2>1. sndSeq' \in Nat \ {0} /\ n \in FupFrame /\ n \in Frame
    BY <1>5 DEF SndPart, LinkTypes, FupFrame, Frame
  <2>2. n.seq = sndSeq /\ n.ts.seq = sndSeq /\ n.ts.tx = ntx
    BY <1>2
  <2> HIDE DEF n
  <2>3. wire' \in Seq(Frame) /\ OnWire' \subseteq OnWire \cup {n}
    BY <1>3, <1>5, <2>1, TransmitFacts DEF FrameTypes
  <2>4. LinkTypes'
    BY <1>1, <1>5, <2>1, <2>3 DEF SndPart, LinkTypes, Frame
  <2>5. FramesOK'
    <3>1. Frames' \subseteq Frames \cup {n}
      BY <1>1, <2>3 DEF Frames, OnWire
    <3>2. FrameTypes'
      BY <2>4 DEF LinkTypes, FrameTypes, Frame
    <3> QED
      BY <1>1, <1>3, <1>5, <2>1, <2>2, <3>1, <3>2, FupAdded DEF SndPart
  <2>6. OneOutstanding' /\ StampIsCurrent'
    BY <1>1, <1>2, <1>5 DEF OneOutstanding, StampIsCurrent, FupPending
  <2> QED
    BY <2>4, <2>5, <2>6 DEF SndPart
<1> QED
  BY <1>4, <1>5 DEF EnterSendFup

-----------------------------------------------------------------------------
(* Steps of the receiver and of the link                                   *)

\* What a step of the receiver leaves of the sender's part: the frames it
\* keeps are frames that were there.
LEMMA RcvKeeps ==
    ASSUME SndPart, UNCHANGED sndVars, wire' \in Seq(Frame), OnWire' \subseteq OnWire,
           recSync' \in SyncFrame, recFup' \in FupFrame,
           recSync' \in Frames \cup OneStep, recFup' \in Frames,
           measured' \in [sync : SyncFrame, fup : FupFrame]
    PROVE  SndPart'
<1>1. LinkTypes'
  BY DEF SndPart, LinkTypes, sndVars, Frame
<1>2. OneOutstanding' /\ StampIsCurrent'
  BY DEF SndPart, OneOutstanding, StampIsCurrent, FupPending, sndVars
<1>3. FramesOK'
  <2>1. Frames' \subseteq Frames \cup OneStep
    BY DEF Frames, OnWire
  <2>2. FrameTypes /\ FrameTypes'
    BY <1>1 DEF SndPart, LinkTypes, FrameTypes, Frame
  <2>3. ntx <= ntx' /\ sndSeq <= sndSeq'
    BY <2>2 DEF sndVars, FrameTypes
  <2> QED
    BY <2>1, <2>2, <2>3, FewerFrames DEF SndPart
<1> QED
  BY <1>1, <1>2, <1>3 DEF SndPart

\* What the events and the states of the receiver do to what they keep.
LEMMA RcvStepKeeps ==
    ASSUME LinkInv, RcvNext, UNCHANGED <<sndVars, wire>>
    PROVE  LinkInv'
<1>1. /\ recSync \in SyncFrame /\ recFup \in FupFrame
      /\ measured \in [sync : SyncFrame, fup : FupFrame] /\ wire \in Seq(Frame)
      /\ recSync \in Frames /\ recFup \in Frames
  BY DEF LinkInv, LinkTypes, Frame, Frames
<1>2. UNCHANGED <<recSync, recFup>> /\ wire' = wire /\ OnWire' = OnWire
  BY DEF RcvNext, RcvTick, RcvElapse, RcvDev, RcvStep, RcvCondition, EnterDiscard, EnterWaitFup,
         EnterMeasure, OnWire
<1>3. \/ rcvPc' \in {"start", "idle", "discard"} \/ rcvPc' = rcvPc
      \/ RcvCondition
  BY DEF RcvNext, RcvTick, RcvElapse, RcvDev, RcvStep, EnterDiscard, EnterWaitFup, EnterMeasure
<1>4. RcvCondition => rcvPc' # "measure" \/ recFup.seq = recSync.seq
  BY DEF RcvCondition, RcvNextPc, FupMatches
<1>5. RcvPart'
  BY <1>2, <1>3, <1>4 DEF RcvPart, LinkInv
<1>6. CASE measured' = measured
  <2>1. SndPart'
    BY <1>1, <1>2, <1>6, RcvKeeps DEF SndPart, LinkInv
  <2> QED
    BY <2>1, <1>5, <1>6 DEF LinkInv, SndPart, RcvPart, MeasuresOneSync
<1>7. CASE EnterMeasure
  <2>1. measured' = [sync |-> recSync, fup |-> recFup] /\ recFup.seq = recSync.seq
    BY <1>7 DEF EnterMeasure, LinkInv
  <2>2. measured' \in [sync : SyncFrame, fup : FupFrame]
    BY <1>1, <2>1
  <2>3. SndPart'
    BY <1>1, <1>2, <2>2, RcvKeeps DEF SndPart, LinkInv
  <2>4. recSync.kind = "sync" /\ recFup.kind = "fup"
    BY <1>1, Kinds
  <2>5. FupOK(recFup) /\ Paired(recSync, recFup)
    BY <1>1, <2>4 DEF LinkInv, FramesOK
  <2>6. recSync.tx \in Nat /\ recFup.ts.tx \in Nat
    BY <1>1 DEF SyncFrame, FupFrame, TxStamp
  <2>7. MeasuresOneSync'
    BY <2>1, <2>5, <2>6 DEF MeasuresOneSync, FupOK, Paired
  <2> QED
    BY <2>3, <2>7, <1>5 DEF LinkInv, SndPart, RcvPart
<1> QED
  BY <1>6, <1>7 DEF RcvNext, RcvTick, RcvElapse, RcvDev, RcvStep, RcvCondition, EnterDiscard,
                    EnterWaitFup

\* A frame that is received is kept until the next of its kind.
LEMMA RecvKeeps ==
    ASSUME LinkInv, NEW f \in Frame, f \in Frames \cup OneStep, RecvFrame(f),
           wire' \in Seq(Frame), OnWire' \subseteq OnWire, UNCHANGED sndVars
    PROVE  LinkInv'
<1>1. /\ recSync \in SyncFrame /\ recFup \in FupFrame
      /\ measured \in [sync : SyncFrame, fup : FupFrame] /\ measured' = measured
      /\ recSync \in Frames /\ recFup \in Frames /\ rcvPc' = "start"
  BY DEF LinkInv, LinkTypes, Frames, RecvFrame
<1>2. f.kind \in {"sync", "fup"} /\ (f \in OneStep => f.kind = "sync")
  BY Kinds DEF Frame, OneStep
<1>3. CASE f.kind = "sync"
  <2>1. recSync' = f /\ recFup' = recFup /\ f \in SyncFrame
    BY <1>3, Kinds DEF RecvFrame
  <2>2. SndPart'
    BY <1>1, <2>1, RcvKeeps DEF SndPart, LinkInv
  <2> QED
    BY <1>1, <2>2 DEF LinkInv, SndPart, MeasuresOneSync
<1>4. CASE f.kind = "fup"
  <2>1. recSync' = recSync /\ recFup' = f /\ f \in FupFrame /\ f \in Frames
    BY <1>2, <1>4, Kinds DEF RecvFrame
  <2>2. SndPart'
    BY <1>1, <2>1, RcvKeeps DEF SndPart, LinkInv
  <2> QED
    BY <1>1, <2>2 DEF LinkInv, SndPart, MeasuresOneSync
<1> QED
  BY <1>2, <1>3, <1>4

-----------------------------------------------------------------------------
(* The theorems                                                            *)

\* The frames of the start are no frames at all.
LEMMA LinkInit == Init => LinkInv
<1> SUFFICES ASSUME Init PROVE LinkInv
  OBVIOUS
<1>1. /\ NoTx \in TxStamp /\ NoSync \in SyncFrame /\ NoFup \in FupFrame
      /\ NoSync.kind = "sync" /\ NoFup.kind = "fup"
      /\ NoSync.tx = 0 /\ NoSync.seq = 0 /\ NoFup.seq = 0 /\ NoFup.ts.seq = 0 /\ NoFup.ts.tx = 0
  BY DEF NoTx, NoSync, NoFup, TxStamp, SyncFrame, FupFrame
<1>2. LinkTypes
  <2>1. measured \in [sync : SyncFrame, fup : FupFrame] /\ wire \in Seq(SyncFrame \cup FupFrame)
    BY <1>1 DEF Init, RcvInit
  <2>2. sndAgain \in BOOLEAN /\ sndTs \in BOOLEAN /\ sndLate \in BOOLEAN
    BY Zenon DEF Init, SndInit
  <2>3. syncTs \in TxStamp /\ recSync \in SyncFrame /\ recFup \in FupFrame
    BY <1>1, Zenon DEF Init, SndInit, RcvInit
  <2>4. /\ sndPc \in {"idle", "start", "sync", "fup"} /\ mdInfo \in Nat
        /\ sndState \in {"INITIALIZING", "SEND_SYNC_TWO_STEP", "SEND_FOLLOW_UP"}
        /\ sndSeq \in Nat \ {0} /\ ntx \in Nat /\ sndTxts \subseteq TxStamp
    BY DEF Init, SndInit
  <2> QED
    BY <2>1, <2>2, <2>3, <2>4, Zenon DEF LinkTypes
<1>3. OneOutstanding /\ StampIsCurrent
  BY DEF Init, SndInit, OneOutstanding, StampIsCurrent, FupPending
<1>4. Frames = {NoSync, NoFup}
  BY DEF Frames, Init, RcvInit
<1>5. FramesOK
  BY <1>1, <1>4 DEF FramesOK, SyncOK, FupOK, Paired, Init, SndInit
<1>6. MeasuresOneSync
  BY <1>1 DEF MeasuresOneSync, Init, RcvInit
<1> QED
  BY <1>2, <1>3, <1>5, <1>6 DEF LinkInv, Init, RcvInit

\* Every step of the two machines and of the link keeps the invariant.
LEMMA LinkStep ==
    ASSUME ~LateTxts, LinkInv, [Next]_vars
    PROVE  LinkInv'
<1>1. wire \in Seq(Frame) /\ (\A i \in DOMAIN wire : wire[i] \in Frame /\ wire[i] \in Frames)
  BY DEF LinkInv, LinkTypes, Frame, Frames
<1>2. CASE SndNext /\ UNCHANGED rcvVars
  <2>1. SndPart'
    BY <1>2, SndQuiet, SndSync, SndFup DEF LinkInv, SndPart, SndNext, SndStep
  <2> QED
    BY <1>2, <2>1 DEF LinkInv, SndPart, rcvVars, MeasuresOneSync
<1>3. CASE RcvNext /\ UNCHANGED <<sndVars, wire>>
  BY <1>3, RcvStepKeeps
<1>4. CASE Deliver
  <2>1. PICK i \in DOMAIN wire : RecvFrame(wire[i]) /\ wire' = RemoveFrame(i)
    BY <1>4 DEF Deliver
  <2>2. wire' \in Seq(Frame) /\ OnWire' \subseteq OnWire
    BY <1>1, <2>1, RemoveFacts DEF OnWire
  <2> QED
    BY <1>1, <1>4, <2>1, <2>2, RecvKeeps DEF Deliver
<1>5. CASE Lose
  <2>1. PICK i \in DOMAIN wire : wire' = RemoveFrame(i)
    BY <1>5 DEF Lose
  <2>2. wire' \in Seq(Frame) /\ OnWire' \subseteq OnWire
    BY <1>1, <2>1, RemoveFacts DEF OnWire
  <2>3. UNCHANGED <<rcvPc, recSync, recFup, measured>> /\ UNCHANGED sndVars
    BY <1>5 DEF Lose, rcvVars
  <2>4. SndPart'
    BY <2>2, <2>3, RcvKeeps DEF LinkInv, SndPart, LinkTypes, Frames
  <2> QED
    BY <2>3, <2>4 DEF LinkInv, SndPart, MeasuresOneSync
<1>6. CASE OneStepSync
  <2> DEFINE f == [kind |-> "sync", seq |-> sndSeq, tx |-> 0, two |-> FALSE]
  <2>1. f \in SyncFrame /\ ~f.two
    BY DEF SyncFrame, LinkInv, LinkTypes
  <2>2. RecvFrame(f) /\ UNCHANGED sndVars /\ wire' = wire
    BY <1>6 DEF OneStepSync
  <2> HIDE DEF f
  <2>3. OnWire' = OnWire
    BY <2>2 DEF OnWire
  <2> QED
    BY <1>1, <2>1, <2>2, <2>3, RecvKeeps DEF Frame, OneStep
<1>7. CASE UNCHANGED vars
  BY <1>7 DEF vars, sndVars, rcvVars, LinkInv, LinkTypes, OneOutstanding, StampIsCurrent, FupPending,
              FramesOK, Frames, SyncOK, FupOK, Paired, MeasuresOneSync
<1> QED
  BY <1>2, <1>3, <1>4, <1>5, <1>6, <1>7 DEF Next

\* md_sync_send_sm and md_sync_receive_sm keep LinkInv as long as the driver
\* hands up no timestamp that the machine has given up.
THEOREM LinkInvariant == ~LateTxts /\ Spec => []LinkInv
<1> SUFFICES ASSUME ~LateTxts PROVE Spec => []LinkInv
  OBVIOUS
<1>1. Init => LinkInv
  BY LinkInit
<1>2. LinkInv /\ [Next]_vars => LinkInv'
  BY LinkStep
<1> QED
  BY <1>1, <1>2, PTL DEF Spec

\* send_follow_up_proc does not look at the sequence number of the timestamp;
\* still a Follow_Up carries the timestamp of a Sync with its own number.
THEOREM FupCarriesItsSync == ~LateTxts /\ Spec => []FupIsOfItsSync
<1>1. LinkInv => FupIsOfItsSync
  <2> SUFFICES ASSUME LinkInv PROVE FupIsOfItsSync
    OBVIOUS
  <2>1. recFup.kind = "fup" /\ recFup \in Frames
    BY Kinds DEF LinkInv, LinkTypes, Frames
  <2>2. \A i \in DOMAIN wire : wire[i] \in Frames
    BY DEF Frames
  <2> QED
    BY <2>1, <2>2 DEF LinkInv, FramesOK, FupOK, FupIsOfItsSync
<1> QED
  BY <1>1, LinkInvariant, PTL

\* The two timestamps that setMDSyncReceive pairs are of one transmission, or
\* the egress timestamp is of a later copy of the same Sync.
THEOREM MeasurementIsOfOneSync == ~LateTxts /\ Spec => []MeasuresOneSync
<1>1. LinkInv => MeasuresOneSync
  BY DEF LinkInv
<1> QED
  BY <1>1, LinkInvariant, PTL

-----------------------------------------------------------------------------
(* Types of the link                                                       *)

\* Every number that is given up or used was asked for by an MDSyncSend: of the
\* structures received, one is waiting and one is being sent at most.
Waiting == IF rcvdMDSync /\ sndPc # "sync" THEN 1 ELSE 0
Sending ==
    IF \/ sndState = "SEND_SYNC_TWO_STEP"
       \/ sndState = "SEND_FOLLOW_UP" /\ (sndAgain \/ sndPc = "fup")
    THEN 1 ELSE 0

SeqBound == sndSeq + Waiting + Sending <= mdInfo + 1

\* The machine is in the state that it enters.
EntersState ==
    /\ sndPc = "sync" => sndState = "SEND_SYNC_TWO_STEP"
    /\ sndPc = "fup" => sndState = "SEND_FOLLOW_UP"

SndTypes ==
    /\ sndPc \in {"idle", "start", "sync", "fup"} /\ sndOper \in BOOLEAN
    /\ sndState \in {"INITIALIZING", "SEND_SYNC_TWO_STEP", "SEND_FOLLOW_UP"}
    /\ sndAgain \in BOOLEAN /\ rcvdMDSync \in BOOLEAN /\ mdInfo \in 0 .. MaxInfo
    /\ sndSeq \in Nat /\ ntx \in 0 .. MaxSync /\ sndTs \in BOOLEAN /\ syncTs \in Tx
    /\ sndTxts \subseteq Tx /\ sndLate \in BOOLEAN /\ EntersState /\ SeqBound

RcvTypes ==
    /\ rcvPc \in {"idle", "start", "discard", "waitFup", "measure"} /\ rcvOper \in BOOLEAN
    /\ rcvState \in {"DISCARD", "WAITING_FOR_FOLLOW_UP", "WAITING_FOR_SYNC"}
    /\ rcvdSync \in BOOLEAN /\ recSync \in Sync /\ rcvdFup \in BOOLEAN /\ recFup \in Fup
    /\ fupLate \in BOOLEAN /\ measured \in [sync : Sync, fup : Fup]

WireTypes == wire \in Seq(Sync \cup Fup) /\ Len(wire) <= MaxWire

LEMMA SeqInBound ==
    ASSUME SndTypes
    PROVE  sndSeq \in Seqs
<1>1. Waiting \in {0, 1} /\ Sending \in {0, 1}
  BY DEF Waiting, Sending
<1>2. sndSeq \in Nat /\ mdInfo \in 0 .. MaxInfo /\ MaxInfo \in Nat /\ sndSeq + Waiting + Sending <= mdInfo + 1
  BY SyncSendAssumption DEF SndTypes, SeqBound, SyncSendAssumption
<1> HIDE DEF Waiting, Sending
<1> QED
  BY <1>1, <1>2 DEF Seqs

\* A frame goes onto the link, or comes out of it.
LEMMA WirePut ==
    ASSUME WireTypes, NEW f \in Sync \cup Fup, Transmit(f)
    PROVE  WireTypes'
<1> DEFINE F == Sync \cup Fup
<1>0. wire \in Seq(F) /\ Len(wire) \in Nat /\ Len(wire) <= MaxWire /\ MaxWire \in Nat
  BY SyncSendAssumption DEF WireTypes, SyncSendAssumption
<1> HIDE DEF F
<1>1. CASE Len(wire) < MaxWire
  <2>1. wire' = Append(wire, f) /\ f \in F
    BY <1>1 DEF Transmit, F
  <2>2. wire' \in Seq(F) /\ Len(wire') = Len(wire) + 1
    BY <1>0, <2>1, AppendProperties
  <2>3. Len(wire') <= MaxWire
    BY <1>0, <1>1, <2>2
  <2> QED
    BY <2>2, <2>3 DEF WireTypes, F
<1>2. CASE ~(Len(wire) < MaxWire)
  BY <1>2 DEF Transmit, WireTypes
<1> QED
  BY <1>1, <1>2

LEMMA WireTake ==
    ASSUME WireTypes, NEW i \in DOMAIN wire, wire' = RemoveFrame(i)
    PROVE  WireTypes'
<1> DEFINE F == Sync \cup Fup
           a == SubSeq(wire, 1, i - 1)
           b == SubSeq(wire, i + 1, Len(wire))
<1>1. /\ wire \in Seq(F) /\ Len(wire) \in Nat /\ Len(wire) <= MaxWire /\ MaxWire \in Nat
      /\ i \in 1 .. Len(wire)
  BY SyncSendAssumption DEF WireTypes, SyncSendAssumption
<1> HIDE DEF F
<1>2. \A j \in 1 .. Len(wire) : wire[j] \in F
  BY <1>1
<1>3. a \in Seq(F) /\ Len(a) = i - 1
  BY <1>1, <1>2, SubSeqProperties
<1>4. b \in Seq(F) /\ Len(b) = Len(wire) - i
  BY <1>1, <1>2, SubSeqProperties
<1>5. wire' = a \o b
  BY DEF RemoveFrame
<1> HIDE DEF a, b
<1>6. wire' \in Seq(F) /\ Len(wire') = Len(a) + Len(b)
  BY <1>3, <1>4, <1>5, ConcatProperties
<1>7. Len(wire') = (i - 1) + (Len(wire) - i)
  BY <1>3, <1>4, <1>6
<1>8. Len(wire') <= MaxWire
  BY <1>1, <1>7
<1> QED
  BY <1>6, <1>8 DEF WireTypes, F

LEMMA SndTypesStep ==
    ASSUME SndTypes, WireTypes, SndNext
    PROVE  SndTypes' /\ WireTypes'
<1>0. /\ mdInfo \in Nat /\ MaxInfo \in Nat /\ MaxSync \in Nat /\ ntx \in Nat /\ sndSeq \in Nat
      /\ Waiting \in {0, 1} /\ Sending \in {0, 1} /\ sndSeq \in Seqs
  BY SeqInBound, SyncSendAssumption DEF SndTypes, SyncSendAssumption, Waiting, Sending
<1> USE DEF EntersState
<1>1. CASE RecvMDSyncSend
  <2>1. Sending' = Sending /\ Waiting' <= 1 /\ Waiting' \in Nat
    BY <1>1 DEF RecvMDSyncSend, Sending, Waiting
  <2>2. SeqBound'
    <3>1. sndSeq' = sndSeq /\ mdInfo' = mdInfo + 1
      BY <1>1 DEF RecvMDSyncSend
    <3>2. sndSeq + Waiting + Sending <= mdInfo + 1
      BY DEF SndTypes, SeqBound
    <3>3. sndSeq + Sending <= mdInfo + 1 /\ Waiting' \in {0, 1}
      BY <1>0, <2>1, <3>2
    <3>4. sndSeq + Waiting' + Sending <= (mdInfo + 1) + 1
      <4>1. CASE Waiting' = 0
        BY <1>0, <3>3, <4>1
      <4>2. CASE Waiting' = 1
        BY <1>0, <3>3, <4>2
      <4> QED
        BY <3>3, <4>1, <4>2
    <3>5. sndSeq' + Waiting' + Sending' <= mdInfo' + 1
      BY <1>0, <2>1, <3>1, <3>4
    <3> QED
      BY <3>5 DEF SeqBound
  <2> QED
    BY <1>0, <1>1, <2>2 DEF RecvMDSyncSend, SndTypes, WireTypes
<1>2. CASE RecvSyncTxts \/ LoseTxts \/ SndTick \/ SndElapse \/ SndDev
  <2>1. /\ Sending' = Sending /\ Waiting' = Waiting /\ sndSeq' = sndSeq /\ mdInfo' = mdInfo
        /\ sndPc = "idle" /\ sndPc' \in {"idle", "start"}
    BY <1>2 DEF RecvSyncTxts, LoseTxts, SndTick, SndElapse, SndDev, Sending, Waiting
  <2>2. SeqBound'
    BY <2>1 DEF SeqBound, SndTypes
  <2>3. sndTxts' \subseteq Tx /\ syncTs' \in Tx
    BY <1>2 DEF RecvSyncTxts, LoseTxts, SndTick, SndElapse, SndDev, SndTypes
  <2> QED
    BY <1>2, <2>1, <2>2, <2>3 DEF RecvSyncTxts, LoseTxts, SndTick, SndElapse, SndDev, SndTypes, WireTypes
<1>3. CASE SndInitializing
  <2>1. /\ sndState' = "INITIALIZING" /\ rcvdMDSync' = FALSE /\ mdInfo' = mdInfo
        /\ sndSeq' = IF sndState = "SEND_SYNC_TWO_STEP" THEN sndSeq + 1 ELSE sndSeq
        /\ sndTxts' \in {sndTxts, {}} /\ sndPc' = "idle" /\ sndAgain' = FALSE
    BY <1>3 DEF SndInitializing
  <2>2. Sending' = 0 /\ Waiting' = 0 /\ (sndState = "SEND_SYNC_TWO_STEP" => Sending = 1)
    BY <2>1 DEF Sending, Waiting
  <2>3. SeqBound' /\ sndSeq' \in Nat
    BY <1>0, <2>1, <2>2 DEF SeqBound, SndTypes
  <2> QED
    BY <1>3, <2>1, <2>3 DEF SndInitializing, SndTypes, WireTypes
<1>4. CASE SndCondition
  <2>1. /\ sndPc = "start" /\ sndPc' = SndNextPc /\ UNCHANGED <<sndSeq, mdInfo, rcvdMDSync, sndAgain>>
        /\ sndState' = CASE sndPc' = "sync" -> "SEND_SYNC_TWO_STEP"
                         [] sndPc' = "fup"  -> "SEND_FOLLOW_UP"
                         [] OTHER -> sndState
    BY <1>4 DEF SndCondition
  <2>2. SndNextPc \in {"idle", "sync", "fup"}
    BY DEF SndNextPc
  <2>3. /\ sndPc' = "sync" => \/ sndState = "SEND_SYNC_TWO_STEP"
                              \/ rcvdMDSync /\ (sndState = "INITIALIZING" \/ ~sndAgain)
        /\ sndPc' = "fup" => sndState = "SEND_SYNC_TWO_STEP" \/ (sndState = "SEND_FOLLOW_UP" /\ sndAgain)
    BY <2>1 DEF SndNextPc, SndTypes
  <2>4. Waiting' + Sending' <= Waiting + Sending /\ Waiting' \in {0, 1} /\ Sending' \in {0, 1}
    <3>1. CASE sndPc' = "sync"
      <4>1. Waiting' = 0 /\ Sending' = 1
        BY <2>1, <3>1 DEF Waiting, Sending
      <4>2. Waiting = 1 \/ Sending = 1
        BY <2>1, <2>3, <3>1 DEF Waiting, Sending
      <4> QED
        BY <1>0, <4>1, <4>2
    <3>2. CASE sndPc' = "fup"
      <4>1. Waiting' = Waiting /\ Sending' = 1
        BY <2>1, <3>2 DEF Waiting, Sending
      <4>2. Sending = 1
        BY <2>3, <3>2 DEF Sending
      <4> QED
        BY <1>0, <4>1, <4>2
    <3>3. CASE sndPc' = "idle"
      <4>1. Waiting' = Waiting /\ Sending' = Sending
        BY <2>1, <3>3 DEF Waiting, Sending
      <4> QED
        BY <1>0, <4>1
    <3> QED
      BY <2>1, <2>2, <3>1, <3>2, <3>3
  <2>5. SeqBound'
    BY <1>0, <2>1, <2>4 DEF SeqBound, SndTypes
  <2>6. sndPc' \in {"idle", "sync", "fup"} /\ EntersState'
        /\ sndState' \in {"INITIALIZING", "SEND_SYNC_TWO_STEP", "SEND_FOLLOW_UP"}
    BY <2>1, <2>2 DEF SndTypes
  <2> QED
    BY <1>4, <2>5, <2>6 DEF SndCondition, SndTypes, WireTypes
<1>5. CASE EnterSendSync
  <2>1. /\ sndPc = "sync" /\ sndPc' = "idle" /\ rcvdMDSync' = FALSE
        /\ UNCHANGED <<sndOper, sndState, mdInfo, sndSeq, sndTs, syncTs>>
        /\ sndState = "SEND_SYNC_TWO_STEP"
    BY <1>5 DEF EnterSendSync, SndTypes
  <2>2. Waiting' = 0 /\ Sending' = 1 /\ Sending = 1 /\ Waiting = 0
    BY <2>1 DEF Waiting, Sending
  <2>3. SeqBound'
    BY <2>1, <2>2 DEF SeqBound, SndTypes
  <2>4. CASE sndAgain' = TRUE /\ UNCHANGED <<ntx, wire, sndTxts, sndLate>>
    BY <2>1, <2>3, <2>4 DEF SndTypes, WireTypes
  <2>5. CASE /\ ntx < MaxSync /\ ntx' = ntx + 1
             /\ Transmit([kind |-> "sync", seq |-> sndSeq, tx |-> ntx', two |-> TRUE])
             /\ sndTxts' = sndTxts \cup {[tx |-> ntx', seq |-> sndSeq, info |-> mdInfo]}
             /\ sndLate' = FALSE /\ sndAgain' = FALSE
    <3>1. ntx' \in 0 .. MaxSync
      BY <1>0, <2>5
    <3>2. [kind |-> "sync", seq |-> sndSeq, tx |-> ntx', two |-> TRUE] \in Sync
      BY <1>0, <3>1 DEF Sync
    <3>3. [tx |-> ntx', seq |-> sndSeq, info |-> mdInfo] \in Tx
      BY <1>0, <3>1 DEF Tx, SndTypes
    <3>4. WireTypes'
      BY <2>5, <3>2, WirePut
    <3>5. sndTxts' \subseteq Tx
      BY <2>5, <3>3 DEF SndTypes
    <3> QED
      BY <2>1, <2>3, <2>5, <3>1, <3>4, <3>5 DEF SndTypes
  <2> QED
    BY <1>5, <2>4, <2>5 DEF EnterSendSync
<1>6. CASE EnterSendFup
  <2>1. /\ sndPc = "fup" /\ sndPc' = "idle" /\ sndTs' = FALSE /\ sndState = "SEND_FOLLOW_UP"
        /\ UNCHANGED <<sndOper, sndState, rcvdMDSync, mdInfo, ntx, syncTs, sndTxts, sndLate>>
    BY <1>6 DEF EnterSendFup, SndTypes
  <2>2. Waiting' = Waiting /\ Sending = 1
    BY <2>1 DEF Waiting, Sending
  <2>3. CASE sndAgain' = TRUE /\ UNCHANGED <<sndSeq, wire>>
    <3>1. Sending' = 1
      BY <2>1, <2>3 DEF Sending
    <3>2. SeqBound'
      BY <2>1, <2>2, <2>3, <3>1 DEF SeqBound, SndTypes
    <3> QED
      BY <2>1, <2>3, <3>2 DEF SndTypes, WireTypes
  <2>4. CASE /\ Transmit([kind |-> "fup", seq |-> sndSeq, ts |-> syncTs, info |-> mdInfo])
             /\ sndSeq' = sndSeq + 1 /\ sndAgain' = FALSE
    <3>1. Sending' = 0
      BY <2>1, <2>4 DEF Sending
    <3>2. SeqBound' /\ sndSeq' \in Nat
      BY <1>0, <2>1, <2>2, <2>4, <3>1 DEF SeqBound, SndTypes
    <3>3. [kind |-> "fup", seq |-> sndSeq, ts |-> syncTs, info |-> mdInfo] \in Fup
      BY <1>0 DEF Fup, SndTypes
    <3>4. WireTypes'
      BY <2>4, <3>3, WirePut
    <3> QED
      BY <2>1, <2>4, <3>2, <3>4 DEF SndTypes
  <2> QED
    BY <1>6, <2>3, <2>4 DEF EnterSendFup
<1> QED
  BY <1>1, <1>2, <1>3, <1>4, <1>5, <1>6 DEF SndNext, SndStep

\* A frame of the link is taken into the receiver.
LEMMA RecvTypes ==
    ASSUME RcvTypes, NEW f \in Sync \cup Fup, RecvFrame(f)
    PROVE  RcvTypes'
<1>1. CASE f.kind = "sync"
  <2>1. f \in Sync
    BY <1>1 DEF Sync, Fup
  <2> QED
    BY <1>1, <2>1 DEF RecvFrame, RcvTypes
<1>2. CASE f.kind # "sync"
  <2>1. f \in Fup
    BY <1>2 DEF Sync, Fup
  <2> QED
    BY <1>2, <2>1 DEF RecvFrame, RcvTypes
<1> QED
  BY <1>1, <1>2

LEMMA RcvTypesStep ==
    ASSUME RcvTypes, RcvNext
    PROVE  RcvTypes'
<1>1. CASE RcvTick \/ RcvElapse \/ RcvDev
  BY <1>1 DEF RcvTick, RcvElapse, RcvDev, RcvTypes
<1>2. CASE RcvCondition
  <2>1. RcvNextPc \in {"discard", "waitFup", "measure", "idle"}
    BY DEF RcvNextPc
  <2> QED
    BY <1>2, <2>1 DEF RcvCondition, RcvTypes
<1>3. CASE EnterDiscard \/ EnterWaitFup
  BY <1>3 DEF EnterDiscard, EnterWaitFup, RcvTypes
<1>4. CASE EnterMeasure
  <2>1. measured' \in [sync : Sync, fup : Fup]
    BY <1>4 DEF EnterMeasure, RcvTypes
  <2> QED
    BY <1>4, <2>1 DEF EnterMeasure, RcvTypes
<1> QED
  BY <1>1, <1>2, <1>3, <1>4 DEF RcvNext, RcvStep

LEMMA LinkTypesStep ==
    ASSUME SndTypes, RcvTypes, WireTypes, [Next]_vars
    PROVE  SndTypes' /\ RcvTypes' /\ WireTypes'
<1>1. ASSUME UNCHANGED sndVars PROVE SndTypes'
  BY <1>1 DEF sndVars, SndTypes, EntersState, SeqBound, Waiting, Sending
<1>2. ASSUME UNCHANGED rcvVars PROVE RcvTypes'
  BY <1>2 DEF rcvVars, RcvTypes
<1>3. ASSUME wire' = wire PROVE WireTypes'
  BY <1>3 DEF WireTypes
<1>4. CASE SndNext /\ UNCHANGED rcvVars
  BY <1>2, <1>4, SndTypesStep
<1>5. CASE RcvNext /\ UNCHANGED <<sndVars, wire>>
  BY <1>1, <1>3, <1>5, RcvTypesStep
<1>6. CASE Deliver
  <2>1. PICK i \in DOMAIN wire : RecvFrame(wire[i]) /\ wire' = RemoveFrame(i)
    BY <1>6 DEF Deliver
  <2>2. wire[i] \in Sync \cup Fup
    BY DEF WireTypes
  <2>3. UNCHANGED sndVars
    BY <1>6 DEF Deliver
  <2> QED
    BY <1>1, <2>1, <2>2, <2>3, RecvTypes, WireTake
<1>7. CASE Lose
  <2>1. PICK i \in DOMAIN wire : wire' = RemoveFrame(i)
    BY <1>7 DEF Lose
  <2>2. UNCHANGED sndVars /\ UNCHANGED rcvVars
    BY <1>7 DEF Lose
  <2> QED
    BY <1>1, <1>2, <2>1, <2>2, WireTake
<1>8. CASE OneStepSync
  <2> DEFINE f == [kind |-> "sync", seq |-> sndSeq, tx |-> 0, two |-> FALSE]
  <2>1. f \in Sync
    BY SeqInBound, SyncSendAssumption DEF Sync, SyncSendAssumption
  <2>2. RecvFrame(f) /\ UNCHANGED sndVars /\ wire' = wire
    BY <1>8 DEF OneStepSync
  <2> HIDE DEF f
  <2> QED
    BY <1>1, <1>3, <2>1, <2>2, RecvTypes
<1>9. CASE UNCHANGED vars
  BY <1>1, <1>2, <1>3, <1>9 DEF vars
<1> QED
  BY <1>4, <1>5, <1>6, <1>7, <1>8, <1>9 DEF Next

\* Both ends of the link and the frames on it keep their types, with late
\* timestamps too.  A number of a Sync is not used up without an MDSyncSend,
\* although a port that goes down gives one up that may never have been sent.
THEOREM LinkTypeCorrect == Spec => []TypeOK
<1>1. Init => SndTypes /\ RcvTypes /\ WireTypes
  <2> SUFFICES ASSUME Init PROVE SndTypes /\ RcvTypes /\ WireTypes
    OBVIOUS
  <2>1. MaxInfo \in Nat /\ MaxSync \in Nat /\ MaxWire \in Nat
    BY SyncSendAssumption DEF SyncSendAssumption
  <2>2. NoTx \in Tx /\ NoSync \in Sync
    BY <2>1 DEF NoTx, NoSync, Tx, Sync, Seqs
  <2>3. NoFup \in Fup
    BY <2>2 DEF NoFup, NoTx, Fup, Seqs, Tx
  <2>4. Waiting = 0 /\ Sending = 0
    BY DEF Init, SndInit, Waiting, Sending
  <2>5. SndTypes
    <3>1. SeqBound
      <4>1. sndSeq = 1 /\ mdInfo = 0
        BY DEF Init, SndInit
      <4> QED
        BY <2>4, <4>1 DEF SeqBound
    <3>2. EntersState /\ mdInfo \in 0 .. MaxInfo /\ ntx \in 0 .. MaxSync /\ sndSeq \in Nat
      BY <2>1 DEF Init, SndInit, EntersState
    <3>3. syncTs \in Tx /\ sndTxts \subseteq Tx
      BY <2>2 DEF Init, SndInit
    <3> QED
      BY <3>1, <3>2, <3>3 DEF Init, SndInit, SndTypes
  <2>6. RcvTypes
    BY <2>2, <2>3 DEF Init, RcvInit, RcvTypes
  <2>7. WireTypes
    <3>1. wire = <<>> /\ Len(wire) = 0
      BY DEF Init
    <3> QED
      BY <2>1, <3>1 DEF WireTypes
  <2> QED
    BY <2>5, <2>6, <2>7
<1>2. SndTypes /\ RcvTypes /\ WireTypes /\ [Next]_vars => SndTypes' /\ RcvTypes' /\ WireTypes'
  BY LinkTypesStep
<1>3. SndTypes /\ RcvTypes /\ WireTypes => TypeOK
  BY SeqInBound DEF SndTypes, RcvTypes, WireTypes, TypeOK
<1> QED
  BY <1>1, <1>2, <1>3, PTL DEF Spec

=============================================================================
