---------------------------- MODULE GmSyncProofs ----------------------------
(***************************************************************************)
(* Proofs about GmSync, for every number of ports and every set of clocks. *)
(***************************************************************************)
EXTENDS GmSync, WellFoundedInduction, TLAPS

\* A change that was announced is pending only in INITIALIZE and GM_LOST
\* while gm_stable_sm is not running.
ChangeHandled ==
  pc # "gm" /\ gmChange => gmState \in {"INITIALIZE", "GM_LOST"}

\* gm_stable_sm runs on until it has acted on the change.
LEMMA ChangeHandledNext ==
  ASSUME ChangeHandled, [Next]_vars
  PROVE  ChangeHandled'
  <1> USE DEF ChangeHandled, gmVars
  <1>1. CASE UNCHANGED vars
    BY <1>1 DEF vars
  <1>2. CASE Event
    BY <1>2 DEF Event, Timeout, DevUp, DevDown, RecvPdelay, RecvAnnounce, RecvSync,
                Elapse, DomainZero
  <1>3. CASE TickPort \/ PortsDone \/ EndDeferral
    BY <1>3 DEF TickPort, PortsDone, EndDeferral
  <1>4. CASE ChangeGm \/ EndInitialSlave
    BY <1>4 DEF ChangeGm, EndInitialSlave, ReportGm
  <1>5. CASE KeepGm
    BY <1>5 DEF KeepGm
  <1>6. CASE ClockSourceReq
    BY <1>6 DEF ClockSourceReq, SourceNoNews, SourceTooEarly, SourceMeasure
  <1>7. CASE EnterInitialize \/ EnterUnstable \/ EnterStable \/ EnterLost
    BY <1>7 DEF EnterInitialize, EnterUnstable, EnterStable, EnterLost, Enter
  <1>8. CASE GmSettled
    BY <1>8 DEF GmSettled
  <1> QED
    BY <1>1, <1>2, <1>3, <1>4, <1>5, <1>6, <1>7, <1>8 DEF Next, Step

\* gm_stable_sm never loses a grandmaster change, however changes, lost
\* capabilities and timeouts interleave.
THEOREM ChangeNeverForgotten == Spec => []ChangeNotForgotten
  <1>1. Init => ChangeHandled
    BY DEF Init, ChangeHandled
  <1>2. ChangeHandled /\ [Next]_vars => ChangeHandled'
    BY ChangeHandledNext
  <1>3. ChangeHandled => ChangeNotForgotten
    BY DEF ChangeHandled, ChangeNotForgotten
  <1> QED
    BY <1>1, <1>2, <1>3, PTL DEF Spec

-----------------------------------------------------------------------------
(* The end of a timeout                                                    *)

\* A set of numbers has a smallest one.
LEMMA Smallest ==
  ASSUME NEW S, S \subseteq Nat, S # {}
  PROVE  \E c \in S : \A d \in S : c <= d
  <1> DEFINE R == OpToRel(<, Nat)
  <1>1. IsWellFoundedOn(R, Nat)
    BY NatLessThanWellFounded
  <1> HIDE DEF R
  <1>2. PICK c \in S : \A d \in S : ~(<<d, c>> \in R)
    BY <1>1, WFMin
  <1>3. \A d \in S : ~(d < c)
    BY <1>2 DEF R, OpToRel
  <1> QED
    BY <1>3

\* The best clock on offer is on offer; without a neighbour it is this clock.
LEMMA BestFacts ==
  ASSUME NEW h \in [Ports -> Clocks \cup {NoClock}], NEW low \in BOOLEAN
  PROVE  /\ Best(h, low) \in Clocks
         /\ Best(h, low) # NoClock
         /\ (\A p \in Ports : h[p] = NoClock) => Best(h, low) = ThisClock
         /\ SlavePorts(h, low) \subseteq 0..N
  <1>1. OnOffer(h, low) \subseteq Clocks /\ OnOffer(h, low) # {} /\ Clocks \subseteq Nat \ {0}
    BY GmSyncAssumption DEF OnOffer, Others
  <1>2. Best(h, low) \in OnOffer(h, low)
    BY <1>1, Smallest DEF Best
  <1>3. Best(h, low) \in Clocks /\ Best(h, low) # NoClock
    BY <1>1, <1>2 DEF NoClock
  <1>4. (\A p \in Ports : h[p] = NoClock) => OnOffer(h, low) = {ThisClock}
    BY DEF OnOffer, Others
  <1>5. SlavePorts(h, low) \subseteq 0..N
    BY GmSyncAssumption DEF SlavePorts, Ports
  <1> QED
    BY <1>2, <1>3, <1>4, <1>5

Typed ==
  /\ asCapable \in [Ports -> BOOLEAN] /\ asCapableOrAll \in BOOLEAN
  /\ heard \in [Ports -> Clocks \cup {NoClock}] /\ slave \in -1..N
  /\ gmState \in {"INIT", "INITIALIZE", "GM_LOST", "GM_UNSTABLE", "GM_STABLE"}
  /\ gmsync \in {UNSYNC, SYNC, STABLE}
  /\ domain \in {"zero", "initialSlave", "other"} /\ deferred \in BOOLEAN
  /\ pc \in {"idle", "port", "turn", "gm", "source"}
  /\ run \in [port : 0..N, kind : {"tick", "announce", "other"}]
  /\ (pc = "turn" => run.port \in Ports)

\* The call of gm_stable_sm at the end of a timeout.
LastCall == pc = "gm" /\ run.port = 0

HandlerFits ==
  /\ pc = "idle" => run = Idle
  /\ pc = "port" => run.kind = "tick"
  /\ LastCall => run.kind = "tick"

\* asCapableOrAll tells of the ports that have been handled in a timeout.
CapableFits ==
  run.kind = "tick" =>
     /\ LastCall => (asCapableOrAll <=> \E p \in Ports : asCapable[p])
     /\ run.port # 0 => (asCapableOrAll <=> \E p \in 1..run.port : asCapable[p])

Done(p) == p < run.port \/ (p = run.port /\ pc # "turn") \/ LastCall

\* They offer nothing if they are not capable.
HeardFits ==
  run.kind = "tick" => \A p \in Ports : Done(p) /\ ~asCapable[p] => heard[p] = NoClock

\* The tree is of what the ports offer.
TreeFits ==
  /\ slave >= 0 => gm = Best(heard, Lowest) /\ slave \in SlavePorts(heard, Lowest)
  /\ slave < 0 => seenGm = NoClock
  /\ LastCall \/ (pc \in {"port", "gm", "source"} /\ run.port # 0) => slave >= 0

\* The machine has left its start once there is a tree, and whatever takes the
\* synchronization away in the middle of a timeout gives it back.
GmFits ==
  /\ slave >= 0 => gmState # "INIT" \/ (pc = "gm" /\ run.port # 0)
  /\ slave >= 0 => gmsync # UNSYNC \/ pc = "source" \/ (pc = "gm" /\ run.port # 0)
  /\ gmState = "INITIALIZE" => ~initdone

SettleInv == Typed /\ HandlerFits /\ CapableFits /\ HeardFits /\ TreeFits /\ GmFits

LEMMA SettleEvent ==
  ASSUME SettleInv, Event
  PROVE  SettleInv'
  <1> USE DEF bmcsVars, gmVars, domVars, Lowest
  <1>1. /\ pc = "idle" /\ run = Idle /\ run.kind # "tick" /\ run.port = 0
        /\ UNCHANGED <<heard, slave, gm, seenGm, gmState, gmsync, initdone, domain, deferred>>
    BY DEF SettleInv, HandlerFits, Event, Timeout, DevUp, DevDown, RecvPdelay, RecvAnnounce,
           RecvSync, Elapse, DomainZero, Idle
  <1>2. /\ run' \in [port : 0..N, kind : {"tick", "announce", "other"}]
        /\ pc' \in {"idle", "port", "turn", "source"}
        /\ pc' = "turn" => run'.port \in Ports
        /\ pc' = "idle" => run' = Idle
        /\ pc' = "source" => run'.port = 0
        /\ pc' = "port" => run'.kind = "tick"
        /\ run'.kind = "tick" => run'.port = 0
    <2>1. CASE Timeout
      BY <2>1, GmSyncAssumption DEF Timeout
    <2>4. CASE Elapse \/ DomainZero
      BY <1>1, <2>4 DEF Elapse, DomainZero, SettleInv, Typed
    <2>2. ASSUME NEW p \in Ports, DevUp(p) \/ RecvAnnounce(p)
          PROVE  <1>2!:
      BY <2>2, GmSyncAssumption DEF DevUp, RecvAnnounce, Ports
    <2>3. ASSUME NEW p \in Ports, DevDown(p) \/ RecvPdelay(p) \/ RecvSync(p)
          PROVE  <1>2!:
      BY <1>1, <2>3 DEF DevDown, RecvPdelay, RecvSync, SettleInv, Typed
    <2> QED
      BY <2>1, <2>2, <2>3, <2>4 DEF Event
  <1>3. asCapable' \in [Ports -> BOOLEAN] /\ asCapableOrAll' \in BOOLEAN
    <2>1. CASE Timeout \/ Elapse \/ DomainZero
      BY <2>1 DEF Timeout, Elapse, DomainZero, SettleInv, Typed
    <2>2. ASSUME NEW p \in Ports, DevUp(p) \/ RecvPdelay(p)
          PROVE  <1>3!:
      BY <2>2 DEF DevUp, RecvPdelay, SettleInv, Typed
    <2>3. ASSUME NEW p \in Ports, DevDown(p) \/ RecvAnnounce(p) \/ RecvSync(p)
          PROVE  <1>3!:
      BY <2>3 DEF DevDown, RecvAnnounce, RecvSync, SettleInv, Typed
    <2> QED
      BY <2>1, <2>2, <2>3 DEF Event
  <1>4. Typed' /\ HandlerFits'
    BY <1>1, <1>2, <1>3 DEF SettleInv, Typed, HandlerFits, LastCall
  <1>5. ~LastCall' /\ CapableFits'
    BY <1>2 DEF LastCall, CapableFits
  <1>6. HeardFits'
    <2>1. ASSUME NEW p \in Ports, run'.kind = "tick" PROVE ~Done(p)'
      BY <1>2, <1>5, <2>1, GmSyncAssumption DEF Done, Ports
    <2> QED
      BY <2>1 DEF HeardFits
  <1>7. TreeFits'
    BY <1>1, <1>2, <1>5 DEF SettleInv, TreeFits
  <1>8. GmFits'
    BY <1>1 DEF SettleInv, GmFits
  <1> QED
    BY <1>4, <1>5, <1>6, <1>7, <1>8 DEF SettleInv

\* A port gets its turn: asCapableOrAll takes it in.
LEMMA SettleTickPort ==
  ASSUME SettleInv, TickPort
  PROVE  SettleInv'
  <1> USE DEF bmcsVars, gmVars, domVars, Lowest
  <1> DEFINE p == run.port + 1
  <1>0. N \in Nat \ {0} /\ Ports = 1..N
    BY GmSyncAssumption DEF Ports
  <1>1. /\ pc = "port" /\ p \in Ports /\ pc' = "turn" /\ run.kind = "tick"
        /\ UNCHANGED <<heard, slave, gm, seenGm, gmState, gmsync, initdone, domain, deferred>>
        /\ run.port \in 0..N
    BY DEF TickPort, SettleInv, HandlerFits, Typed
  <1>2. run' \in [port : 0..N, kind : {"tick", "announce", "other"}] /\ run'.port = p /\ run'.kind = "tick"
    BY <1>0, <1>1 DEF TickPort, SettleInv, Typed
  <1>3. PICK c \in BOOLEAN : /\ asCapable' = [asCapable EXCEPT ![p] = c]
                            /\ asCapableOrAll' = (c \/ (p > 1 /\ asCapableOrAll))
    BY DEF TickPort
  <1> HIDE DEF p
  <1>4. /\ asCapable' \in [Ports -> BOOLEAN] /\ asCapableOrAll' \in BOOLEAN
        /\ asCapable'[p] = c /\ \A q \in Ports : q # p => asCapable'[q] = asCapable[q]
    BY <1>1, <1>3 DEF SettleInv, Typed
  <1>5. Typed' /\ HandlerFits' /\ ~LastCall'
    BY <1>1, <1>2, <1>4 DEF SettleInv, Typed, HandlerFits, LastCall
  <1>6. CapableFits'
    <2>1. CASE run.port = 0
      <3>1. p = 1
        BY <2>1 DEF p
      <3> QED
        BY <1>2, <1>3, <1>4, <1>5, <3>1 DEF CapableFits
    <2>2. CASE run.port # 0
      <3>1. p > 1 /\ \A q \in 1..p : q = p \/ q \in 1..run.port
        BY <1>0, <1>1, <2>2 DEF p
      <3>2. \A q \in 1..run.port : q \in 1..p /\ q # p /\ q \in Ports
        BY <1>0, <1>1, <2>2 DEF p
      <3>3. asCapableOrAll <=> \E q \in 1..run.port : asCapable[q]
        BY <1>1, <2>2 DEF SettleInv, CapableFits
      <3>4. p \in 1..p
        BY <3>1, <1>0, <1>1
      <3>5. asCapableOrAll' <=> \E q \in 1..p : asCapable'[q]
        BY <1>3, <1>4, <3>1, <3>2, <3>3, <3>4
      <3> QED
        BY <1>2, <1>5, <3>5 DEF CapableFits
    <2> QED
      BY <2>1, <2>2
  <1>7. HeardFits'
    <2>1. ASSUME NEW q \in Ports, Done(q)', ~asCapable'[q] PROVE heard'[q] = NoClock
      <3>1. q < p
        BY <1>1, <1>2, <1>5, <2>1 DEF Done
      <3>2. q # p /\ (q < run.port \/ q = run.port)
        BY <1>0, <1>1, <3>1 DEF p
      <3>3. Done(q)
        BY <1>1, <3>2 DEF Done
      <3> QED
        BY <1>1, <1>4, <2>1, <3>2, <3>3 DEF SettleInv, HeardFits
    <2> QED
      BY <2>1 DEF HeardFits
  <1>8. TreeFits'
    BY <1>1, <1>5 DEF SettleInv, TreeFits
  <1>9. GmFits'
    BY <1>1 DEF SettleInv, GmFits
  <1> QED
    BY <1>5, <1>6, <1>7, <1>8, <1>9 DEF SettleInv

LEMMA SettlePortsDone ==
  ASSUME SettleInv, PortsDone
  PROVE  SettleInv'
  <1> USE DEF bmcsVars, gmVars, domVars, Lowest
  <1>0. N \in Nat \ {0} /\ Ports = 1..N
    BY GmSyncAssumption DEF Ports
  <1>1. /\ pc = "port" /\ run.port = N /\ pc' = "gm" /\ run.kind = "tick"
        /\ UNCHANGED <<asCapable, asCapableOrAll, heard, slave, gm, seenGm, gmState, gmsync, initdone, domain, deferred>>
    BY DEF PortsDone, SettleInv, HandlerFits
  <1>2. run' \in [port : 0..N, kind : {"tick", "announce", "other"}] /\ run'.port = 0 /\ run'.kind = "tick"
    BY <1>0, <1>1 DEF PortsDone, SettleInv, Typed
  <1>3. Typed' /\ HandlerFits' /\ LastCall'
    BY <1>1, <1>2 DEF SettleInv, Typed, HandlerFits, LastCall
  <1>4. CapableFits'
    BY <1>0, <1>1, <1>2 DEF SettleInv, CapableFits
  <1>5. HeardFits'
    <2>1. \A q \in Ports : Done(q)
      BY <1>0, <1>1 DEF Done
    <2> QED
      BY <1>1, <2>1 DEF SettleInv, HeardFits
  <1>6. TreeFits' /\ slave >= 0
    BY <1>0, <1>1 DEF SettleInv, TreeFits
  <1>7. GmFits'
    BY <1>1, <1>6 DEF SettleInv, GmFits
  <1> QED
    BY <1>3, <1>4, <1>5, <1>6, <1>7 DEF SettleInv

\* Another vector: the tree follows what the ports offer, and the first tree
\* calls gm_stable_sm, since no clock was seen before.
LEMMA SettleTree ==
  ASSUME SettleInv, pc = "turn", NEW g \in {UNSYNC, SYNC, STABLE},
         \E o \in Offers(run.port) : heard' = [heard EXCEPT ![run.port] = o],
         deferred' \in BOOLEAN, domain' = domain,
         UpdtStatesTree(g), ReportGm
  PROVE  SettleInv'
  <1> DEFINE p == run.port
  <1>0. N \in Nat \ {0} /\ Ports = 1..N
    BY GmSyncAssumption DEF Ports
  <1>1. /\ pc = "turn" /\ p \in Ports /\ pc' \in {"gm", "source"} /\ p # 0
        /\ UNCHANGED <<asCapable, asCapableOrAll, gmState, initdone, run>>
    BY <1>0 DEF ReportGm, SettleInv, Typed
  <1>2. PICK o \in Offers(p) : heard' = [heard EXCEPT ![p] = o]
    OBVIOUS
  <1>3. o \in Clocks \cup {NoClock} /\ (~asCapable[p] => o = NoClock)
    BY <1>1 DEF Offers, SettleInv, Typed
  <1>4. /\ heard' \in [Ports -> Clocks \cup {NoClock}]
        /\ heard'[p] = o /\ \A q \in Ports : q # p => heard'[q] = heard[q]
    BY <1>1, <1>2, <1>3 DEF SettleInv, Typed
  <1>5. Lowest' \in BOOLEAN /\ slave' \in SlavePorts(heard', Lowest') /\ gm' = Best(heard', Lowest')
    BY DEF UpdtStatesTree, Lowest
  <1>6. slave' \in 0..N /\ gm' # NoClock
    BY <1>4, <1>5, BestFacts
  <1>7. gmsync' \in {UNSYNC, SYNC, STABLE}
    BY DEF UpdtStatesTree, SelectedSync
  <1> HIDE DEF p
  <1>8. run' = run /\ run.port = p
    BY <1>1 DEF p
  <1>9. Typed' /\ HandlerFits' /\ ~LastCall'
    BY <1>0, <1>1, <1>4, <1>6, <1>7, <1>8 DEF SettleInv, Typed, HandlerFits, LastCall
  <1>10. CapableFits'
    BY <1>1, <1>8, <1>9 DEF SettleInv, CapableFits
  <1>11. HeardFits'
    <2>1. ASSUME NEW q \in Ports, Done(q)', q # p PROVE Done(q)
      BY <1>0, <1>1, <1>8, <1>9, <2>1 DEF Done
    <2> QED
      BY <1>1, <1>3, <1>4, <1>8, <2>1 DEF SettleInv, HeardFits
  <1>12. TreeFits'
    BY <1>0, <1>1, <1>5, <1>6, <1>9 DEF TreeFits
  <1>13. gmState = "INIT" => pc' = "gm"
    BY <1>1, <1>6 DEF SettleInv, GmFits, TreeFits, Typed, ReportGm
  <1>14. GmFits'
    BY <1>1, <1>8, <1>13 DEF SettleInv, GmFits
  <1> QED
    BY <1>9, <1>10, <1>11, <1>12, <1>14 DEF SettleInv

LEMMA SettleChangeGm ==
  ASSUME SettleInv, ChangeGm
  PROVE  SettleInv'
  <1>1. gmsync \in {UNSYNC, SYNC, STABLE} /\ deferred' \in BOOLEAN /\ domain' = domain
    BY DEF ChangeGm, Selects, Defers, SettleInv, Typed
  <1>2. /\ pc = "turn" /\ UpdtStatesTree(gmsync) /\ ReportGm
        /\ \E o \in Offers(run.port) : heard' = [heard EXCEPT ![run.port] = o]
    BY DEF ChangeGm
  <1> QED
    BY <1>1, <1>2, SettleTree

\* The end of the initial slave time: another vector, or the same one.
LEMMA SettleEndInitialSlave ==
  ASSUME SettleInv, EndInitialSlave
  PROVE  SettleInv'
  <1> DEFINE g == IF slave = 0 THEN STABLE ELSE gmsync
  <1> DEFINE p == run.port
  <1>0. N \in Nat \ {0} /\ Ports = 1..N
    BY GmSyncAssumption DEF Ports
  <1>1. g \in {UNSYNC, SYNC, STABLE} /\ deferred' = FALSE /\ domain' = domain
    BY DEF EndInitialSlave, SettleInv, Typed
  <1>2. /\ pc = "turn" /\ UpdtStatesTree(g)
        /\ \E o \in Offers(run.port) : heard' = [heard EXCEPT ![run.port] = o]
    BY DEF EndInitialSlave
  <1>3. CASE ReportGm
    BY <1>1, <1>2, <1>3, SettleTree
  <1>4. CASE slave' = slave /\ gm' = gm
             /\ UNCHANGED <<asCapable, asCapableOrAll, gmVars, news, rateStable, offsetGM, pc, run>>
    <2>1. PICK o \in Offers(p) : heard' = [heard EXCEPT ![p] = o]
      BY <1>2
    <2>2. p \in Ports /\ p # 0 /\ o \in Clocks \cup {NoClock}
      BY <1>0, <1>2 DEF Offers, SettleInv, Typed
    <2>3. /\ heard' \in [Ports -> Clocks \cup {NoClock}]
          /\ \A q \in Ports : q # p => heard'[q] = heard[q]
      BY <2>1, <2>2 DEF SettleInv, Typed
    <2>4. Lowest' \in BOOLEAN /\ slave' \in SlavePorts(heard', Lowest') /\ gm' = Best(heard', Lowest')
      BY <1>2 DEF UpdtStatesTree, Lowest
    <2>5. slave \in 0..N
      BY <1>4, <2>3, <2>4, BestFacts
    <2>6. gmsync' = g
      BY <1>2, <1>4, <2>5 DEF UpdtStatesTree, SelectedSync
    <2>7. run' = run /\ pc' = "turn" /\ run.port = p
      BY <1>2, <1>4
    <2>8. UNCHANGED <<slave, seenGm, gmState, initdone, asCapable, asCapableOrAll>>
      BY <1>4 DEF gmVars
    <2> HIDE DEF p, g
    <2>9. Typed' /\ HandlerFits' /\ ~LastCall'
      BY <1>1, <1>2, <2>2, <2>3, <2>6, <2>7, <2>8 DEF SettleInv, Typed, HandlerFits, LastCall
    <2>10. CapableFits'
      BY <2>7, <2>8, <2>9 DEF SettleInv, CapableFits
    <2>11. HeardFits'
      <3>1. ASSUME NEW q \in Ports, Done(q)' PROVE Done(q) /\ q # p
        BY <1>0, <1>2, <2>2, <2>7, <2>9, <3>1 DEF Done
      <3> QED
        BY <2>3, <2>7, <2>8, <3>1 DEF SettleInv, HeardFits
    <2>12. TreeFits'
      BY <1>0, <2>4, <2>5, <2>7, <2>8, <2>9 DEF TreeFits
    <2>13. GmFits'
      <3>1. gmsync # UNSYNC /\ gmState # "INIT" /\ (gmState = "INITIALIZE" => ~initdone)
        BY <1>0, <1>2, <2>5 DEF SettleInv, GmFits
      <3>2. gmsync' # UNSYNC
        BY <2>6, <3>1 DEF g, UNSYNC, STABLE
      <3> QED
        BY <2>8, <3>1, <3>2 DEF GmFits
    <2> QED
      BY <2>9, <2>10, <2>11, <2>12, <2>13 DEF SettleInv
  <1> QED
    BY <1>3, <1>4 DEF EndInitialSlave

\* Domain 0 is stable: the report that was left out is made.
LEMMA SettleEndDeferral ==
  ASSUME SettleInv, EndDeferral
  PROVE  SettleInv'
  <1>1. /\ pc = "turn" /\ pc' = pc /\ run' = run /\ deferred' = FALSE /\ domain' = domain
        /\ domain = "other" /\ gmsync' \in {gmsync, STABLE}
        /\ UNCHANGED <<asCapable, asCapableOrAll, heard, slave, gm, seenGm, gmState, initdone>>
    BY DEF EndDeferral, DomainZeroStable, bmcsVars, gmVars
  <1>2. Lowest' = Lowest
    BY <1>1 DEF Lowest
  <1>3. Typed' /\ HandlerFits' /\ (LastCall' <=> LastCall)
    BY <1>1 DEF SettleInv, Typed, HandlerFits, LastCall
  <1>4. CapableFits' /\ TreeFits'
    BY <1>1, <1>2, <1>3 DEF SettleInv, CapableFits, TreeFits
  <1>5. HeardFits'
    BY <1>1, <1>3 DEF SettleInv, HeardFits, Done
  <1>6. GmFits'
    BY <1>1 DEF SettleInv, GmFits, UNSYNC, STABLE
  <1> QED
    BY <1>3, <1>4, <1>5, <1>6 DEF SettleInv

\* The end of a turn: a port that is not capable offers nothing any more.
LEMMA SettleKeepGm ==
  ASSUME SettleInv, KeepGm
  PROVE  SettleInv'
  <1> USE DEF gmVars, Lowest
  <1> DEFINE p == run.port
  <1>0. N \in Nat \ {0} /\ Ports = 1..N
    BY GmSyncAssumption DEF Ports
  <1>1. /\ pc = "turn" /\ p \in Ports /\ slave >= 0
        /\ UNCHANGED <<asCapable, asCapableOrAll, slave, gm, seenGm, gmState, gmsync, initdone, domain>>
        /\ deferred' \in BOOLEAN
    BY DEF KeepGm, Selects, Defers, SettleInv, Typed
  <1>2. PICK o \in Offers(p) : heard' = [heard EXCEPT ![p] = o]
    BY DEF KeepGm
  <1>3. gm = Best(heard', Lowest') /\ slave \in SlavePorts(heard', Lowest')
    BY DEF KeepGm
  <1>4. o \in Clocks \cup {NoClock} /\ (~asCapable[p] => o = NoClock)
    BY <1>1 DEF Offers, SettleInv, Typed
  <1>5. /\ heard' \in [Ports -> Clocks \cup {NoClock}]
        /\ heard'[p] = o /\ \A q \in Ports : q # p => heard'[q] = heard[q]
    BY <1>1, <1>2, <1>4 DEF SettleInv, Typed
  <1>6. \/ pc' \in {"turn", "port"} /\ run' = run /\ (pc' = "port" => run.kind = "tick")
        \/ pc' = "idle" /\ run' = Idle
    BY DEF KeepGm, TurnGoesOn, TurnEnds
  <1>7. run' \in [port : 0..N, kind : {"tick", "announce", "other"}]
    BY <1>0, <1>6 DEF SettleInv, Typed, Idle
  <1> HIDE DEF p
  <1>8. Typed' /\ HandlerFits' /\ ~LastCall'
    BY <1>1, <1>5, <1>6, <1>7 DEF SettleInv, Typed, HandlerFits, LastCall, Idle, p
  <1>9. CapableFits'
    BY <1>1, <1>6, <1>8 DEF SettleInv, CapableFits, Idle
  <1>10. HeardFits'
    <2>1. CASE run' = Idle
      BY <2>1 DEF HeardFits, Idle
    <2>2. CASE run' = run
      <3>1. ASSUME NEW q \in Ports, Done(q)', q # p PROVE Done(q)
        BY <1>0, <1>1, <1>8, <2>2, <3>1 DEF Done, p
      <3> QED
        BY <1>1, <1>4, <1>5, <2>2, <3>1 DEF SettleInv, HeardFits
    <2> QED
      BY <1>6, <2>1, <2>2
  <1>11. TreeFits'
    BY <1>1, <1>3, <1>8 DEF TreeFits, SettleInv, Typed
  <1>12. GmFits'
    BY <1>1 DEF SettleInv, GmFits
  <1> QED
    BY <1>8, <1>9, <1>10, <1>11, <1>12 DEF SettleInv

\* The clock source request gives the synchronization back.
LEMMA SettleClockSourceReq ==
  ASSUME SettleInv, ClockSourceReq
  PROVE  SettleInv'
  <1> USE DEF bmcsVars, gmVars, domVars, Lowest
  <1>0. N \in Nat \ {0} /\ Ports = 1..N
    BY GmSyncAssumption DEF Ports
  <1>1. /\ pc = "source"
        /\ UNCHANGED <<asCapable, asCapableOrAll, heard, slave, gm, seenGm, gmState, initdone,
                       domain, deferred>>
    BY DEF ClockSourceReq, SourceNoNews, SourceTooEarly, SourceMeasure
  <1>2. gmsync' \in {SYNC, STABLE}
    BY DEF ClockSourceReq, SourceNoNews, SourceTooEarly, SourceMeasure, SourceSync, SettleInv, Typed
  <1>3. \/ run.port # 0 /\ pc' = "turn" /\ run' = run
        \/ run.kind = "tick" /\ pc' = "port" /\ run' = run
        \/ pc' = "idle" /\ run' = Idle
    BY DEF ClockSourceReq, TurnGoesOn, TurnEnds
  <1>4. run' \in [port : 0..N, kind : {"tick", "announce", "other"}] /\ (pc' = "turn" => run'.port \in Ports)
    BY <1>0, <1>3 DEF SettleInv, Typed, Idle
  <1>5. Typed' /\ HandlerFits' /\ ~LastCall'
    BY <1>1, <1>2, <1>3, <1>4 DEF SettleInv, Typed, HandlerFits, LastCall, Idle
  <1>6. CapableFits'
    BY <1>1, <1>3, <1>5 DEF SettleInv, CapableFits, Idle
  <1>7. HeardFits'
    <2>1. CASE run' = Idle
      BY <2>1 DEF HeardFits, Idle
    <2>2. CASE run' = run
      <3>1. ASSUME NEW q \in Ports, Done(q)' PROVE Done(q)
        BY <1>0, <1>1, <1>5, <2>2, <3>1 DEF Done
      <3> QED
        BY <1>1, <2>2, <3>1 DEF SettleInv, HeardFits
    <2> QED
      BY <1>3, <2>1, <2>2
  <1>8. TreeFits'
    BY <1>0, <1>1, <1>3, <1>5 DEF SettleInv, TreeFits, Idle
  <1>9. GmFits'
    BY <1>1, <1>2 DEF SettleInv, GmFits, UNSYNC, SYNC, STABLE
  <1> QED
    BY <1>5, <1>6, <1>7, <1>8, <1>9 DEF SettleInv

\* At the end of a timeout, no capable port means that this clock is the
\* grandmaster.
LEMMA NobodyMeansGm ==
  ASSUME SettleInv, LastCall
  PROVE  /\ slave >= 0
         /\ asCapableOrAll <=> \E p \in Ports : asCapable[p]
         /\ ~asCapableOrAll => slave = 0
  <1>1. run.kind = "tick" /\ slave >= 0 /\ slave \in SlavePorts(heard, Lowest)
    BY DEF SettleInv, HandlerFits, TreeFits
  <1>2. asCapableOrAll <=> \E p \in Ports : asCapable[p]
    BY <1>1 DEF SettleInv, CapableFits
  <1>3. ASSUME ~asCapableOrAll PROVE slave = 0
    <2>1. \A p \in Ports : heard[p] = NoClock
      BY <1>1, <1>2, <1>3 DEF SettleInv, HeardFits, Done
    <2>2. Best(heard, Lowest) = ThisClock
      <3>1. Lowest \in BOOLEAN
        BY DEF Lowest, SettleInv, Typed
      <3> QED
        BY <2>1, <3>1, BestFacts DEF SettleInv, Typed
    <2> QED
      BY <1>1, <2>2 DEF SlavePorts
  <1> QED
    BY <1>1, <1>2, <1>3

LEMMA SettleEnter ==
  ASSUME SettleInv, EnterInitialize \/ EnterUnstable \/ EnterStable \/ EnterLost
  PROVE  SettleInv'
  <1> USE DEF bmcsVars, domVars, Lowest
  <1>1. /\ pc = "gm" /\ pc' = "gm"
        /\ gmState' \in {"INITIALIZE", "GM_LOST", "GM_UNSTABLE", "GM_STABLE"}
        /\ UNCHANGED <<asCapable, asCapableOrAll, heard, slave, gm, seenGm, domain, deferred, run>>
    BY DEF EnterInitialize, EnterUnstable, EnterStable, EnterLost, Enter
  <1>2. gmsync' \in {UNSYNC, SYNC, STABLE}
    BY DEF EnterInitialize, EnterUnstable, EnterStable, EnterLost, InitialSync, SettleInv, Typed
  <1>3. gmState' = "INITIALIZE" => ~initdone'
    BY DEF EnterInitialize, EnterUnstable, EnterStable, EnterLost, Enter
  <1>4. LastCall => gmsync' # UNSYNC
    <2>1. LastCall => gmsync # UNSYNC /\ gmState # "INIT" /\ (~asCapableOrAll => slave = 0)
      BY NobodyMeansGm DEF SettleInv, GmFits, LastCall
    <2>2. CASE EnterInitialize
      BY <2>1, <2>2 DEF EnterInitialize, InitialSync, UNSYNC, STABLE
    <2>3. CASE EnterUnstable \/ EnterStable \/ EnterLost
      BY <2>1, <2>3 DEF EnterUnstable, EnterStable, EnterLost, UNSYNC, SYNC, STABLE
    <2> QED
      BY <2>2, <2>3
  <1>5. Typed' /\ HandlerFits' /\ (LastCall' <=> LastCall)
    BY <1>1, <1>2 DEF SettleInv, Typed, HandlerFits, LastCall
  <1>6. CapableFits' /\ TreeFits'
    BY <1>1, <1>5 DEF SettleInv, CapableFits, TreeFits
  <1>7. HeardFits'
    BY <1>1, <1>5 DEF SettleInv, HeardFits, Done
  <1>8. GmFits'
    BY <1>1, <1>3, <1>4 DEF GmFits, LastCall
  <1> QED
    BY <1>5, <1>6, <1>7, <1>8 DEF SettleInv

LEMMA SettleGmSettled ==
  ASSUME SettleInv, GmSettled
  PROVE  SettleInv'
  <1> USE DEF bmcsVars, gmVars, domVars, Lowest
  <1>0. N \in Nat \ {0} /\ Ports = 1..N
    BY GmSyncAssumption DEF Ports
  <1>1. /\ pc = "gm" /\ gmState # "INIT"
        /\ UNCHANGED <<asCapable, asCapableOrAll, heard, slave, gm, seenGm, gmState, gmsync, initdone,
                       domain, deferred>>
    BY DEF GmSettled
  <1>2. \/ run.port = 0 /\ pc' = "idle" /\ run' = Idle
        \/ run.port # 0 /\ pc' = "source" /\ run' = run
    BY DEF GmSettled
  <1>3. run' \in [port : 0..N, kind : {"tick", "announce", "other"}]
    BY <1>0, <1>2 DEF SettleInv, Typed, Idle
  <1>4. Typed' /\ HandlerFits' /\ ~LastCall'
    BY <1>1, <1>2, <1>3 DEF SettleInv, Typed, HandlerFits, LastCall, Idle
  <1>5. CapableFits'
    BY <1>1, <1>2, <1>4 DEF SettleInv, CapableFits, Idle
  <1>6. HeardFits'
    <2>1. CASE run' = Idle
      BY <2>1 DEF HeardFits, Idle
    <2>2. CASE run' = run /\ pc' = "source"
      BY <1>1, <1>4, <2>2 DEF SettleInv, HeardFits, Done
    <2> QED
      BY <1>2, <2>1, <2>2
  <1>7. TreeFits'
    BY <1>1, <1>2, <1>4 DEF SettleInv, TreeFits
  <1>8. GmFits'
    BY <1>1, <1>2 DEF SettleInv, GmFits
  <1> QED
    BY <1>4, <1>5, <1>6, <1>7, <1>8 DEF SettleInv

LEMMA SettleNext ==
  ASSUME SettleInv, [Next]_vars
  PROVE  SettleInv'
  <1>1. CASE UNCHANGED vars
    BY <1>1 DEF vars, bmcsVars, gmVars, domVars, Lowest, SettleInv, Typed, HandlerFits, CapableFits, HeardFits,
                TreeFits, GmFits, LastCall, Done
  <1> QED
    BY <1>1, SettleEvent, SettleTickPort, SettlePortsDone, SettleChangeGm, SettleKeepGm,
       SettleEndInitialSlave, SettleEndDeferral, SettleClockSourceReq, SettleEnter, SettleGmSettled DEF Next, Step

LEMMA SettleInit ==
  ASSUME Init
  PROVE  SettleInv
  <1>1. N \in Nat \ {0} /\ Ports = 1..N
    BY GmSyncAssumption DEF Ports
  <1>2. /\ pc = "idle" /\ run = Idle /\ run.kind = "other" /\ slave = -1 /\ seenGm = NoClock /\ initdone = FALSE
        /\ run \in [port : 0..N, kind : {"tick", "announce", "other"}]
    BY <1>1 DEF Init, Idle
  <1>3. Typed
    <2>1. asCapable \in [Ports -> BOOLEAN] /\ asCapableOrAll \in BOOLEAN
      BY DEF Init
    <2>2. heard \in [Ports -> Clocks \cup {NoClock}]
      BY DEF Init
    <2>3. slave \in -1..N /\ gmState = "INIT" /\ gmsync = UNSYNC
      BY <1>1 DEF Init
    <2>4. domain \in {"zero", "initialSlave", "other"} /\ deferred \in BOOLEAN
      BY DEF Init
    <2> QED
      BY <1>2, <2>1, <2>2, <2>3, <2>4 DEF Typed
  <1>4. HandlerFits /\ CapableFits /\ HeardFits /\ TreeFits /\ GmFits
    BY <1>2 DEF HandlerFits, CapableFits, HeardFits, TreeFits, GmFits, LastCall
  <1> QED
    BY <1>3, <1>4 DEF SettleInv

\* Only gm_stable_sm, called after the last port, ends a timeout.
LEMMA LastCallEnds ==
  ASSUME SettleInv, [Next]_vars, run.kind = "tick", pc' = "idle"
  PROVE  LastCall /\ GmSettled
  <1> USE DEF HandlerFits
  <1>1. pc # "idle"
    BY DEF SettleInv, Idle
  <1>2. ~Event /\ ~(UNCHANGED vars)
    BY <1>1 DEF Event, Timeout, DevUp, DevDown, RecvPdelay, RecvAnnounce, RecvSync, Elapse,
                DomainZero, vars
  <1>3. ~TickPort /\ ~PortsDone /\ ~ChangeGm /\ ~KeepGm /\ ~ClockSourceReq
    BY DEF TickPort, PortsDone, ChangeGm, ReportGm, KeepGm, ClockSourceReq, TurnGoesOn, TurnEnds
  <1>6. ~EndInitialSlave /\ ~EndDeferral
    BY DEF EndInitialSlave, EndDeferral, ReportGm
  <1>4. ~(EnterInitialize \/ EnterUnstable \/ EnterStable \/ EnterLost)
    BY DEF EnterInitialize, EnterUnstable, EnterStable, EnterLost, Enter
  <1>5. GmSettled
    BY <1>2, <1>3, <1>4, <1>6 DEF Next, Step
  <1> QED
    BY <1>5 DEF GmSettled, LastCall

\* However the changes of the grandmaster and of asCapable fall into the turns
\* of a timeout, at its end gm_stable_sm is in INITIALIZE exactly when no port
\* is capable, and this clock is then the grandmaster.
THEOREM TimeoutAlwaysSettles == Spec => TimeoutSettles
  <1> DEFINE P == run.kind = "tick" /\ pc' = "idle" =>
                     /\ (gmState' = "INITIALIZE") <=> (\A p \in Ports : ~asCapable'[p])
                     /\ gmState' = "INITIALIZE" => slave' = 0 /\ ~initdone'
  <1>1. Init => SettleInv
    BY SettleInit
  <1>2. SettleInv /\ [Next]_vars => SettleInv'
    BY SettleNext
  <1>3. SettleInv /\ [Next]_vars => [P]_vars
    <2> SUFFICES ASSUME SettleInv, [Next]_vars, run.kind = "tick", pc' = "idle"
                 PROVE  /\ (gmState' = "INITIALIZE") <=> (\A p \in Ports : ~asCapable'[p])
                        /\ gmState' = "INITIALIZE" => slave' = 0 /\ ~initdone'
      OBVIOUS
    <2>1. LastCall /\ GmSettled
      BY LastCallEnds
    <2>2. UNCHANGED <<asCapable, gmState, slave, initdone>>
      BY <2>1 DEF GmSettled, bmcsVars, gmVars
    <2>3. asCapableOrAll <=> \E p \in Ports : asCapable[p]
      BY <2>1, NobodyMeansGm
    <2>4. ~asCapableOrAll => slave = 0
      BY <2>1, NobodyMeansGm
    <2>5. gmsync >= SYNC
      BY <2>1, NobodyMeansGm DEF SettleInv, GmFits, Typed, LastCall, UNSYNC, SYNC, STABLE
    <2>6. gmState = "INITIALIZE" <=> ~asCapableOrAll
      BY <2>1, <2>5 DEF GmSettled, Running
    <2>7. gmState = "INITIALIZE" => ~initdone
      BY DEF SettleInv, GmFits
    <2> QED
      BY <2>2, <2>3, <2>4, <2>6, <2>7
  <1> QED
    BY <1>1, <1>2, <1>3, PTL DEF Spec, TimeoutSettles

-----------------------------------------------------------------------------
(* The grandmaster's own report                                            *)

\* A grandmaster is without synchronization only while a deferral is on and
\* the clock source request of the turn is still to come.
UnsyncFits ==
  slave = 0 /\ gmsync = UNSYNC =>
     deferred /\ (pc = "source" \/ (pc = "gm" /\ run.port # 0))

\* Every write of gmsync, of slave and of deferred keeps it so.
LEMMA UnsyncFitsNext ==
  ASSUME SettleInv, UnsyncFits, [Next]_vars
  PROVE  UnsyncFits'
  <1> USE DEF UnsyncFits, bmcsVars, domVars, UNSYNC, SYNC, STABLE
  <1>1. CASE UNCHANGED vars
    BY <1>1 DEF vars
  <1>2. CASE Event
    BY <1>2 DEF Event, Timeout, DevUp, DevDown, RecvPdelay, RecvAnnounce, RecvSync, Elapse,
                DomainZero
  <1>3. CASE TickPort \/ PortsDone
    BY <1>3 DEF TickPort, PortsDone
  <1>4. CASE ChangeGm
    <2>1. pc = "turn" /\ run.port # 0 /\ run' = run /\ pc' \in {"gm", "source"}
      BY <1>4, GmSyncAssumption DEF ChangeGm, ReportGm, SettleInv, Typed, Ports
    <2>2. slave' = 0 /\ gmsync' = UNSYNC => deferred'
      BY <1>4, <2>1 DEF ChangeGm, UpdtStatesTree, SelectedSync, Selects, Defers, SettleInv, Typed
    <2> QED
      BY <2>1, <2>2
  <1>5. CASE KeepGm
    BY <1>5 DEF KeepGm
  <1>6. CASE EndInitialSlave
    BY <1>6 DEF EndInitialSlave, UpdtStatesTree, SelectedSync
  <1>7. CASE EndDeferral
    BY <1>7 DEF EndDeferral
  <1>8. CASE ClockSourceReq
    BY <1>8 DEF ClockSourceReq, SourceNoNews, SourceTooEarly, SourceMeasure, SourceSync
  <1>9. CASE EnterInitialize
    BY <1>9 DEF EnterInitialize, Enter, InitialSync
  <1>10. CASE EnterUnstable \/ EnterStable \/ EnterLost
    BY <1>10 DEF EnterUnstable, EnterStable, EnterLost, Enter
  <1>11. CASE GmSettled
    BY <1>11 DEF GmSettled
  <1> QED
    BY <1>1, <1>2, <1>3, <1>4, <1>5, <1>6, <1>7, <1>8, <1>9, <1>10, <1>11 DEF Next, Step

\* A grandmaster reports itself as not synchronized only in a domain that
\* defers the report, and there only inside the turn that made it grandmaster
\* (updtStatesTree, proc_deferred_gmsync, proc_init_slave, initialize_proc,
\* receive_source_time_proc).
THEOREM GmAlwaysSynced == Spec => []GmIsSynced
  <1>1. Init => SettleInv /\ UnsyncFits
    <2>1. Init => slave # 0
      BY DEF Init
    <2> QED
      BY <2>1, SettleInit DEF UnsyncFits
  <1>2. SettleInv /\ [Next]_vars => SettleInv'
    BY SettleNext
  <1>3. SettleInv /\ UnsyncFits /\ [Next]_vars => UnsyncFits'
    BY UnsyncFitsNext
  <1>4. UnsyncFits => GmIsSynced
    BY DEF UnsyncFits, GmIsSynced
  <1> QED
    BY <1>1, <1>2, <1>3, <1>4, PTL DEF Spec

-----------------------------------------------------------------------------
(* Types                                                                   *)

\* What SettleInv does not say of the types.
OtherTypes ==
  /\ gm \in Clocks \cup {NoClock} /\ seenGm \in Clocks \cup {NoClock}
  /\ gmChange \in BOOLEAN /\ initdone \in BOOLEAN
  /\ gmsync0 \in {UNSYNC, SYNC, STABLE} /\ late \in BOOLEAN
  /\ news \in BOOLEAN /\ rateStable \in BOOLEAN /\ tuned \in BOOLEAN
  /\ offsetGM \in {"NOT", "START", "UNSTABLE", "STABLE"}

LEMMA OtherTypesStep ==
  ASSUME SettleInv, SettleInv', OtherTypes, [Next]_vars
  PROVE  OtherTypes'
  <1> USE DEF bmcsVars, gmVars, clockVars, domVars
  <1>1. CASE Event
    <2>1. CASE DomainZero
      BY <2>1 DEF DomainZero, OtherTypes
    <2>2. CASE Elapse
      BY <2>2 DEF Elapse, OtherTypes
    <2>3. CASE Timeout
      BY <2>3 DEF Timeout, OtherTypes
    <2>4. CASE \E p \in Ports : DevUp(p) \/ DevDown(p) \/ RecvPdelay(p) \/ RecvAnnounce(p)
      <3>1. UNCHANGED <<bmcsVars, gmVars, clockVars, domVars>>
        BY <2>4 DEF DevUp, DevDown, RecvPdelay, RecvAnnounce
      <3> QED
        BY <3>1 DEF OtherTypes
    <2>5. CASE \E p \in Ports : RecvSync(p)
      BY <2>5 DEF RecvSync, OtherTypes
    <2> QED
      BY <1>1, <2>1, <2>2, <2>3, <2>4, <2>5 DEF Event
  <1>2. CASE TickPort \/ PortsDone \/ EndDeferral \/ GmSettled
    BY <1>2 DEF TickPort, PortsDone, EndDeferral, GmSettled, OtherTypes
  <1>7. CASE KeepGm
    BY <1>7 DEF KeepGm, Selects, OtherTypes
  <1>3. CASE ChangeGm \/ EndInitialSlave
    <2>1. gm' = Best(heard', Lowest') /\ heard' \in [Ports -> Clocks \cup {NoClock}] /\ Lowest' \in BOOLEAN
      BY <1>3 DEF ChangeGm, EndInitialSlave, UpdtStatesTree, SettleInv, Typed, Lowest
    <2>2. gm' \in Clocks
      BY <2>1, BestFacts
    <2>3. gmChange' \in BOOLEAN /\ seenGm' \in {gm', seenGm} /\ tuned' \in BOOLEAN
      BY <1>3 DEF ChangeGm, EndInitialSlave, UpdtStatesTree, ReportGm, StillTuned, OtherTypes
    <2>4. UNCHANGED <<initdone, news, rateStable, offsetGM, gmsync0>> /\ late' \in BOOLEAN
      BY <1>3 DEF ChangeGm, EndInitialSlave, ReportGm, Selects
    <2> QED
      BY <2>2, <2>3, <2>4 DEF OtherTypes
  <1>4. CASE ClockSourceReq
    <2>1. UNCHANGED <<gm, seenGm, gmChange, initdone, gmsync0, late>>
      BY <1>4 DEF ClockSourceReq
    <2>2. CASE SourceNoNews \/ SourceTooEarly
      BY <2>1, <2>2 DEF SourceNoNews, SourceTooEarly, OtherTypes
    <2>3. CASE SourceMeasure
      <3>1. news' = FALSE /\ rateStable' \in BOOLEAN /\ tuned' \in BOOLEAN
        BY <2>3 DEF SourceMeasure
      <3>2. OffsetNext \subseteq {"NOT", "START", "UNSTABLE", "STABLE"}
        BY DEF OffsetNext, OtherTypes
      <3>3. OffsetJump \in {"NOT", "START", "UNSTABLE", "STABLE"}
        BY DEF OffsetJump
      <3>4. offsetGM' \in {"NOT", "START", "UNSTABLE", "STABLE"}
        BY <2>3, <3>2, <3>3 DEF SourceMeasure, OtherTypes
      <3> QED
        BY <2>1, <3>1, <3>4 DEF OtherTypes
    <2> QED
      BY <1>4, <2>2, <2>3 DEF ClockSourceReq
  <1>5. CASE EnterInitialize \/ EnterUnstable \/ EnterStable \/ EnterLost
    <2>1. UNCHANGED <<gm, seenGm, gmsync0, late, news, rateStable, tuned, offsetGM>>
      BY <1>5 DEF EnterInitialize, EnterUnstable, EnterStable, EnterLost, Enter, bmcsVars, clockVars, domVars
    <2>2. gmChange' \in BOOLEAN
      BY <1>5 DEF EnterInitialize, EnterUnstable, EnterStable, EnterLost, OtherTypes
    <2>3. initdone' \in BOOLEAN
      BY <1>5 DEF EnterInitialize, EnterUnstable, EnterStable, EnterLost, OtherTypes
    <2> QED
      BY <2>1, <2>2, <2>3 DEF OtherTypes
  <1>6. CASE UNCHANGED vars
    BY <1>6 DEF vars, OtherTypes
  <1> QED
    BY <1>1, <1>2, <1>3, <1>4, <1>5, <1>6, <1>7 DEF Next, Step

\* Every variable of the domain keeps its type, for any ports and clocks: the
\* port of a turn exists and the grandmaster that is chosen is a clock on offer.
THEOREM TypeCorrect == Spec => []TypeOK
  <1>1. Init => SettleInv /\ OtherTypes
    BY SettleInit DEF Init, OtherTypes
  <1>2. SettleInv /\ [Next]_vars => SettleInv'
    BY SettleNext
  <1>3. SettleInv /\ SettleInv' /\ OtherTypes /\ [Next]_vars => OtherTypes'
    BY OtherTypesStep
  <1>4. SettleInv /\ OtherTypes => TypeOK
    BY DEF SettleInv, Typed, OtherTypes, TypeOK
  <1> QED
    BY <1>1, <1>2, <1>3, <1>4, PTL DEF Spec

=============================================================================
