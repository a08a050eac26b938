--------------------------- MODULE SiteSyncProofs ---------------------------
(***************************************************************************)
(* Theorems about SiteSync, for any ports, intervals and numbers of        *)
(* messages.                                                               *)
(***************************************************************************)
EXTENDS SiteSync, TLAPS

-----------------------------------------------------------------------------
(* The parts of the state that the arguments are about                     *)

PSSync == [src : Ports \cup {0}, int : Nat, timeout : Nat \ {0}, send : Nat \ {0}]

\* A repeated Sync is the stored one, and its timeout stays or is forgotten.
SiteOK ==
    \/ /\ site.state = "INITIALIZING" /\ site.tx = None
       /\ site.timeout = 0 /\ site.send = 0
    \/ /\ site.state = "RECEIVING_SYNC" /\ site.tx \in PSSync
       /\ site.timeout \in {0, site.tx.timeout} /\ site.send = site.tx.send

StateOK ==
    /\ now \in 0 .. MaxTime /\ role \in Roles /\ cmNext \in Nat
    /\ clkInt \in Intervals \cup {ClockInterval, 0, Never}
    /\ nsync \in Nat /\ quiet \in Nat /\ SiteOK

\* The last turn of the clock master was at T; since then, or since the roles
\* changed, nothing was sent on that this turn would have sent on.
SinceTurn(T) ==
    /\ cmNext <= T + LongestInterval \/ cmNext >= Never
    /\ role[0] = "Slave" /\ gmPresent => quiet <= now - T
    /\ /\ site.tx # None /\ FromSlavePort(site.tx)
       /\ site.timeout # 0 /\ now <= site.timeout /\ T > site.send
       => quiet <= now - T

\* The stored Sync of a port was measured at m and sent on then.
SinceSync(m) ==
    site.tx # None /\ site.tx.src # 0 =>
        site.send = m + site.tx.int + site.tx.int \div 2 /\ quiet <= now - m

BridgeInv ==
    /\ StateOK /\ now <= cmNext /\ quiet <= now
    /\ \E T \in 0 .. now : SinceTurn(T)
    /\ \E m \in 0 .. now : SinceSync(m)

-----------------------------------------------------------------------------
(* The operators                                                           *)

\* No interval is longer than the longest.
LEMMA Longest ==
    /\ LongestInterval \in Nat
    /\ \A j \in Intervals \cup {ClockInterval} : j <= LongestInterval
<1> DEFINE S == Intervals \cup {ClockInterval}
<1>1. S \subseteq Nat /\ \E i \in S : \A j \in S : j <= i
  BY SiteSyncAssumption DEF SiteSyncAssumption
<1> HIDE DEF S
<1>2. LongestInterval \in S /\ \A j \in S : j <= LongestInterval
  BY <1>1 DEF LongestInterval, S
<1> QED
  BY <1>1, <1>2 DEF S

\* A measured Sync is good for some time.
LEMMA PortPSSyncFacts ==
    ASSUME NEW p \in Ports, NEW i \in Intervals, NEW t \in Nat, nsync \in Nat
    PROVE  /\ PortPSSync(p, i, t) \in PSSync /\ PortPSSync(p, i, t).timeout > t
           /\ PortPSSync(p, i, t).src = p
           /\ PortPSSync(p, i, t).send = t + PortPSSync(p, i, t).int + PortPSSync(p, i, t).int \div 2
           /\ PortPSSync(p, i, t).send \in Nat /\ PortPSSync(p, i, t).send > t
<1>1. i \in Nat \ {0} /\ SyncReceiptTimeout \in Nat \ {0}
  BY SiteSyncAssumption DEF SiteSyncAssumption
<1>2. SyncReceiptTimeout * i \in Nat \ {0}
  BY <1>1
<1>3. i \div 2 \in Nat
  BY <1>1
<1> QED
  BY <1>1, <1>2, <1>3 DEF PortPSSync, PSSync

\* What the clock master gives is good for ever.
LEMMA ClockPSSyncFacts ==
    ASSUME nsync \in Nat, clkInt \in Nat
    PROVE  /\ ClockPSSync \in PSSync /\ ClockPSSync.src = 0
           /\ ClockPSSync.timeout = Never /\ ClockPSSync.send = Never
BY DEF ClockPSSync, PSSync, Never

\* site_sync_sync_sm sends on what it is given, or what it has stored, or nothing.
SentOn(pss, t) == out' = [p \in Ports |-> IF Sends(p, pss, t) THEN pss ELSE None]

Takes(pss, t) ==
    /\ FromSlavePort(pss) \/ (LateStored(t) /\ pss.timeout # Never)
    /\ fwd' = pss /\ SentOn(pss, t) /\ quiet' = 0
    /\ site' = [state |-> "RECEIVING_SYNC", tx |-> pss, timeout |-> pss.timeout, send |-> pss.send]

Repeats(t) ==
    /\ LateStored(t) /\ t <= site.tx.timeout
    /\ fwd' = site.tx /\ SentOn(site.tx, t) /\ quiet' = 0
    /\ site'.state = site.state /\ site'.tx = site.tx
    /\ site'.timeout = site.tx.timeout /\ site'.send = site.send

Drops(pss, t) ==
    /\ ~FromSlavePort(pss) /\ ~LateStored(t)
    /\ fwd' = None /\ out' = [p \in Ports |-> None] /\ quiet' = quiet + (t - now)
    /\ site'.state = site.state /\ site'.tx = site.tx /\ site'.send = site.send
    /\ site'.timeout \in {0, site.timeout}

\* These are the outcomes of a call.
LEMMA ThroughCases ==
    ASSUME SiteOK, NEW pss \in PSSync, NEW t \in Nat, Through(pss, t)
    PROVE  Takes(pss, t) \/ Repeats(t) \/ Drops(pss, t)
<1>1. CASE ~Accepts(pss, t)
  BY <1>1 DEF Through, SiteNext, NothingSent, Drops, Accepts, SiteOK
<1>2. CASE Accepts(pss, t) /\ Chosen(pss, t) = pss /\ (FromSlavePort(pss) \/ pss.timeout # Never)
  BY <1>2 DEF Through, SiteNext, ForAll, Takes, Accepts, SentOn
<1>3. CASE LateStored(t) /\ Chosen(pss, t) = site.tx
  <2>1. Accepts(pss, t)
    BY <1>3 DEF Accepts
  <2>2. site.timeout = site.tx.timeout /\ site.send = site.tx.send /\ t <= site.timeout
        /\ site.state = "RECEIVING_SYNC"
    BY <1>3 DEF LateStored, SiteOK
  <2>3. /\ fwd' = site.tx /\ SentOn(site.tx, t) /\ quiet' = 0
        /\ site' = [state |-> "RECEIVING_SYNC", tx |-> site.tx, timeout |-> site.tx.timeout,
                    send |-> site.tx.send]
    BY <1>3, <2>1 DEF Through, SiteNext, ForAll, SentOn
  <2> QED
    BY <1>3, <2>2, <2>3 DEF Repeats
<1>4. Accepts(pss, t) => \/ Chosen(pss, t) = pss /\ (FromSlavePort(pss) \/ pss.timeout # Never)
                         \/ LateStored(t) /\ Chosen(pss, t) = site.tx
  BY DEF Accepts, Chosen
<1> QED
  BY <1>1, <1>2, <1>3, <1>4

\* What a call sends on is a good structure, and the machine has stored it.
LEMMA ThroughOK ==
    ASSUME StateOK, NEW pss \in PSSync, NEW t \in Nat, now <= t, Through(pss, t)
    PROVE  SiteOK' /\ quiet' \in Nat
<1>1. now \in Nat /\ quiet \in Nat /\ SiteOK
  BY SiteSyncAssumption DEF StateOK, SiteSyncAssumption
<1>2. CASE Takes(pss, t)
  BY <1>2 DEF Takes, SiteOK
<1>3. CASE Repeats(t)
  BY <1>1, <1>3 DEF Repeats, LateStored, SiteOK
<1>4. CASE Drops(pss, t)
  BY <1>1, <1>4 DEF Drops, SiteOK
<1> QED
  BY <1>1, <1>2, <1>3, <1>4, ThroughCases

-----------------------------------------------------------------------------
(* The steps                                                               *)

\* A step is a call for a measured Sync, a turn of the clock master, a tick
\* without one, or a change of what the machines read.
Measured(p, i) ==
    /\ Through(PortPSSync(p, i, now), now) /\ nsync' = nsync + 1
    /\ UNCHANGED <<now, role, gmPresent, clkInt, cmNext>>
Turn ==
    /\ now < MaxTime /\ now' = now + 1 /\ cmNext <= now'
    /\ Through(ClockPSSync, now') /\ cmNext' = now' + clkInt
    /\ UNCHANGED <<role, gmPresent, clkInt, nsync>>
Tick ==
    /\ now < MaxTime /\ now' = now + 1 /\ ~(now' >= cmNext)
    /\ NothingSent /\ quiet' = quiet + 1
    /\ UNCHANGED <<role, gmPresent, clkInt, cmNext, site, nsync>>
Changes ==
    /\ fwd' = None /\ out' = [p \in Ports |-> None] /\ UNCHANGED <<now, cmNext, site, nsync>>
    /\ role' \in Roles /\ (quiet' = 0 \/ UNCHANGED <<role, gmPresent, quiet>>)
    /\ clkInt' \in Intervals \cup {0, Never, clkInt}

\* These are all steps.
LEMMA StepCases ==
    ASSUME StateOK, [Next]_vars
    PROVE  \/ \E p \in Ports, i \in Intervals : Measured(p, i)
           \/ Turn \/ Tick \/ Changes \/ UNCHANGED vars
<1>1. now \in Nat /\ cmNext \in Nat /\ role \in Roles
  BY SiteSyncAssumption DEF StateOK, SiteSyncAssumption
<1>2. CASE SyncMeasured
  BY <1>2 DEF SyncMeasured, Measured
<1>3. CASE Timeout
  BY <1>1, <1>3 DEF Timeout, Turn, Tick
<1>4. CASE SetRoles
  BY <1>1, <1>4 DEF SetRoles, Change, Changes
<1>5. CASE SetCapable
  BY <1>1, <1>5 DEF SetCapable, Change, Changes
<1>6. CASE SetInterval
  <2>1. clkInt' \in Intervals \cup {0, Never, clkInt}
    BY <1>6 DEF SetInterval
  <2> QED
    BY <1>1, <1>6, <2>1 DEF SetInterval, Change, Changes
<1> QED
  BY <1>2, <1>3, <1>4, <1>5, <1>6 DEF Next

\* The state stays well formed.
LEMMA StateStep ==
    ASSUME StateOK, [Next]_vars
    PROVE  StateOK'
<1>1. /\ now \in 0 .. MaxTime /\ now \in Nat /\ role \in Roles /\ clkInt \in Nat /\ cmNext \in Nat
      /\ nsync \in Nat /\ quiet \in Nat /\ SiteOK /\ MaxTime \in Nat
  BY SiteSyncAssumption DEF StateOK, SiteSyncAssumption, Never
<1>2. ASSUME NEW p \in Ports, NEW i \in Intervals, Measured(p, i)
      PROVE  StateOK'
  <2>1. SiteOK' /\ quiet' \in Nat
    BY <1>1, <1>2, PortPSSyncFacts, ThroughOK DEF Measured
  <2> QED
    BY <1>1, <1>2, <2>1 DEF StateOK, Measured
<1>3. CASE Turn
  <2>1. now' \in Nat /\ now <= now' /\ now' \in 0 .. MaxTime /\ cmNext' \in Nat
    BY <1>1, <1>3 DEF Turn
  <2>2. SiteOK' /\ quiet' \in Nat
    BY <1>1, <1>3, <2>1, ClockPSSyncFacts, ThroughOK DEF Turn
  <2> QED
    BY <1>1, <1>3, <2>1, <2>2 DEF StateOK, Turn
<1>4. CASE Tick
  BY <1>1, <1>4 DEF StateOK, Tick, SiteOK
<1>5. CASE Changes
  BY <1>1, <1>5 DEF StateOK, Changes, SiteOK
<1>6. CASE UNCHANGED vars
  BY <1>6, <1>1 DEF vars, StateOK, SiteOK
<1> QED
  BY <1>2, <1>3, <1>4, <1>5, <1>6, StepCases

\* The state at the start is well formed.
LEMMA StateInit == Init => StateOK
BY SiteSyncAssumption DEF SiteSyncAssumption, Init, StateOK, SiteOK

-----------------------------------------------------------------------------
(* Nothing expired is sent on                                              *)

\* Nothing is sent on after its syncReceiptTimeoutTime, however a measured Sync,
\* the turns of the clock master and changes of the roles follow each other.
THEOREM NothingEverExpired == Spec => []NothingExpired
<1>1. Init => NothingExpired
  BY DEF Init, NothingExpired
<1>2. StateOK /\ NothingExpired /\ [Next]_vars => NothingExpired'
  <2> SUFFICES ASSUME StateOK, NothingExpired, [Next]_vars PROVE NothingExpired'
    OBVIOUS
  <2>1. /\ now \in Nat /\ now <= MaxTime /\ nsync \in Nat /\ clkInt \in Nat /\ SiteOK
        /\ MaxTime \in Nat /\ Never \in Nat /\ MaxTime <= Never
    BY SiteSyncAssumption DEF StateOK, SiteSyncAssumption, Never
  <2>2. ASSUME NEW pss \in PSSync, NEW t \in Nat, Through(pss, t), t <= pss.timeout
        PROVE  fwd' = None \/ t <= fwd'.timeout
    BY <2>1, <2>2, ThroughCases DEF Takes, Repeats, Drops
  <2>3. ASSUME NEW p \in Ports, NEW i \in Intervals, Measured(p, i)
        PROVE  NothingExpired'
    BY <2>1, <2>2, <2>3, PortPSSyncFacts DEF Measured, NothingExpired, PSSync
  <2>4. CASE Turn
    <3>1. now' \in Nat /\ now' <= Never
      BY <2>1, <2>4 DEF Turn
    <3> QED
      BY <2>1, <2>2, <2>4, <3>1, ClockPSSyncFacts DEF Turn, NothingExpired
  <2>5. CASE Tick \/ Changes
    BY <2>5 DEF Tick, Changes, NothingSent, NothingExpired
  <2>6. CASE UNCHANGED vars
    BY <2>6 DEF vars, NothingExpired
  <2> QED
    BY <2>3, <2>4, <2>5, <2>6, StepCases
<1> QED
  BY <1>1, <1>2, StateInit, StateStep, PTL DEF Spec

-----------------------------------------------------------------------------
(* Nothing is sent back                                                    *)

\* A port that is not the slave port is not sent its own Sync.
LEMMA NotSentBack ==
    ASSUME NEW p \in Ports, NEW pss \in PSSync, NEW t, role \in Roles,
           FromSlavePort(pss), Sends(p, pss, t)
    PROVE  pss.src # p
<1>1. role[pss.src] = "Slave"
  BY DEF FromSlavePort
<1>2. pss.src = p => role[p] = "Master"
  BY DEF Sends, MayStart, MayGoOn
<1> QED
  BY <1>1, <1>2

\* No port sends back what it has received itself, whatever source the Sync
\* before had, except for the substitute of an overdue Sync.
THEOREM NeverEchoes == Spec => []NoEcho
<1>1. Init => NoEcho
  BY DEF Init, NoEcho
<1>2. StateOK /\ NoEcho /\ [Next]_vars => NoEcho'
  <2> SUFFICES ASSUME StateOK, NoEcho, [Next]_vars PROVE NoEcho'
    OBVIOUS
  <2>1. now \in Nat /\ nsync \in Nat /\ clkInt \in Nat /\ SiteOK /\ role \in Roles
    BY SiteSyncAssumption DEF StateOK, SiteSyncAssumption, Never
  <2>2. 0 \notin Ports
    BY SiteSyncAssumption DEF SiteSyncAssumption
  <2>3. ASSUME NEW pss \in PSSync, NEW t \in Nat, Through(pss, t),
               pss.timeout = Never \/ (pss.src # 0 /\ now' < pss.send)
        PROVE  NoEcho'
    <3> SUFFICES ASSUME NEW p \in Ports, out'[p] # None, ~(overdue' /\ fwd'.src # 0 /\ now' < fwd'.send)
                 PROVE  out'[p].src # p
      BY DEF NoEcho, Substitute
    <3>1. CASE Takes(pss, t)
      <4>1. out'[p] = pss /\ Sends(p, pss, t)
        BY <3>1 DEF Takes, SentOn
      <4>2. FromSlavePort(pss)
        BY <2>3, <3>1 DEF Takes, Through
      <4> QED
        BY <2>1, <4>1, <4>2, NotSentBack
    <3>2. CASE Repeats(t)
      <4>1. out'[p] = site.tx /\ Sends(p, site.tx, t)
        BY <3>2 DEF Repeats, SentOn
      <4>2. FromSlavePort(site.tx) /\ site.tx \in PSSync
        BY <2>1, <3>2 DEF Repeats, LateStored, SiteOK
      <4> QED
        BY <2>1, <4>1, <4>2, NotSentBack
    <3>3. CASE Drops(pss, t)
      BY <3>3 DEF Drops
    <3> QED
      BY <2>1, <2>3, <3>1, <3>2, <3>3, ThroughCases
  <2>4. ASSUME NEW p \in Ports, NEW i \in Intervals, Measured(p, i)
        PROVE  NoEcho'
    BY <2>1, <2>2, <2>3, <2>4, PortPSSyncFacts DEF Measured
  <2>5. CASE Turn
    <3>1. now' \in Nat
      BY <2>1, <2>5 DEF Turn
    <3> QED
      BY <2>1, <2>3, <2>5, <3>1, ClockPSSyncFacts DEF Turn
  <2>6. CASE Tick \/ Changes
    BY <2>6 DEF Tick, Changes, NothingSent, NoEcho
  <2>7. CASE UNCHANGED vars
    BY <2>7 DEF vars, NoEcho, Substitute
  <2> QED
    BY <2>4, <2>5, <2>6, <2>7, StepCases
<1> QED
  BY <1>1, <1>2, StateInit, StateStep, PTL DEF Spec

-----------------------------------------------------------------------------
(* A lost Sync is bridged                                                  *)

\* The invariant holds at the start.
LEMMA BridgeInit == Init => BridgeInv
<1> SUFFICES ASSUME Init PROVE BridgeInv
  OBVIOUS
<1>1. StateOK /\ now = 0 /\ quiet = 0 /\ cmNext = ClockInterval /\ site.tx = None
  BY StateInit DEF Init
<1>2. ClockInterval \in Nat /\ ClockInterval <= LongestInterval /\ LongestInterval \in Nat
  BY Longest, SiteSyncAssumption DEF SiteSyncAssumption
<1>3. SinceTurn(0) /\ SinceSync(0)
  BY <1>1, <1>2 DEF SinceTurn, SinceSync
<1> QED
  BY <1>1, <1>2, <1>3 DEF BridgeInv

\* A turn of the clock master is a new beginning: whatever it could have sent on
\* it has sent on.
LEMMA TurnBridges ==
    ASSUME BridgeInv, StateOK', Turn
    PROVE  BridgeInv'
<1>1. /\ now \in Nat /\ now' = now + 1 /\ now' \in Nat /\ quiet \in Nat /\ nsync \in Nat
      /\ cmNext' = now' + clkInt /\ quiet <= now /\ SiteOK /\ role' = role /\ gmPresent' = gmPresent
  BY SiteSyncAssumption DEF BridgeInv, StateOK, Turn, SiteSyncAssumption
<1>0. PICK t \in Nat : t = now'
  BY <1>1
<1>2. clkInt \in Nat /\ (clkInt <= LongestInterval \/ clkInt >= Never) /\ LongestInterval \in Nat
  BY Longest, SiteSyncAssumption DEF BridgeInv, StateOK, Never, SiteSyncAssumption
<1>3. \/ Takes(ClockPSSync, now') \/ Repeats(now') \/ Drops(ClockPSSync, now')
  BY <1>1, <1>2, ThroughCases, ClockPSSyncFacts DEF Turn
<1>4. quiet' <= now' /\ quiet' \in Nat /\ now' <= cmNext'
      /\ (cmNext' <= now' + LongestInterval \/ cmNext' >= Never)
  BY <1>1, <1>2, <1>3 DEF Takes, Repeats, Drops, Never
<1>5. PICK m \in 0 .. now : SinceSync(m)
  BY DEF BridgeInv
<1>6. CASE Takes(ClockPSSync, now')
  <2>1. site'.tx.src = 0 /\ quiet' = 0
    BY <1>1, <1>2, <1>6, ClockPSSyncFacts DEF Takes
  <2>2. SinceTurn(t)'
    BY <1>0, <1>1, <1>4, <2>1 DEF SinceTurn
  <2>3. SinceSync(t)'
    BY <2>1 DEF SinceSync
  <2> QED
    BY <1>0, <1>1, <1>4, <2>2, <2>3 DEF BridgeInv
<1>7. CASE Repeats(now')
  <2>1. site'.tx = site.tx /\ site'.send = site.send /\ quiet' = 0
    BY <1>7 DEF Repeats
  <2>2. SinceTurn(t)'
    BY <1>0, <1>1, <1>4, <2>1 DEF SinceTurn
  <2>3. SinceSync(m)'
    BY <1>1, <1>5, <2>1 DEF SinceSync
  <2> QED
    BY <1>0, <1>1, <1>4, <1>5, <2>2, <2>3 DEF BridgeInv
<1>8. CASE Drops(ClockPSSync, now')
  <2>1. /\ site'.tx = site.tx /\ site'.send = site.send /\ site'.timeout \in {0, site.timeout}
        /\ quiet' = quiet + 1 /\ ~FromSlavePort(ClockPSSync) /\ ~LateStored(now')
    BY <1>1, <1>8 DEF Drops
  <2>2. ~(role'[0] = "Slave" /\ gmPresent')
    BY <1>1, <1>2, <2>1, ClockPSSyncFacts DEF FromSlavePort
  <2>3. ~(/\ site'.tx # None /\ (FromSlavePort(site.tx))'
          /\ site'.timeout # 0 /\ now' <= site'.timeout /\ now' > site'.send)
    BY <1>1, <2>1 DEF LateStored, FromSlavePort, SiteOK, PSSync
  <2>4. SinceTurn(t)'
    BY <1>0, <1>1, <1>4, <2>2, <2>3 DEF SinceTurn
  <2>5. SinceSync(m)'
    BY <1>1, <1>5, <2>1 DEF SinceSync
  <2> QED
    BY <1>0, <1>1, <1>4, <1>5, <2>4, <2>5 DEF BridgeInv
<1> QED
  BY <1>3, <1>6, <1>7, <1>8

\* A measured Sync is sent on at once, or changes nothing that matters.
LEMMA MeasuredBridges ==
    ASSUME BridgeInv, StateOK', NEW p \in Ports, NEW i \in Intervals, Measured(p, i)
    PROVE  BridgeInv'
<1> DEFINE pss == PortPSSync(p, i, now)
<1>1. /\ now \in Nat /\ now' = now /\ quiet \in Nat /\ nsync \in Nat /\ quiet <= now /\ SiteOK
      /\ role' = role /\ gmPresent' = gmPresent /\ cmNext' = cmNext /\ now <= cmNext
  BY SiteSyncAssumption DEF BridgeInv, StateOK, Measured, SiteSyncAssumption
<1>2. /\ pss \in PSSync /\ pss.src = p /\ pss.send = now + pss.int + pss.int \div 2
      /\ pss.send \in Nat /\ pss.send > now
  BY <1>1, PortPSSyncFacts
<1>3. PICK T \in 0 .. now : SinceTurn(T)
  BY DEF BridgeInv
<1>4. PICK m \in 0 .. now : SinceSync(m)
  BY DEF BridgeInv
<1>5. Takes(pss, now) \/ Repeats(now) \/ Drops(pss, now)
  BY <1>1, <1>2, ThroughCases DEF Measured
<1>6. quiet' <= now' /\ quiet' \in {0, quiet}
  BY <1>1, <1>5 DEF Takes, Repeats, Drops
<1> HIDE DEF pss
<1>7. CASE Takes(pss, now)
  <2>1. site'.tx = pss /\ site'.send = pss.send /\ quiet' = 0
    BY <1>7 DEF Takes
  <2>2. SinceTurn(T)'
    BY <1>1, <1>2, <1>3, <2>1 DEF SinceTurn
  <2>3. SinceSync(now)'
    BY <1>1, <1>2, <2>1 DEF SinceSync
  <2> QED
    BY <1>1, <1>3, <1>6, <2>2, <2>3 DEF BridgeInv
<1>8. CASE Repeats(now) \/ Drops(pss, now)
  <2>1. site'.tx = site.tx /\ site'.send = site.send
    BY <1>8 DEF Repeats, Drops
  <2>2. quiet' = 0 \/ (quiet' = quiet /\ site'.timeout \in {0, site.timeout})
    BY <1>1, <1>8 DEF Repeats, Drops
  <2>3. SinceTurn(T)'
    BY <1>1, <1>3, <2>1, <2>2 DEF SinceTurn, FromSlavePort
  <2>4. SinceSync(m)'
    BY <1>1, <1>4, <1>6, <2>1 DEF SinceSync
  <2> QED
    BY <1>1, <1>3, <1>4, <1>6, <2>3, <2>4 DEF BridgeInv
<1> QED
  BY <1>5, <1>7, <1>8

\* Every step keeps the invariant.
LEMMA BridgeStep ==
    ASSUME BridgeInv, [Next]_vars
    PROVE  BridgeInv'
<1>1. StateOK /\ StateOK' /\ quiet \in Nat /\ quiet <= now /\ now <= cmNext /\ now \in Nat
      /\ cmNext \in Nat /\ site.timeout \in Nat
  BY StateStep, SiteSyncAssumption DEF BridgeInv, StateOK, SiteOK, PSSync, SiteSyncAssumption
<1>2. PICK T \in 0 .. now : SinceTurn(T)
  BY DEF BridgeInv
<1>3. PICK m \in 0 .. now : SinceSync(m)
  BY DEF BridgeInv
<1>4. CASE Tick
  <2>1. /\ now' = now + 1 /\ now' <= cmNext' /\ quiet' = quiet + 1 /\ site' = site
        /\ role' = role /\ gmPresent' = gmPresent /\ cmNext' = cmNext
    BY <1>1, <1>4 DEF Tick
  <2>2. SinceTurn(T)' /\ SinceSync(m)'
    BY <1>1, <1>2, <1>3, <2>1 DEF SinceTurn, SinceSync, FromSlavePort
  <2> QED
    BY <1>1, <2>1, <2>2 DEF BridgeInv
<1>5. CASE Changes
  <2>1. /\ now' = now /\ cmNext' = cmNext /\ site' = site
        /\ quiet' = 0 \/ (role' = role /\ gmPresent' = gmPresent /\ quiet' = quiet)
    BY <1>5 DEF Changes
  <2>2. SinceTurn(T)' /\ SinceSync(m)'
    BY <1>1, <1>2, <1>3, <2>1 DEF SinceTurn, SinceSync, FromSlavePort
  <2> QED
    BY <1>1, <2>1, <2>2 DEF BridgeInv
<1>6. CASE UNCHANGED vars
  BY <1>1, <1>2, <1>3, <1>6 DEF vars, BridgeInv, SinceTurn, SinceSync, FromSlavePort
<1> QED
  BY <1>1, <1>4, <1>5, <1>6, StepCases, TurnBridges, MeasuredBridges

\* While the roles stay and the stored Sync is good, the ports are not left
\* without a Sync for longer than one and a half intervals and the time to the
\* next turn of the clock master.
THEOREM LossAlwaysBridged == Spec => []LossIsBridged
<1>1. BridgeInv => LossIsBridged
  <2> SUFFICES ASSUME BridgeInv, site.tx # None, FromSlavePort(site.tx), now <= site.timeout,
                      ~(cmNext >= Never)
               PROVE  quiet <= site.tx.int + site.tx.int \div 2 + LongestInterval
    BY DEF LossIsBridged
  <2>1. PICK T \in 0 .. now : SinceTurn(T)
    BY DEF BridgeInv
  <2>2. PICK m \in 0 .. now : SinceSync(m)
    BY DEF BridgeInv
  <2>3. /\ now \in Nat /\ now <= cmNext /\ quiet \in Nat /\ quiet <= now /\ cmNext \in Nat
        /\ site.tx \in PSSync /\ cmNext <= T + LongestInterval /\ LongestInterval \in Nat
        /\ site.send \in Nat
    BY <2>1, Longest, SiteSyncAssumption DEF BridgeInv, StateOK, SiteOK, SinceTurn, SiteSyncAssumption,
         PSSync
  <2>4. site.tx.int \in Nat /\ site.tx.int \div 2 \in Nat
    BY <2>3 DEF PSSync
  <2>5. quiet <= now - T => quiet <= LongestInterval
    BY <2>3
  <2>6. CASE site.tx.src = 0
    BY <2>1, <2>3, <2>4, <2>5, <2>6 DEF SinceTurn, FromSlavePort
  <2>7. CASE site.tx.src # 0 /\ site.timeout # 0 /\ T > site.send
    BY <2>1, <2>3, <2>4, <2>5, <2>7 DEF SinceTurn
  <2>8. CASE site.tx.src # 0 /\ site.timeout = 0
    BY <2>3, <2>4, <2>8
  <2>9. CASE site.tx.src # 0 /\ T <= site.send
    <3>1. site.send = m + site.tx.int + site.tx.int \div 2 /\ quiet <= now - m
      BY <2>2, <2>9 DEF SinceSync
    <3> QED
      BY <2>3, <2>4, <2>9, <3>1
  <2> QED
    BY <2>3, <2>6, <2>7, <2>8, <2>9
<1> QED
  BY <1>1, BridgeInit, BridgeStep, PTL DEF Spec

-----------------------------------------------------------------------------
(* Types                                                                   *)

\* The record of a machine has a state, a source and a flag.
IsMachine(r) ==
    /\ DOMAIN r = {"state", "src", "timeout", "sent", "int1", "locked"}
    /\ r.state \in {"INIT", "TRANSMIT_INIT", "SEND_MD_SYNC", "SYNC_RECEIPT_TIMEOUT"}
    /\ r.src \in Ports \cup {0} /\ r.locked \in BOOLEAN

OtherTypes ==
    /\ gmPresent \in BOOLEAN /\ capable \in [Ports -> BOOLEAN]
    /\ logInt \in [Ports -> Intervals \cup {Stop}]
    /\ changes \in 0 .. MaxChange /\ nsync \in 0 .. MaxSync /\ overdue \in BOOLEAN
    /\ DOMAIN snd = Ports
    /\ \A p \in Ports : IsMachine(snd[p]) /\ out[p] \in {None, fwd}

\* The next record of the machine of a port is one again.
LEMMA SndNextOK ==
    ASSUME OtherTypes, NEW pss \in PSSync, NEW t \in Nat, NEW p \in Ports
    PROVE  IsMachine(SndNext(p, pss, t))
<1>1. CASE Sends(p, pss, t)
  <2> DEFINE same == pss.int = logInt[p]
  <2>1. pss.src \in Ports \cup {0} /\ same \in BOOLEAN
    BY DEF PSSync
  <2>2. SndNext(p, pss, t) =
           [state |-> "SEND_MD_SYNC", src |-> pss.src, timeout |-> pss.timeout, sent |-> t,
            int1 |-> logInt[p], locked |-> same]
    BY <1>1 DEF SndNext
  <2> HIDE DEF same
  <2>3. SndNext(p, pss, t).locked = same
    BY <2>2
  <2> QED
    BY <2>1, <2>2, <2>3 DEF IsMachine
<1>2. CASE ~Sends(p, pss, t)
  <2>1. SndState(p, pss, t) \in {"INIT", "TRANSMIT_INIT", "SEND_MD_SYNC", "SYNC_RECEIPT_TIMEOUT"}
    BY DEF SndState, OtherTypes, IsMachine
  <2>2. SndNext(p, pss, t) = [snd[p] EXCEPT !.state = SndState(p, pss, t)] /\ IsMachine(snd[p])
    BY <1>2 DEF SndNext, OtherTypes
  <2> QED
    BY <2>1, <2>2 DEF IsMachine
<1> QED
  BY <1>1, <1>2

\* A call keeps the machines of the ports well formed.
LEMMA ThroughTypes ==
    ASSUME OtherTypes, SiteOK, NEW pss \in PSSync, NEW t \in Nat, Through(pss, t)
    PROVE  /\ overdue' \in BOOLEAN /\ DOMAIN snd' = Ports
           /\ \A p \in Ports : IsMachine(snd'[p]) /\ out'[p] \in {None, fwd'}
<1>1. overdue' \in BOOLEAN
  BY DEF Through, LateStored
<1>2. CASE ~Accepts(pss, t)
  BY <1>1, <1>2 DEF Through, NothingSent, OtherTypes
<1>3. CASE Accepts(pss, t)
  <2> DEFINE c == Chosen(pss, t)
  <2>1. c \in PSSync
    <3>1. LateStored(t) => site.tx \in PSSync
      BY DEF LateStored, SiteOK
    <3> QED
      BY <3>1 DEF Chosen
  <2>2. /\ fwd' = c /\ snd' = [p \in Ports |-> SndNext(p, c, t)]
        /\ out' = [p \in Ports |-> IF Sends(p, c, t) THEN c ELSE None]
    BY <1>3 DEF Through, ForAll
  <2> HIDE DEF c
  <2>3. ASSUME NEW p \in Ports
        PROVE  IsMachine(snd'[p]) /\ out'[p] \in {None, fwd'}
    BY <2>1, <2>2, SndNextOK
  <2> QED
    BY <1>1, <2>2, <2>3
<1> QED
  BY <1>2, <1>3

\* Every step keeps the types.
LEMMA OtherTypesStep ==
    ASSUME StateOK, OtherTypes, [Next]_vars
    PROVE  OtherTypes'
<1>1. /\ now \in Nat /\ nsync \in Nat /\ clkInt \in Nat /\ SiteOK /\ MaxSync \in Nat
      /\ MaxChange \in Nat
  BY SiteSyncAssumption DEF StateOK, SiteSyncAssumption, Never
<1>2. CASE SyncMeasured
  <2>1. PICK p \in Ports, i \in Intervals : Through(PortPSSync(p, i, now), now)
    BY <1>2 DEF SyncMeasured
  <2>2. PortPSSync(p, i, now) \in PSSync
    BY <1>1, PortPSSyncFacts
  <2>3. nsync' \in 0 .. MaxSync
    BY <1>1, <1>2 DEF SyncMeasured
  <2> QED
    BY <1>1, <1>2, <2>1, <2>2, <2>3, ThroughTypes DEF SyncMeasured, OtherTypes
<1>3. CASE Timeout
  <2>1. now' \in Nat
    BY <1>1, <1>3 DEF Timeout
  <2>2. CASE now' >= cmNext
    BY <1>1, <1>3, <2>1, <2>2, ClockPSSyncFacts, ThroughTypes DEF Timeout, OtherTypes
  <2>3. CASE ~(now' >= cmNext)
    BY <1>3, <2>3 DEF Timeout, NothingSent, OtherTypes
  <2> QED
    BY <2>2, <2>3
<1>4. CASE SetRoles \/ SetCapable \/ SetInterval
  <2>1. Change /\ UNCHANGED <<snd, nsync>> /\ overdue' \in BOOLEAN
    BY <1>4 DEF SetRoles, SetCapable, SetInterval, Change
  <2>2. changes' \in 0 .. MaxChange
    BY <1>1, <2>1 DEF Change, OtherTypes
  <2>3. \A p \in Ports : IsMachine(snd'[p]) /\ out'[p] \in {None, fwd'}
    BY <2>1 DEF Change, OtherTypes
  <2>4. gmPresent' \in BOOLEAN /\ capable' \in [Ports -> BOOLEAN]
        /\ logInt' \in [Ports -> Intervals \cup {Stop}]
    BY <1>4 DEF SetRoles, SetCapable, SetInterval, OtherTypes
  <2> QED
    BY <2>1, <2>2, <2>3, <2>4 DEF OtherTypes
<1>5. CASE UNCHANGED vars
  BY <1>5 DEF vars, OtherTypes
<1> QED
  BY <1>2, <1>3, <1>4, <1>5 DEF Next

\* Every variable keeps its type: site_sync_sync_sm has a stored structure once
\* it has left INITIALIZING, the source a port remembers is a port of the
\* system, and no port sends another structure than the one that went to all.
THEOREM TypeCorrect == Spec => []TypeOK
<1>1. Init => StateOK /\ OtherTypes
  <2> SUFFICES ASSUME Init PROVE OtherTypes
    BY StateInit
  <2>1. MaxChange \in Nat /\ MaxSync \in Nat
    BY SiteSyncAssumption DEF SiteSyncAssumption
  <2>2. gmPresent \in BOOLEAN /\ capable \in [Ports -> BOOLEAN] /\ overdue \in BOOLEAN
    BY DEF Init
  <2>3. DOMAIN snd = Ports /\ IsMachine(SndInit) /\ \A p \in Ports : out[p] = None
    BY DEF Init, SndInit, IsMachine
  <2>4. \A p \in Ports : IsMachine(snd[p])
    BY <2>3 DEF Init
  <2>5. logInt \in [Ports -> Intervals \cup {Stop}]
    BY DEF Init
  <2> QED
    BY <2>1, <2>2, <2>3, <2>4, <2>5 DEF Init, OtherTypes
<1>2. StateOK /\ OtherTypes /\ [Next]_vars => StateOK' /\ OtherTypes'
  BY StateStep, OtherTypesStep
<1>3. StateOK /\ OtherTypes => TypeOK
  <2> SUFFICES ASSUME StateOK, OtherTypes PROVE TypeOK
    OBVIOUS
  <2>1. /\ site.state = IF site.tx = None THEN "INITIALIZING" ELSE "RECEIVING_SYNC"
        /\ site.timeout \in {0, site.tx.timeout} /\ site.send = site.tx.send
    <3>1. None \notin PSSync
      <4>1. None.src = -1 /\ -1 \notin Ports \cup {0}
        BY SiteSyncAssumption DEF None, SiteSyncAssumption
      <4> QED
        BY <4>1 DEF PSSync
    <3> QED
      BY <3>1 DEF StateOK, SiteOK, None
  <2> QED
    BY <2>1 DEF StateOK, OtherTypes, IsMachine, TypeOK
<1> QED
  BY <1>1, <1>2, <1>3, PTL DEF Spec

=============================================================================
