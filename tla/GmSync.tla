------------------------------- MODULE GmSync -------------------------------
(***************************************************************************)
(* What one domain of tsn_gptp reports about its synchronization, gmsync:  *)
(* the gm_stable_sm machine, the quality of the clock that                 *)
(* clock_master_sync_receive_sm keeps, and the writes that the selection   *)
(* of port states makes when the grandmaster changes, in the order in      *)
(* which gptpman.c calls them.                                             *)
(*                                                                         *)
(* The selection itself is module Bmcs.  Here a clock is a number, smaller *)
(* is better, heard[p] is the grandmaster offered on port p, and a vector  *)
(* may change without a change of grandmaster or of slave port             *)
(* (stepsRemoved).  The rate and phase computations are reduced to the     *)
(* states they move between; which threshold a measurement meets is free.  *)
(*                                                                         *)
(* A domain above 0, and domain 0 with an INITIAL_SLAVE_TIME, defer the    *)
(* report of a grandmaster (deferred_gmsync): the first until domain 0 is  *)
(* stable, the second until its initial slave time is over, during which   *)
(* this clock takes part in the selection with the lowest priority.        *)
(*                                                                         *)
(* Left out: STATIC_PORT_STATE_SLAVE_PORT, with which init_bridge_proc and *)
(* site_sync_sync_sm write gmsync and no port state is ever selected.      *)
(***************************************************************************)
EXTENDS Integers

CONSTANTS
    N,           \* external ports are 1..N
    Clocks,      \* clock identities
    ThisClock,   \* ptasg->thisClock
    QuickSync    \* XL4_EXTMOD_XL4GPTP_QUICK_SYNC_ALGO

Ports == 1..N

NoClock == 0

ASSUME GmSyncAssumption ==
    /\ N \in Nat \ {0}
    /\ Clocks \subseteq Nat \ {0} /\ ThisClock \in Clocks
    /\ QuickSync \in BOOLEAN

UNSYNC == 0
SYNC   == 1
STABLE == 2

VARIABLES
    asCapable, asCapableOrAll,
    heard,          \* grandmaster that port p's information offers, or NoClock
    slave,          \* slave port; 0: this clock is GM; -1: none selected yet
    gm,             \* gmPriority.rootSystemIdentity.clockIdentity
    gmState,        \* gm_stable_sm: state
    gmChange,       \* gm_stable_sm: gm_change
    seenGm,         \* gm_stable_sm: clockIdentity
    initdone,       \* ptasg->gm_stable_initdone
    gmsync,         \* pp->gmsync of the domain
    domain,         \* "zero", "initialSlave" (zero with that time) or "other"
    gmsync0,        \* gmsync of domain 0, for an "other" domain
    deferred,       \* port_state_selection_sm: deferred_gmsync
    late,           \* its init_slave_ts has passed
    news,           \* syncReceiptTime differs from last_mts and last_lts
    rateStable,     \* clock_master_sync_receive_sm: rate_is_stable
    offsetGM,       \* clock_master_sync_receive_sm: offsetGM_stable
    tuned,          \* its gmchange_ind is set and is the one of gptpclock
    pc, run         \* the running handler

bmcsVars  == <<heard, slave, gm>>
gmVars    == <<gmState, gmChange, seenGm, initdone>>
clockVars == <<news, rateStable, offsetGM, tuned>>
domVars   == <<domain, gmsync0, deferred, late>>
vars == <<asCapable, asCapableOrAll, bmcsVars, gmVars, gmsync, clockVars,
          domVars, pc, run>>

\* run.port is the port in turn, 0 before the first and after the last one.
Idle == [port |-> 0, kind |-> "other"]

Init ==
    /\ asCapable = [p \in Ports |-> FALSE] /\ asCapableOrAll = FALSE
    /\ heard = [p \in Ports |-> NoClock] /\ slave = -1 /\ gm = NoClock
    /\ gmState = "INIT" /\ gmChange = FALSE /\ seenGm = NoClock
    /\ initdone = FALSE /\ gmsync = UNSYNC
    /\ domain \in {"zero", "initialSlave", "other"} /\ gmsync0 = UNSYNC
    /\ deferred = FALSE /\ late = FALSE
    /\ news = FALSE /\ rateStable = FALSE /\ offsetGM = "START" /\ tuned = FALSE
    /\ pc = "idle" /\ run = Idle

-----------------------------------------------------------------------------
(* Events: gptpnet_cb                                                      *)

\* A full timeout: Sync that clock_master_sync_send_sm and site_sync_sync_sm
\* let through, then the ports in turn.
Timeout ==
    /\ pc = "idle"
    /\ run' = [port |-> 0, kind |-> "tick"]
    /\ pc' \in {"port"} \cup (IF slave >= 0 THEN {"source"} ELSE {})
    /\ UNCHANGED <<asCapable, asCapableOrAll, bmcsVars, gmVars, gmsync, clockVars,
                   domVars>>

\* Mutant: asCapableOrAll is that of the last port.
TickPortLast ==
    LET p == run.port + 1
    IN  /\ pc = "port" /\ p \in Ports
        /\ \E c \in BOOLEAN :
              /\ asCapable' = [asCapable EXCEPT ![p] = c]
              /\ asCapableOrAll' = c
        /\ run' = [run EXCEPT !.port = p]
        /\ pc' = "turn"
        /\ UNCHANGED <<bmcsVars, gmVars, gmsync, clockVars, domVars>>

\* The next port of the timeout: set_asCapable.  asCapableOrAll is cleared
\* before the first port and collects the ports that have had their turn.
TickPort ==
    LET p == run.port + 1
    IN  /\ pc = "port" /\ p \in Ports
        /\ \E c \in BOOLEAN :
              /\ asCapable' = [asCapable EXCEPT ![p] = c]
              /\ asCapableOrAll' = (c \/ (p > 1 /\ asCapableOrAll))
        /\ run' = [run EXCEPT !.port = p]
        /\ pc' = "turn"
        /\ UNCHANGED <<bmcsVars, gmVars, gmsync, clockVars, domVars>>

\* After the last port of a timeout gm_stable_sm runs.
PortsDone ==
    /\ pc = "port" /\ run.port = N
    /\ run' = [run EXCEPT !.port = 0]
    /\ pc' = "gm"
    /\ UNCHANGED <<asCapable, asCapableOrAll, bmcsVars, gmVars, gmsync, clockVars,
                   domVars>>

\* gptpnet_cb_devup: update_asCapable_for_all looks at this port only.
DevUp(p) ==
    /\ pc = "idle"
    /\ \E c \in BOOLEAN :
          asCapable' = [asCapable EXCEPT ![p] = c] /\ asCapableOrAll' = c
    /\ run' = [port |-> p, kind |-> "other"]
    /\ pc' = "turn"
    /\ UNCHANGED <<bmcsVars, gmVars, gmsync, clockVars, domVars>>

DevDown(p) ==
    /\ pc = "idle"
    /\ asCapable' = [asCapable EXCEPT ![p] = FALSE]
    /\ UNCHANGED <<asCapableOrAll, bmcsVars, gmVars, gmsync, clockVars, domVars, pc, run>>

\* PDELAY_RESP and PDELAY_RESP_FOLLOW_UP: update_asCapable_for_all, called
\* for domain 0, clears asCapableOrAll of that domain only.
RecvPdelay(p) ==
    /\ pc = "idle"
    /\ \E c \in BOOLEAN :
          /\ asCapable' = [asCapable EXCEPT ![p] = c]
          /\ asCapableOrAll' = (c \/ (domain = "other" /\ asCapableOrAll))
    /\ UNCHANGED <<bmcsVars, gmVars, gmsync, clockVars, domVars, pc, run>>

RecvAnnounce(p) ==
    /\ pc = "idle"
    /\ run' = [port |-> p, kind |-> "announce"]
    /\ pc' = "turn"
    /\ UNCHANGED <<asCapable, asCapableOrAll, bmcsVars, gmVars, gmsync, clockVars,
                   domVars>>

\* Sync and Follow_Up on the slave port: portSyncSync_for_all, where
\* clock_slave_sync_sm stores the receipt times.
RecvSync(p) ==
    /\ pc = "idle" /\ p = slave /\ asCapable[p]
    /\ news' = TRUE
    /\ pc' = "source"
    /\ UNCHANGED <<asCapable, asCapableOrAll, bmcsVars, gmVars, gmsync,
                   rateStable, offsetGM, tuned, domVars, run>>

\* Time passes between two events: the initial slave time is over.
Elapse ==
    /\ pc = "idle" /\ domain = "initialSlave" /\ deferred /\ ~late
    /\ late' = TRUE
    /\ UNCHANGED <<asCapable, asCapableOrAll, bmcsVars, gmVars, gmsync, clockVars,
                   domain, gmsync0, deferred, pc, run>>

\* Domain 0, which every event handles before the others, has moved.
DomainZero ==
    /\ pc = "idle" /\ domain = "other"
    /\ gmsync0' \in {UNSYNC, SYNC, STABLE}
    /\ UNCHANGED <<asCapable, asCapableOrAll, bmcsVars, gmVars, gmsync, clockVars,
                   domain, deferred, late, pc, run>>

-----------------------------------------------------------------------------
(* The turn of a port: sm_bmcs_perform                                     *)

\* What the port may offer after the next step of its Announce machines.
Offers(p) ==
    IF ~asCapable[p] THEN {NoClock}
    ELSE {NoClock, heard[p]} \cup
         (IF run.kind = "announce" THEN Clocks \ {ThisClock} ELSE {})

\* The clocks that take part in the choice of the grandmaster, this one at
\* its own priority or at the lowest.
Others(h) == {h[p] : p \in {q \in Ports : h[q] # NoClock}}

OnOffer(h, lowest) ==
    IF lowest /\ Others(h) # {} THEN Others(h) ELSE {ThisClock} \cup Others(h)

Best(h, lowest) ==
    CHOOSE c \in OnOffer(h, lowest) : \A d \in OnOffer(h, lowest) : c <= d

\* The port that becomes the slave port when h is on offer; two ports that
\* offer the same clock are told apart by the rest of their vectors.
SlavePorts(h, lowest) ==
    IF Best(h, lowest) = ThisClock THEN {0}
    ELSE {p \in Ports : h[p] = Best(h, lowest)}

\* systemPriority has priority1 254 as long as the initial slave time runs.
Lowest == deferred /\ domain = "initialSlave"

\* Mutant: port 0 is handled before the external ports.
SelectedSyncPortZeroFirst(g, s, d) ==
    IF slave \in Ports /\ s # slave THEN UNSYNC
    ELSE IF slave # s THEN (IF s = 0 /\ ~d THEN STABLE ELSE UNSYNC)
    ELSE g

\* gmsync, g before, after the selection made s the slave port: a port that
\* stops being the slave port loses it, then port 0 may change its state,
\* which a deferral d keeps from being reported.
SelectedSync(g, s, d) ==
    IF slave # 0 /\ s = 0 /\ ~d THEN STABLE
    ELSE IF slave # s /\ ~(slave = -1 /\ s = 0) THEN UNSYNC
    ELSE g

\* gptpclock_set_gmchange counts a change of clock in gmchange_ind.
StillTuned(g) == tuned /\ g = gm

\* deferred_gmsync after state_selection_proc.
Defers == deferred \/ (domain # "zero" /\ ~initdone)

\* What state_selection_proc, if it is called, does to the deferral: an
\* initial slave time starts over.
Selects(called) ==
    /\ deferred' = IF called THEN Defers ELSE deferred
    /\ late' = (late /\ ~(called /\ ~initdone))
    /\ UNCHANGED <<domain, gmsync0>>

\* proc_deferred_gmsync has something to do.
InitialSlaveOver ==
    /\ deferred /\ domain = "initialSlave"
    /\ late \/ (slave # 0 /\ gmsync >= SYNC /\ initdone)

DomainZeroStable == deferred /\ domain = "other" /\ gmsync0 = STABLE

DeferralOver == InitialSlaveOver \/ DomainZeroStable

\* The do-while loop of sm_bmcs_perform goes round while updtInfo is set.
TurnGoesOn == run.port # 0 /\ pc' = "turn" /\ run' = run

TurnEnds ==
    IF run.kind = "tick" THEN pc' = "port" /\ run' = run
                         ELSE pc' = "idle" /\ run' = Idle

\* updtStatesTree of what is on offer now: the tree, and what
\* gptpclock_set_gmchange and gptpclock_set_gmsync make of it.
UpdtStatesTree(g) ==
    /\ slave' \in SlavePorts(heard', Lowest')
    /\ gm' = Best(heard', Lowest')
    /\ gmsync' = SelectedSync(g, slave', deferred')
    /\ tuned' = StillTuned(gm')

\* ... and gm_stable_gm_change when the vector has changed.
ReportGm ==
    /\ gmChange' = (gmChange \/ gm' # seenGm)
    /\ seenGm' = gm'
    /\ pc' = IF gm' # seenGm THEN "gm" ELSE "source"
    /\ UNCHANGED <<asCapable, asCapableOrAll, gmState, initdone, news,
                   rateStable, offsetGM, run>>

\* STATE_SELECTION finds another vector.
ChangeGm ==
    LET p == run.port
    IN  /\ pc = "turn" /\ ~DeferralOver
        /\ \E o \in Offers(p) : heard' = [heard EXCEPT ![p] = o]
        /\ Selects(TRUE)
        /\ UpdtStatesTree(gmsync)
        /\ ReportGm

\* The present vector is confirmed, though what the port
\* offers may be something else now.
KeepGm ==
    LET p == run.port
    IN  /\ pc = "turn" /\ ~DeferralOver /\ slave >= 0
        /\ \E o \in Offers(p) :
              /\ heard' = [heard EXCEPT ![p] = o]
              /\ \E called \in BOOLEAN : (o # heard[p] => called) /\ Selects(called)
        /\ gm = Best(heard', Lowest') /\ slave \in SlavePorts(heard', Lowest')
        /\ TurnGoesOn \/ TurnEnds
        /\ UNCHANGED <<asCapable, asCapableOrAll, slave, gm, gmVars, gmsync, clockVars>>

\* proc_init_slave: the priority is what is configured again.  Without
\* another vector port_state_selection_sm goes on.
EndInitialSlave ==
    LET p == run.port
    IN  /\ pc = "turn" /\ InitialSlaveOver
        /\ \E o \in Offers(p) : heard' = [heard EXCEPT ![p] = o]
        /\ deferred' = FALSE /\ late' = FALSE
        /\ UpdtStatesTree(IF slave = 0 THEN STABLE ELSE gmsync)
        /\ \/ ReportGm
           \/ /\ slave' = slave /\ gm' = gm
              /\ UNCHANGED <<asCapable, asCapableOrAll, gmVars, news, rateStable,
                             offsetGM, pc, run>>
        /\ UNCHANGED <<domain, gmsync0>>

\* proc_deferred_gmsync of the other domains.
EndDeferral ==
    /\ pc = "turn" /\ DomainZeroStable
    /\ gmsync' = IF slave = 0 THEN STABLE ELSE gmsync
    /\ deferred' = FALSE
    /\ UNCHANGED <<asCapable, asCapableOrAll, bmcsVars, gmVars, clockVars,
                   domain, gmsync0, late, pc, run>>

-----------------------------------------------------------------------------
(* clock_master_sync_receive_sm                                            *)

\* gmsync after a clock source request, with the quality just computed.
SourceSync(rate, offset) ==
    IF gmsync = UNSYNC THEN SYNC
    ELSE IF rate /\ offset = "STABLE" THEN STABLE
    ELSE gmsync

\* set_phase_offsetGM when it goes on to adjust the clock: the states that a
\* measurement may lead to.
OffsetNext ==
    CASE offsetGM \in {"NOT", "START"} -> {"UNSTABLE"}
      [] offsetGM = "UNSTABLE"         -> {"UNSTABLE", "STABLE"}
      [] offsetGM = "STABLE" /\ tuned  -> {"STABLE", "UNSTABLE"}
      [] offsetGM = "STABLE" /\ ~tuned -> {"START"}

\* ... or that a jump of the offset leads to: an unexpected one is ignored
\* the first time, otherwise the adjustment starts over at once.
OffsetJump ==
    IF tuned /\ offsetGM # "NOT" THEN "NOT" ELSE "UNSTABLE"

\* Without a Sync since the last computation the quality is reset.
SourceNoNews ==
    /\ pc = "source" /\ ~news
    /\ rateStable' = FALSE /\ offsetGM' = "START"
    /\ gmsync' = SourceSync(FALSE, "START")
    /\ UNCHANGED <<news, tuned>>

\* The compute interval has not passed: nothing is measured.
SourceTooEarly ==
    /\ pc = "source" /\ news /\ offsetGM \in {"UNSTABLE", "STABLE"}
    /\ ~QuickSync \/ rateStable
    /\ gmsync' = SourceSync(rateStable, offsetGM)
    /\ UNCHANGED <<news, rateStable, offsetGM, tuned>>

\* A measurement of the offset, unless the quick algorithm waits for the
\* rate, and of the rate, unless that is skipped.
SourceMeasure ==
    /\ pc = "source" /\ news
    /\ \/ ~(~QuickSync \/ rateStable) /\ offsetGM' = offsetGM
       \/ (~QuickSync \/ rateStable) /\ offsetGM' \in OffsetNext \cup {OffsetJump}
    /\ rateStable' \in BOOLEAN
    /\ tuned' = (tuned \/ (offsetGM' = "STABLE" /\ offsetGM = "UNSTABLE"))
    /\ news' = FALSE
    /\ gmsync' = SourceSync(rateStable', offsetGM')

\* clock_master_sync_receive_sm_ClockSourceReq, and back to its caller.
ClockSourceReq ==
    /\ SourceNoNews \/ SourceTooEarly \/ SourceMeasure
    /\ TurnGoesOn \/ TurnEnds
    /\ UNCHANGED <<asCapable, asCapableOrAll, bmcsVars, gmVars, domVars>>

-----------------------------------------------------------------------------
(* gm_stable_sm: one action per state entered                              *)

Enter(state) ==
    /\ pc = "gm"
    /\ gmState' = state
    /\ UNCHANGED <<asCapable, asCapableOrAll, bmcsVars, seenGm, clockVars, domVars,
                   pc, run>>

\* initialize_proc: a device that is not the grandmaster has lost it; one that
\* is reports itself whatever is deferred.
InitialSync == IF slave # 0 THEN UNSYNC ELSE STABLE

EnterInitialize ==
    /\ gmState = "INIT" \/ (~asCapableOrAll /\ gmState # "INITIALIZE")
    /\ Enter("INITIALIZE")
    /\ initdone' = FALSE
    /\ gmsync' = InitialSync
    /\ UNCHANGED gmChange

\* The all-state condition holds back every other transition.
Running == gmState # "INIT" /\ (asCapableOrAll \/ gmState = "INITIALIZE")

EnterUnstable ==
    /\ Running
    /\ \/ gmState = "INITIALIZE" /\ asCapableOrAll /\ gmsync >= SYNC
       \/ gmState = "GM_LOST" /\ gmsync < STABLE
    /\ Enter("GM_UNSTABLE")
    /\ gmsync' = IF gmsync = STABLE THEN SYNC ELSE gmsync
    /\ UNCHANGED <<gmChange, initdone>>

EnterStable ==
    /\ Running
    /\ gmState = "GM_UNSTABLE" /\ gmsync = STABLE
    /\ Enter("GM_STABLE")
    /\ initdone' = TRUE
    /\ UNCHANGED <<gmsync, gmChange>>

EnterLost ==
    /\ Running /\ gmChange
    /\ \/ gmState = "GM_UNSTABLE" /\ gmsync # STABLE
       \/ gmState = "GM_STABLE"
    /\ Enter("GM_LOST")
    /\ gmChange' = FALSE
    /\ UNCHANGED <<gmsync, initdone>>

\* Mutant: in GM_STABLE nobody looks at gm_change.
GmSettledStableDeaf ==
    /\ pc = "gm" /\ Running
    /\ \/ gmState = "INITIALIZE" /\ ~(asCapableOrAll /\ gmsync >= SYNC)
       \/ gmState = "GM_UNSTABLE" /\ gmsync # STABLE /\ ~gmChange
       \/ gmState = "GM_LOST" /\ gmsync = STABLE
       \/ gmState = "GM_STABLE"
    /\ IF run.port = 0 THEN pc' = "idle" /\ run' = Idle
                       ELSE pc' = "source" /\ run' = run
    /\ UNCHANGED <<asCapable, asCapableOrAll, bmcsVars, gmVars, gmsync, clockVars,
                   domVars>>

\* No condition holds: gm_stable_gm_change is followed by the clock source
\* request, the call at the end of a timeout by nothing.
GmSettled ==
    /\ pc = "gm" /\ Running
    /\ \/ gmState = "INITIALIZE" /\ ~(asCapableOrAll /\ gmsync >= SYNC)
       \/ gmState = "GM_UNSTABLE" /\ gmsync # STABLE /\ ~gmChange
       \/ gmState = "GM_LOST" /\ gmsync = STABLE
       \/ gmState = "GM_STABLE" /\ ~gmChange
    /\ IF run.port = 0 THEN pc' = "idle" /\ run' = Idle
                       ELSE pc' = "source" /\ run' = run
    /\ UNCHANGED <<asCapable, asCapableOrAll, bmcsVars, gmVars, gmsync, clockVars,
                   domVars>>

-----------------------------------------------------------------------------
(* Specification                                                           *)

Event ==
    \/ Timeout \/ Elapse \/ DomainZero
    \/ \E p \in Ports :
          DevUp(p) \/ DevDown(p) \/ RecvPdelay(p) \/ RecvAnnounce(p) \/ RecvSync(p)

Step ==
    \/ TickPort \/ PortsDone \/ ChangeGm \/ KeepGm \/ EndInitialSlave \/ EndDeferral
    \/ ClockSourceReq
    \/ EnterInitialize \/ EnterUnstable \/ EnterStable \/ EnterLost \/ GmSettled

Next == Event \/ Step

Spec == Init /\ [][Next]_vars

-----------------------------------------------------------------------------
(* Properties                                                              *)

TypeOK ==
    /\ asCapable \in [Ports -> BOOLEAN] /\ asCapableOrAll \in BOOLEAN
    /\ heard \in [Ports -> Clocks \cup {NoClock}]
    /\ slave \in -1..N /\ gm \in Clocks \cup {NoClock}
    /\ gmState \in {"INIT", "INITIALIZE", "GM_LOST", "GM_UNSTABLE", "GM_STABLE"}
    /\ gmChange \in BOOLEAN /\ seenGm \in Clocks \cup {NoClock}
    /\ initdone \in BOOLEAN /\ gmsync \in {UNSYNC, SYNC, STABLE}
    /\ domain \in {"zero", "initialSlave", "other"} /\ gmsync0 \in {UNSYNC, SYNC, STABLE}
    /\ deferred \in BOOLEAN /\ late \in BOOLEAN
    /\ news \in BOOLEAN /\ rateStable \in BOOLEAN /\ tuned \in BOOLEAN
    /\ offsetGM \in {"NOT", "START", "UNSTABLE", "STABLE"}
    /\ pc \in {"idle", "port", "turn", "gm", "source"}
    /\ run \in [port : 0..N, kind : {"tick", "announce", "other"}]
    /\ (pc = "turn" => run.port \in Ports)

\* While this clock is the grandmaster it reports itself as not synchronized
\* only where the report is deferred, and there only until the clock source
\* request that follows the selection, so never between two events:
\* updtStatesTree first takes the synchronization away from the port that
\* stops being the slave port and only then handles port 0, and whatever ends
\* a deferral makes up for the report that was left out.
GmIsSynced ==
    slave = 0 /\ gmsync = UNSYNC => deferred /\ pc \in {"gm", "source"}

\* A grandmaster change that gm_stable_gm_change announces is not forgotten:
\* between events it is pending only where the machine cannot act on it.
ChangeNotForgotten ==
    pc = "idle" /\ gmChange => gmState \in {"INITIALIZE", "GM_LOST"}

\* asCapableOrAll is rebuilt port by port while grandmaster changes restart
\* the machine in between; at the end of the timeout the machine is in
\* INITIALIZE exactly when no port is capable, and then this clock is the
\* grandmaster.
TimeoutSettles ==
    [][run.kind = "tick" /\ pc' = "idle" =>
          /\ (gmState' = "INITIALIZE") <=> (\A p \in Ports : ~asCapable'[p])
          /\ gmState' = "INITIALIZE" => slave' = 0 /\ ~initdone']_vars

=============================================================================
