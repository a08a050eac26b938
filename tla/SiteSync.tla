------------------------------ MODULE SiteSync ------------------------------
(***************************************************************************)
(* How the time of the grandmaster passes through a system: a Sync that a  *)
(* port has measured goes through port_sync_sync_receive_sm and            *)
(* site_sync_sync_sm to the port_sync_sync_send_sm of every port; the      *)
(* clock master of the system feeds site_sync_sync_sm at its own interval. *)
(*                                                                         *)
(* A handler runs to completion and calls the machines one after the       *)
(* other, so a handler is one action, and the machines are functions from  *)
(* the record of the machine and a PortSyncSync to the new record.         *)
(*                                                                         *)
(* Left out: the test and static port configuration, asymmetry             *)
(* measurement, and syncSlowdown with its counter, whose two branches set  *)
(* interval1 to the same value.  rcvdPSSync is set by every call of a      *)
(* machine and read by that call only, and parentLogSyncInterval, when it  *)
(* is read, is the interval of the structure that is sent on.              *)
(***************************************************************************)
EXTENDS Integers

CONSTANTS
    Ports,              \* the external ports; port 0 is the clock master
    Intervals,          \* Sync intervals, in ticks of the clock
    ClockInterval,      \* clockMasterSyncInterval at the start
    SyncReceiptTimeout, \* intervals without Sync before it counts as lost
    MaxTime,            \* bound: ticks
    MaxSync,            \* bound: Sync messages that arrive
    MaxChange           \* bound: changes of roles, capability and intervals

Stop  == 127            \* logMessageInterval 127: no more Sync
Never == 1000000        \* (uint64_t)-1, after every time of the model

ASSUME SiteSyncAssumption ==
    /\ Ports \subseteq Nat \ {0} /\ Intervals \subseteq Nat \ {0}
    /\ ClockInterval \in Nat \ {0} /\ SyncReceiptTimeout \in Nat \ {0}
    /\ MaxTime \in 0 .. 1000 /\ MaxSync \in Nat /\ MaxChange \in Nat /\ Stop \notin Intervals
    /\ \E i \in Intervals \cup {ClockInterval} : \A j \in Intervals \cup {ClockInterval} : j <= i

None  == [src |-> -1, int |-> 0, timeout |-> 0, send |-> 0]

VARIABLES
    now,        \* cts64 of the last timeout
    role,       \* selectedState of the ports and of port 0
    gmPresent,  \* gmPresent
    capable,    \* portOper, ptpPortEnabled and asCapable of a port
    logInt,     \* currentLogSyncInterval of a port, and its syncInterval
    clkInt,     \* clockMasterSyncInterval
    cmNext,     \* syncSendTime of clock_master_sync_send_sm
    site,       \* site_sync_sync_sm: its state and what it sent on last
    snd,        \* port_sync_sync_send_sm of a port
    nsync,      \* Sync messages that have arrived
    changes,    \* changes so far
    fwd,        \* what the last handler sent on to all ports, or None
    out,        \* of a port: the MDSyncSend of the last handler, or None
    overdue,    \* the last handler found the next Sync of the slave port overdue
    quiet       \* ticks since something was sent on or the roles changed

vars == <<now, role, gmPresent, capable, logInt, clkInt, cmNext, site, snd, nsync, changes,
          fwd, out, overdue, quiet>>

\* The selection makes one port the slave port (Bmcs!OneSlave).
Roles ==
    {r \in [Ports \cup {0} -> {"Slave", "Master", "Passive"}] :
        /\ r[0] # "Master"
        /\ \E p \in Ports \cup {0} : \A q \in Ports \cup {0} : (r[q] = "Slave") = (q = p)}

\* The machines after their first call; lastRcvdPortNum and the times are zero.
SndInit == [state |-> "INIT", src |-> 0, timeout |-> 0, sent |-> 0, int1 |-> 0, locked |-> FALSE]

Init ==
    /\ now = 0 /\ role \in {r \in Roles : r[0] = "Slave" /\ \A p \in Ports : r[p] = "Master"}
    /\ gmPresent = TRUE /\ capable = [p \in Ports |-> TRUE]
    /\ logInt \in [Ports -> Intervals]
    /\ clkInt = ClockInterval /\ cmNext = ClockInterval /\ changes = 0
    /\ site = [state |-> "INITIALIZING", tx |-> None, timeout |-> 0, send |-> 0]
    /\ snd = [p \in Ports |-> SndInit]
    /\ nsync = 0 /\ fwd = None /\ out = [p \in Ports |-> None] /\ overdue = FALSE
    /\ quiet = 0

-----------------------------------------------------------------------------
(* PortSyncSync structures                                                 *)

\* setPSSyncPSSR: the next Sync is due after one and a half intervals.
PortPSSync(p, i, t) ==
    [src |-> p, int |-> i, timeout |-> t + SyncReceiptTimeout * i,
     send |-> t + i + i \div 2]

\* setPSSyncCMSS
ClockPSSync == [src |-> 0, int |-> clkInt, timeout |-> Never, send |-> Never]

-----------------------------------------------------------------------------
(* site_sync_sync_sm                                                       *)

FromSlavePort(pss) == role[pss.src] = "Slave" /\ gmPresent

\* Mutant: the timeout of the stored Sync is not looked at.
LateStoredAnyTime(t) ==
    /\ site.state = "RECEIVING_SYNC" /\ FromSlavePort(site.tx)
    /\ site.send # 0 /\ t > site.send

\* The Sync after the stored one is lost, and the stored one is still good.
LateStored(t) ==
    /\ site.state = "RECEIVING_SYNC" /\ FromSlavePort(site.tx)
    /\ site.timeout # 0 /\ t <= site.timeout /\ site.send # 0 /\ t > site.send

\* The structure that receiving_sync_proc finds in rcvdPSSyncPtr
Chosen(pss, t) ==
    IF LateStored(t) /\ (pss.timeout = Never \/ site.send >= pss.timeout) THEN site.tx ELSE pss

\* Mutant: a lost Sync is not bridged.
AcceptsSlaveOnly(pss, t) == FromSlavePort(pss)

\* receiving_sync_proc is entered.
Accepts(pss, t) == FromSlavePort(pss) \/ LateStored(t)

\* setPSSyncSend, or a timeout that has passed is forgotten
SiteNext(pss, t) ==
    IF Accepts(pss, t)
    THEN [state |-> "RECEIVING_SYNC", tx |-> Chosen(pss, t),
          timeout |-> Chosen(pss, t).timeout, send |-> Chosen(pss, t).send]
    ELSE [site EXCEPT !.timeout = IF site.state = "RECEIVING_SYNC" /\ t > @ THEN 0 ELSE @]

-----------------------------------------------------------------------------
(* port_sync_sync_send_sm                                                  *)

MayStart(p, pss) == pss.src # p /\ role[p] = "Master"

IntervalPassed(p, t) == t - snd[p].sent >= snd[p].int1

\* Mutant: the role of the port is not looked at.
MayGoOnAnyRole(p, pss, t) ==
    \/ snd[p].locked /\ pss.src # p
    \/ ~snd[p].locked /\ IntervalPassed(p, t) /\ snd[p].src # p

\* send_md_sync_condition: with other intervals the source is the one before.
MayGoOn(p, pss, t) ==
    /\ \/ snd[p].locked /\ pss.src # p
       \/ ~snd[p].locked /\ IntervalPassed(p, t) /\ snd[p].src # p
    /\ role[p] = "Master"

TimedOut(p, t) == t >= snd[p].timeout /\ ~snd[p].locked

\* The machine enters SEND_MD_SYNC, or enters it again.
Sends(p, pss, t) ==
    /\ capable[p] /\ logInt[p] # Stop
    /\ \/ snd[p].state \in {"TRANSMIT_INIT", "SYNC_RECEIPT_TIMEOUT"} /\ MayStart(p, pss)
       \/ snd[p].state = "SEND_MD_SYNC" /\ ~TimedOut(p, t) /\ MayGoOn(p, pss, t)

\* The state in which the machine comes to rest
SndState(p, pss, t) ==
    CASE ~capable[p] \/ logInt[p] = Stop \/ snd[p].state = "INIT" -> "TRANSMIT_INIT"
      [] Sends(p, pss, t) -> "SEND_MD_SYNC"
      [] snd[p].state = "SEND_MD_SYNC" /\ TimedOut(p, t)
            /\ capable[p] /\ logInt[p] # Stop -> "SYNC_RECEIPT_TIMEOUT"
      [] OTHER -> snd[p].state

\* send_md_sync_proc
SndNext(p, pss, t) ==
    IF Sends(p, pss, t)
    THEN [state |-> "SEND_MD_SYNC", src |-> pss.src, timeout |-> pss.timeout, sent |-> t,
          int1 |-> logInt[p], locked |-> pss.int = logInt[p]]
    ELSE [snd[p] EXCEPT !.state = SndState(p, pss, t)]

-----------------------------------------------------------------------------
(* The handlers                                                            *)

\* portSyncSync_for_all for what site_sync_sync_sm returned
ForAll(pss, t) ==
    /\ fwd' = pss
    /\ snd' = [p \in Ports |-> SndNext(p, pss, t)]
    /\ out' = [p \in Ports |-> IF Sends(p, pss, t) THEN pss ELSE None]
    /\ quiet' = 0

NothingSent ==
    /\ fwd' = None /\ out' = [p \in Ports |-> None]
    /\ UNCHANGED snd

Through(pss, t) ==
    /\ site' = SiteNext(pss, t) /\ overdue' = LateStored(t)
    /\ IF Accepts(pss, t) THEN ForAll(Chosen(pss, t), t)
       ELSE NothingSent /\ quiet' = quiet + (t - now)

\* update_portSyncSync_for_all: md_sync_receive_sm returned the measured Sync of
\* a port, which is capable.
SyncMeasured ==
    /\ nsync < MaxSync /\ nsync' = nsync + 1
    /\ \E p \in Ports, i \in Intervals : capable[p] /\ Through(PortPSSync(p, i, now), now)
    /\ UNCHANGED <<now, role, gmPresent, capable, logInt, clkInt, cmNext, changes>>

\* gptpnet_cb_timeout: clock_master_sync_send_sm
Timeout ==
    /\ now < MaxTime /\ now' = now + 1
    /\ IF now' >= cmNext
       THEN cmNext' = now' + clkInt /\ Through(ClockPSSync, now')
       ELSE NothingSent /\ quiet' = quiet + 1 /\ UNCHANGED <<cmNext, site, overdue>>
    /\ UNCHANGED <<role, gmPresent, capable, logInt, clkInt, nsync, changes>>

\* The other machines of the system change what these ones read.
Change ==
    /\ changes < MaxChange /\ changes' = changes + 1
    /\ fwd' = None /\ out' = [p \in Ports |-> None]
    /\ overdue' = FALSE /\ UNCHANGED <<now, cmNext, site, snd, nsync>>

SetRoles ==
    /\ Change /\ quiet' = 0
    /\ role' \in Roles /\ gmPresent' \in BOOLEAN /\ <<role, gmPresent>>' # <<role, gmPresent>>
    /\ UNCHANGED <<capable, logInt, clkInt>>

SetCapable ==
    /\ Change
    /\ \E p \in Ports : capable' = [capable EXCEPT ![p] = ~@]
    /\ UNCHANGED <<role, gmPresent, logInt, clkInt, quiet>>

\* sync_interval_setting_sm after a message interval request.  The clock master
\* takes the interval of the port over; LOG_TO_NSEC(127) shifts too far and
\* gives zero or a time that never comes.
SetInterval ==
    /\ Change
    /\ \E p \in Ports, i \in Intervals \cup {Stop} :
          /\ i # logInt[p] /\ logInt' = [logInt EXCEPT ![p] = i]
          /\ clkInt' \in IF i = Stop THEN {0, Never} ELSE {i}
    /\ UNCHANGED <<role, gmPresent, capable, quiet>>

Next == SyncMeasured \/ Timeout \/ SetRoles \/ SetCapable \/ SetInterval

Spec == Init /\ [][Next]_vars

-----------------------------------------------------------------------------
(* Properties                                                              *)

\* Type invariant; site_sync_sync_sm reads what it sent on last only when it has
\* sent something on.
TypeOK ==
    /\ now \in 0 .. MaxTime /\ role \in Roles /\ gmPresent \in BOOLEAN
    /\ capable \in [Ports -> BOOLEAN] /\ logInt \in [Ports -> Intervals \cup {Stop}]
    /\ clkInt \in Intervals \cup {ClockInterval, 0, Never} /\ cmNext \in Nat /\ changes \in 0 .. MaxChange
    /\ nsync \in 0 .. MaxSync /\ quiet \in Nat /\ overdue \in BOOLEAN
    /\ site.state = IF site.tx = None THEN "INITIALIZING" ELSE "RECEIVING_SYNC"
    /\ site.timeout \in {0, site.tx.timeout} /\ site.send = site.tx.send
    /\ \A p \in Ports :
          /\ snd[p].state \in {"INIT", "TRANSMIT_INIT", "SEND_MD_SYNC", "SYNC_RECEIPT_TIMEOUT"}
          /\ snd[p].src \in Ports \cup {0} /\ snd[p].locked \in BOOLEAN
          /\ out[p] \in {None, fwd}

\* A Sync has just arrived at a port while that of the slave port was overdue.
\* site_sync_sync_sm then takes it, whatever the role of its port.  A stored
\* Sync that is sent again, as in the clock master's turn, is past its send.
Substitute == overdue /\ fwd.src # 0 /\ now < fwd.send

\* No port sends back what it has received itself, although with different
\* intervals port_sync_sync_send_sm looks at the source of the Sync before.
NoEcho == \A p \in Ports : out[p] # None => out[p].src # p \/ Substitute

\* Nothing is sent on after its syncReceiptTimeoutTime: a grandmaster that is
\* gone is not kept alive by the repetition of its last Sync.
NothingExpired == fwd # None => now <= fwd.timeout

LongestInterval ==
    CHOOSE i \in Intervals \cup {ClockInterval} : \A j \in Intervals \cup {ClockInterval} : j <= i

\* A lost Sync is bridged: while the roles stay and the stored Sync is good, no
\* more than one and a half intervals and the time to the next turn of the
\* clock master pass before something is sent on.
LossIsBridged ==
    site.tx # None /\ FromSlavePort(site.tx) /\ now <= site.timeout =>
       quiet <= site.tx.int + site.tx.int \div 2 + LongestInterval \/ cmNext >= Never

=============================================================================
