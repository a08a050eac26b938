-------------------------------- MODULE Bmcs --------------------------------
(***************************************************************************)
(* The best master clock selection of one gPTP instance (one domain) of    *)
(* tsn_gptp: reception of Announce messages, the PortAnnounceInformation,  *)
(* PortStateSelection and PortAnnounceTransmit state machines, and         *)
(* sm_bmcs_perform in gptpman.c, which drives them for one port at a time. *)
(*                                                                         *)
(* The process is single threaded: gptpnet_cb handles one event to the     *)
(* end.  A handler is a sequence of steps here, one per state that a state *)
(* machine enters; pc tells which machine runs next and run for which      *)
(* port.  Events arrive only when pc = "idle".                             *)
(*                                                                         *)
(* Abstractions.  A clock identity is a number (the code compares the      *)
(* bytes numerically).  priority1, clockClass, clockAccuracy, variance and *)
(* priority2 are compared one after the other before the identity, so one  *)
(* number, pr, stands for the five; NotGmCapable stands for priority1=255. *)
(* Time is not represented: whether the timeouts of the port being handled *)
(* have passed is chosen when its handling starts (run.late, run.due).     *)
(* A handler that finds a timeout passed either ages the port or refreshes *)
(* the timeout before it returns, so nothing has to be remembered.         *)
(***************************************************************************)
EXTENDS Integers, Sequences

CONSTANTS
    N,                \* external ports are 1..N; port 0 is the local clock
    ThisClock,        \* ptasg->thisClock
    SystemPr,         \* pr of bptasg->systemPriority
    NotGmCapable,     \* pr from which priority1 is 255: not GM capable
    Announces,        \* the Announce messages neighbours may send
    MaxPath,          \* MAX_PATH_TRACE_N
    MaxSteps,         \* first stepsRemoved that qualifyAnnounce rejects (255)
    BmcsQuickUpdate,  \* bptasg->bmcsQuickUpdate
    SendMayFail       \* may gptpnet_send_whook return -1?

Ports == 1..N

\* A path trace TLV that is absent from a message (no sequence equals it).
NoTlv == <<-1>>

\* "No message" for the places that hold an Announce or nothing.
None == [pr |-> -1, gm |-> -1, steps |-> -1, src |-> -1, srcPort |-> -1,
         path |-> <<>>]

AnnounceType ==
    [pr : Nat, gm : Nat, steps : Nat, src : Nat, srcPort : Nat,
     path : Seq(Nat) \cup {NoTlv}]

ASSUME ConstantsAssumption ==
    /\ N \in Nat \ {0}
    /\ ThisClock \in Nat /\ SystemPr \in Nat /\ NotGmCapable \in Nat
    /\ Announces \subseteq AnnounceType
    /\ MaxPath \in Nat \ {0} /\ MaxSteps \in Nat
    /\ BmcsQuickUpdate \in BOOLEAN /\ SendMayFail \in BOOLEAN

VARIABLES
    \* PerPortGlobal
    portOper,         \* portOper /\ ptpPortEnabled
    asCapable,
    \* BmcsPerPortGlobal
    infoIs, portPriority, updtInfo, newInfo,
    rcvdMsg,          \* rcvdAnnouncePtr while rcvdMsg is set, else None
    annPath,          \* annPathSequence[0..annPathSequenceCount-1]
    \* BmcsPerTimeAwareSystemGlobal and PerTimeAwareSystemGlobal
    reselect, selected, selectedState, gmPriority, pathTrace,
    \* state of the state machines themselves
    paInfo,           \* port_announce_information_sm
    selection,        \* port_state_selection_sm
    deferred,         \* Announce whose transmission failed, to be retried
    \* the running handler and what it put on the wire
    pc, run, wire

portVars == <<portOper, asCapable>>
infoVars == <<infoIs, portPriority, rcvdMsg, annPath, paInfo>>
treeVars == <<selectedState, gmPriority, pathTrace, selection>>
txVars   == <<newInfo, deferred, wire>>
vars == <<portVars, infoVars, updtInfo, reselect, selected, treeVars,
          txVars, pc, run>>

-----------------------------------------------------------------------------
(* Priority vectors                                                        *)

VectorType ==
    [pr : Nat, gm : Nat, steps : Nat, src : Nat, srcPort : Nat, port : Nat]

\* UInteger224 cleared by memset, the portPriority of a port never updated.
ZeroVector ==
    [pr |-> 0, gm |-> 0, steps |-> 0, src |-> 0, srcPort |-> 0, port |-> 0]

systemPriority ==
    [pr |-> SystemPr, gm |-> ThisClock, steps |-> 0,
     src |-> ThisClock, srcPort |-> 0, port |-> 0]

\* compare_priority_vectors(a, b) = SUPERIOR_PRIORITY
Superior(a, b) ==
    \/ a.pr < b.pr
    \/ a.pr = b.pr /\ a.gm < b.gm
    \/ a.pr = b.pr /\ a.gm = b.gm /\ a.steps < b.steps
    \/ a.pr = b.pr /\ a.gm = b.gm /\ a.steps = b.steps /\ a.src < b.src
    \/ /\ a.pr = b.pr /\ a.gm = b.gm /\ a.steps = b.steps /\ a.src = b.src
       /\ a.srcPort < b.srcPort
    \/ /\ a.pr = b.pr /\ a.gm = b.gm /\ a.steps = b.steps /\ a.src = b.src
       /\ a.srcPort = b.srcPort /\ a.port < b.port

\* HAS_PORT_PRIORITY: some field of the root quality or stepsRemoved is set.
HasPortPriority(v) == v.pr # 0 \/ v.steps # 0

\* Mutant: portNumber left out of messagePriority.
MessagePriorityNoPort(m, p) ==
    [pr |-> m.pr, gm |-> m.gm, steps |-> m.steps, src |-> m.src,
     srcPort |-> m.srcPort, port |-> 0]

\* messagePriority that rcvdInfo builds from message m received on port p.
MessagePriority(m, p) ==
    [pr |-> m.pr, gm |-> m.gm, steps |-> m.steps, src |-> m.src,
     srcPort |-> m.srcPort, port |-> p]

\* gmPathPriority[p]: the port's vector, one step further away.
GmPath(p) == [portPriority[p] EXCEPT !.steps = @ + 1]

\* Mutant: the vector of an aged port still counts.
EligibleAged(p) ==
    /\ infoIs[p] # "Disabled"
    /\ HasPortPriority(portPriority[p])
    /\ portPriority[p].src # ThisClock

\* The ports whose gmPathPriority takes part in the choice of gmPriority.
\* The vectors of the others are all ones or come from this clock.
Eligible(p) ==
    /\ infoIs[p] \notin {"Aged", "Disabled"}
    /\ HasPortPriority(portPriority[p])
    /\ portPriority[p].src # ThisClock

Candidates == {systemPriority} \cup {GmPath(p) : p \in {q \in Ports : Eligible(q)}}

\* masterPriority of port p when the grandmaster vector is g.
MasterPriority(g, p) ==
    [pr |-> g.pr, gm |-> g.gm, steps |-> g.steps, src |-> ThisClock,
     srcPort |-> p, port |-> p]

gmPresent == gmPriority.pr < NotGmCapable

\* Mutant: the room that thisClock needs is not counted.
PathAppendFull(s) == IF Len(s) <= MaxPath THEN Append(s, ThisClock) ELSE <<>>

\* Append thisClock to a path; a path that grows too long becomes empty.
PathAppend(s) == IF Len(s) + 1 <= MaxPath THEN Append(s, ThisClock) ELSE <<>>

Capable(p) == portOper[p] /\ asCapable[p]

-----------------------------------------------------------------------------
(* Types and initial state                                                 *)

Idle == [port |-> 0, tick |-> FALSE, late |-> "no", due |-> FALSE]

RunType == [port : 0..N, tick : BOOLEAN, late : {"no", "sync", "announce"},
            due : BOOLEAN]

Init ==
    /\ portOper = [p \in Ports |-> FALSE]
    /\ asCapable = [p \in Ports |-> FALSE]
    /\ infoIs = [p \in Ports |-> "Disabled"]
    /\ portPriority = [p \in Ports |-> ZeroVector]
    /\ updtInfo = [p \in Ports |-> FALSE]
    /\ newInfo = [p \in Ports |-> FALSE]
    /\ rcvdMsg = [p \in Ports |-> None]
    /\ annPath = [p \in Ports |-> <<>>]
    /\ reselect = [p \in Ports |-> FALSE]
    /\ selected = [p \in Ports |-> FALSE]
    /\ selectedState = [p \in 0..N |-> "Disabled"]
    /\ gmPriority = ZeroVector
    /\ pathTrace = <<>>
    /\ paInfo = [p \in Ports |-> "INIT"]
    /\ selection = "INIT"
    /\ deferred = [p \in Ports |-> None]
    /\ wire = [port |-> 0, msg |-> None]
    /\ pc = "idle"
    /\ run = Idle

-----------------------------------------------------------------------------
(* Events: gptpnet_cb                                                      *)

\* Begin the handling of port p: pick which of its timeouts have passed.
\* announce: announceReceiptTimeoutTime, sync: syncReceiptTimeoutTime alone.
StartPort(p, tick) ==
    /\ \E late \in {"no", "sync", "announce"}, due \in BOOLEAN :
          run' = [port |-> p, tick |-> tick, late |-> late, due |-> due]
    /\ pc' = "info"

\* qualifyAnnounce, with the TLV that md_announce_receive reports.
Qualified(m, tlv) ==
    /\ m.src # ThisClock
    /\ m.steps < MaxSteps
    /\ tlv # NoTlv => \A i \in 1..Len(tlv) : tlv[i] # ThisClock

\* What qualifyAnnounce leaves in pathTrace when it accepts a message.  With
\* no TLV the entries are cleared by memset, pathTraceCount is kept.
TracedPath(p, tlv) ==
    IF tlv = NoTlv THEN [i \in 1..Len(pathTrace) |-> 0]
    ELSE IF selectedState[p] = "Slave" THEN PathAppend(tlv)
    ELSE pathTrace

\* The TLV that recAnnounce reports for m: the previous TLV stays in its
\* buffer when a message has none.
ReportedTlv(m) ==
    IF m.path = NoTlv THEN {NoTlv} \cup {a.path : a \in Announces} ELSE {m.path}

\* gptpnet_cb_recv, ANNOUNCE, up to the call of sm_bmcs_perform.  On a port that is not capable the message is left in the buffer, unused.
RecvAnnounce(p, m) ==
    \E tlv \in ReportedTlv(m) :
        /\ pc = "idle"
        /\ \/ /\ Capable(p) /\ Qualified(m, tlv)
              /\ rcvdMsg' = [rcvdMsg EXCEPT ![p] = [m EXCEPT !.path = tlv]]
              /\ pathTrace' = TracedPath(p, tlv)
           \/ /\ Capable(p) /\ ~Qualified(m, tlv)
              /\ rcvdMsg' = [rcvdMsg EXCEPT ![p] = None]
              /\ UNCHANGED pathTrace
           \/ /\ ~Capable(p)
              /\ UNCHANGED <<rcvdMsg, pathTrace>>
        /\ StartPort(p, FALSE)
        /\ wire' = [port |-> 0, msg |-> None]
        /\ UNCHANGED <<portVars, infoIs, portPriority, annPath, paInfo, updtInfo,
                       reselect, selected, selectedState, gmPriority, selection,
                       newInfo, deferred>>

\* gptpnet_cb_devup on a full duplex link of 100 Mbps or more.
DevUp(p) ==
    /\ pc = "idle"
    /\ portOper' = [portOper EXCEPT ![p] = TRUE]
    /\ \E c \in BOOLEAN : asCapable' = [asCapable EXCEPT ![p] = c]
    /\ StartPort(p, FALSE)
    /\ wire' = [port |-> 0, msg |-> None]
    /\ UNCHANGED <<infoVars, updtInfo, reselect, selected, treeVars,
                   newInfo, deferred>>

\* gptpnet_cb_devdown: the selection is not run again here.
DevDown(p) ==
    /\ pc = "idle"
    /\ portOper' = [portOper EXCEPT ![p] = FALSE]
    /\ asCapable' = [asCapable EXCEPT ![p] = FALSE]
    /\ UNCHANGED <<infoVars, updtInfo, reselect, selected, treeVars,
                   txVars, pc, run>>

\* GPTPNET_EVENT_GUARDUP and GPTPNET_EVENT_GUARDDOWN.
Guard(p) ==
    /\ pc = "idle"
    /\ portOper' = [portOper EXCEPT ![p] = ~@]
    /\ UNCHANGED <<asCapable, infoVars, updtInfo, reselect, selected, treeVars,
                   txVars, pc, run>>

\* PDELAY_RESP or PDELAY_RESP_FOLLOW_UP: update_asCapable_for_all gives the
\* port the value that the peer delay and gPTP capable machines arrived at.
UpdateAsCapable(p) ==
    /\ pc = "idle"
    /\ asCapable' = [asCapable EXCEPT ![p] = ~@]
    /\ UNCHANGED <<portOper, infoVars, updtInfo, reselect, selected, treeVars,
                   txVars, pc, run>>

\* gptpnet_cb_timeout: every port in turn, see TickPort.
Timeout ==
    /\ pc = "idle"
    /\ pc' = "tick"
    /\ run' = [Idle EXCEPT !.port = 1, !.tick = TRUE]
    /\ wire' = [port |-> 0, msg |-> None]
    /\ UNCHANGED <<portVars, infoVars, updtInfo, reselect, selected, treeVars,
                   newInfo, deferred>>

\* Mutant: the failed transmission is retried before set_asCapable.
TickPortRetryFirst ==
    LET p == run.port
    IN  /\ pc = "tick"
        /\ \E c \in BOOLEAN : asCapable' = [asCapable EXCEPT ![p] = c]
        /\ deferred' = [deferred EXCEPT ![p] = None]
        /\ wire' = IF deferred[p] # None /\ portOper[p] /\ asCapable[p]
                   THEN [port |-> p, msg |-> deferred[p]] ELSE wire
        /\ StartPort(p, TRUE)
        /\ UNCHANGED <<portOper, infoVars, updtInfo, reselect, selected,
                       treeVars, newInfo>>

\* The part of the timeout handler before the selection of the port:
\* set_asCapable, then md_announce_send_sm, which tries a failed transmission
\* again unless the port is no longer capable.
TickPort ==
    LET p == run.port
    IN  /\ pc = "tick"
        /\ \E c \in BOOLEAN : asCapable' = [asCapable EXCEPT ![p] = c]
        /\ \/ /\ deferred[p] # None /\ portOper[p] /\ asCapable'[p]
              /\ \/ /\ wire' = [port |-> p, msg |-> deferred[p]]
                    /\ deferred' = [deferred EXCEPT ![p] = None]
                 \/ SendMayFail /\ UNCHANGED <<wire, deferred>>
           \/ /\ ~(deferred[p] # None /\ portOper[p] /\ asCapable'[p])
              /\ deferred' = [deferred EXCEPT ![p] = None]
              /\ UNCHANGED wire
        /\ StartPort(p, TRUE)
        /\ UNCHANGED <<portOper, infoVars, updtInfo, reselect, selected,
                       treeVars, newInfo>>

-----------------------------------------------------------------------------
(* port_announce_information_sm: one action per state entered              *)

\* Every action of the machine: it runs for run.port, and changes the state
\* of that port only.
Info(p) == pc = "info" /\ p = run.port

InfoFrame == UNCHANGED <<portVars, treeVars, deferred, wire>>

Reselect(p) ==
    /\ reselect' = [reselect EXCEPT ![p] = TRUE]
    /\ selected' = [selected EXCEPT ![p] = FALSE]

\* Mutant: portOper is not looked at.
MustDisableLinkOnly(p) == ~asCapable[p] /\ infoIs[p] # "Disabled"

\* The condition that allstate_condition tests before any other.
MustDisable(p) == ~Capable(p) /\ infoIs[p] # "Disabled"

EnterDisabled ==
    LET p == run.port
    IN  /\ Info(p)
        /\ paInfo[p] = "INIT" \/ MustDisable(p)
        /\ paInfo' = [paInfo EXCEPT ![p] = "DISABLED"]
        /\ rcvdMsg' = [rcvdMsg EXCEPT ![p] = None]
        /\ infoIs' = [infoIs EXCEPT ![p] = "Disabled"]
        /\ Reselect(p)
        /\ InfoFrame
        /\ UNCHANGED <<portPriority, annPath, updtInfo, newInfo, pc, run>>

\* current_condition: the information received on the port has timed out.
TimedOut(p) ==
    /\ infoIs[p] = "Received"
    /\ run.late = "announce" \/ (run.late = "sync" /\ gmPresent)
    /\ ~updtInfo[p] /\ rcvdMsg[p] = None

MustUpdate(p) == selected[p] /\ updtInfo[p]

EnterAged ==
    LET p == run.port
    IN  /\ Info(p) /\ ~MustDisable(p)
        /\ \/ paInfo[p] = "DISABLED" /\ Capable(p)
           \/ paInfo[p] = "CURRENT" /\ ~MustUpdate(p) /\ TimedOut(p)
           \/ paInfo[p] = "INFERIOR"
        /\ paInfo' = [paInfo EXCEPT ![p] = "AGED"]
        /\ infoIs' = [infoIs EXCEPT ![p] = "Aged"]
        /\ annPath' = [annPath EXCEPT ![p] = <<>>]
        /\ Reselect(p)
        /\ InfoFrame
        /\ UNCHANGED <<portPriority, rcvdMsg, updtInfo, newInfo, pc, run>>

\* UPDATE, which goes on to CURRENT without a condition.
EnterUpdate ==
    LET p == run.port
    IN  /\ Info(p) /\ ~MustDisable(p)
        /\ paInfo[p] \in {"AGED", "CURRENT"} /\ MustUpdate(p)
        /\ paInfo' = [paInfo EXCEPT ![p] = "CURRENT"]
        /\ portPriority' = [portPriority EXCEPT ![p] = MasterPriority(gmPriority, p)]
        /\ updtInfo' = [updtInfo EXCEPT ![p] = FALSE]
        /\ infoIs' = [infoIs EXCEPT ![p] = "Mine"]
        /\ newInfo' = [newInfo EXCEPT ![p] = TRUE]
        /\ InfoFrame
        /\ UNCHANGED <<rcvdMsg, annPath, reselect, selected, pc, run>>

\* CURRENT finds a message and RECEIVE classifies it with rcvdInfo.
Receiving(p) ==
    /\ Info(p) /\ ~MustDisable(p)
    /\ paInfo[p] = "CURRENT" /\ rcvdMsg[p] # None /\ ~updtInfo[p]

Repeated(p) ==
    /\ selectedState[p] # "Disabled"
    /\ MessagePriority(rcvdMsg[p], p) = portPriority[p]

\* Mutant: any new message from the port's master replaces its vector.
SuperiorMasterAny(p) == selectedState[p] # "Disabled" /\ ~Repeated(p)

SuperiorMaster(p) ==
    /\ selectedState[p] # "Disabled" /\ ~Repeated(p)
    /\ Superior(MessagePriority(rcvdMsg[p], p), portPriority[p])

\* SUPERIOR_MASTER_PORT records the message and restarts both timeouts.
EnterSuperior ==
    LET p == run.port
    IN  /\ Receiving(p) /\ SuperiorMaster(p)
        /\ portPriority' = [portPriority EXCEPT ![p] = MessagePriority(rcvdMsg[p], p)]
        /\ annPath' = [annPath EXCEPT ![p] =
                          IF rcvdMsg[p].path = NoTlv THEN <<>> ELSE rcvdMsg[p].path]
        /\ run' = [run EXCEPT !.late = "no"]
        /\ infoIs' = [infoIs EXCEPT ![p] = "Received"]
        /\ Reselect(p)
        /\ rcvdMsg' = [rcvdMsg EXCEPT ![p] = None]
        /\ InfoFrame
        /\ UNCHANGED <<paInfo, updtInfo, newInfo, pc>>

\* REPEATED_MASTER_PORT restarts the Announce timeout only.
EnterRepeated ==
    LET p == run.port
    IN  /\ Receiving(p) /\ Repeated(p)
        /\ \E late \in {"no", "sync"} :
              /\ run.late # "announce" => late = run.late
              /\ run' = [run EXCEPT !.late = late]
        /\ rcvdMsg' = [rcvdMsg EXCEPT ![p] = None]
        /\ InfoFrame
        /\ UNCHANGED <<infoIs, portPriority, annPath, paInfo, updtInfo, newInfo,
                       reselect, selected, pc>>

\* INFERIOR_MASTER_OR_OTHER_PORT: with the quick update enabled, inferior
\* information from the port's own master ages what the port has.
EnterInferior ==
    LET p == run.port
        worse == /\ BmcsQuickUpdate
                 /\ rcvdMsg[p].src = portPriority[p].src
                 /\ rcvdMsg[p].srcPort = portPriority[p].srcPort
    IN  /\ Receiving(p) /\ ~Repeated(p) /\ ~SuperiorMaster(p)
        /\ paInfo' = [paInfo EXCEPT ![p] = IF worse THEN "INFERIOR" ELSE "CURRENT"]
        /\ rcvdMsg' = [rcvdMsg EXCEPT ![p] = None]
        /\ InfoFrame
        /\ UNCHANGED <<infoIs, portPriority, annPath, updtInfo, newInfo,
                       reselect, selected, pc, run>>

\* No condition of the machine holds: sm_bmcs_perform goes on.
InfoSettled ==
    LET p == run.port
    IN  /\ Info(p) /\ ~MustDisable(p)
        /\ \/ paInfo[p] = "DISABLED" /\ ~Capable(p)
           \/ paInfo[p] = "AGED" /\ ~MustUpdate(p)
           \/ /\ paInfo[p] = "CURRENT" /\ ~MustUpdate(p) /\ ~TimedOut(p)
              /\ rcvdMsg[p] = None \/ updtInfo[p]
        /\ pc' = "select"
        /\ UNCHANGED <<infoVars, updtInfo, newInfo, reselect, selected, run>>
        /\ InfoFrame

-----------------------------------------------------------------------------
(* port_state_selection_sm                                                 *)

\* portStateUpdate: the state of port p once the grandmaster vector is g.
PortStateFor(g, p) ==
    CASE infoIs[p] = "Disabled" -> "Disabled"
      [] infoIs[p] = "Aged"     -> "Master"
      [] infoIs[p] = "Mine"     -> "Master"
      [] infoIs[p] = "Received" ->
            IF Eligible(p) /\ g = GmPath(p) THEN "Slave"
            ELSE IF Superior(MasterPriority(g, p), portPriority[p]) THEN "Master"
            ELSE "Passive"

\* Mutant: a port with its own information does not notice a new grandmaster.
UpdtInfoForMineStale(g, p) ==
    CASE infoIs[p] = "Disabled" -> FALSE
      [] infoIs[p] = "Aged"     -> TRUE
      [] infoIs[p] = "Mine"     -> updtInfo[p]
      [] infoIs[p] = "Received" -> PortStateFor(g, p) = "Master"

\* Mutant: a disabled port keeps its update request.
UpdtInfoForDisabledKept(g, p) ==
    CASE infoIs[p] = "Disabled" -> updtInfo[p]
      [] infoIs[p] = "Aged"     -> TRUE
      [] infoIs[p] = "Mine"     -> updtInfo[p] \/ MasterPriority(g, p) # portPriority[p]
      [] infoIs[p] = "Received" -> PortStateFor(g, p) = "Master"

\* updtInfo of port p: does the port have to take over masterPriority?
UpdtInfoFor(g, p) ==
    CASE infoIs[p] = "Disabled" -> FALSE
      [] infoIs[p] = "Aged"     -> TRUE
      [] infoIs[p] = "Mine"     -> updtInfo[p] \/ MasterPriority(g, p) # portPriority[p]
      [] infoIs[p] = "Received" -> PortStateFor(g, p) = "Master"

\* The port 0 state that updtStatesTree derives from the external ports.
LocalPortState(g) ==
    IF \E p \in Ports : PortStateFor(g, p) = "Slave" THEN "Passive" ELSE "Slave"

\* A grandmaster's path is itself; a port that becomes the slave port brings
\* the path of its Announce along.
SelectedPath(g) ==
    LET new == {p \in Ports : PortStateFor(g, p) = "Slave" /\ selectedState[p] # "Slave"}
    IN  IF g.gm = ThisClock THEN <<ThisClock>>
        ELSE IF new # {} THEN PathAppend(annPath[CHOOSE p \in new : TRUE])
        ELSE pathTrace

\* The do ... while (updtInfo) loop of sm_bmcs_perform.
AfterSelection(updt) == IF updt[run.port] THEN "info" ELSE "transmit"

\* STATE_SELECTION: updtStatesTree for the best of the candidate vectors,
\* clearReselectTree and setSelectedTree.  The first call comes through
\* INIT_BRIDGE, whose updateStateDisabledTree leaves what Init and
\* SelectedPath give, and does not wait for reselect.
SelectStates ==
    /\ pc = "select"
    /\ selection = "INIT" \/ \E p \in Ports : reselect[p]
    /\ \E g \in Candidates :
          /\ \A c \in Candidates : ~Superior(c, g)
          /\ gmPriority' = g
          /\ selectedState' = [p \in 0..N |-> IF p = 0 THEN LocalPortState(g)
                                              ELSE PortStateFor(g, p)]
          /\ updtInfo' = [p \in Ports |-> UpdtInfoFor(g, p)]
          /\ pathTrace' = SelectedPath(g)
    /\ selection' = "STATE_SELECTION"
    /\ reselect' = [p \in Ports |-> FALSE]
    /\ selected' = [p \in Ports |-> TRUE]
    /\ pc' = AfterSelection(updtInfo')
    /\ UNCHANGED <<portVars, infoVars, txVars, run>>

\* Nothing asked for a new selection.
KeepStates ==
    /\ pc = "select"
    /\ selection # "INIT" /\ \A p \in Ports : ~reselect[p]
    /\ pc' = AfterSelection(updtInfo)
    /\ UNCHANGED <<portVars, infoVars, updtInfo, reselect, selected, treeVars,
                   txVars, run>>

-----------------------------------------------------------------------------
(* port_announce_transmit_sm and md_announce_send_sm                       *)

\* txAnnounce
AnnounceFor(p) ==
    LET v == MasterPriority(gmPriority, p)
    IN  [pr |-> v.pr, gm |-> v.gm, steps |-> v.steps, src |-> v.src,
         srcPort |-> v.srcPort, path |-> pathTrace]

\* newInfo when IDLE is reached: TRANSMIT_INIT sets it, and so does
\* TRANSMIT_PERIODIC on a master port whose announceSendTime has passed.
\* Without asCapable the machine starts over from TRANSMIT_INIT.
NewInfoAtIdle(p) ==
    \/ newInfo[p] \/ ~asCapable[p]
    \/ run.due /\ selectedState[p] = "Master"

\* Mutant: a port of any state announces.
WantsAnnounceAnyState(p) ==
    NewInfoAtIdle(p) /\ selected[p] /\ ~updtInfo[p]

\* idle_condition: only a master port whose selection is settled announces.
WantsAnnounce(p) ==
    /\ NewInfoAtIdle(p) /\ selectedState[p] = "Master"
    /\ selected[p] /\ ~updtInfo[p]

\* Mutant: the port loop runs one port too far.
NextPortTooFar ==
    IF run.tick /\ run.port <= N
    THEN pc' = "tick" /\ run' = [run EXCEPT !.port = @ + 1, !.late = "no", !.due = FALSE]
    ELSE pc' = "idle" /\ run' = Idle

\* After the last port of a timeout, or after the only port of another event,
\* the handler returns.
NextPort ==
    IF run.tick /\ run.port < N
    THEN pc' = "tick" /\ run' = [run EXCEPT !.port = @ + 1, !.late = "no", !.due = FALSE]
    ELSE pc' = "idle" /\ run' = Idle

\* TRANSMIT_ANNOUNCE.  When the transmission fails, md_announce_send_sm keeps
\* the message for the next timeout.
TransmitAnnounce ==
    LET p == run.port
    IN  /\ pc = "transmit"
        /\ WantsAnnounce(p)
        /\ newInfo' = [newInfo EXCEPT ![p] = FALSE]
        /\ \/ /\ wire' = [port |-> p, msg |-> AnnounceFor(p)]
              /\ deferred' = [deferred EXCEPT ![p] = None]
           \/ /\ SendMayFail
              /\ deferred' = [deferred EXCEPT ![p] = AnnounceFor(p)]
              /\ UNCHANGED wire
        /\ NextPort
        /\ UNCHANGED <<portVars, infoVars, updtInfo, reselect, selected,
                       treeVars>>

TransmitNothing ==
    LET p == run.port
    IN  /\ pc = "transmit"
        /\ ~WantsAnnounce(p)
        /\ newInfo' = [newInfo EXCEPT ![p] = NewInfoAtIdle(p)]
        /\ NextPort
        /\ UNCHANGED <<portVars, infoVars, updtInfo, reselect, selected,
                       treeVars, deferred, wire>>

-----------------------------------------------------------------------------
(* Specification                                                           *)

Event ==
    \/ Timeout
    \/ \E p \in Ports :
          \/ DevUp(p) \/ DevDown(p) \/ Guard(p) \/ UpdateAsCapable(p)
          \/ \E m \in Announces : RecvAnnounce(p, m)

Step ==
    \/ TickPort
    \/ EnterDisabled \/ EnterAged \/ EnterUpdate
    \/ EnterSuperior \/ EnterRepeated \/ EnterInferior \/ InfoSettled
    \/ SelectStates \/ KeepStates
    \/ TransmitAnnounce \/ TransmitNothing

Next == Event \/ Step

\* A handler that has started runs to its end; nothing forces an event.
Spec == Init /\ [][Next]_vars /\ WF_vars(Step)

-----------------------------------------------------------------------------
(* Properties                                                              *)

TypeOK ==
    /\ portOper \in [Ports -> BOOLEAN]
    /\ asCapable \in [Ports -> BOOLEAN]
    /\ infoIs \in [Ports -> {"Received", "Mine", "Aged", "Disabled"}]
    /\ portPriority \in [Ports -> VectorType]
    /\ updtInfo \in [Ports -> BOOLEAN]
    /\ newInfo \in [Ports -> BOOLEAN]
    /\ rcvdMsg \in [Ports -> AnnounceType \cup {None}]
    /\ annPath \in [Ports -> Seq(Nat)]
    /\ reselect \in [Ports -> BOOLEAN]
    /\ selected \in [Ports -> BOOLEAN]
    /\ selectedState \in [0..N -> {"Disabled", "Master", "Passive", "Slave"}]
    /\ gmPriority \in VectorType
    /\ pathTrace \in Seq(Nat)
    /\ paInfo \in [Ports -> {"INIT", "DISABLED", "AGED", "CURRENT", "INFERIOR"}]
    /\ selection \in {"INIT", "STATE_SELECTION"}
    /\ deferred \in [Ports -> AnnounceType \cup {None}]
    /\ wire \in [port : 0..N, msg : AnnounceType \cup {None}]
    /\ pc \in {"idle", "tick", "info", "select", "transmit"}
    /\ run \in RunType
    /\ pc # "idle" => run.port \in Ports

\* Between two runs of the machines of a port the tree is consistent.
Settled == selection # "INIT" /\ pc \in {"idle", "tick", "transmit"}

\* No candidate beats the grandmaster vector, and it is the one of the slave
\* port or, when port 0 is the slave port, the own one.
GmFits ==
    /\ \A c \in Candidates : ~Superior(c, gmPriority)
    /\ \/ selectedState[0] = "Slave" /\ gmPriority = systemPriority
       \/ \E p \in Ports : /\ selectedState[p] = "Slave"
                           /\ infoIs[p] = "Received"
                           /\ gmPriority = GmPath(p)

\* updtStatesTree: once the first selection is made exactly one port is the
\* slave port, either one external port or port 0 when this clock is the
\* grandmaster, whatever two ports hear from the same or from two masters.
OneSlave ==
    selection # "INIT" =>
        /\ \E p \in 0..N : selectedState[p] = "Slave"
        /\ \A p, q \in 0..N :
              selectedState[p] = "Slave" /\ selectedState[q] = "Slave" => p = q

\* The grandmaster stays the best vector on offer while ports time out, go
\* down and take over other roles: sm_bmcs_perform never returns with a
\* gmPriority that no port supports or that some port's vector beats, and the
\* slave port is the port it was learnt from.
GmIsBest == Settled => GmFits

\* A port that claims its own information (infoIs Mine) and has no update to
\* make claims the present masterPriority, although the grandmaster may have
\* been replaced by the handling of another port.
MineIsCurrent ==
    Settled => \A p \in Ports :
        infoIs[p] = "Mine" /\ ~updtInfo[p] =>
            portPriority[p] = MasterPriority(gmPriority, p)

\* pathTrace, which every Announce carries, is empty or ends with thisClock
\* and has thisClock nowhere else, so that neighbours detect a loop.
PathTraceSound ==
    /\ Len(pathTrace) <= MaxPath
    /\ \A i \in 1..Len(pathTrace) :
          (pathTrace[i] = ThisClock) <=> (i = Len(pathTrace))
    /\ Settled /\ selectedState[0] = "Slave" => pathTrace = <<ThisClock>>

\* TRANSMIT_ANNOUNCE happens only on a capable port that has taken over
\* masterPriority, and never tells a neighbour about the grandmaster that was
\* learnt from that same port.
AnnounceIsOwn ==
    [][TransmitAnnounce =>
          LET p == run.port
          IN  /\ Capable(p) /\ infoIs[p] = "Mine"
              /\ portPriority[p] = MasterPriority(gmPriority, p)
              /\ gmPriority.port # p]_vars

\* An Announce leaves a port only while the port is capable, the retry of a
\* failed transmission included (the order of calls in gptpnet_cb_timeout).
SendsOnlyCapable ==
    [][wire' # wire /\ wire'.port # 0 =>
          portOper'[wire'.port] /\ asCapable'[wire'.port]]_vars

\* The selection moves to a worse grandmaster only when the port that the
\* better one was learnt from has aged or is disabled.
GmLostOnlyByPort ==
    [][Superior(gmPriority, gmPriority') /\ selection # "INIT" =>
          /\ gmPriority.port \in Ports
          /\ infoIs[gmPriority.port] \in {"Aged", "Disabled"}]_vars

\* A devdown, a guard event or a lost capability is not acted on at once; the
\* next timeout handler brings the state of every port in line.
TimeoutRepairs ==
    [][run.tick /\ pc' = "idle" =>
          \A p \in Ports : Capable(p) <=> (selectedState'[p] # "Disabled")]_vars

\* The do ... while (updtInfo) loop of sm_bmcs_perform and the loops of the
\* state machines end: every handler returns.
HandlerReturns == (pc # "idle") ~> (pc = "idle")

=============================================================================
