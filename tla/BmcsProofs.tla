----------------------------- MODULE BmcsProofs -----------------------------
(***************************************************************************)
(* Proofs about Bmcs, for every number of ports, every set of Announce     *)
(* messages and every path length.                                         *)
(***************************************************************************)
EXTENDS Bmcs, TLAPS

-----------------------------------------------------------------------------
(* Type correctness                                                        *)

\* None stands for no message pending and is no Announce.
LEMMA NoneIsNoAnnounce == None \notin AnnounceType
  BY DEF None, AnnounceType

\* The path operations return paths.
LEMMA PathAppendType ==
  ASSUME NEW s \in Seq(Nat)
  PROVE  PathAppend(s) \in Seq(Nat)
  BY ConstantsAssumption DEF PathAppend

\* qualifyAnnounce stores a path.
LEMMA TracedPathType ==
  ASSUME TypeOK, NEW p \in Ports, NEW tlv \in Seq(Nat) \cup {NoTlv}
  PROVE  TracedPath(p, tlv) \in Seq(Nat)
  <1>1. CASE tlv = NoTlv
    <2>1. Len(pathTrace) \in Nat
      BY DEF TypeOK
    <2>2. [i \in 1..Len(pathTrace) |-> 0] \in Seq(Nat)
      BY <2>1
    <2> QED
      BY <1>1, <2>2 DEF TracedPath
  <1>2. CASE tlv # NoTlv
    BY <1>2, PathAppendType DEF TracedPath, TypeOK
  <1> QED
    BY <1>1, <1>2

\* The vectors that are built from vectors and messages are vectors.
LEMMA VectorTypes ==
  /\ systemPriority \in VectorType
  /\ ZeroVector \in VectorType
  /\ \A p \in Ports : \A m \in AnnounceType : MessagePriority(m, p) \in VectorType
  /\ \A p \in Ports : \A v \in VectorType : MasterPriority(v, p) \in VectorType
  /\ TypeOK => \A p \in Ports : GmPath(p) \in VectorType
  <1> USE ConstantsAssumption DEF VectorType, Ports
  <1>1. systemPriority \in VectorType /\ ZeroVector \in VectorType
    BY DEF systemPriority, ZeroVector
  <1>2. \A p \in Ports : \A m \in AnnounceType : MessagePriority(m, p) \in VectorType
    BY DEF MessagePriority, AnnounceType
  <1>3. ASSUME NEW p \in Ports, NEW v \in VectorType
        PROVE  MasterPriority(v, p) \in VectorType
    BY DEF MasterPriority
  <1>4. ASSUME TypeOK, NEW p \in Ports
        PROVE  GmPath(p) \in VectorType
    <2> DEFINE v == portPriority[p]
    <2>1. v \in VectorType
      BY <1>4 DEF TypeOK
    <2>2. GmPath(p) = [pr |-> v.pr, gm |-> v.gm, steps |-> v.steps + 1,
                       src |-> v.src, srcPort |-> v.srcPort, port |-> v.port]
      BY <2>1 DEF GmPath
    <2> QED
      BY <2>1, <2>2
  <1> QED
    BY <1>1, <1>2, <1>3, <1>4

\* The Announce that a port sends is an Announce.
LEMMA AnnounceForType ==
  ASSUME TypeOK, NEW p \in Ports
  PROVE  AnnounceFor(p) \in AnnounceType
  BY VectorTypes, ConstantsAssumption
     DEF AnnounceFor, MasterPriority, AnnounceType, VectorType, TypeOK, Ports

\* updtStatesTree gives every port a state and an update request.
LEMMA SelectionTypes ==
  ASSUME TypeOK, NEW g \in VectorType
  PROVE  /\ \A p \in Ports : PortStateFor(g, p) \in {"Disabled", "Master", "Passive", "Slave"}
         /\ \A p \in Ports : UpdtInfoFor(g, p) \in BOOLEAN
         /\ LocalPortState(g) \in {"Passive", "Slave"}
         /\ SelectedPath(g) \in Seq(Nat)
         /\ Candidates \subseteq VectorType
  <1>1. \A p \in Ports : PortStateFor(g, p) \in {"Disabled", "Master", "Passive", "Slave"}
    BY DEF PortStateFor, TypeOK
  <1>2. ASSUME NEW p \in Ports
        PROVE  UpdtInfoFor(g, p) \in BOOLEAN
    <2>1. updtInfo[p] \in BOOLEAN
      BY DEF TypeOK
    <2>2. (updtInfo[p] \/ MasterPriority(g, p) # portPriority[p]) \in BOOLEAN
      BY Zenon
    <2>3. (PortStateFor(g, p) = "Master") \in BOOLEAN
      BY Zenon
    <2>4. infoIs[p] \in {"Received", "Mine", "Aged", "Disabled"}
      BY DEF TypeOK
    <2> QED
      BY <2>2, <2>3, <2>4 DEF UpdtInfoFor
  <1>3. LocalPortState(g) \in {"Passive", "Slave"}
    BY DEF LocalPortState
  <1>4. SelectedPath(g) \in Seq(Nat)
    <2> DEFINE new == {p \in Ports : PortStateFor(g, p) = "Slave" /\ selectedState[p] # "Slave"}
    <2>1. CASE g.gm = ThisClock
      BY <2>1, ConstantsAssumption DEF SelectedPath
    <2>2. CASE g.gm # ThisClock /\ new # {}
      <3>1. (CHOOSE p \in new : TRUE) \in Ports
        BY <2>2
      <3>2. annPath[CHOOSE p \in new : TRUE] \in Seq(Nat)
        BY <3>1 DEF TypeOK
      <3> QED
        BY <2>2, <3>2, PathAppendType DEF SelectedPath
    <2>3. CASE g.gm # ThisClock /\ new = {}
      BY <2>3 DEF SelectedPath, TypeOK
    <2> QED
      BY <2>1, <2>2, <2>3
  <1>5. Candidates \subseteq VectorType
    BY VectorTypes DEF Candidates
  <1> QED
    BY <1>1, <1>2, <1>3, <1>4, <1>5

\* Starting the handling of a port gives run and pc values of their types.
LEMMA StartPortType ==
  ASSUME NEW p \in Ports, NEW tick \in BOOLEAN, StartPort(p, tick)
  PROVE  run' \in RunType /\ run'.port \in Ports /\ pc' = "info"
  BY ConstantsAssumption DEF StartPort, RunType, Ports

\* Going on to the next port, or returning, does so too.
LEMMA NextPortType ==
  ASSUME TypeOK, pc # "idle", NextPort
  PROVE  /\ run' \in RunType
         /\ pc' \in {"idle", "tick"}
         /\ pc' # "idle" => run'.port \in Ports
  <1> USE ConstantsAssumption DEF Ports
  <1>1. run \in RunType /\ run.port \in Ports
    BY DEF TypeOK
  <1>2. CASE run.tick /\ run.port < N
    <2>1. run' = [port |-> run.port + 1, tick |-> run.tick, late |-> "no", due |-> FALSE]
      BY <1>1, <1>2 DEF NextPort, RunType
    <2>2. run.port + 1 \in 1..N
      BY <1>1, <1>2
    <2> QED
      BY <1>1, <1>2, <2>1, <2>2 DEF NextPort, RunType
  <1>3. CASE ~(run.tick /\ run.port < N)
    <2>1. run' = Idle /\ pc' = "idle"
      BY <1>3, Zenon DEF NextPort
    <2> QED
      BY <2>1 DEF RunType, Idle
  <1> QED
    BY <1>2, <1>3

\* The values that mind.c gives the instance have their types.
LEMMA TypeInit == Init => TypeOK
  BY VectorTypes, ConstantsAssumption DEF Init, TypeOK, Ports, Idle, RunType

\* The entry of every handler of gptpnet_cb preserves the types.
LEMMA TypeEvent ==
  ASSUME TypeOK, Event
  PROVE  TypeOK'
  <1> USE DEF portVars, infoVars, treeVars, txVars
  <1>1. CASE Timeout
    <2>1. run' = [port |-> 1, tick |-> TRUE, late |-> "no", due |-> FALSE]
      BY <1>1 DEF Timeout, Idle
    <2>2. run' \in RunType /\ run'.port \in Ports
      BY <2>1, ConstantsAssumption DEF RunType, Ports
    <2>3. wire' \in [port : 0..N, msg : AnnounceType \cup {None}]
      BY <1>1, ConstantsAssumption DEF Timeout
    <2> QED
      BY <1>1, <2>2, <2>3 DEF Timeout, TypeOK
  <1>2. ASSUME NEW p \in Ports, DevUp(p)
        PROVE  TypeOK'
    <2>1. run' \in RunType /\ run'.port \in Ports /\ pc' = "info"
      BY <1>2, StartPortType DEF DevUp
    <2>2. wire' \in [port : 0..N, msg : AnnounceType \cup {None}]
      BY <1>2, ConstantsAssumption DEF DevUp
    <2>3. portOper' \in [Ports -> BOOLEAN] /\ asCapable' \in [Ports -> BOOLEAN]
      BY <1>2 DEF DevUp, TypeOK
    <2> QED
      BY <1>2, <2>1, <2>2, <2>3 DEF DevUp, TypeOK
  <1>3. ASSUME NEW p \in Ports, DevDown(p)
        PROVE  TypeOK'
    BY <1>3 DEF DevDown, TypeOK
  <1>4. ASSUME NEW p \in Ports, Guard(p)
        PROVE  TypeOK'
    <2>1. portOper' \in [Ports -> BOOLEAN]
      BY <1>4 DEF Guard, TypeOK
    <2> QED
      BY <1>4, <2>1 DEF Guard, TypeOK
  <1>5. ASSUME NEW p \in Ports, UpdateAsCapable(p)
        PROVE  TypeOK'
    <2>1. asCapable' \in [Ports -> BOOLEAN]
      BY <1>5 DEF UpdateAsCapable, TypeOK
    <2> QED
      BY <1>5, <2>1 DEF UpdateAsCapable, TypeOK
  <1>6. ASSUME NEW p \in Ports, NEW m \in Announces, RecvAnnounce(p, m)
        PROVE  TypeOK'
    <2>1. PICK tlv \in ReportedTlv(m) : RecvAnnounce(p, m)!(tlv)
      BY <1>6 DEF RecvAnnounce
    <2>2. m \in AnnounceType /\ tlv \in Seq(Nat) \cup {NoTlv}
      BY ConstantsAssumption DEF ReportedTlv, AnnounceType
    <2>3. [m EXCEPT !.path = tlv] \in AnnounceType
      BY <2>2 DEF AnnounceType
    <2>4. rcvdMsg' \in [Ports -> AnnounceType \cup {None}]
      BY <2>1, <2>3 DEF TypeOK
    <2>5. pathTrace' \in Seq(Nat)
      BY <2>1, <2>2, TracedPathType DEF TypeOK
    <2>6. run' \in RunType /\ run'.port \in Ports /\ pc' = "info"
      BY <2>1, StartPortType
    <2>7. wire' \in [port : 0..N, msg : AnnounceType \cup {None}]
      BY <2>1, ConstantsAssumption
    <2> QED
      BY <2>1, <2>4, <2>5, <2>6, <2>7 DEF TypeOK
  <1> QED
    BY <1>1, <1>2, <1>3, <1>4, <1>5, <1>6 DEF Event

\* So does every state that port_announce_information_sm enters.
LEMMA TypeInfo ==
  ASSUME TypeOK,
         \/ EnterDisabled \/ EnterAged \/ EnterUpdate
         \/ EnterSuperior \/ EnterRepeated \/ EnterInferior \/ InfoSettled
  PROVE  TypeOK'
  <1> USE DEF portVars, infoVars, treeVars, Info, InfoFrame
  <1> DEFINE p == run.port
  <1>1. pc = "info" /\ p \in Ports
    BY DEF TypeOK, EnterDisabled, EnterAged, EnterUpdate, EnterSuperior,
           EnterRepeated, EnterInferior, InfoSettled, Receiving
  <1>2. CASE EnterDisabled
    BY <1>1, <1>2 DEF EnterDisabled, Reselect, TypeOK
  <1>3. CASE EnterAged
    BY <1>1, <1>3 DEF EnterAged, Reselect, TypeOK
  <1>4. CASE EnterUpdate
    <2>1. MasterPriority(gmPriority, p) \in VectorType
      BY <1>1, VectorTypes DEF TypeOK
    <2>2. portPriority' \in [Ports -> VectorType]
      BY <1>4, <2>1 DEF EnterUpdate, TypeOK
    <2> QED
      BY <1>1, <1>4, <2>2 DEF EnterUpdate, TypeOK
  <1>5. CASE EnterSuperior
    <2>1. rcvdMsg[p] \in AnnounceType
      BY <1>1, <1>5 DEF EnterSuperior, Receiving, TypeOK
    <2>2. portPriority' \in [Ports -> VectorType]
      BY <1>1, <1>5, <2>1, VectorTypes DEF EnterSuperior, TypeOK
    <2>3. annPath' \in [Ports -> Seq(Nat)]
      BY <1>1, <1>5, <2>1 DEF EnterSuperior, TypeOK, AnnounceType
    <2>4. run' \in RunType /\ run'.port = p
      BY <1>5 DEF EnterSuperior, TypeOK, RunType
    <2> QED
      BY <1>1, <1>5, <2>2, <2>3, <2>4 DEF EnterSuperior, Reselect, TypeOK
  <1>6. CASE EnterRepeated
    <2>1. run' \in RunType /\ run'.port = p
      BY <1>6 DEF EnterRepeated, TypeOK, RunType
    <2> QED
      BY <1>1, <1>6, <2>1 DEF EnterRepeated, TypeOK
  <1>7. CASE EnterInferior
    BY <1>1, <1>7 DEF EnterInferior, TypeOK
  <1>8. CASE InfoSettled
    BY <1>1, <1>8 DEF InfoSettled, TypeOK
  <1> QED
    BY <1>2, <1>3, <1>4, <1>5, <1>6, <1>7, <1>8

\* So does every other step of a running handler.
LEMMA TypeStep ==
  ASSUME TypeOK, Step
  PROVE  TypeOK'
  <1> USE DEF portVars, infoVars, treeVars, txVars
  <1>1. CASE TickPort
    <2> DEFINE p == run.port
    <2>1. p \in Ports
      BY <1>1 DEF TickPort, TypeOK
    <2>2. run' \in RunType /\ run'.port \in Ports /\ pc' = "info"
      BY <1>1, <2>1, StartPortType DEF TickPort
    <2>3. asCapable' \in [Ports -> BOOLEAN]
      BY <1>1 DEF TickPort, TypeOK
    <2>4. deferred' \in [Ports -> AnnounceType \cup {None}]
      BY <1>1 DEF TickPort, TypeOK
    <2>5. wire' \in [port : 0..N, msg : AnnounceType \cup {None}]
      BY <1>1, <2>1, ConstantsAssumption DEF TickPort, TypeOK, Ports
    <2> QED
      BY <1>1, <2>2, <2>3, <2>4, <2>5 DEF TickPort, TypeOK
  <1>2. CASE \/ EnterDisabled \/ EnterAged \/ EnterUpdate
             \/ EnterSuperior \/ EnterRepeated \/ EnterInferior \/ InfoSettled
    BY <1>2, TypeInfo
  <1>3. CASE SelectStates
    <2>1. PICK g \in Candidates :
             /\ gmPriority' = g
             /\ selectedState' = [p \in 0..N |-> IF p = 0 THEN LocalPortState(g)
                                                 ELSE PortStateFor(g, p)]
             /\ updtInfo' = [p \in Ports |-> UpdtInfoFor(g, p)]
             /\ pathTrace' = SelectedPath(g)
      BY <1>3 DEF SelectStates
    <2>2. g \in VectorType
      BY <2>1, VectorTypes DEF Candidates
    <2>3. selectedState' \in [0..N -> {"Disabled", "Master", "Passive", "Slave"}]
      <3>1. \A p \in 0..N : p # 0 => p \in Ports
        BY ConstantsAssumption DEF Ports
      <3> QED
        BY <2>1, <2>2, <3>1, SelectionTypes
    <2>4. updtInfo' \in [Ports -> BOOLEAN]
      BY <2>1, <2>2, SelectionTypes
    <2>5. pathTrace' \in Seq(Nat)
      BY <2>1, <2>2, SelectionTypes
    <2>6. pc' \in {"info", "transmit"} /\ run' = run /\ run.port \in Ports
      BY <1>3 DEF SelectStates, AfterSelection, TypeOK
    <2>7. reselect' \in [Ports -> BOOLEAN] /\ selected' \in [Ports -> BOOLEAN]
      BY <1>3 DEF SelectStates
    <2> QED
      BY <1>3, <2>1, <2>2, <2>3, <2>4, <2>5, <2>6, <2>7 DEF SelectStates, TypeOK
  <1>4. CASE KeepStates
    BY <1>4 DEF KeepStates, AfterSelection, TypeOK
  <1>5. CASE TransmitAnnounce
    <2> DEFINE p == run.port
    <2>1. pc # "idle" /\ p \in Ports
      BY <1>5 DEF TransmitAnnounce, TypeOK
    <2>2. AnnounceFor(p) \in AnnounceType
      BY <2>1, AnnounceForType
    <2>3. deferred' \in [Ports -> AnnounceType \cup {None}]
      BY <1>5, <2>2 DEF TransmitAnnounce, TypeOK
    <2>4. wire' \in [port : 0..N, msg : AnnounceType \cup {None}]
      BY <1>5, <2>1, <2>2, ConstantsAssumption DEF TransmitAnnounce, TypeOK, Ports
    <2>5. /\ run' \in RunType
          /\ pc' \in {"idle", "tick"}
          /\ pc' # "idle" => run'.port \in Ports
      BY <1>5, <2>1, NextPortType DEF TransmitAnnounce
    <2> QED
      BY <1>5, <2>3, <2>4, <2>5 DEF TransmitAnnounce, TypeOK
  <1>6. CASE TransmitNothing
    <2> DEFINE p == run.port
    <2>1. pc # "idle" /\ p \in Ports
      BY <1>6 DEF TransmitNothing, TypeOK
    <2>2. NewInfoAtIdle(p) \in BOOLEAN
      BY Zenon DEF NewInfoAtIdle
    <2>3. newInfo' \in [Ports -> BOOLEAN]
      BY <1>6, <2>2 DEF TransmitNothing, TypeOK
    <2>4. /\ run' \in RunType
          /\ pc' \in {"idle", "tick"}
          /\ pc' # "idle" => run'.port \in Ports
      BY <1>6, <2>1, NextPortType DEF TransmitNothing
    <2> QED
      BY <1>6, <2>3, <2>4 DEF TransmitNothing, TypeOK
  <1> QED
    BY <1>1, <1>2, <1>3, <1>4, <1>5, <1>6 DEF Step

\* The variables of the selection keep their types: no port number leaves
\* 1..N in the port loops of gptpman, and what is sent is an Announce.
THEOREM TypeCorrect == Spec => []TypeOK
  <1>1. TypeOK /\ [Next]_vars => TypeOK'
    <2> SUFFICES ASSUME TypeOK, [Next]_vars
                 PROVE  TypeOK'
      OBVIOUS
    <2>1. CASE UNCHANGED vars
      BY <2>1 DEF TypeOK, vars, portVars, infoVars, treeVars, txVars
    <2> QED
      BY <2>1, TypeEvent, TypeStep DEF Next
  <1> QED
    BY <1>1, TypeInit, PTL DEF Spec

-----------------------------------------------------------------------------
(* The inductive invariant                                                 *)

\* A port that holds received information holds a vector with its own number,
\* which is what makes the vectors of two ports differ.
ReceivedOwn == \A p \in Ports : infoIs[p] = "Received" => portPriority[p].port = p

\* A port that holds its own information is no candidate.
MineOwn == \A p \in Ports : infoIs[p] = "Mine" => portPriority[p].src = ThisClock

\* The slave port is never told to take over masterPriority.
SlaveKeepsInfo == \A p \in Ports : updtInfo[p] => selectedState[p] # "Slave"

\* A selection that was asked for is made before the port's turn is over.
ReselectServed ==
  pc \in {"idle", "tick", "transmit"} => \A p \in Ports : ~reselect[p]

\* Between selections, also while other machines of the port run.
Selected == selection # "INIT" /\ \A p \in Ports : ~reselect[p]

SelectedFits == Selected => GmFits

MineUpToDate ==
  \A p \in Ports : infoIs[p] = "Mine" /\ ~updtInfo[p] =>
                       portPriority[p] = MasterPriority(gmPriority, p)

\* A master port has its own information or is about to take it over.
MasterMine ==
  Selected => \A p \in Ports :
      selectedState[p] = "Master" => infoIs[p] = "Mine" \/ updtInfo[p]

\* The port in turn has been disabled if it had to be.
TurnEnabled ==
  /\ pc \in {"select", "transmit"} => ~MustDisable(run.port)
  /\ pc = "transmit" => selection # "INIT"

IInv ==
  /\ TypeOK
  /\ ReceivedOwn /\ MineOwn /\ SlaveKeepsInfo
  /\ ReselectServed /\ OneSlave /\ SelectedFits
  /\ MineUpToDate /\ MasterMine /\ TurnEnabled

\* IInv holds before the first event.
LEMMA IInvInit == Init => IInv
  <1> SUFFICES ASSUME Init PROVE IInv
    OBVIOUS
  <1>1. TypeOK
    BY TypeInit
  <1> QED
    BY <1>1 DEF Init, IInv, ReceivedOwn, MineOwn, SlaveKeepsInfo, ReselectServed,
                OneSlave, SelectedFits, Selected, MineUpToDate, MasterMine, TurnEnabled

\* The part of the invariant that speaks of the tree and not of the handler.
TreeInv ==
  /\ ReceivedOwn /\ MineOwn /\ SlaveKeepsInfo
  /\ OneSlave /\ SelectedFits
  /\ MineUpToDate /\ MasterMine

core == <<infoIs, portPriority, updtInfo, reselect, selectedState, gmPriority,
          selection>>

\* Steps that leave the tree alone.
LEMMA TreeFrame ==
  ASSUME IInv, UNCHANGED core
  PROVE  TreeInv'
  BY DEF IInv, TreeInv, core, ReceivedOwn, MineOwn, SlaveKeepsInfo, OneSlave,
         SelectedFits, Selected, MineUpToDate, MasterMine, GmFits, Candidates,
         Eligible, HasPortPriority, GmPath

\* An event leaves the tree alone, and what it clears is restored by the
\* handler before it returns.
LEMMA IInvEvent ==
  ASSUME IInv, Event
  PROVE  IInv'
  <1>1. TypeOK'
    BY TypeEvent DEF IInv
  <1>2. /\ UNCHANGED core
        /\ pc = "idle"
        /\ pc' \in {"idle", "info", "tick"}
    <2> USE DEF core, portVars, infoVars, treeVars, txVars, StartPort
    <2>1. CASE Timeout
      BY <2>1 DEF Timeout
    <2>2. ASSUME NEW p \in Ports, DevUp(p) \/ DevDown(p) \/ Guard(p) \/ UpdateAsCapable(p)
          PROVE  <1>2!:
      BY <2>2 DEF DevUp, DevDown, Guard, UpdateAsCapable
    <2>3. ASSUME NEW p \in Ports, NEW m \in Announces, RecvAnnounce(p, m)
          PROVE  <1>2!:
      BY <2>3 DEF RecvAnnounce
    <2> QED
      BY <2>1, <2>2, <2>3 DEF Event
  <1>3. TreeInv'
    BY <1>2, TreeFrame
  <1>4. ReselectServed' /\ TurnEnabled'
    BY <1>2 DEF IInv, ReselectServed, TurnEnabled, core
  <1> QED
    BY <1>1, <1>3, <1>4 DEF IInv, TreeInv

\* DISABLED, AGED and SUPERIOR_MASTER_PORT change what a port holds and ask
\* for a selection.
LEMMA IInvReselect ==
  ASSUME IInv, EnterDisabled \/ EnterAged \/ EnterSuperior
  PROVE  IInv'
  <1> DEFINE p == run.port
  <1>1. TypeOK'
    BY TypeInfo DEF IInv
  <1>2. /\ pc = "info" /\ pc' = "info" /\ p \in Ports /\ reselect'[p]
        /\ UNCHANGED <<selectedState, gmPriority, selection, updtInfo>>
    BY DEF IInv, TypeOK, EnterDisabled, EnterAged, EnterSuperior, Receiving, Info,
           Reselect, InfoFrame, treeVars
  <1>3. \/ infoIs' = [infoIs EXCEPT ![p] = "Disabled"] /\ UNCHANGED portPriority
        \/ infoIs' = [infoIs EXCEPT ![p] = "Aged"] /\ UNCHANGED portPriority
        \/ /\ infoIs' = [infoIs EXCEPT ![p] = "Received"]
           /\ portPriority' = [portPriority EXCEPT ![p] = MessagePriority(rcvdMsg[p], p)]
    BY DEF EnterDisabled, EnterAged, EnterSuperior
  <1>4. ReceivedOwn'
    BY <1>2, <1>3 DEF IInv, TypeOK, ReceivedOwn, MessagePriority
  <1>5. MineOwn' /\ MineUpToDate'
    <2> SUFFICES ASSUME NEW q \in Ports, infoIs'[q] = "Mine"
                 PROVE  /\ portPriority'[q].src = ThisClock
                        /\ ~updtInfo'[q] =>
                             portPriority'[q] = MasterPriority(gmPriority', q)
      BY DEF MineOwn, MineUpToDate, MasterPriority
    <2>1. q # p /\ infoIs[q] = "Mine" /\ portPriority'[q] = portPriority[q]
      BY <1>2, <1>3 DEF IInv, TypeOK
    <2> QED
      BY <1>2, <2>1 DEF IInv, MineOwn, MineUpToDate
  <1>6. SlaveKeepsInfo' /\ OneSlave'
    BY <1>2 DEF IInv, SlaveKeepsInfo, OneSlave
  <1>7. SelectedFits' /\ MasterMine'
    BY <1>2 DEF SelectedFits, MasterMine, Selected
  <1>8. ReselectServed' /\ TurnEnabled'
    BY <1>2 DEF ReselectServed, TurnEnabled
  <1> QED
    BY <1>1, <1>4, <1>5, <1>6, <1>7, <1>8 DEF IInv

\* UPDATE takes a candidate away, never the one of the slave port.
LEMMA IInvUpdate ==
  ASSUME IInv, EnterUpdate
  PROVE  IInv'
  <1> DEFINE p == run.port
  <1>1. TypeOK'
    BY TypeInfo DEF IInv
  <1>2. /\ pc = "info" /\ pc' = "info" /\ p \in Ports /\ updtInfo[p]
        /\ UNCHANGED <<selectedState, gmPriority, selection, reselect, run>>
        /\ infoIs' = [infoIs EXCEPT ![p] = "Mine"]
        /\ portPriority' = [portPriority EXCEPT ![p] = MasterPriority(gmPriority, p)]
        /\ updtInfo' = [updtInfo EXCEPT ![p] = FALSE]
    BY DEF IInv, TypeOK, EnterUpdate, Info, InfoFrame, MustUpdate, treeVars
  <1>3. /\ infoIs'[p] = "Mine" /\ portPriority'[p] = MasterPriority(gmPriority, p)
        /\ ~updtInfo'[p]
        /\ \A q \in Ports \ {p} : /\ infoIs'[q] = infoIs[q]
                                  /\ portPriority'[q] = portPriority[q]
                                  /\ updtInfo'[q] = updtInfo[q]
    BY <1>2 DEF IInv, TypeOK
  <1>4. ReceivedOwn' /\ MineOwn'
    BY <1>3 DEF IInv, ReceivedOwn, MineOwn, MasterPriority
  <1>5. SlaveKeepsInfo' /\ OneSlave'
    BY <1>2, <1>3 DEF IInv, SlaveKeepsInfo, OneSlave
  <1>6. ASSUME Selected'
        PROVE  GmFits'
    <2>1. Selected /\ GmFits
      BY <1>2, <1>6 DEF Selected, IInv, SelectedFits
    <2>2. ~Eligible(p)'
      BY <1>2, <1>3 DEF Eligible, MasterPriority
    <2>3. \A q \in Ports \ {p} : (Eligible(q)' <=> Eligible(q)) /\ GmPath(q)' = GmPath(q)
      BY <1>3 DEF Eligible, GmPath, HasPortPriority
    <2>4. ASSUME NEW c \in Candidates'
          PROVE  c \in Candidates
      <3>1. c = systemPriority \/ \E q \in Ports : Eligible(q)' /\ c = GmPath(q)'
        BY DEF Candidates, systemPriority
      <3>2. ASSUME NEW q \in Ports, Eligible(q)', c = GmPath(q)'
            PROVE  c \in Candidates
        BY <1>2, <2>2, <2>3, <3>2 DEF Candidates
      <3> QED
        BY <3>1, <3>2 DEF Candidates
    <2>5. selectedState[p] # "Slave"
      BY <1>2 DEF IInv, SlaveKeepsInfo
    <2>6. \A c \in Candidates' : ~Superior(c, gmPriority')
      BY <1>2, <2>1, <2>4 DEF GmFits
    <2>7. CASE selectedState[0] = "Slave" /\ gmPriority = systemPriority
      BY <1>2, <2>6, <2>7 DEF GmFits
    <2>8. CASE \E q \in Ports : /\ selectedState[q] = "Slave"
                                /\ infoIs[q] = "Received"
                                /\ gmPriority = GmPath(q)
      BY <1>2, <1>3, <2>3, <2>5, <2>6, <2>8 DEF GmFits
    <2> QED
      BY <2>1, <2>7, <2>8 DEF GmFits
  <1>7. MineUpToDate'
    BY <1>2, <1>3 DEF IInv, MineUpToDate, MasterPriority
  <1>8. MasterMine'
    BY <1>2, <1>3 DEF IInv, MasterMine, Selected
  <1>9. ReselectServed' /\ TurnEnabled'
    BY <1>2 DEF ReselectServed, TurnEnabled
  <1> QED
    BY <1>1, <1>4, <1>5, <1>6, <1>7, <1>8, <1>9 DEF IInv, SelectedFits

\* The steps of a handler that do not touch the tree.
LEMMA IInvQuiet ==
  ASSUME IInv,
         \/ TickPort \/ EnterRepeated \/ EnterInferior \/ InfoSettled
         \/ KeepStates \/ TransmitAnnounce \/ TransmitNothing
  PROVE  IInv'
  <1> USE DEF portVars, infoVars, treeVars, txVars
  <1>1. TypeOK'
    BY TypeStep DEF IInv, Step
  <1>2. UNCHANGED core
    BY DEF core, TickPort, EnterRepeated, EnterInferior, InfoSettled, KeepStates,
           TransmitAnnounce, TransmitNothing, InfoFrame
  <1>3. TreeInv'
    BY <1>2, TreeFrame
  <1>4. ReselectServed' /\ TurnEnabled'
    <2>1. CASE TickPort \/ EnterRepeated \/ EnterInferior
      <3>1. pc' = "info"
        BY <2>1 DEF TickPort, StartPort, EnterRepeated, EnterInferior, Receiving, Info
      <3> QED
        BY <3>1 DEF ReselectServed, TurnEnabled
    <2>2. CASE InfoSettled
      BY <2>2 DEF InfoSettled, InfoFrame, Info, ReselectServed, TurnEnabled,
                  MustDisable, Capable
    <2>3. CASE KeepStates
      BY <2>3 DEF KeepStates, AfterSelection, IInv, ReselectServed, TurnEnabled,
                  MustDisable, Capable
    <2>4. CASE TransmitAnnounce \/ TransmitNothing
      <3>1. pc = "transmit" /\ pc' \in {"idle", "tick"}
        BY <2>4 DEF TransmitAnnounce, TransmitNothing, NextPort
      <3> QED
        BY <1>2, <3>1 DEF core, IInv, ReselectServed, TurnEnabled
    <2> QED
      BY <2>1, <2>2, <2>3, <2>4
  <1> QED
    BY <1>1, <1>3, <1>4 DEF IInv, TreeInv

\* STATE_SELECTION establishes the tree anew.
LEMMA IInvSelect ==
  ASSUME IInv, SelectStates
  PROVE  IInv'
  <1>1. TypeOK'
    BY TypeStep DEF IInv, Step
  <1>2. PICK g \in Candidates :
           /\ \A c \in Candidates : ~Superior(c, g)
           /\ gmPriority' = g
           /\ selectedState' = [p \in 0..N |-> IF p = 0 THEN LocalPortState(g)
                                               ELSE PortStateFor(g, p)]
           /\ updtInfo' = [p \in Ports |-> UpdtInfoFor(g, p)]
    BY DEF SelectStates
  <1>3. /\ UNCHANGED <<infoIs, portPriority, portOper, asCapable, run>>
        /\ pc = "select" /\ pc' \in {"info", "transmit"}
        /\ selection' = "STATE_SELECTION"
        /\ \A p \in Ports : ~reselect'[p]
    BY DEF SelectStates, AfterSelection, portVars, infoVars
  <1>4. 0 \notin Ports /\ 0..N = {0} \cup Ports
    BY ConstantsAssumption DEF Ports
  <1>5. /\ selectedState'[0] = LocalPortState(g)
        /\ \A p \in Ports : /\ selectedState'[p] = PortStateFor(g, p)
                            /\ updtInfo'[p] = UpdtInfoFor(g, p)
    BY <1>2, <1>4
  <1>6. /\ \A p \in Ports : infoIs[p] \in {"Received", "Mine", "Aged", "Disabled"}
        /\ ReceivedOwn /\ MineOwn
    BY DEF IInv, TypeOK
  <1>7. \A p \in Ports : PortStateFor(g, p) = "Slave" <=>
                             infoIs[p] = "Received" /\ Eligible(p) /\ g = GmPath(p)
    BY <1>6 DEF PortStateFor
  <1>8. \A p \in Ports : Eligible(p) => infoIs[p] = "Received"
    BY <1>6 DEF Eligible, MineOwn
  <1>9. \A p, q \in Ports : PortStateFor(g, p) = "Slave" /\ PortStateFor(g, q) = "Slave"
                                => p = q
    <2> SUFFICES ASSUME NEW p \in Ports, NEW q \in Ports,
                        PortStateFor(g, p) = "Slave", PortStateFor(g, q) = "Slave"
                 PROVE  p = q
      OBVIOUS
    <2>1. GmPath(p) = GmPath(q) /\ portPriority[p].port = p /\ portPriority[q].port = q
      BY <1>6, <1>7 DEF ReceivedOwn
    <2>2. portPriority[p] \in VectorType /\ portPriority[q] \in VectorType
      BY DEF IInv, TypeOK
    <2>3. GmPath(p).port = portPriority[p].port /\ GmPath(q).port = portPriority[q].port
      BY <2>2 DEF GmPath, VectorType
    <2> QED
      BY <2>1, <2>3
  <1>10. ReceivedOwn' /\ MineOwn'
    BY <1>3, <1>6 DEF ReceivedOwn, MineOwn
  <1>11. SlaveKeepsInfo'
    <2>1. \A p \in Ports : UpdtInfoFor(g, p) => PortStateFor(g, p) # "Slave"
      BY <1>6 DEF UpdtInfoFor, PortStateFor
    <2> QED
      BY <1>5, <2>1 DEF SlaveKeepsInfo
  <1>12. OneSlave'
    <2>1. selectedState'[0] = "Slave" <=> \A p \in Ports : PortStateFor(g, p) # "Slave"
      BY <1>5 DEF LocalPortState
    <2> QED
      BY <1>4, <1>5, <1>9, <2>1 DEF OneSlave
  <1>13. Candidates' = Candidates /\ \A p \in Ports : GmPath(p)' = GmPath(p)
    BY <1>3 DEF Candidates, Eligible, HasPortPriority, GmPath
  <1>14. GmFits'
    <2>1. \A c \in Candidates' : ~Superior(c, gmPriority')
      BY <1>2, <1>13
    <2>2. CASE g = systemPriority
      <3>1. \A p \in Ports : Eligible(p) => GmPath(p).src # ThisClock
        BY DEF Eligible, GmPath, IInv, TypeOK, VectorType
      <3>2. \A p \in Ports : PortStateFor(g, p) # "Slave"
        BY <1>7, <2>2, <3>1 DEF systemPriority
      <3>3. selectedState'[0] = "Slave" /\ gmPriority' = systemPriority
        BY <1>2, <1>5, <2>2, <3>2 DEF LocalPortState
      <3> QED
        BY <2>1, <3>3 DEF GmFits, systemPriority
    <2>3. CASE g # systemPriority
      <3>1. PICK p \in Ports : Eligible(p) /\ g = GmPath(p)
        BY <2>3 DEF Candidates
      <3>2. selectedState'[p] = "Slave" /\ infoIs'[p] = "Received" /\ gmPriority' = GmPath(p)'
        BY <1>2, <1>3, <1>5, <1>7, <1>8, <1>13, <3>1
      <3> QED
        BY <2>1, <3>2 DEF GmFits
    <2> QED
      BY <2>2, <2>3
  <1>15. MineUpToDate'
    BY <1>2, <1>3, <1>5 DEF MineUpToDate, UpdtInfoFor, MasterPriority
  <1>16. MasterMine'
    <2>1. \A p \in Ports : PortStateFor(g, p) = "Master" =>
                               infoIs[p] = "Mine" \/ UpdtInfoFor(g, p)
      BY <1>6 DEF PortStateFor, UpdtInfoFor
    <2> QED
      BY <1>3, <1>5, <2>1 DEF MasterMine
  <1>17. ReselectServed' /\ TurnEnabled'
    BY <1>3 DEF IInv, ReselectServed, TurnEnabled, MustDisable, Capable
  <1> QED
    BY <1>1, <1>10, <1>11, <1>12, <1>14, <1>15, <1>16, <1>17 DEF IInv, SelectedFits

\* IInv is an invariant.
THEOREM IInvInvariant == Spec => []IInv
  <1>1. IInv /\ [Next]_vars => IInv'
    <2> SUFFICES ASSUME IInv, [Next]_vars
                 PROVE  IInv'
      OBVIOUS
    <2>1. CASE UNCHANGED vars
      <3>1. TypeOK'
        BY <2>1 DEF IInv, TypeOK, vars, portVars, infoVars, treeVars, txVars
      <3>2. TreeInv'
        BY <2>1, TreeFrame DEF core, vars, infoVars, treeVars
      <3>3. ReselectServed' /\ TurnEnabled'
        BY <2>1 DEF IInv, ReselectServed, TurnEnabled, MustDisable, Capable, vars,
                    portVars, infoVars, treeVars
      <3> QED
        BY <3>1, <3>2, <3>3 DEF IInv, TreeInv
    <2> QED
      BY <2>1, IInvEvent, IInvReselect, IInvUpdate, IInvQuiet, IInvSelect DEF Next, Step
  <1> QED
    BY <1>1, IInvInit, PTL DEF Spec

-----------------------------------------------------------------------------
(* What follows from the invariant                                         *)

\* There is exactly one slave port, for any number of ports and whatever
\* Announce messages they hear (updtStatesTree).
THEOREM OneSlaveAlways == Spec => []OneSlave
  BY IInvInvariant, PTL DEF IInv

\* sm_bmcs_perform never leaves a grandmaster behind that some port's vector
\* beats or that the slave port does not offer.
THEOREM GmIsBestAlways == Spec => []GmIsBest
  <1>1. IInv => GmIsBest
    BY DEF IInv, GmIsBest, Settled, SelectedFits, Selected, ReselectServed
  <1> QED
    BY <1>1, IInvInvariant, PTL

\* A port that holds its own information holds the present masterPriority.
THEOREM MineIsCurrentAlways == Spec => []MineIsCurrent
  <1>1. IInv => MineIsCurrent
    BY DEF IInv, MineIsCurrent, MineUpToDate
  <1> QED
    BY <1>1, IInvInvariant, PTL

\* TRANSMIT_ANNOUNCE sends what this system stands for, from capable ports,
\* and never back to the port that the grandmaster was learnt from.
THEOREM AnnounceIsOwnAlways == Spec => AnnounceIsOwn
  <1> DEFINE A == TransmitAnnounce =>
                    LET p == run.port
                    IN  /\ Capable(p) /\ infoIs[p] = "Mine"
                        /\ portPriority[p] = MasterPriority(gmPriority, p)
                        /\ gmPriority.port # p
  <1>1. ASSUME IInv, TransmitAnnounce
        PROVE  A
    <2> DEFINE p == run.port
    <2>1. pc = "transmit" /\ p \in Ports /\ selectedState[p] = "Master" /\ ~updtInfo[p]
      BY <1>1 DEF IInv, TypeOK, TransmitAnnounce, WantsAnnounce
    <2>2. Selected
      BY <1>1, <2>1 DEF IInv, ReselectServed, TurnEnabled, Selected
    <2>3. infoIs[p] = "Mine"
      BY <1>1, <2>1, <2>2 DEF IInv, MasterMine
    <2>4. Capable(p)
      BY <1>1, <2>1, <2>3 DEF IInv, TurnEnabled, MustDisable
    <2>5. portPriority[p] = MasterPriority(gmPriority, p)
      BY <1>1, <2>1, <2>3 DEF IInv, MineUpToDate
    <2>6. gmPriority.port # p
      <3>1. CASE gmPriority = systemPriority
        BY <2>1, <3>1, ConstantsAssumption DEF systemPriority, Ports
      <3>2. ASSUME NEW q \in Ports, selectedState[q] = "Slave",
                   infoIs[q] = "Received", gmPriority = GmPath(q)
            PROVE  gmPriority.port # p
        <4>1. q # p /\ portPriority[q].port = q /\ portPriority[q] \in VectorType
          BY <1>1, <2>1, <3>2 DEF IInv, ReceivedOwn, TypeOK
        <4>2. gmPriority.port = q
          BY <3>2, <4>1 DEF GmPath, VectorType
        <4> QED
          BY <4>1, <4>2
      <3> QED
        BY <1>1, <2>2, <3>1, <3>2 DEF IInv, SelectedFits, GmFits
    <2> QED
      BY <2>3, <2>4, <2>5, <2>6
  <1>2. IInv /\ [Next]_vars => [A]_vars
    BY <1>1
  <1> QED
    BY <1>2, IInvInvariant, PTL DEF Spec, AnnounceIsOwn

\* A port announces only after it has been found capable.
LEMMA TransmitsCapable ==
  ASSUME IInv, TransmitAnnounce
  PROVE  run.port \in Ports /\ Capable(run.port)
  <1> DEFINE p == run.port
  <1>1. pc = "transmit" /\ p \in Ports /\ selectedState[p] = "Master" /\ ~updtInfo[p]
    BY DEF IInv, TypeOK, TransmitAnnounce, WantsAnnounce
  <1>2. Selected
    BY <1>1 DEF IInv, ReselectServed, TurnEnabled, Selected
  <1>3. infoIs[p] = "Mine"
    BY <1>1, <1>2 DEF IInv, MasterMine
  <1> QED
    BY <1>1, <1>3 DEF IInv, TurnEnabled, MustDisable

\* No Announce leaves a port that is not capable, neither a new one nor one
\* that md_announce_send_sm kept after a failure.
THEOREM SendsOnlyCapableAlways == Spec => SendsOnlyCapable
  <1> DEFINE A == wire' # wire /\ wire'.port # 0 =>
                    portOper'[wire'.port] /\ asCapable'[wire'.port]
  <1>1. ASSUME IInv, Next, wire' # wire, wire'.port # 0
        PROVE  portOper'[wire'.port] /\ asCapable'[wire'.port]
    <2>1. TickPort \/ TransmitAnnounce
      <3>1. ~Event
        <4>1. ASSUME Timeout PROVE FALSE
          BY <1>1, <4>1 DEF Timeout
        <4>2. ASSUME NEW p \in Ports, DevUp(p) \/ DevDown(p) \/ Guard(p) \/ UpdateAsCapable(p)
              PROVE  FALSE
          <5>1. CASE DevUp(p)
            BY <1>1, <5>1 DEF DevUp
          <5>2. CASE DevDown(p) \/ Guard(p) \/ UpdateAsCapable(p)
            BY <1>1, <5>2, Zenon DEF DevDown, Guard, UpdateAsCapable, txVars
          <5> QED
            BY <4>2, <5>1, <5>2
        <4>3. ASSUME NEW p \in Ports, NEW m \in Announces, RecvAnnounce(p, m) PROVE FALSE
          BY <1>1, <4>3 DEF RecvAnnounce
        <4> QED
          BY <4>1, <4>2, <4>3 DEF Event
      <3>2. ASSUME \/ EnterDisabled \/ EnterAged \/ EnterUpdate \/ EnterSuperior
                   \/ EnterRepeated \/ EnterInferior \/ InfoSettled
            PROVE  FALSE
        BY <1>1, <3>2, Zenon DEF EnterDisabled, EnterAged, EnterUpdate, EnterSuperior, EnterRepeated,
                          EnterInferior, InfoSettled, InfoFrame
      <3>3. ASSUME SelectStates \/ KeepStates \/ TransmitNothing PROVE FALSE
        BY <1>1, <3>3 DEF SelectStates, KeepStates, TransmitNothing, txVars
      <3> QED
        BY <1>1, <3>1, <3>2, <3>3 DEF Next, Step
    <2>2. CASE TickPort
      <3>1. wire'.port = run.port /\ portOper[run.port] /\ asCapable'[run.port]
        BY <1>1, <2>2 DEF TickPort
      <3> QED
        BY <2>2, <3>1 DEF TickPort
    <2>3. CASE TransmitAnnounce
      <3>1. wire'.port = run.port /\ UNCHANGED <<portOper, asCapable>>
        BY <1>1, <2>3 DEF TransmitAnnounce, portVars
      <3> QED
        BY <1>1, <2>3, <3>1, TransmitsCapable DEF Capable
    <2> QED
      BY <2>1, <2>2, <2>3
  <1>2. IInv /\ [Next]_vars => [A]_vars
    BY <1>1
  <1> QED
    BY <1>2, IInvInvariant, PTL DEF Spec, SendsOnlyCapable

-----------------------------------------------------------------------------
(* The end of a timeout                                                    *)

\* The states of port_announce_information_sm and what they stand for.
PaInfoFits ==
  \A p \in Ports :
     /\ paInfo[p] \in {"AGED", "CURRENT", "INFERIOR"} => infoIs[p] # "Disabled"
     /\ paInfo[p] \in {"CURRENT", "INFERIOR"} => infoIs[p] \in {"Received", "Mine"}
     /\ paInfo[p] \in {"INIT", "DISABLED"} => infoIs[p] = "Disabled"

DisabledFits ==
  Selected => \A p \in Ports : selectedState[p] = "Disabled" <=> infoIs[p] = "Disabled"

\* The port has had its turn in the timeout that is being handled.
Turned(p) ==
  /\ run.tick
  /\ p < run.port \/ (p = run.port /\ pc \in {"select", "transmit"})

TurnedFits == \A p \in Ports : Turned(p) => (Capable(p) <=> infoIs[p] # "Disabled")

RepairInv ==
  /\ PaInfoFits /\ DisabledFits /\ TurnedFits
  /\ pc = "idle" => ~run.tick
  /\ pc = "tick" => run.tick

LEMMA RepairEvent ==
  ASSUME IInv, RepairInv, Event
  PROVE  RepairInv'
  <1>1. /\ UNCHANGED <<infoIs, paInfo, selectedState, selection, reselect>> /\ pc = "idle" /\ ~run.tick
    <2> USE DEF portVars, infoVars, treeVars, txVars, StartPort, RepairInv
    <2>1. CASE Timeout
      BY <2>1 DEF Timeout
    <2>2. ASSUME NEW p \in Ports, DevUp(p) \/ DevDown(p) \/ Guard(p) \/ UpdateAsCapable(p)
          PROVE  <1>1!:
      BY <2>2 DEF DevUp, DevDown, Guard, UpdateAsCapable
    <2>3. ASSUME NEW p \in Ports, NEW m \in Announces, RecvAnnounce(p, m)
          PROVE  <1>1!:
      BY <2>3 DEF RecvAnnounce
    <2> QED
      BY <2>1, <2>2, <2>3 DEF Event
  <1>2. (~run'.tick /\ pc' # "tick") \/ (run'.tick /\ run'.port = 1 /\ pc' = "tick")
    <2>1. CASE Timeout
      BY <2>1 DEF Timeout, Idle
    <2>2. ASSUME NEW p \in Ports, DevUp(p) \/ DevDown(p) \/ Guard(p) \/ UpdateAsCapable(p)
          PROVE  <1>2!:
      BY <1>1, <2>2 DEF DevUp, DevDown, Guard, UpdateAsCapable, StartPort
    <2>3. ASSUME NEW p \in Ports, NEW m \in Announces, RecvAnnounce(p, m)
          PROVE  <1>2!:
      BY <2>3 DEF RecvAnnounce, StartPort
    <2> QED
      BY <2>1, <2>2, <2>3 DEF Event
  <1>3. \A p \in Ports : ~Turned(p)'
    BY <1>2, ConstantsAssumption DEF Turned, Ports
  <1>4. (pc' = "idle" => ~run'.tick) /\ (pc' = "tick" => run'.tick)
    BY <1>2
  <1> QED
    BY <1>1, <1>3, <1>4 DEF RepairInv, PaInfoFits, DisabledFits, Selected, TurnedFits

\* The machine of the port in turn keeps its states in line.
LEMMA RepairInfo ==
  ASSUME IInv, RepairInv,
         \/ EnterDisabled \/ EnterAged \/ EnterUpdate \/ EnterSuperior \/ EnterRepeated
         \/ EnterInferior
  PROVE  RepairInv'
  <1> DEFINE p == run.port
  <1>1. /\ pc = "info" /\ pc' = "info" /\ p \in Ports /\ run'.port = p /\ run'.tick = run.tick
        /\ UNCHANGED <<portOper, asCapable, selectedState, selection>>
        /\ run \in RunType
    BY DEF IInv, TypeOK, RunType, EnterDisabled, EnterAged, EnterUpdate, EnterSuperior, EnterRepeated,
           EnterInferior, Receiving, Info, InfoFrame, portVars, treeVars
  <1>2. \A q \in Ports : q # p => infoIs'[q] = infoIs[q] /\ paInfo'[q] = paInfo[q]
                                 /\ reselect'[q] = reselect[q]
    BY DEF IInv, TypeOK, EnterDisabled, EnterAged, EnterUpdate, EnterSuperior, EnterRepeated,
           EnterInferior, Reselect
  <1>3. \/ reselect'[p]
        \/ reselect' = reselect /\ (infoIs'[p] = infoIs[p] \/ (infoIs'[p] = "Mine" /\ infoIs[p] # "Disabled"))
    <2>1. CASE EnterDisabled \/ EnterAged \/ EnterSuperior
      BY <1>1, <2>1 DEF EnterDisabled, EnterAged, EnterSuperior, Reselect, IInv, TypeOK
    <2>2. CASE EnterUpdate
      BY <1>1, <2>2 DEF EnterUpdate, IInv, TypeOK, RepairInv, PaInfoFits
    <2>3. CASE EnterRepeated \/ EnterInferior
      <3>1. UNCHANGED <<infoIs, reselect>>
        BY <2>3, Zenon DEF EnterRepeated, EnterInferior
      <3> QED
        BY <3>1, Zenon
    <2> QED
      BY <2>1, <2>2, <2>3
  <1>4. PaInfoFits'
    <2>1. \/ paInfo'[p] = "DISABLED" /\ infoIs'[p] = "Disabled"
          \/ paInfo'[p] = "AGED" /\ infoIs'[p] = "Aged"
          \/ paInfo'[p] = "CURRENT" /\ infoIs'[p] \in {"Mine", "Received"}
          \/ paInfo'[p] \in {"CURRENT", "INFERIOR"} /\ paInfo[p] = "CURRENT" /\ infoIs'[p] = infoIs[p]
      <3>1. CASE EnterDisabled \/ EnterAged \/ EnterUpdate
        BY <1>1, <3>1 DEF EnterDisabled, EnterAged, EnterUpdate, IInv, TypeOK
      <3>2. CASE EnterSuperior \/ EnterRepeated
        BY <1>1, <3>2 DEF EnterSuperior, EnterRepeated, Receiving, IInv, TypeOK
      <3>3. CASE EnterInferior
        <4>1. paInfo[p] = "CURRENT" /\ infoIs' = infoIs
          BY <3>3 DEF EnterInferior, Receiving
        <4>2. paInfo'[p] \in {"CURRENT", "INFERIOR"}
          BY <1>1, <3>3 DEF EnterInferior, IInv, TypeOK
        <4> QED
          BY <4>1, <4>2
      <3> QED
        BY <3>1, <3>2, <3>3
    <2>2. ASSUME NEW q \in Ports
          PROVE  /\ paInfo'[q] \in {"AGED", "CURRENT", "INFERIOR"} => infoIs'[q] # "Disabled"
                 /\ paInfo'[q] \in {"CURRENT", "INFERIOR"} => infoIs'[q] \in {"Received", "Mine"}
                 /\ paInfo'[q] \in {"INIT", "DISABLED"} => infoIs'[q] = "Disabled"
      <3>1. CASE q = p
        BY <2>1, <3>1 DEF RepairInv, PaInfoFits
      <3>2. CASE q # p
        BY <1>2, <3>2 DEF RepairInv, PaInfoFits
      <3> QED
        BY <3>1, <3>2
    <2> QED
      BY <2>2 DEF PaInfoFits
  <1>5. DisabledFits'
    <2> SUFFICES ASSUME Selected', NEW q \in Ports
                 PROVE  selectedState'[q] = "Disabled" <=> infoIs'[q] = "Disabled"
      BY DEF DisabledFits
    <2>1. reselect' = reselect /\ Selected
      BY <1>1, <1>3 DEF Selected
    <2>2. infoIs'[q] = infoIs[q] \/ (infoIs'[q] = "Mine" /\ infoIs[q] # "Disabled")
      BY <1>1, <1>2, <1>3 DEF Selected
    <2> QED
      BY <1>1, <2>1, <2>2 DEF RepairInv, DisabledFits
  <1>6. TurnedFits'
    <2> SUFFICES ASSUME NEW q \in Ports, Turned(q)'
                 PROVE  Capable(q)' <=> infoIs'[q] # "Disabled"
      BY DEF TurnedFits
    <2>1. q < p /\ q # p /\ Turned(q)
      BY <1>1, ConstantsAssumption DEF Turned, Ports
    <2> QED
      BY <1>1, <1>2, <2>1 DEF RepairInv, TurnedFits, Capable
  <1> QED
    BY <1>1, <1>4, <1>5, <1>6 DEF RepairInv

\* The turn of a port starts, is judged and ends.
LEMMA RepairTurn ==
  ASSUME IInv, RepairInv,
         \/ TickPort \/ InfoSettled \/ KeepStates \/ TransmitAnnounce \/ TransmitNothing
  PROVE  RepairInv'
  <1> DEFINE p == run.port
  <1>1. /\ UNCHANGED <<infoIs, paInfo, selectedState, selection, reselect>>
        /\ p \in Ports /\ run \in RunType /\ p \in Nat /\ run.tick \in BOOLEAN
    <2>1. UNCHANGED <<infoIs, paInfo, selectedState, selection, reselect>> /\ pc # "idle"
      BY DEF TickPort, InfoSettled, KeepStates, TransmitAnnounce, TransmitNothing, Info,
             infoVars, treeVars, InfoFrame
    <2>2. p \in Ports /\ run \in RunType
      BY <2>1 DEF IInv, TypeOK
    <2> QED
      BY <2>1, <2>2, ConstantsAssumption DEF Ports, RunType
  <1>2. PaInfoFits' /\ DisabledFits'
    BY <1>1 DEF RepairInv, PaInfoFits, DisabledFits, Selected
  <1>3. CASE TickPort
    <2>1. /\ pc' = "info" /\ run'.port = p /\ run'.tick /\ portOper' = portOper
          /\ \A q \in Ports : q # p => asCapable'[q] = asCapable[q]
      BY <1>3 DEF TickPort, StartPort, IInv, TypeOK
    <2>2. ASSUME NEW q \in Ports, Turned(q)'
          PROVE  Capable(q)' <=> infoIs'[q] # "Disabled"
      <3>1. q < p
        BY <2>1, <2>2 DEF Turned
      <3>2. q # p
        BY <1>1, <3>1 DEF Ports
      <3>3. Turned(q)
        BY <1>3, <3>1 DEF Turned, TickPort, RepairInv
      <3> QED
        BY <1>1, <2>1, <3>2, <3>3 DEF RepairInv, TurnedFits, Capable
    <2> QED
      BY <1>2, <2>1, <2>2 DEF RepairInv, TurnedFits
  <1>4. CASE InfoSettled
    <2>1. /\ pc' = "select" /\ run' = run /\ UNCHANGED <<portOper, asCapable>>
          /\ Capable(p) <=> infoIs[p] # "Disabled"
      BY <1>1, <1>4 DEF InfoSettled, InfoFrame, portVars, MustDisable, RepairInv, PaInfoFits
    <2>2. ASSUME NEW q \in Ports, Turned(q)'
          PROVE  Capable(q)' <=> infoIs'[q] # "Disabled"
      <3>1. q = p \/ Turned(q)
        BY <2>1, <2>2 DEF Turned
      <3> QED
        BY <1>1, <2>1, <3>1 DEF RepairInv, TurnedFits, Capable
    <2> QED
      BY <1>2, <2>1, <2>2 DEF RepairInv, TurnedFits
  <1>5. CASE KeepStates
    <2>1. pc = "select" /\ pc' \in {"info", "transmit"} /\ run' = run /\ UNCHANGED <<portOper, asCapable>>
      BY <1>5 DEF KeepStates, AfterSelection, portVars
    <2>2. \A q \in Ports : Turned(q)' => Turned(q)
      BY <2>1 DEF Turned
    <2> QED
      BY <1>1, <1>2, <2>1, <2>2 DEF RepairInv, TurnedFits, Capable
  <1>6. CASE TransmitAnnounce \/ TransmitNothing
    <2>1. pc = "transmit" /\ NextPort /\ UNCHANGED <<portOper, asCapable>>
      BY <1>6 DEF TransmitAnnounce, TransmitNothing, portVars
    <2>2. \/ run.tick /\ run'.tick /\ run'.port = p + 1 /\ pc' = "tick"
          \/ ~run'.tick /\ pc' = "idle"
      <3>1. CASE run.tick /\ p < N
        BY <1>1, <2>1, <3>1 DEF NextPort, RunType
      <3>2. CASE ~(run.tick /\ p < N)
        BY <2>1, <3>2 DEF NextPort, Idle
      <3> QED
        BY <3>1, <3>2
    <2>3. \A q \in Ports : Turned(q)' => Turned(q)
      BY <1>1, <2>1, <2>2 DEF Turned, Ports
    <2> QED
      BY <1>1, <1>2, <2>1, <2>2, <2>3 DEF RepairInv, TurnedFits, Capable
  <1> QED
    BY <1>3, <1>4, <1>5, <1>6

\* The selection disables the ports whose information is disabled.
LEMMA RepairSelect ==
  ASSUME IInv, RepairInv, SelectStates
  PROVE  RepairInv'
  <1>1. PICK g \in Candidates :
           selectedState' = [p \in 0..N |-> IF p = 0 THEN LocalPortState(g) ELSE PortStateFor(g, p)]
    BY DEF SelectStates
  <1>2. /\ UNCHANGED <<infoIs, paInfo, portOper, asCapable, run>>
        /\ pc = "select" /\ pc' \in {"info", "transmit"}
    BY DEF SelectStates, AfterSelection, portVars, infoVars
  <1>3. \A p \in Ports : selectedState'[p] = PortStateFor(g, p)
    BY <1>1, ConstantsAssumption DEF Ports
  <1>4. \A p \in Ports : infoIs[p] \in {"Received", "Mine", "Aged", "Disabled"}
    BY DEF IInv, TypeOK
  <1>5. \A p \in Ports : PortStateFor(g, p) = "Disabled" <=> infoIs[p] = "Disabled"
    BY <1>4 DEF PortStateFor
  <1>6. \A q \in Ports : Turned(q)' => Turned(q)
    BY <1>2 DEF Turned
  <1> QED
    BY <1>2, <1>3, <1>5, <1>6 DEF RepairInv, PaInfoFits, DisabledFits, TurnedFits, Capable

\* RepairInv is an invariant.
THEOREM RepairInvariant == Spec => []RepairInv
  <1>1. Init => RepairInv
    BY DEF Init, RepairInv, PaInfoFits, DisabledFits, Selected, TurnedFits, Turned, Idle
  <1>2. IInv /\ RepairInv /\ [Next]_vars => RepairInv'
    <2> SUFFICES ASSUME IInv, RepairInv, [Next]_vars PROVE RepairInv'
      OBVIOUS
    <2>1. CASE UNCHANGED vars
      BY <2>1 DEF RepairInv, PaInfoFits, DisabledFits, Selected, TurnedFits, Turned, Capable,
                  vars, portVars, infoVars, treeVars
    <2> QED
      BY <2>1, RepairEvent, RepairInfo, RepairTurn, RepairSelect DEF Next, Step
  <1> QED
    BY <1>1, <1>2, IInvInvariant, PTL DEF Spec

\* When gptpnet_cb_timeout returns, exactly the capable ports are enabled,
\* whatever went down or came up unnoticed before it.
THEOREM TimeoutAlwaysRepairs == Spec => TimeoutRepairs
  <1> DEFINE A == run.tick /\ pc' = "idle" =>
                    \A p \in Ports : Capable(p) <=> (selectedState'[p] # "Disabled")
  <1>1. ASSUME IInv, RepairInv, Next, run.tick, pc' = "idle", NEW p \in Ports
        PROVE  Capable(p) <=> (selectedState'[p] # "Disabled")
    <2>1. pc # "idle"
      BY <1>1 DEF RepairInv
    <2>2. ~Event
      BY <2>1 DEF Event, Timeout, DevUp, DevDown, Guard, UpdateAsCapable, RecvAnnounce
    <2>3. TransmitAnnounce \/ TransmitNothing
      <3>1. ASSUME \/ EnterDisabled \/ EnterAged \/ EnterUpdate \/ EnterSuperior
                   \/ EnterRepeated \/ EnterInferior \/ InfoSettled
            PROVE  FALSE
        BY <1>1, <2>1, <3>1, Zenon DEF EnterDisabled, EnterAged, EnterUpdate, EnterSuperior, EnterRepeated,
                                EnterInferior, InfoSettled
      <3>2. ASSUME TickPort \/ SelectStates \/ KeepStates PROVE FALSE
        BY <1>1, <3>2 DEF TickPort, StartPort, SelectStates, KeepStates, AfterSelection
      <3> QED
        BY <1>1, <2>2, <3>1, <3>2 DEF Next, Step
    <2>4. pc = "transmit" /\ NextPort /\ selectedState' = selectedState
      BY <2>3 DEF TransmitAnnounce, TransmitNothing, treeVars
    <2>5. run.port = N
      <3>1. run.port \in Ports /\ ~(run.port < N)
        BY <1>1, <2>4 DEF NextPort, IInv, TypeOK
      <3> QED
        BY <3>1, ConstantsAssumption DEF Ports
    <2>6. Turned(p)
      BY <1>1, <2>4, <2>5, ConstantsAssumption DEF Turned, Ports
    <2>7. Selected
      BY <1>1, <2>4 DEF IInv, ReselectServed, TurnEnabled, Selected
    <2> QED
      BY <1>1, <2>4, <2>6, <2>7 DEF RepairInv, TurnedFits, DisabledFits
  <1>2. IInv /\ RepairInv /\ [Next]_vars => [A]_vars
    BY <1>1
  <1> QED
    BY <1>2, IInvInvariant, RepairInvariant, PTL DEF Spec, TimeoutRepairs

-----------------------------------------------------------------------------
(* Messages that were accepted                                             *)

\* What holds of every Announce message that neighbours send and of every one
\* that qualifyAnnounce accepted: the root quality is not all zeros, it has a
\* path trace TLV, and it has not been here.
WithTlv == \A m \in Announces : m.path # NoTlv

WithPriority == \A m \in Announces : HasPortPriority(m)

Foreign(path) == \A i \in 1..Len(path) : path[i] # ThisClock

RcvdFits ==
  \A p \in Ports : rcvdMsg[p] # None =>
     /\ rcvdMsg[p].src # ThisClock
     /\ WithPriority => HasPortPriority(rcvdMsg[p])
     /\ WithTlv => rcvdMsg[p].path # NoTlv /\ Foreign(rcvdMsg[p].path)

\* qualifyAnnounce lets only such messages through.
LEMMA ReceivedFits ==
  ASSUME IInv, RcvdFits, NEW p \in Ports, NEW m \in Announces, RecvAnnounce(p, m)
  PROVE  RcvdFits'
  <1>1. PICK tlv \in ReportedTlv(m) :
           \/ Qualified(m, tlv) /\ rcvdMsg' = [rcvdMsg EXCEPT ![p] = [m EXCEPT !.path = tlv]]
           \/ rcvdMsg' = [rcvdMsg EXCEPT ![p] = None]
           \/ rcvdMsg' = rcvdMsg
    BY DEF RecvAnnounce
  <1>2. m \in AnnounceType
    BY ConstantsAssumption
  <1>3. CASE Qualified(m, tlv) /\ rcvdMsg' = [rcvdMsg EXCEPT ![p] = [m EXCEPT !.path = tlv]]
    <2> DEFINE n == [m EXCEPT !.path = tlv]
    <2>1. n.src = m.src /\ n.pr = m.pr /\ n.steps = m.steps /\ n.path = tlv
      BY <1>2 DEF AnnounceType
    <2>2. n.src # ThisClock
      BY <1>3, <2>1 DEF Qualified
    <2>3. WithPriority => HasPortPriority(n)
      BY <2>1 DEF WithPriority, HasPortPriority
    <2>4. WithTlv => n.path # NoTlv /\ Foreign(n.path)
      BY <1>3, <2>1 DEF WithTlv, ReportedTlv, Qualified, Foreign
    <2> HIDE DEF n
    <2>5. rcvdMsg'[p] = n /\ \A q \in Ports : q # p => rcvdMsg'[q] = rcvdMsg[q]
      BY <1>3 DEF IInv, TypeOK, n
    <2> QED
      BY <2>2, <2>3, <2>4, <2>5 DEF RcvdFits
  <1>4. CASE rcvdMsg' = [rcvdMsg EXCEPT ![p] = None] \/ rcvdMsg' = rcvdMsg
    <2>1. \A q \in Ports : rcvdMsg'[q] \in {None, rcvdMsg[q]}
      BY <1>4 DEF IInv, TypeOK
    <2> QED
      BY <2>1 DEF RcvdFits
  <1> QED
    BY <1>1, <1>3, <1>4

\* Nothing else stores a message.
LEMMA RcvdElsewhere ==
  ASSUME IInv, [Next]_vars, \A p \in Ports : \A m \in Announces : ~RecvAnnounce(p, m)
  PROVE  \A p \in Ports : rcvdMsg'[p] \in {None, rcvdMsg[p]}
  <1> USE DEF infoVars, IInv, TypeOK
  <1>1. CASE UNCHANGED vars
    BY <1>1 DEF vars
  <1>2. CASE Event
    BY <1>2 DEF Event, Timeout, DevUp, DevDown, Guard, UpdateAsCapable
  <1>3. CASE EnterDisabled \/ EnterSuperior \/ EnterRepeated
    BY <1>3 DEF EnterDisabled, EnterSuperior, EnterRepeated
  <1>4. CASE EnterInferior
    BY <1>4 DEF EnterInferior
  <1>5. CASE TickPort \/ EnterAged \/ EnterUpdate \/ InfoSettled
    BY <1>5 DEF TickPort, EnterAged, EnterUpdate, InfoSettled
  <1>6. CASE SelectStates \/ KeepStates \/ TransmitAnnounce \/ TransmitNothing
    BY <1>6 DEF SelectStates, KeepStates, TransmitAnnounce, TransmitNothing
  <1> QED
    BY <1>1, <1>2, <1>3, <1>4, <1>5, <1>6 DEF Next, Step

LEMMA RcvdFitsNext == IInv /\ RcvdFits /\ [Next]_vars => RcvdFits'
  <1> SUFFICES ASSUME IInv, RcvdFits, [Next]_vars PROVE RcvdFits'
    OBVIOUS
  <1>1. CASE \E p \in Ports : \E m \in Announces : RecvAnnounce(p, m)
    BY <1>1, ReceivedFits
  <1>2. CASE \A p \in Ports : \A m \in Announces : ~RecvAnnounce(p, m)
    BY <1>2, RcvdElsewhere DEF RcvdFits
  <1> QED
    BY <1>1, <1>2

\* RcvdFits is an invariant.
THEOREM RcvdInvariant == Spec => []RcvdFits
  <1>1. Init => RcvdFits
    BY DEF Init, RcvdFits
  <1> QED
    BY <1>1, RcvdFitsNext, IInvInvariant, PTL DEF Spec

-----------------------------------------------------------------------------
(* The path trace                                                          *)

TraceSound(path) ==
  /\ Len(path) <= MaxPath
  /\ \A i \in 1..Len(path) : (path[i] = ThisClock) <=> (i = Len(path))

PathInv ==
  /\ \A p \in Ports : Foreign(annPath[p])
  /\ TraceSound(pathTrace)
  /\ selection # "INIT" /\ selectedState[0] = "Slave" => pathTrace = <<ThisClock>>

\* thisClock at the end of a path that has not been here.
LEMMA PathAppendSound ==
  ASSUME NEW s \in Seq(Nat), Foreign(s)
  PROVE  TraceSound(PathAppend(s))
  <1>1. ThisClock \in Nat /\ MaxPath \in Nat \ {0} /\ Len(s) \in Nat
    BY ConstantsAssumption
  <1>2. CASE Len(s) + 1 <= MaxPath
    <2>1. PathAppend(s) = Append(s, ThisClock)
      BY <1>2 DEF PathAppend
    <2>2. /\ Len(Append(s, ThisClock)) = Len(s) + 1
          /\ \A i \in 1..Len(s) : Append(s, ThisClock)[i] = s[i]
          /\ Append(s, ThisClock)[Len(s) + 1] = ThisClock
      BY <1>1
    <2>3. ASSUME NEW i \in 1..Len(s) + 1
          PROVE  (Append(s, ThisClock)[i] = ThisClock) <=> (i = Len(s) + 1)
      <3>1. i \in 1..Len(s) \/ i = Len(s) + 1
        BY <1>1
      <3>2. i \in 1..Len(s) => i # Len(s) + 1
        BY <1>1
      <3> QED
        BY <2>2, <3>1, <3>2 DEF Foreign
    <2> QED
      BY <1>2, <2>1, <2>2, <2>3 DEF TraceSound
  <1>3. CASE ~(Len(s) + 1 <= MaxPath)
    <2>1. PathAppend(s) = <<>>
      BY <1>3 DEF PathAppend
    <2> QED
      BY <1>1, <2>1 DEF TraceSound
  <1> QED
    BY <1>2, <1>3

LEMMA OwnPathSound == TraceSound(<<ThisClock>>)
  BY ConstantsAssumption DEF TraceSound

\* An Announce on the slave port brings its path along.
LEMMA PathReceived ==
  ASSUME WithTlv, IInv, PathInv, NEW p \in Ports, NEW m \in Announces, RecvAnnounce(p, m)
  PROVE  PathInv'
  <1>1. /\ UNCHANGED <<annPath, selection, selectedState>>
        /\ \A q \in Ports : Foreign(annPath'[q])
    BY DEF RecvAnnounce, PathInv
  <1>2. PICK tlv \in ReportedTlv(m) :
           \/ Qualified(m, tlv) /\ pathTrace' = TracedPath(p, tlv)
           \/ pathTrace' = pathTrace
    BY DEF RecvAnnounce
  <1>3. tlv = m.path /\ tlv # NoTlv /\ tlv \in Seq(Nat)
    BY ConstantsAssumption DEF WithTlv, ReportedTlv, AnnounceType
  <1>4. CASE pathTrace' = pathTrace
    BY <1>1, <1>4 DEF PathInv
  <1>5. CASE Qualified(m, tlv) /\ selectedState[p] = "Slave" /\ pathTrace' = PathAppend(tlv)
    <2>1. Foreign(tlv)
      BY <1>3, <1>5 DEF Qualified, Foreign
    <2>2. TraceSound(pathTrace')
      BY <1>3, <1>5, <2>1, PathAppendSound
    <2>3. selection # "INIT" => selectedState[0] # "Slave"
      BY <1>5, ConstantsAssumption DEF IInv, OneSlave, Ports
    <2> QED
      BY <1>1, <2>2, <2>3 DEF PathInv
  <1> QED
    BY <1>2, <1>3, <1>4, <1>5 DEF TracedPath

\* A selection makes the path from what the slave port heard, or starts it.
LEMMA PathSelected ==
  ASSUME IInv, PathInv, SelectStates
  PROVE  PathInv'
  <1>1. PICK g \in Candidates : gmPriority' = g /\ pathTrace' = SelectedPath(g)
    BY DEF SelectStates
  <1>2. annPath' = annPath /\ selection' = "STATE_SELECTION" /\ \A p \in Ports : ~reselect'[p]
    BY DEF SelectStates, infoVars
  <1>3. GmFits' /\ OneSlave'
    <2>1. IInv'
      BY IInvSelect
    <2> QED
      BY <1>2, <2>1 DEF IInv, SelectedFits, Selected
  <1>4. selectedState'[0] = "Slave" => g.gm = ThisClock
    <2>1. ASSUME selectedState'[0] = "Slave", NEW p \in Ports, selectedState'[p] = "Slave"
          PROVE  FALSE
      BY <1>2, <1>3, <2>1, ConstantsAssumption DEF OneSlave, Ports
    <2>2. selectedState'[0] = "Slave" => gmPriority' = systemPriority
      BY <1>3, <2>1 DEF GmFits, systemPriority
    <2> QED
      BY <1>1, <2>2 DEF systemPriority
  <1>5. CASE g.gm = ThisClock
    <2>1. pathTrace' = <<ThisClock>>
      BY <1>1, <1>5 DEF SelectedPath
    <2> QED
      BY <1>2, <2>1, OwnPathSound DEF PathInv
  <1>6. CASE g.gm # ThisClock
    <2>1. TraceSound(pathTrace')
      <3> DEFINE new == {p \in Ports : PortStateFor(g, p) = "Slave" /\ selectedState[p] # "Slave"}
      <3>1. CASE new # {}
        <4>1. PICK q \in Ports : pathTrace' = PathAppend(annPath[q])
          <5>1. (CHOOSE p \in new : TRUE) \in new
            BY <3>1
          <5> QED
            BY <1>1, <1>6, <3>1, <5>1 DEF SelectedPath
        <4>2. annPath[q] \in Seq(Nat) /\ Foreign(annPath[q])
          BY DEF IInv, TypeOK, PathInv
        <4> QED
          BY <4>1, <4>2, PathAppendSound
      <3>2. CASE new = {}
        BY <1>1, <1>6, <3>2 DEF SelectedPath, PathInv
      <3> QED
        BY <3>1, <3>2
    <2> QED
      BY <1>2, <1>4, <1>6, <2>1 DEF PathInv
  <1> QED
    BY <1>5, <1>6

\* The other steps leave the path of the tree, and a port learns only the
\* path of a message that was accepted.
LEMMA PathElsewhere ==
  ASSUME WithTlv, IInv, RcvdFits, PathInv, [Next]_vars, ~SelectStates,
         \A p \in Ports : \A m \in Announces : ~RecvAnnounce(p, m)
  PROVE  PathInv'
  <1>1. UNCHANGED <<pathTrace, selection, selectedState>>
    <2> USE DEF treeVars
    <2>1. CASE UNCHANGED vars
      BY <2>1 DEF vars
    <2>2. CASE Event
      BY <2>2 DEF Event, Timeout, DevUp, DevDown, Guard, UpdateAsCapable
    <2>3. CASE EnterDisabled \/ EnterAged \/ EnterUpdate \/ EnterSuperior \/ EnterRepeated
      BY <2>3 DEF EnterDisabled, EnterAged, EnterUpdate, EnterSuperior, EnterRepeated, InfoFrame
    <2>4. CASE EnterInferior \/ InfoSettled
      BY <2>4 DEF EnterInferior, InfoSettled, InfoFrame
    <2>5. CASE TickPort \/ KeepStates \/ TransmitAnnounce \/ TransmitNothing
      BY <2>5 DEF TickPort, KeepStates, TransmitAnnounce, TransmitNothing
    <2> QED
      BY <2>1, <2>2, <2>3, <2>4, <2>5 DEF Next, Step
  <1>2. \A q \in Ports : Foreign(annPath'[q])
    <2> USE DEF infoVars
    <2>0. annPath' = annPath => \A q \in Ports : Foreign(annPath'[q])
      BY DEF PathInv
    <2>1. CASE UNCHANGED vars
      BY <2>0, <2>1 DEF vars
    <2>2. CASE Event
      BY <2>0, <2>2 DEF Event, Timeout, DevUp, DevDown, Guard, UpdateAsCapable
    <2>3. CASE EnterAged
      <3>1. \A q \in Ports : annPath'[q] \in {<<>>, annPath[q]}
        BY <2>3 DEF EnterAged, IInv, TypeOK
      <3>2. Foreign(<<>>)
        BY DEF Foreign
      <3> QED
        BY <3>1, <3>2 DEF PathInv
    <2>4. CASE EnterSuperior
      <3> DEFINE p == run.port
      <3>1. p \in Ports /\ rcvdMsg[p] # None
        BY <2>4 DEF EnterSuperior, Receiving, Info, IInv, TypeOK
      <3>2. rcvdMsg[p].path # NoTlv /\ Foreign(rcvdMsg[p].path)
        BY <3>1 DEF RcvdFits
      <3>3. annPath' = [annPath EXCEPT ![p] = rcvdMsg[p].path]
        BY <2>4, <3>2 DEF EnterSuperior
      <3>4. \A q \in Ports : annPath'[q] \in {rcvdMsg[p].path, annPath[q]}
        BY <3>3 DEF IInv, TypeOK
      <3> QED
        BY <3>2, <3>4 DEF PathInv
    <2>5. CASE EnterDisabled \/ EnterUpdate \/ EnterRepeated
      BY <2>0, <2>5 DEF EnterDisabled, EnterUpdate, EnterRepeated
    <2>6. CASE EnterInferior \/ InfoSettled
      BY <2>0, <2>6 DEF EnterInferior, InfoSettled
    <2>7. CASE TickPort \/ KeepStates \/ TransmitAnnounce \/ TransmitNothing
      BY <2>0, <2>7 DEF TickPort, KeepStates, TransmitAnnounce, TransmitNothing
    <2> QED
      BY <2>1, <2>2, <2>3, <2>4, <2>5, <2>6, <2>7 DEF Next, Step
  <1> QED
    BY <1>1, <1>2 DEF PathInv

\* The path trace that every Announce carries ends with thisClock and has it
\* nowhere else, provided the neighbours' messages carry a path trace TLV.
THEOREM PathTraceAlwaysSound == WithTlv /\ Spec => []PathTraceSound
  <1> SUFFICES ASSUME WithTlv PROVE Spec => []PathTraceSound
    OBVIOUS
  <1>1. Init => PathInv
    BY ConstantsAssumption DEF Init, PathInv, Foreign, TraceSound
  <1>2. IInv /\ RcvdFits /\ PathInv /\ [Next]_vars => PathInv'
    <2> SUFFICES ASSUME IInv, RcvdFits, PathInv, [Next]_vars PROVE PathInv'
      OBVIOUS
    <2>1. CASE \E p \in Ports : \E m \in Announces : RecvAnnounce(p, m)
      BY <2>1, PathReceived
    <2>2. CASE SelectStates
      BY <2>2, PathSelected
    <2> QED
      BY <2>1, <2>2, PathElsewhere
  <1>3. PathInv => PathTraceSound
    BY DEF PathInv, TraceSound, PathTraceSound, Settled
  <1> QED
    BY <1>1, <1>2, <1>3, IInvInvariant, RcvdInvariant, PTL DEF Spec

-----------------------------------------------------------------------------
(* How a grandmaster is lost                                               *)

\* The order of priority vectors is transitive.
LEMMA SuperiorTransitive ==
  ASSUME NEW a \in VectorType, NEW b \in VectorType, NEW c \in VectorType,
         Superior(a, b), Superior(b, c)
  PROVE  Superior(a, c)
  BY DEF Superior, VectorType

\* One more hop does not change the order of two vectors of a port.
LEMMA SuperiorFurther ==
  ASSUME NEW a \in VectorType, NEW b \in VectorType, Superior(a, b)
  PROVE  Superior([a EXCEPT !.steps = @ + 1], [b EXCEPT !.steps = @ + 1])
  <1> DEFINE x == [a EXCEPT !.steps = @ + 1]
             y == [b EXCEPT !.steps = @ + 1]
  <1>1. /\ x.pr = a.pr /\ x.gm = a.gm /\ x.steps = a.steps + 1 /\ x.src = a.src
        /\ x.srcPort = a.srcPort /\ x.port = a.port
    BY DEF VectorType
  <1>2. /\ y.pr = b.pr /\ y.gm = b.gm /\ y.steps = b.steps + 1 /\ y.src = b.src
        /\ y.srcPort = b.srcPort /\ y.port = b.port
    BY DEF VectorType
  <1>3. a.steps \in Nat /\ b.steps \in Nat
    BY DEF VectorType
  <1> HIDE DEF x, y
  <1>4. Superior(x, y)
    BY <1>1, <1>2, <1>3 DEF Superior
  <1> QED
    BY <1>4 DEF x, y

AtLeast(v, g) == v = g \/ Superior(v, g)

\* The slave port still offers the grandmaster or something better, or has
\* aged or been disabled since the selection.
Offered(p) ==
  /\ gmPriority.port = p /\ selectedState[p] = "Slave"
  /\ \/ infoIs[p] \in {"Aged", "Disabled"}
     \/ infoIs[p] = "Received" /\ Eligible(p) /\ AtLeast(GmPath(p), gmPriority)

GmOffered ==
  selection # "INIT" => gmPriority = systemPriority \/ \E p \in Ports : Offered(p)

\* A better message on the slave port keeps the offer up.
LEMMA OfferedSuperior ==
  ASSUME WithPriority, IInv, RepairInv, RcvdFits, EnterSuperior, Offered(run.port)
  PROVE  Offered(run.port)'
  <1> DEFINE p == run.port
             m == MessagePriority(rcvdMsg[p], p)
  <1>1. /\ p \in Ports /\ rcvdMsg[p] # None /\ paInfo[p] = "CURRENT" /\ run'.port = p
        /\ SuperiorMaster(p)
    BY DEF EnterSuperior, Receiving, Info, IInv, TypeOK, RunType
  <1>2. /\ UNCHANGED <<gmPriority, selectedState>>
        /\ portPriority'[p] = m /\ infoIs'[p] = "Received"
    BY <1>1 DEF EnterSuperior, InfoFrame, treeVars, IInv, TypeOK
  <1>3. infoIs[p] = "Received" /\ Eligible(p) /\ AtLeast(GmPath(p), gmPriority)
    BY <1>1 DEF Offered, RepairInv, PaInfoFits
  <1>4. rcvdMsg[p] \in AnnounceType
    BY <1>1 DEF IInv, TypeOK
  <1>5. m \in VectorType /\ portPriority[p] \in VectorType /\ gmPriority \in VectorType
    BY <1>1, <1>4, VectorTypes DEF IInv, TypeOK
  <1>6. Superior(m, portPriority[p])
    BY <1>1 DEF SuperiorMaster
  <1>7. m.src # ThisClock /\ HasPortPriority(m)
    BY <1>1, <1>4 DEF RcvdFits, MessagePriority, HasPortPriority, AnnounceType
  <1> HIDE DEF m
  <1>8. Eligible(p)'
    BY <1>1, <1>2, <1>7 DEF Eligible, HasPortPriority
  <1>9. Superior(GmPath(p)', GmPath(p))
    <2>1. Superior([m EXCEPT !.steps = @ + 1], [portPriority[p] EXCEPT !.steps = @ + 1])
      BY <1>5, <1>6, SuperiorFurther
    <2>2. GmPath(p)' = [m EXCEPT !.steps = @ + 1]
      BY <1>1, <1>2 DEF GmPath
    <2> QED
      BY <2>1, <2>2 DEF GmPath
  <1>10. GmPath(p)' \in VectorType /\ GmPath(p) \in VectorType
    <2>1. [m EXCEPT !.steps = @ + 1] \in VectorType
      BY <1>5 DEF VectorType
    <2> QED
      BY <1>1, <1>2, <2>1, VectorTypes DEF GmPath, IInv
  <1>11. Superior(GmPath(p)', gmPriority)
    BY <1>3, <1>5, <1>9, <1>10, SuperiorTransitive DEF AtLeast
  <1> QED
    BY <1>1, <1>2, <1>8, <1>11 DEF Offered, AtLeast

\* Until the next selection nothing else takes the offer away.
LEMMA OfferedNext ==
  ASSUME WithPriority, IInv, RepairInv, RcvdFits, GmOffered, [Next]_vars, ~SelectStates
  PROVE  GmOffered'
  <1> USE DEF infoVars, treeVars
  <1>1. ASSUME NEW p \in Ports, Offered(p), UNCHANGED <<gmPriority, selectedState>>,
               infoIs'[p] = infoIs[p], portPriority'[p] = portPriority[p]
        PROVE  Offered(p)'
    BY <1>1 DEF Offered, Eligible, GmPath, HasPortPriority, AtLeast
  <1>2. CASE UNCHANGED <<infoIs, portPriority, selection, gmPriority, selectedState>>
    BY <1>1, <1>2 DEF GmOffered, systemPriority
  <1>3. CASE EnterDisabled \/ EnterAged \/ EnterUpdate \/ EnterSuperior
    <2> DEFINE q == run.port
    <2>1. /\ UNCHANGED <<selection, gmPriority, selectedState>> /\ q \in Ports
      BY <1>3 DEF EnterDisabled, EnterAged, EnterUpdate, EnterSuperior, InfoFrame, Info, Receiving,
                  IInv, TypeOK
    <2>2. \A p \in Ports : p # q => infoIs'[p] = infoIs[p] /\ portPriority'[p] = portPriority[p]
      BY <1>3 DEF EnterDisabled, EnterAged, EnterUpdate, EnterSuperior, IInv, TypeOK
    <2>3. ASSUME NEW p \in Ports, Offered(p) PROVE Offered(p)'
      <3>1. CASE p # q
        BY <1>1, <2>1, <2>2, <2>3, <3>1
      <3>2. CASE p = q /\ EnterSuperior
        <4>1. Offered(run.port)'
          BY <2>3, <3>2, OfferedSuperior
        <4>2. run'.port = run.port
          BY <3>2 DEF EnterSuperior, IInv, TypeOK, RunType
        <4> QED
          BY <3>2, <4>1, <4>2
      <3>3. CASE p = q /\ (EnterDisabled \/ EnterAged)
        <4>1. infoIs'[p] \in {"Aged", "Disabled"}
          BY <2>1, <3>3 DEF EnterDisabled, EnterAged, IInv, TypeOK
        <4> QED
          BY <2>1, <2>3, <4>1 DEF Offered
      <3>4. CASE p = q /\ EnterUpdate
        BY <2>1, <2>3, <3>4 DEF EnterUpdate, MustUpdate, Offered, IInv, SlaveKeepsInfo
      <3> QED
        BY <1>3, <3>1, <3>2, <3>3, <3>4
    <2> QED
      BY <2>1, <2>3 DEF GmOffered, systemPriority
  <1>4. CASE UNCHANGED vars
    BY <1>2, <1>4 DEF vars
  <1>5. CASE Event
    <2>1. UNCHANGED <<infoIs, portPriority, selection, gmPriority, selectedState>>
      BY <1>5 DEF Event, Timeout, DevUp, DevDown, Guard, UpdateAsCapable, RecvAnnounce
    <2> QED
      BY <1>2, <2>1
  <1>6. CASE EnterRepeated \/ EnterInferior \/ InfoSettled
    <2>1. UNCHANGED <<infoIs, portPriority, selection, gmPriority, selectedState>>
      BY <1>6, Zenon DEF EnterRepeated, EnterInferior, InfoSettled, InfoFrame
    <2> QED
      BY <1>2, <2>1
  <1>7. CASE TickPort \/ KeepStates \/ TransmitAnnounce \/ TransmitNothing
    <2>1. UNCHANGED <<infoIs, portPriority, selection, gmPriority, selectedState>>
      BY <1>7 DEF TickPort, KeepStates, TransmitAnnounce, TransmitNothing
    <2> QED
      BY <1>2, <2>1
  <1> QED
    BY <1>3, <1>4, <1>5, <1>6, <1>7 DEF Next, Step

\* The selected grandmaster is the offer of the new slave port.
LEMMA OfferedSelected ==
  ASSUME IInv, SelectStates
  PROVE  GmOffered'
  <1>1. IInv'
    BY IInvSelect
  <1>2. GmFits'
    BY <1>1 DEF SelectStates, IInv, SelectedFits, Selected
  <1>3. CASE gmPriority' = systemPriority
    BY <1>3 DEF GmOffered, systemPriority
  <1>4. ASSUME NEW p \in Ports, selectedState'[p] = "Slave", infoIs'[p] = "Received",
               gmPriority' = GmPath(p)'
        PROVE  Offered(p)'
    <2>1. portPriority'[p].port = p /\ portPriority'[p] \in VectorType
      BY <1>1, <1>4 DEF IInv, TypeOK, ReceivedOwn
    <2>2. gmPriority'.port = p
      BY <1>4, <2>1 DEF GmPath, VectorType
    <2>3. PICK g \in Candidates : selectedState' = [q \in 0..N |-> IF q = 0 THEN LocalPortState(g)
                                                                 ELSE PortStateFor(g, q)]
      BY DEF SelectStates
    <2>4. PortStateFor(g, p) = "Slave" /\ infoIs[p] = "Received" /\ UNCHANGED <<infoIs, portPriority>>
      BY <1>4, <2>3, ConstantsAssumption DEF Ports, SelectStates, infoVars
    <2>5. Eligible(p)'
      BY <2>4 DEF PortStateFor, Eligible, HasPortPriority
    <2> QED
      BY <1>4, <2>2, <2>5 DEF Offered, AtLeast
  <1> QED
    BY <1>2, <1>3, <1>4 DEF GmFits, GmOffered, systemPriority

\* The selection gives a grandmaster up for a worse one only when the port it
\* was learnt from has aged or is disabled, provided no neighbour announces a
\* root quality of all zeros, which HAS_PORT_PRIORITY takes for no vector.
THEOREM GmLostOnlyByPortAlways == WithPriority /\ Spec => GmLostOnlyByPort
  <1> SUFFICES ASSUME WithPriority PROVE Spec => GmLostOnlyByPort
    OBVIOUS
  <1> DEFINE A == Superior(gmPriority, gmPriority') /\ selection # "INIT" =>
                    /\ gmPriority.port \in Ports
                    /\ infoIs[gmPriority.port] \in {"Aged", "Disabled"}
  <1>1. Init => GmOffered
    BY DEF Init, GmOffered
  <1>2. IInv /\ RepairInv /\ RcvdFits /\ GmOffered /\ [Next]_vars => GmOffered'
    BY OfferedNext, OfferedSelected
  <1>3. ASSUME IInv, GmOffered, Next, Superior(gmPriority, gmPriority'), selection # "INIT"
        PROVE  gmPriority.port \in Ports /\ infoIs[gmPriority.port] \in {"Aged", "Disabled"}
    <2>1. gmPriority \in VectorType
      BY <1>3 DEF IInv, TypeOK
    <2>2. SelectStates
      <3>1. gmPriority' # gmPriority
        BY <1>3, <2>1 DEF Superior, VectorType
      <3>2. ~Event
        BY <3>1 DEF Event, Timeout, DevUp, DevDown, Guard, UpdateAsCapable, RecvAnnounce, treeVars
      <3>3. ASSUME \/ EnterDisabled \/ EnterAged \/ EnterUpdate \/ EnterSuperior
                   \/ EnterRepeated \/ EnterInferior \/ InfoSettled
            PROVE  FALSE
        BY <3>1, <3>3, Zenon DEF EnterDisabled, EnterAged, EnterUpdate, EnterSuperior, EnterRepeated,
                                 EnterInferior, InfoSettled, InfoFrame, treeVars
      <3>4. ASSUME TickPort \/ KeepStates \/ TransmitAnnounce \/ TransmitNothing PROVE FALSE
        BY <3>1, <3>4 DEF TickPort, KeepStates, TransmitAnnounce, TransmitNothing, treeVars
      <3> QED
        BY <1>3, <3>2, <3>3, <3>4 DEF Next, Step
    <2>3. gmPriority' \in Candidates /\ \A c \in Candidates : ~Superior(c, gmPriority')
      BY <2>2 DEF SelectStates
    <2>4. gmPriority' \in VectorType /\ \A p \in Ports : GmPath(p) \in VectorType
      BY <1>3, <2>3, VectorTypes DEF IInv, Candidates
    <2>5. gmPriority # systemPriority
      BY <1>3, <2>3 DEF Candidates
    <2>6. PICK p \in Ports : Offered(p)
      BY <1>3, <2>5 DEF GmOffered
    <2>7. CASE infoIs[p] = "Received" /\ Eligible(p) /\ AtLeast(GmPath(p), gmPriority)
      <3>1. GmPath(p) \in Candidates
        BY <2>7 DEF Candidates
      <3>2. Superior(GmPath(p), gmPriority')
        BY <1>3, <2>1, <2>4, <2>7, SuperiorTransitive DEF AtLeast
      <3> QED
        BY <2>3, <3>1, <3>2
    <2> QED
      BY <2>6, <2>7 DEF Offered
  <1>4. IInv /\ GmOffered /\ [Next]_vars => [A]_vars
    BY <1>3
  <1> QED
    BY <1>1, <1>2, <1>4, IInvInvariant, RepairInvariant, RcvdInvariant, PTL DEF Spec, GmLostOnlyByPort
=============================================================================
