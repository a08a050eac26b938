--------------------------- MODULE PdelayProofs ---------------------------
(***************************************************************************)
(* Proofs about the requester and the responder of a peer delay            *)
(* measurement, for every number of sequence numbers, lost responses and   *)
(* faults, and about the link between them.                                *)
(***************************************************************************)
EXTENDS Pdelay, TLAPS

\* A request may be open whose answer has not been counted as lost.
Open == IF reqState \in {"RESET", "WAITING_FOR_INTERVAL"} THEN 0 ELSE 1

\* The requests that were not answered are those counted as lost, and an open one.
LostAreCounted == capable => unanswered <= lost + Open

ReqInv == ReqTypeOK /\ CapableIsMeasured /\ LostAreCounted

\* Sequence numbers stay in their range when they are counted up
\* (pdelayReqSequenceId += 1u) and down (pdelayReqSequenceId -= 1u).
LEMMA SeqsClosed == \A s \in Seqs : NextSeq(s) \in Seqs /\ PrevSeq(s) \in Seqs
  BY LinkAssumption DEF LinkAssumption, Seqs, NextSeq, PrevSeq

\* The machine leads from each of its states to another of its states.
LEMMA TargetOfSend ==
  ASSUME ReqTypeOK, Target = "SEND"
  PROVE  reqState \in {"RESET", "SEND", "WAITING_FOR_INTERVAL"}
  BY DEF Target, ReqTypeOK, AfterResp, AfterFup, Sending

\* An answer is waited for in vain only in the two waiting states.
LEMMA TargetOfReset ==
  ASSUME ReqTypeOK, Target = "RESET"
  PROVE  reqState \in {"RESET", "WAITING_FOR_RESP", "WAITING_FOR_FUP"}
  BY DEF Target, ReqTypeOK, AfterResp, AfterFup, Sending

\* The type invariant in two parts: the Boolean variables and the others.
BoolTypes ==
    /\ portOper \in BOOLEAN /\ ldOn \in BOOLEAN
    /\ stopped \in BOOLEAN /\ computeRate \in BOOLEAN
    /\ again \in BOOLEAN /\ rcvdTs \in BOOLEAN
    /\ rcvdResp \in BOOLEAN /\ rcvdFup \in BOOLEAN /\ paired \in BOOLEAN
    /\ measuring \in BOOLEAN /\ capable \in BOOLEAN /\ rateValid \in BOOLEAN
    /\ prevSet \in BOOLEAN

DataTypes ==
    /\ reqPc \in {"idle", "req", "tick", "ld"}
    /\ reqState \in {"NOT_ENABLED", "INITIAL_SEND", "RESET", "SEND", "WAITING_FOR_RESP",
                     "WAITING_FOR_FUP", "WAITING_FOR_INTERVAL"}
    /\ seq \in Seqs /\ since \in 0..Cease /\ txts \subseteq Seqs /\ t1 \in Seqs
    /\ resp \in [seq : Seqs, own : BOOLEAN] /\ fup \in Seqs
    /\ lost \in 0..AllowedLost /\ multi \in 0..AllowedLost
    /\ faults \in 0..(AllowedFaults + 1) /\ unanswered \in 0..(AllowedLost + 2)

\* The two parts are the whole, before and after a step.
LEMMA TypeParts ==
  /\ ReqTypeOK <=> BoolTypes /\ DataTypes
  /\ ReqTypeOK' <=> BoolTypes' /\ DataTypes'
  BY DEF ReqTypeOK, BoolTypes, DataTypes

\* The initial state satisfies the invariant.
LEMMA ReqInvInit == ReqInit => ReqInv
<1> SUFFICES ASSUME ReqInit PROVE ReqInv
  OBVIOUS
<1>1. BoolTypes
  BY Zenon DEF ReqInit, BoolTypes
<1>2. DataTypes
  BY LinkAssumption, ReqAssumption
  DEF LinkAssumption, ReqAssumption, ReqInit, DataTypes, Seqs, Cease
<1>3. CapableIsMeasured /\ LostAreCounted
  BY Zenon DEF ReqInit, CapableIsMeasured, LostAreCounted
<1> QED
  BY <1>1, <1>2, <1>3, TypeParts DEF ReqInv

\* Every event preserves the invariant.
LEMMA EventPreserves == ReqInv /\ ReqEvent => ReqInv'
<1> SUFFICES ASSUME BoolTypes, DataTypes, CapableIsMeasured, LostAreCounted, ReqEvent
             PROVE  ReqInv'
  BY TypeParts DEF ReqInv
<1>1. CASE \E s \in Seqs, own \in BOOLEAN : RecvResp(s, own)
  <2>1. BoolTypes'
    BY <1>1, Zenon DEF BoolTypes, RecvResp, envVars, rcvdVars, countVars, delayVars
  <2>2. DataTypes'
    BY <1>1 DEF DataTypes, RecvResp, envVars, rcvdVars, countVars, delayVars
  <2>3. CapableIsMeasured'
    BY <1>1 DEF CapableIsMeasured, RecvResp, envVars, rcvdVars, countVars, delayVars
  <2>4. LostAreCounted'
    BY <1>1 DEF DataTypes, LostAreCounted, Open, RecvResp, envVars, rcvdVars, countVars, delayVars
  <2> QED
    BY <2>1, <2>2, <2>3, <2>4, TypeParts DEF ReqInv
<1>2. CASE \E s \in Seqs : RecvFup(s)
  <2>1. BoolTypes'
    BY <1>2, Zenon DEF BoolTypes, RecvFup, envVars, rcvdVars, countVars, delayVars
  <2>2. DataTypes'
    BY <1>2 DEF DataTypes, RecvFup, envVars, rcvdVars, countVars, delayVars
  <2>3. CapableIsMeasured'
    BY <1>2 DEF CapableIsMeasured, RecvFup, envVars, rcvdVars, countVars, delayVars
  <2>4. LostAreCounted'
    BY <1>2 DEF DataTypes, LostAreCounted, Open, RecvFup, envVars, rcvdVars, countVars, delayVars
  <2> QED
    BY <2>1, <2>2, <2>3, <2>4, TypeParts DEF ReqInv
<1>3. CASE RecvTxts
  <2>1. BoolTypes'
    <3>1. rcvdTs' = rcvdTs \/ rcvdTs' = TRUE
      BY <1>3, Zenon DEF RecvTxts
    <3>2. UNCHANGED <<envVars, again, rcvdVars, countVars, delayVars>>
      BY <1>3, Zenon DEF RecvTxts
    <3> QED
      BY <3>1, <3>2, ZenonT(40) DEF BoolTypes, envVars, rcvdVars, countVars, delayVars
  <2>2. DataTypes'
    BY <1>3 DEF DataTypes, RecvTxts, envVars, rcvdVars, countVars, delayVars
  <2>3. CapableIsMeasured'
    BY <1>3, Zenon DEF CapableIsMeasured, RecvTxts, envVars, rcvdVars, countVars, delayVars
  <2>4. LostAreCounted'
    BY <1>3 DEF DataTypes, LostAreCounted, Open, RecvTxts, envVars, rcvdVars, countVars, delayVars
  <2> QED
    BY <2>1, <2>2, <2>3, <2>4, TypeParts DEF ReqInv
<1>4. CASE ReqTick
  <2>1. BoolTypes'
    BY <1>4, ZenonT(40) DEF BoolTypes, ReqTick, envVars, rcvdVars, countVars, delayVars
  <2>2. DataTypes'
    BY <1>4 DEF DataTypes, ReqTick, envVars, rcvdVars, countVars, delayVars
  <2>3. CapableIsMeasured'
    BY <1>4, Zenon DEF CapableIsMeasured, ReqTick, envVars, rcvdVars, countVars, delayVars
  <2>4. LostAreCounted'
    BY <1>4 DEF DataTypes, LostAreCounted, Open, ReqTick, envVars, rcvdVars, countVars, delayVars
  <2> QED
    BY <2>1, <2>2, <2>3, <2>4, TypeParts DEF ReqInv
<1>5. CASE Elapse
  <2>1. BoolTypes'
    BY <1>5, ZenonT(40) DEF BoolTypes, Elapse, envVars, rcvdVars, countVars, delayVars
  <2>2. DataTypes'
    BY <1>5 DEF DataTypes, Elapse, Cease, envVars, rcvdVars, countVars, delayVars
  <2>3. CapableIsMeasured'
    BY <1>5, Zenon DEF CapableIsMeasured, Elapse, envVars, rcvdVars, countVars, delayVars
  <2>4. LostAreCounted'
    BY <1>5 DEF DataTypes, LostAreCounted, Open, Elapse, envVars, rcvdVars, countVars, delayVars
  <2> QED
    BY <2>1, <2>2, <2>3, <2>4, TypeParts DEF ReqInv
<1>6. CASE SetOper
  <2>1. BoolTypes'
    BY <1>6, Zenon DEF BoolTypes, SetOper, envVars, rcvdVars, countVars, delayVars
  <2>2. DataTypes'
    BY <1>6 DEF DataTypes, SetOper, envVars, rcvdVars, countVars, delayVars
  <2>3. CapableIsMeasured'
    BY <1>6, Zenon DEF CapableIsMeasured, SetOper, envVars, rcvdVars, countVars, delayVars
  <2>4. LostAreCounted'
    BY <1>6 DEF DataTypes, LostAreCounted, Open, SetOper, envVars, rcvdVars, countVars, delayVars
  <2> QED
    BY <2>1, <2>2, <2>3, <2>4, TypeParts DEF ReqInv
<1>7. CASE DevDown
  <2>1. BoolTypes'
    BY <1>7, Zenon DEF BoolTypes, DevDown, envVars, rcvdVars, countVars, delayVars
  <2>2. DataTypes'
    BY <1>7 DEF DataTypes, DevDown, envVars, rcvdVars, countVars, delayVars
  <2>3. CapableIsMeasured'
    BY <1>7, Zenon DEF CapableIsMeasured, DevDown, envVars, rcvdVars, countVars, delayVars
  <2>4. LostAreCounted'
    BY <1>7 DEF DataTypes, LostAreCounted, Open, DevDown, envVars, rcvdVars, countVars, delayVars
  <2> QED
    BY <2>1, <2>2, <2>3, <2>4, TypeParts DEF ReqInv
<1>8. CASE SetInterval
  <2>1. BoolTypes'
    BY <1>8, Zenon DEF BoolTypes, SetInterval, envVars, rcvdVars, countVars, delayVars
  <2>2. DataTypes'
    BY <1>8 DEF DataTypes, SetInterval, envVars, rcvdVars, countVars, delayVars
  <2>3. CapableIsMeasured'
    BY <1>8, Zenon DEF CapableIsMeasured, SetInterval, envVars, rcvdVars, countVars, delayVars
  <2>4. LostAreCounted'
    BY <1>8 DEF DataTypes, LostAreCounted, Open, SetInterval, envVars, rcvdVars, countVars, delayVars
  <2> QED
    BY <2>1, <2>2, <2>3, <2>4, TypeParts DEF ReqInv
<1> QED
  BY <1>1, <1>2, <1>3, <1>4, <1>5, <1>6, <1>7, <1>8 DEF ReqEvent

\* Every step of the machine preserves the invariant.
LEMMA StepPreserves == ReqInv /\ ReqStep => ReqInv'
<1> SUFFICES ASSUME BoolTypes, DataTypes, CapableIsMeasured, LostAreCounted, ReqStep
             PROVE  ReqInv'
  BY TypeParts DEF ReqInv
<1> USE LinkAssumption, ReqAssumption DEF LinkAssumption, ReqAssumption
<1>1. CASE IntervalTick
  <2>1. BoolTypes'
    BY <1>1, Zenon DEF BoolTypes, IntervalTick, envVars, rcvdVars, countVars, delayVars
  <2>2. DataTypes'
    BY <1>1 DEF DataTypes, IntervalTick, envVars, rcvdVars, countVars, delayVars
  <2>3. CapableIsMeasured'
    BY <1>1, Zenon DEF CapableIsMeasured, IntervalTick, envVars, rcvdVars, countVars, delayVars
  <2>4. LostAreCounted'
    BY <1>1 DEF DataTypes, LostAreCounted, Open, IntervalTick, envVars, rcvdVars, countVars, delayVars
  <2> QED
    BY <2>1, <2>2, <2>3, <2>4, TypeParts DEF ReqInv
<1>2. CASE EnterNotEnabled
  <2>1. BoolTypes'
    BY <1>2, Zenon DEF BoolTypes, EnterNotEnabled, envVars, rcvdVars, countVars, delayVars
  <2>2. DataTypes'
    BY <1>2 DEF DataTypes, EnterNotEnabled, envVars, rcvdVars, countVars, delayVars
  <2>3. CapableIsMeasured'
    BY <1>2, Zenon DEF CapableIsMeasured, EnterNotEnabled, envVars, rcvdVars, countVars, delayVars
  <2>4. LostAreCounted'
    BY <1>2 DEF DataTypes, LostAreCounted, Open, EnterNotEnabled, envVars, rcvdVars, countVars, delayVars
  <2> QED
    BY <2>1, <2>2, <2>3, <2>4, TypeParts DEF ReqInv
<1>3. CASE SendInitial
  <2>1. BoolTypes'
    BY <1>3, Zenon DEF BoolTypes, SendInitial, Transmit, TransmitFails, envVars, rcvdVars, countVars, delayVars
  <2>2. DataTypes'
    BY <1>3 DEF DataTypes, SendInitial, Transmit, TransmitFails, ReqReturn, Cease, envVars, rcvdVars, countVars, delayVars
  <2>3. CapableIsMeasured'
    <3>1. (UNCHANGED <<measuring, capable, rateValid>>) \/ capable' = FALSE
      BY <1>3, Zenon DEF SendInitial
    <3> QED
      BY <3>1, Zenon DEF CapableIsMeasured
  <2>4. LostAreCounted'
    BY <1>3 DEF DataTypes, LostAreCounted, Open, SendInitial, envVars, rcvdVars, countVars, delayVars
  <2> QED
    BY <2>1, <2>2, <2>3, <2>4, TypeParts DEF ReqInv
<1>4. CASE SendReq
  <2> DEFINE s == IF reqState = "SEND" /\ ~again THEN seq ELSE NextSeq(seq)
  <2>1. s \in Seqs /\ PrevSeq(s) \in Seqs
    BY SeqsClosed DEF DataTypes
  <2>2. BoolTypes'
    BY <1>4, Zenon DEF BoolTypes, SendReq, Transmit, TransmitFails, envVars, delayVars
  <2>3. DataTypes'
    BY <1>4, <2>1 DEF DataTypes, SendReq, Transmit, TransmitFails, ReqReturn, Cease
  <2>4. CapableIsMeasured'
    BY <1>4, Zenon DEF CapableIsMeasured, SendReq, delayVars
  <2>5. reqState \in {"RESET", "SEND", "WAITING_FOR_INTERVAL"}
    BY <1>4, TargetOfSend, TypeParts DEF SendReq, Enters
  <2>6. LostAreCounted'
    BY <1>4, <2>5 DEF DataTypes, LostAreCounted, Open, SendReq, delayVars
  <2> QED
    BY <2>2, <2>3, <2>4, <2>6, TypeParts DEF ReqInv
<1>5. CASE EnterWaitResp
  <2>1. BoolTypes'
    BY <1>5, Zenon DEF BoolTypes, EnterWaitResp, envVars, rcvdVars, countVars, delayVars
  <2>2. DataTypes'
    BY <1>5 DEF DataTypes, EnterWaitResp, envVars, rcvdVars, countVars, delayVars
  <2>3. CapableIsMeasured'
    BY <1>5, Zenon DEF CapableIsMeasured, EnterWaitResp, envVars, rcvdVars, countVars, delayVars
  <2>4. reqState \notin {"RESET", "WAITING_FOR_INTERVAL"}
    BY <1>5 DEF EnterWaitResp, Enters, Target, Sending, AfterFup, AfterResp
  <2>5. LostAreCounted'
    BY <1>5, <2>4 DEF DataTypes, LostAreCounted, Open, EnterWaitResp, envVars, rcvdVars, countVars, delayVars
  <2> QED
    BY <2>1, <2>2, <2>3, <2>5, TypeParts DEF ReqInv
<1>6. CASE EnterWaitFup
  <2>1. BoolTypes'
    BY <1>6, Zenon DEF BoolTypes, EnterWaitFup, envVars, rcvdVars, countVars, delayVars
  <2>2. DataTypes'
    BY <1>6 DEF DataTypes, EnterWaitFup, envVars, rcvdVars, countVars, delayVars
  <2>3. CapableIsMeasured'
    BY <1>6, Zenon DEF CapableIsMeasured, EnterWaitFup, envVars, rcvdVars, countVars, delayVars
  <2>4. reqState \notin {"RESET", "WAITING_FOR_INTERVAL"}
    BY <1>6 DEF EnterWaitFup, Enters, Target, Sending, AfterFup, AfterResp
  <2>5. LostAreCounted'
    BY <1>6, <2>4 DEF DataTypes, LostAreCounted, Open, EnterWaitFup, envVars, rcvdVars, countVars, delayVars
  <2> QED
    BY <2>1, <2>2, <2>3, <2>5, TypeParts DEF ReqInv
<1>7. CASE EnterReset
  <2>1. BoolTypes'
    BY <1>7, Zenon DEF BoolTypes, EnterReset, envVars
  <2>2. DataTypes'
    BY <1>7 DEF DataTypes, EnterReset, CountMulti, CountLost, Tolerated
  <2>3. CapableIsMeasured'
    BY <1>7, Zenon DEF CapableIsMeasured, EnterReset, RateStaysValid, Tolerated
  <2>4. reqState \in {"WAITING_FOR_RESP", "WAITING_FOR_FUP"}
    BY <1>7, TargetOfReset, TypeParts DEF EnterReset, Enters, Resend, Sending
  <2>5. LostAreCounted'
    <3>1. capable' => capable /\ lost < AllowedLost
      BY <1>7, Zenon DEF EnterReset, Tolerated
    <3>2. CASE ~capable'
      BY <3>2 DEF LostAreCounted
    <3>3. CASE capable'
      <4>1. lost' = lost + 1 /\ unanswered' = unanswered /\ reqState' = "RESET"
        BY <1>7, <3>1, <3>3 DEF EnterReset, CountLost, Tolerated
      <4>2. unanswered <= lost + 1
        BY <2>4, <3>1, <3>3 DEF LostAreCounted, Open
      <4> QED
        BY <4>1, <4>2 DEF LostAreCounted, Open, DataTypes
    <3> QED
      BY <3>2, <3>3
  <2> QED
    BY <2>1, <2>2, <2>3, <2>5, TypeParts DEF ReqInv
<1>8. CASE Measure
  <2>1. BoolTypes'
    BY <1>8, Zenon DEF BoolTypes, Measure, envVars, rcvdVars, countVars, delayVars
  <2>2. DataTypes'
    BY <1>8 DEF DataTypes, Measure, envVars, rcvdVars, countVars, delayVars
  <2>3. CapableIsMeasured'
    BY <1>8, Zenon DEF CapableIsMeasured, Measure, envVars, rcvdVars, countVars, delayVars
  <2>4. LostAreCounted'
    BY <1>8 DEF DataTypes, LostAreCounted, Open, Measure, envVars, rcvdVars, countVars, delayVars
  <2> QED
    BY <2>1, <2>2, <2>3, <2>4, TypeParts DEF ReqInv
<1>9. CASE ReqSettled
  <2>1. BoolTypes'
    BY <1>9, Zenon DEF BoolTypes, ReqSettled, envVars, rcvdVars, countVars, delayVars
  <2>2. DataTypes'
    BY <1>9 DEF DataTypes, ReqSettled, ReqReturn, envVars, rcvdVars, countVars, delayVars
  <2>3. CapableIsMeasured'
    BY <1>9, Zenon DEF CapableIsMeasured, ReqSettled, envVars, rcvdVars, countVars, delayVars
  <2>4. LostAreCounted'
    BY <1>9 DEF DataTypes, LostAreCounted, Open, ReqSettled, envVars, rcvdVars, countVars, delayVars
  <2> QED
    BY <2>1, <2>2, <2>3, <2>4, TypeParts DEF ReqInv
<1> QED
  BY <1>1, <1>2, <1>3, <1>4, <1>5, <1>6, <1>7, <1>8, <1>9 DEF ReqStep

\* A step that leaves the requester alone preserves the invariant.
LEMMA StutterPreserves == ReqInv /\ UNCHANGED reqVars => ReqInv'
  BY DEF ReqInv, ReqTypeOK, CapableIsMeasured, LostAreCounted, Open,
         reqVars, envVars, rcvdVars, countVars, delayVars

\* The invariant holds in every state of the requester, against any neighbour.
THEOREM ReqInvInvariant == ReqSpec => []ReqInv
  BY StutterPreserves, ReqInvInit, EventPreserves, StepPreserves, PTL DEF ReqSpec, ReqNext

\* Every variable of md_pdelay_req_sm stays in its range.
THEOREM ReqTypeCorrect == ReqSpec => []ReqTypeOK
<1>1. ReqInv => ReqTypeOK
  BY DEF ReqInv
<1> QED
  BY <1>1, ReqInvInvariant, PTL

\* A neighbour is capable only while it is measured with a valid rate ratio.
THEOREM CapableAlwaysMeasured == ReqSpec => []CapableIsMeasured
<1>1. ReqInv => CapableIsMeasured
  BY DEF ReqInv
<1> QED
  BY <1>1, ReqInvInvariant, PTL

\* A neighbour that stops answering is not capable for more than
\* allowedLostResponses + 1 requests, whatever arrives and whatever is lost.
THEOREM CapableOnlyWhileAnswered == ReqSpec => []CapableWhileAnswered
<1>1. ReqInv => CapableWhileAnswered
  BY ReqAssumption DEF ReqAssumption, ReqInv, ReqTypeOK, LostAreCounted, CapableWhileAnswered, Open
<1> QED
  BY <1>1, ReqInvInvariant, PTL

-----------------------------------------------------------------------------
(* Which request a transmit timestamp is of                                *)

\* The number of the request that the next transmission carries or the last
\* one carried: a request that failed is counted down.
Requested == IF reqState = "SEND" /\ again THEN NextSeq(seq) ELSE seq

\* Only timestamps of the request that is out may come while it is repeated,
\* and none is taken outside the two sending states.
T1Inv ==
    /\ since >= Interval => txts = {}
    /\ reqState = "SEND" => txts \subseteq {Requested}
    /\ reqState \in Sending /\ rcvdTs => t1 = Requested
    /\ reqState \in {"RESET", "WAITING_FOR_RESP", "WAITING_FOR_FUP", "WAITING_FOR_INTERVAL"} => ~rcvdTs
    /\ T1IsOfTheRequest

\* Counting down undoes counting up, at the wrap too.
LEMMA NextOfPrev == \A s \in Seqs : NextSeq(PrevSeq(s)) = s
<1> SUFFICES ASSUME NEW s \in Seqs PROVE NextSeq(PrevSeq(s)) = s
  OBVIOUS
<1>1. SeqMod \in Nat \ {0} /\ s \in 0..(SeqMod - 1)
  BY LinkAssumption DEF LinkAssumption, Seqs
<1>2. CASE s = 0
  <2>1. PrevSeq(s) = SeqMod - 1
    BY <1>1, <1>2 DEF PrevSeq
  <2> QED
    BY <1>1, <1>2, <2>1 DEF NextSeq
<1>3. CASE s # 0
  <2>1. PrevSeq(s) = s - 1
    BY <1>1, <1>3 DEF PrevSeq
  <2> QED
    BY <1>1, <1>3, <2>1 DEF NextSeq
<1> QED
  BY <1>2, <1>3

\* What must hold for the machine to send a request: the first of a series,
\* when the timer is over, or again, without a timestamp unless it failed.
LEMMA SendsFrom ==
  ASSUME ReqTypeOK, Enters("SEND")
  PROVE  \/ reqState = "SEND" /\ (again \/ ~rcvdTs)
         \/ reqState \in {"RESET", "WAITING_FOR_INTERVAL"} /\ since >= Interval
  BY DEF Enters, Target, Resend, ReqTypeOK, AfterResp, AfterFup, Sending, Expired

LEMMA WaitsFrom ==
  ASSUME ReqTypeOK, Enters("WAITING_FOR_RESP")
  PROVE  reqState \in Sending /\ rcvdTs /\ ~again
  BY DEF Enters, Target, Resend, ReqTypeOK, AfterResp, AfterFup, Sending

LEMMA WaitsForFupFrom ==
  ASSUME ReqTypeOK, Enters("WAITING_FOR_FUP")
  PROVE  reqState = "WAITING_FOR_RESP"
  BY DEF Enters, Target, Resend, ReqTypeOK, AfterResp, AfterFup, Sending

LEMMA MeasuresFrom ==
  ASSUME ReqTypeOK, Enters("WAITING_FOR_INTERVAL")
  PROVE  reqState = "WAITING_FOR_FUP"
  BY DEF Enters, Target, Resend, ReqTypeOK, AfterResp, AfterFup, Sending

\* An event changes t1 only with the timestamp of the request that is out.
LEMMA T1Event == ReqInv /\ T1Inv /\ ReqEvent => T1Inv'
<1> SUFFICES ASSUME DataTypes, BoolTypes, T1Inv, ReqEvent PROVE T1Inv'
  BY TypeParts DEF ReqInv
<1>1. CASE RecvTxts
  <2>1. UNCHANGED <<reqState, again, seq, since>> /\ txts' \subseteq txts
    BY <1>1 DEF RecvTxts
  <2>2. Requested' = Requested
    BY <2>1 DEF Requested
  <2>3. UNCHANGED <<t1, rcvdTs>> \/ (reqState \in Sending /\ seq \in txts /\ t1' = seq)
    BY <1>1 DEF RecvTxts
  <2>4. reqState = "INITIAL_SEND" => Requested = seq
    BY DEF Requested
  <2> QED
    BY <2>1, <2>2, <2>3, <2>4 DEF T1Inv, T1IsOfTheRequest, Sending
<1>2. CASE Elapse
  <2>1. UNCHANGED <<reqState, again, seq, t1, rcvdTs>> /\ txts' \in {{}, txts}
        /\ (since' >= Interval => txts' = {})
    BY <1>2 DEF Elapse
  <2>2. Requested' = Requested
    BY <2>1 DEF Requested
  <2> QED
    BY <2>1, <2>2 DEF T1Inv, T1IsOfTheRequest
<1>3. CASE UNCHANGED <<reqState, again, seq, since, txts, t1, rcvdTs>>
  <2>1. Requested' = Requested
    BY <1>3 DEF Requested
  <2> QED
    BY <1>3, <2>1 DEF T1Inv, T1IsOfTheRequest
<1> QED
  BY <1>1, <1>2, <1>3 DEF ReqEvent, RecvFup, RecvResp, ReqTick, SetOper, DevDown, SetInterval

\* A run of the machine starts a request only when no timestamp can come any
\* more, and repeats it under its own number.
LEMMA T1Step == ReqInv /\ T1Inv /\ ReqStep => T1Inv'
<1> SUFFICES ASSUME ReqTypeOK, DataTypes, BoolTypes, T1Inv, ReqStep PROVE T1Inv'
  BY TypeParts DEF ReqInv
<1>1. CASE UNCHANGED <<reqState, again, seq, since, txts, t1, rcvdTs>>
  <2>1. Requested' = Requested
    BY <1>1 DEF Requested
  <2> QED
    BY <1>1, <2>1 DEF T1Inv, T1IsOfTheRequest
<1>2. CASE EnterNotEnabled
  BY <1>2 DEF EnterNotEnabled, T1Inv, T1IsOfTheRequest, Sending
<1>3. CASE SendInitial
  <2>1. /\ reqState' = "INITIAL_SEND" /\ rcvdTs' = FALSE
        /\ since' = 0 \/ UNCHANGED <<since, txts>>
    BY <1>3 DEF SendInitial, Transmit, TransmitFails
  <2> QED
    BY <2>1 DEF T1Inv, T1IsOfTheRequest, Interval, Sending
<1>4. CASE SendReq
  <2> DEFINE s == IF reqState = "SEND" /\ ~again THEN seq ELSE NextSeq(seq)
  <2>1. /\ reqState' = "SEND" /\ UNCHANGED <<t1, rcvdTs>> /\ Enters("SEND")
        /\ \/ again' = TRUE /\ UNCHANGED <<txts, since>> /\ seq' = PrevSeq(s)
           \/ again' = FALSE /\ txts' \in {txts, txts \cup {s}} /\ since' = 0 /\ seq' = s
    BY <1>4 DEF SendReq, Transmit, TransmitFails
  <2>2. s \in Seqs /\ NextSeq(PrevSeq(s)) = s
    BY SeqsClosed, NextOfPrev DEF DataTypes
  <2>3. Requested' = s
    BY <2>1, <2>2 DEF Requested
  <2>4. CASE reqState = "SEND"
    <3>1. s = Requested
      BY <2>4 DEF Requested
    <3> HIDE DEF s
    <3> QED
      BY <2>1, <2>3, <2>4, <3>1 DEF T1Inv, T1IsOfTheRequest, Sending, Interval
  <2>5. CASE reqState # "SEND"
    <3>1. txts = {} /\ ~rcvdTs
      BY <2>1, <2>5, SendsFrom DEF T1Inv
    <3> HIDE DEF s
    <3> QED
      BY <2>1, <2>3, <3>1 DEF T1Inv, T1IsOfTheRequest, Sending, Interval
  <2> QED
    BY <2>4, <2>5
<1>5. CASE EnterWaitResp
  <2>1. /\ reqState' = "WAITING_FOR_RESP" /\ rcvdTs' = FALSE /\ UNCHANGED <<seq, since, txts, t1>>
        /\ reqState \in Sending /\ rcvdTs /\ ~again
    BY <1>5, WaitsFrom DEF EnterWaitResp
  <2> QED
    BY <2>1 DEF T1Inv, T1IsOfTheRequest, Requested, Sending
<1>6. CASE EnterWaitFup
  <2>1. /\ reqState' = "WAITING_FOR_FUP" /\ UNCHANGED <<seq, since, txts, t1, rcvdTs>>
        /\ reqState = "WAITING_FOR_RESP"
    BY <1>6, WaitsForFupFrom DEF EnterWaitFup
  <2> QED
    BY <2>1 DEF T1Inv, T1IsOfTheRequest, Sending
<1>7. CASE EnterReset
  <2>1. /\ reqState' = "RESET" /\ UNCHANGED <<since, txts, rcvdTs>>
        /\ reqState \in {"WAITING_FOR_RESP", "WAITING_FOR_FUP"}
    BY <1>7, TargetOfReset DEF EnterReset, Enters, Resend, Sending
  <2> QED
    BY <2>1 DEF T1Inv, T1IsOfTheRequest, Sending
<1>8. CASE Measure
  <2>1. /\ reqState' = "WAITING_FOR_INTERVAL" /\ UNCHANGED <<since, txts, rcvdTs>>
        /\ reqState = "WAITING_FOR_FUP"
    BY <1>8, MeasuresFrom DEF Measure
  <2> QED
    BY <2>1 DEF T1Inv, T1IsOfTheRequest, Sending
<1> QED
  BY <1>1, <1>2, <1>3, <1>4, <1>5, <1>6, <1>7, <1>8 DEF ReqStep, IntervalTick, ReqSettled

\* The measurement never takes t1 of another request than the one it waits
\* for (md_pdelay_req_sm_txts, send_pdelay_req_proc), whatever fails or is late.
THEOREM T1AlwaysOfTheRequest == ReqSpec => []T1IsOfTheRequest
<1>1. ReqInit => T1Inv
  BY DEF ReqInit, T1Inv, T1IsOfTheRequest, Sending
<1>2. ReqInv /\ T1Inv /\ [ReqNext]_reqVars => T1Inv'
  <2>1. T1Inv /\ UNCHANGED reqVars => T1Inv'
    BY DEF T1Inv, T1IsOfTheRequest, Requested, reqVars
  <2> QED
    BY <2>1, T1Event, T1Step DEF ReqNext
<1>3. T1Inv => T1IsOfTheRequest
  BY DEF T1Inv
<1> QED
  BY <1>1, <1>2, <1>3, ReqInvInvariant, PTL DEF ReqSpec

-----------------------------------------------------------------------------
(* Too many responses                                                      *)

\* multiResponses reaches its limit only in RESET, and INITIAL_SEND clears it
\* as soon as a request goes out.
SilentInv ==
    /\ ConformToAvnu /\ multi >= AllowedLost =>
          ~capable /\ reqState \in {"RESET", "NOT_ENABLED", "INITIAL_SEND"}
    /\ reqState = "INITIAL_SEND" /\ ~again => multi = 0

LEMMA SilentStep == ReqInv /\ SilentInv /\ [ReqNext]_reqVars => SilentInv'
<1> SUFFICES ASSUME ReqTypeOK, DataTypes, BoolTypes, SilentInv, [ReqNext]_reqVars PROVE SilentInv'
  BY TypeParts DEF ReqInv
<1>0. AllowedLost \in Nat \ {0} /\ multi \in Nat
  BY ReqAssumption DEF ReqAssumption, DataTypes
<1>1. CASE UNCHANGED <<reqState, again, multi>> /\ (capable' => capable)
  BY <1>1, Zenon DEF SilentInv
<1>2. CASE EnterNotEnabled
  BY <1>2 DEF EnterNotEnabled, SilentInv, countVars, delayVars
<1>3. CASE SendInitial
  <2>1. /\ reqState' = "INITIAL_SEND"
        /\ \/ again' = TRUE /\ UNCHANGED <<multi, capable>>
           \/ multi' = 0
    BY <1>3 DEF SendInitial, TransmitFails, countVars
  <2> QED
    BY <2>1, <1>0 DEF SilentInv
<1>4. CASE SendReq
  <2>1. /\ reqState' = "SEND" /\ reqState \in {"RESET", "SEND", "WAITING_FOR_INTERVAL"}
        /\ multi' = IF ConformToAvnu /\ multi >= AllowedLost /\ reqState = "RESET" THEN 0 ELSE multi
    BY <1>4, TargetOfSend DEF SendReq, Enters
  <2> QED
    BY <2>1, <1>0 DEF SilentInv
<1>5. CASE EnterWaitResp
  <2>1. /\ reqState' = "WAITING_FOR_RESP" /\ UNCHANGED <<multi, capable>>
        /\ reqState \in Sending /\ ~again
    BY <1>5, WaitsFrom DEF EnterWaitResp, countVars, delayVars
  <2> QED
    BY <2>1, <1>0 DEF SilentInv, Sending
<1>6. CASE EnterWaitFup
  <2>1. /\ reqState' = "WAITING_FOR_FUP" /\ UNCHANGED <<multi, capable>>
        /\ reqState = "WAITING_FOR_RESP"
    BY <1>6, WaitsForFupFrom DEF EnterWaitFup, countVars, delayVars
  <2> QED
    BY <2>1, <1>0 DEF SilentInv
<1>7. CASE EnterReset
  <2>1. reqState' = "RESET" /\ multi' = CountMulti
    BY <1>7 DEF EnterReset
  <2>2. capable' => capable /\ ~Silenced
    BY <1>7, Zenon DEF EnterReset
  <2>3. ConformToAvnu /\ CountMulti >= AllowedLost => ~capable'
    BY <2>2, Zenon DEF Silenced
  <2> QED
    BY <2>1, <2>3 DEF SilentInv
<1>8. CASE Measure
  BY <1>8, <1>0 DEF Measure, SilentInv
<1>9. \/ UNCHANGED <<reqState, again, multi>> /\ (capable' => capable)
      \/ ReqStep /\ ~IntervalTick /\ ~ReqSettled
  BY DEF ReqNext, ReqEvent, ReqStep, RecvFup, RecvResp, RecvTxts, ReqTick, Elapse, SetOper, DevDown,
         SetInterval, IntervalTick, ReqSettled, reqVars, countVars, delayVars
<1> QED
  BY <1>1, <1>2, <1>3, <1>4, <1>5, <1>6, <1>7, <1>8, <1>9 DEF ReqStep

\* After too many exchanges with several responses (reset_proc) no request is
\* sent and the neighbour is not capable until CEASETIME_AVNU_MULTIRESPOSE.
THEOREM CeasingAlwaysSilent == ReqSpec => []CeasingIsSilent
<1>1. ReqInit => SilentInv
  BY ReqAssumption DEF ReqAssumption, ReqInit, SilentInv
<1>2. SilentInv => CeasingIsSilent
  BY DEF SilentInv, CeasingIsSilent, Ceasing
<1> QED
  BY <1>1, <1>2, SilentStep, ReqInvInvariant, PTL DEF ReqSpec

-----------------------------------------------------------------------------
(* The responder                                                           *)

\* A transmit timestamp is taken and used within one run of the machine.
RspInv == rspState = "SENT" /\ rspTs => rspPc = "rsp" /\ ts3 = rspReq

\* A Pdelay_Resp_Follow_Up carries the transmit time of the response it names
\* (md_pdelay_resp_sm_txts), whatever requests arrive in between.
THEOREM FupAlwaysOfItsResp == RspSpec => FupIsOfItsResp
<1>1. RspInit => RspInv
  BY DEF RspInit, RspInv
<1>2. RspInv /\ [RspEvent \/ RspStep]_rspVars => RspInv'
  <2> SUFFICES ASSUME RspInv, [RspEvent \/ RspStep]_rspVars PROVE RspInv'
    OBVIOUS
  <2>1. CASE \E s \in Seqs : RecvReq(s)
    BY <2>1 DEF RecvReq, RspInv
  <2>2. CASE RecvRspTxts
    BY <2>2 DEF RecvRspTxts, RspInv
  <2>3. CASE RspTick \/ RspElapse \/ RspDev
    BY <2>3 DEF RspTick, RspElapse, RspDev, RspInv
  <2>4. CASE RspDisable \/ SendResp
    BY <2>4 DEF RspDisable, SendResp, RspInv
  <2>5. CASE SendFup
    BY <2>5 DEF SendFup, RspInv
  <2>6. CASE RspSettled
    BY <2>6 DEF RspSettled, WantsResp, WantsFup, RspInv
  <2>7. CASE UNCHANGED rspVars
    BY <2>7 DEF rspVars, RspInv
  <2> QED
    BY <2>1, <2>2, <2>3, <2>4, <2>5, <2>6, <2>7 DEF RspEvent, RspStep
<1>3. RspInv /\ [RspEvent \/ RspStep]_rspVars =>
         [rspState = "SENT" /\ rspState' = "WAITING" => ts3 = rspReq]_rspVars
  <2> SUFFICES ASSUME RspInv, RspEvent \/ RspStep, rspState = "SENT", rspState' = "WAITING"
               PROVE  ts3 = rspReq
    OBVIOUS
  <2>1. SendFup
    BY DEF RspEvent, RspStep, RecvReq, RecvRspTxts, RspTick, RspElapse, RspDev, RspDisable,
           SendResp, RspSettled
  <2> QED
    BY <2>1 DEF SendFup, WantsFup, RspInv
<1> QED
  BY <1>1, <1>2, <1>3, PTL DEF RspSpec, FupIsOfItsResp

-----------------------------------------------------------------------------
(* The link                                                                *)

\* The frames in flight, and what the responder keeps of them, are frames.
WireOK ==
    /\ toRsp \in Seq(Seqs) /\ toReq \in Seq(Resp \cup Fup)
    /\ rspReq \in Seqs /\ ts2 \in Seqs /\ ts3 \in Seqs /\ rspTxts \subseteq Seqs

\* A step on the link is a step of the requester against its open environment,
\* or leaves it alone.
LEMMA LinkStep == WireOK /\ [Next]_vars => [ReqNext]_reqVars
<1> SUFFICES ASSUME WireOK, [Next]_vars PROVE [ReqNext]_reqVars
  OBVIOUS
<1>1. CASE ReqReceives
  <2>1. PICK i \in Arriving(toReq) :
           \/ toReq[i].kind = "resp" /\ RecvResp(toReq[i].seq, TRUE)
           \/ toReq[i].kind = "fup" /\ RecvFup(toReq[i].seq)
    BY <1>1 DEF ReqReceives
  <2>2. toReq[i].seq \in Seqs
    BY DEF WireOK, Arriving, Resp, Fup
  <2> QED
    BY <2>1, <2>2 DEF ReqNext, ReqEvent
<1>2. CASE ReqLocal
  BY <1>2 DEF ReqLocal, ReqNext, ReqEvent
<1>3. CASE ReqRunsOn
  BY <1>3 DEF ReqRunsOn, ReqNext
<1>4. CASE RspReceives \/ RspLocal \/ RspRunsOn \/ UNCHANGED vars
  BY <1>4 DEF RspReceives, RspLocal, RspRunsOn, vars
<1> QED
  BY <1>1, <1>2, <1>3, <1>4 DEF Next

\* A wire carries what was put on it.
LEMMA CarriedFrames ==
  ASSUME NEW F, NEW w \in Seq(F), NEW sent \in SUBSET F, NEW w1 \in Carried(w, sent)
  PROVE  w1 \in Seq(F)
  BY DEF Carried

\* Steps of both ends keep the frames well formed.
LEMMA WirePreserved == ReqTypeOK' /\ WireOK /\ [Next]_vars => WireOK'
<1> SUFFICES ASSUME ReqTypeOK', WireOK, [Next]_vars PROVE WireOK'
  OBVIOUS
<1> USE DEF WireOK
<1>1. CASE ReqReceives
  <2>1. PICK i \in 1..Len(toReq) :
           toReq' = [j \in 1..(Len(toReq) - 1) |-> toReq[IF j < i THEN j ELSE j + 1]]
    BY <1>1 DEF ReqReceives, Arriving
  <2>2. toReq' \in Seq(Resp \cup Fup)
    BY <2>1
  <2> QED
    BY <1>1, <2>2 DEF ReqReceives, rspVars
<1>2. CASE ReqLocal
  BY <1>2 DEF ReqLocal, wires, rspVars
<1>3. CASE ReqRunsOn
  <2>1. ReqSends \subseteq Seqs
    BY DEF ReqSends, ReqTypeOK
  <2>2. toRsp' \in Seq(Seqs)
    BY <1>3, <2>1, CarriedFrames DEF ReqRunsOn
  <2> QED
    BY <1>3, <2>2 DEF ReqRunsOn, rspVars
<1>4. CASE RspReceives
  <2>1. Head(toRsp) \in Seqs /\ Tail(toRsp) \in Seq(Seqs)
    BY <1>4 DEF RspReceives
  <2> QED
    BY <1>4, <2>1 DEF RspReceives, RecvReq
<1>5. CASE RspLocal
  BY <1>5 DEF RspLocal, wires, RecvRspTxts, RspTick, RspElapse, RspDev
<1>6. CASE RspRunsOn
  <2>1. PdelayRespFrame \in Resp /\ PdelayRespFollowUpFrame \in Fup
    BY DEF PdelayRespFrame, PdelayRespFollowUpFrame, Resp, Fup
  <2>2. RspSends \subseteq Resp \cup Fup
    BY <2>1 DEF RspSends
  <2>3. toReq' \in Seq(Resp \cup Fup)
    BY <1>6, <2>2, CarriedFrames DEF RspRunsOn
  <2>4. UNCHANGED <<rspReq, ts2, ts3>> /\ rspTxts' \in {rspTxts, rspTxts \cup {rspReq}}
    BY <1>6 DEF RspRunsOn, RspStep, RspDisable, SendResp, SendFup, RspSettled
  <2> QED
    BY <1>6, <2>3, <2>4 DEF RspRunsOn
<1>7. CASE UNCHANGED vars
  BY <1>7 DEF vars, wires, rspVars
<1> QED
  BY <1>1, <1>2, <1>3, <1>4, <1>5, <1>6, <1>7 DEF Next

\* On a link with a real responder that loses, delays and reorders frames, the
\* requester behaves as one against an open environment, by the way Next is put
\* together and because the frames have the types that ReqNext expects: what is
\* proved of ReqSpec holds of the link.
LEMMA LinkImplementsRequester == Spec => ReqSpec
<1> DEFINE LinkInv == ReqInv /\ WireOK
<1>1. Init => ReqInit /\ LinkInv
  BY ReqInvInit, LinkAssumption DEF LinkAssumption, Init, RspInit, WireOK, Seqs
<1>2. LinkInv /\ [Next]_vars => LinkInv' /\ [ReqNext]_reqVars
  <2> SUFFICES ASSUME LinkInv, [Next]_vars PROVE LinkInv' /\ [ReqNext]_reqVars
    OBVIOUS
  <2>1. [ReqNext]_reqVars
    BY LinkStep
  <2>2. ReqInv'
    BY <2>1, EventPreserves, StepPreserves, StutterPreserves DEF ReqNext
  <2>3. WireOK'
    BY <2>2, WirePreserved DEF ReqInv
  <2> QED
    BY <2>1, <2>2, <2>3
<1> QED
  BY <1>1, <1>2, PTL DEF Spec, ReqSpec

=============================================================================
