------------------------------ MODULE PdelayReq ------------------------------
(***************************************************************************)
(* md_pdelay_req_sm, the end of a link that measures, and                  *)
(* link_delay_interval_setting_sm, which may stop it.                      *)
(*                                                                         *)
(* Left out: a fixed NEIGHBOR_PROP_DELAY, the asymmetry measurement mode,  *)
(* frames of another PTP profile (majorSdoId), Follow_Up frames of this    *)
(* clock itself, a transmit buffer that cannot be had, and mock_txts64,    *)
(* which only the fault injection hooks use.  The rate and delay           *)
(* arithmetic is reduced to its verdicts.  The environment is open: any    *)
(* response and any Follow_Up may arrive at any time.                      *)
(***************************************************************************)
EXTENDS PdelayLink

CONSTANTS
    AllowedLost,     \* allowedLostResponses
    AllowedFaults,   \* allowedFaults
    ConformToAvnu,   \* ptasg->conformToAvnu
    InitialSeqs,     \* values of rand() for the first sequence number
    Signaling        \* message interval requests arrive

ASSUME ReqAssumption ==
    /\ AllowedLost \in Nat \ {0} /\ AllowedFaults \in Nat
    /\ ConformToAvnu \in BOOLEAN /\ Signaling \in BOOLEAN
    /\ InitialSeqs \subseteq Seqs /\ InitialSeqs # {}

\* Time since pdelayIntervalTimer was started, in the steps that matter.
TxtsLost == 1    \* gptpnet_txtslost_time
Interval == 2    \* pdelayReqInterval
Cease    == 3    \* CEASETIME_AVNU_MULTIRESPOSE

VARIABLES
    reqPc,       \* "idle"; "req" or "tick" while the machine runs; "ld"
    portOper,    \* of the requester's port
    ldOn,        \* link_delay_interval_setting_sm is not in NOT_ENABLED
    stopped,     \* currentLogPdelayReqInterval is 127
    computeRate, \* computeNeighborRateRatio
    reqState,    \* state of md_pdelay_req_sm
    again,       \* last_state is REACTION: the entry action runs again
    seq,         \* pdelayReqSequenceId
    since,       \* time since pdelayIntervalTimer
    txts,        \* requests whose transmit timestamp may still come
    rcvdTs,      \* rcvdMDTimestampReceive
    t1,          \* request that t1ts64 was taken of
    rcvdResp, resp,   \* rcvdPdelayResp, what rcvdPdelayRespPtr says
    rcvdFup, fup,     \* the same for the Follow_Up: its sequence number
    paired,      \* the two stored frames have the same sourcePortIdentity
    lost, multi, faults,   \* lostResponses, multiResponses, detectedFaults
    measuring,   \* isMeasuringDelay
    capable,     \* asCapableAcrossDomains
    rateValid,   \* neighborRateRatioValid
    prevSet,     \* prev_t1ts64 and prev_t2ts64 are of a response
    unanswered   \* history: requests since the last measurement, up to a bound

envVars   == <<portOper, ldOn, stopped, computeRate>>
rcvdVars  == <<rcvdResp, resp, rcvdFup, fup, paired>>
countVars == <<lost, multi, faults>>
delayVars == <<measuring, capable, rateValid, prevSet>>
reqVars   == <<reqPc, envVars, reqState, again, seq, since, txts, rcvdTs, t1, rcvdVars,
               countVars, delayVars, unanswered>>

ReqInit ==
    /\ reqPc = "idle" /\ portOper = FALSE /\ ldOn = FALSE /\ stopped = FALSE /\ computeRate = TRUE
    /\ reqState = "NOT_ENABLED" /\ again = FALSE /\ seq = 0 /\ since = 0
    /\ txts = {} /\ rcvdTs = FALSE /\ t1 = 0
    /\ rcvdResp = FALSE /\ resp = [seq |-> 0, own |-> FALSE]
    /\ rcvdFup = FALSE /\ fup = 0 /\ paired = FALSE
    /\ lost = 0 /\ multi = 0 /\ faults = 0
    /\ measuring = FALSE /\ capable = FALSE /\ rateValid = FALSE /\ prevSet = FALSE
    /\ unanswered = 0

-----------------------------------------------------------------------------
(* Events                                                                  *)

\* md_pdelay_req_sm_recv_resp: own says that the response answers a request
\* of this port.
RecvResp(s, own) ==
    /\ reqPc = "idle" /\ reqPc' = "req"
    /\ rcvdResp' = TRUE /\ resp' = [seq |-> s, own |-> own] /\ paired' \in BOOLEAN
    /\ UNCHANGED <<envVars, reqState, again, seq, since, txts, rcvdTs, t1, rcvdFup, fup,
                   countVars, delayVars, unanswered>>

\* md_pdelay_req_sm_recv_respfup
RecvFup(s) ==
    /\ reqPc = "idle" /\ reqPc' = "req"
    /\ rcvdFup' = TRUE /\ fup' = s /\ paired' \in BOOLEAN
    /\ UNCHANGED <<envVars, reqState, again, seq, since, txts, rcvdTs, t1, rcvdResp,
                   resp, countVars, delayVars, unanswered>>

Sending == {"INITIAL_SEND", "SEND"}

RecvTxtsAnySeq ==
    /\ reqPc = "idle"
    /\ \E s \in txts :
          /\ txts' = txts \ {s}
          /\ IF reqState \in Sending
             THEN t1' = s /\ rcvdTs' = TRUE /\ reqPc' = "req"
             ELSE UNCHANGED <<t1, rcvdTs, reqPc>>
    /\ UNCHANGED <<envVars, reqState, again, seq, since, rcvdVars,
                   countVars, delayVars, unanswered>>

\* md_pdelay_req_sm_txts
RecvTxts ==
    /\ reqPc = "idle"
    /\ \E s \in txts :
          /\ txts' = txts \ {s}
          /\ IF reqState \in Sending /\ s = seq
             THEN t1' = s /\ rcvdTs' = TRUE /\ reqPc' = "req"
             ELSE UNCHANGED <<t1, rcvdTs, reqPc>>
    /\ UNCHANGED <<envVars, reqState, again, seq, since, rcvdVars,
                   countVars, delayVars, unanswered>>

\* The call that gptpnet_cb_timeout makes.
ReqTick ==
    /\ reqPc = "idle" /\ reqPc' = "tick"
    /\ UNCHANGED <<envVars, reqState, again, seq, since, txts, rcvdTs, t1, rcvdVars,
                   countVars, delayVars, unanswered>>

\* Assumed of the driver: no transmit timestamp comes later than the interval.
\* Left out with it: one that stays in the ring because a later send failed and
\* took out the request of another message, and comes with the next wake-up.
Elapse ==
    /\ reqPc = "idle" /\ since < Cease
    /\ since' = since + 1
    /\ txts' = IF since' >= Interval THEN {} ELSE txts
    /\ UNCHANGED <<reqPc, envVars, reqState, again, seq, rcvdTs, t1,
                   rcvdVars, countVars, delayVars, unanswered>>

\* GPTPNET_EVENT_DEVUP, GPTPNET_EVENT_GUARDUP and GPTPNET_EVENT_GUARDDOWN
SetOper ==
    /\ reqPc = "idle" /\ portOper' \in BOOLEAN
    /\ UNCHANGED <<reqPc, ldOn, stopped, computeRate, reqState, again, seq,
                   since, txts, rcvdTs, t1, rcvdVars, countVars, delayVars, unanswered>>

\* gptpnet_cb_devdown
DevDown ==
    /\ reqPc = "idle" /\ portOper' = FALSE /\ capable' = FALSE
    /\ UNCHANGED <<reqPc, ldOn, stopped, computeRate, reqState, again, seq,
                   since, txts, rcvdTs, t1, rcvdVars, countVars, measuring, rateValid,
                   prevSet, unanswered>>

\* link_delay_interval_setting_SignalingMsg1
SetInterval ==
    /\ reqPc = "idle" /\ Signaling
    /\ IF ~portOper THEN ldOn' = FALSE /\ UNCHANGED <<stopped, computeRate>>
       ELSE /\ ldOn' = TRUE
            /\ IF ldOn THEN stopped' \in BOOLEAN /\ computeRate' \in BOOLEAN
                       ELSE stopped' = FALSE /\ computeRate' = TRUE
    /\ UNCHANGED <<reqPc, portOper, reqState, again, seq, since, txts,
                   rcvdTs, t1, rcvdVars, countVars, delayVars, unanswered>>

\* link_delay_interval_setting_sm, after the requester in a timeout.
IntervalTick ==
    /\ reqPc = "ld" /\ reqPc' = "idle"
    /\ ldOn' = portOper
    /\ IF portOper /\ ~ldOn THEN stopped' = FALSE /\ computeRate' = TRUE
                            ELSE UNCHANGED <<stopped, computeRate>>
    /\ UNCHANGED <<portOper, reqState, again, seq, since, txts, rcvdTs,
                   t1, rcvdVars, countVars, delayVars, unanswered>>

-----------------------------------------------------------------------------
(* The machine: conditions                                                 *)

ReqRuns == reqPc \in {"req", "tick"}

ReqReturn == reqPc' = IF reqPc = "tick" THEN "ld" ELSE "idle"

Expired == since >= Interval

\* reset_condition: no request for CEASETIME_AVNU_MULTIRESPOSE.
Ceasing == ConformToAvnu /\ multi >= AllowedLost /\ since < Cease

AfterRespNoTimeout ==
    IF ~rcvdResp THEN "WAITING_FOR_RESP"
    ELSE IF ~resp.own \/ resp.seq > seq THEN "RESET"
    ELSE "WAITING_FOR_FUP"

\* waiting_for_pdelay_resp_condition.  A response to an earlier request is
\* reported as discarded and then taken.
AfterResp ==
    IF Expired THEN "RESET"
    ELSE IF ~rcvdResp THEN "WAITING_FOR_RESP"
    ELSE IF ~resp.own \/ resp.seq > seq THEN "RESET"
    ELSE "WAITING_FOR_FUP"

\* The same request is answered a second time.
AnsweredTwice == rcvdResp /\ resp.seq = seq

\* waiting_for_pdelay_resp_follow_up_condition.  A response that came after
\* the accepted one has replaced it, so whose it is is looked at again.
AfterFup ==
    IF Expired \/ AnsweredTwice THEN "RESET"
    ELSE IF ~rcvdFup \/ fup # seq \/ ~(paired \/ resp.own) THEN "WAITING_FOR_FUP"
    ELSE "WAITING_FOR_INTERVAL"

\* The state that the conditions of the machine lead to.
Target ==
    CASE ~portOper                             -> "NOT_ENABLED"
      [] portOper /\ stopped                   -> "INITIAL_SEND"
      [] portOper /\ ~stopped ->
           CASE reqState = "NOT_ENABLED"           -> "INITIAL_SEND"
             [] reqState = "RESET"                 ->
                  IF ~Ceasing /\ Expired THEN "SEND" ELSE "RESET"
             [] reqState \in Sending               ->
                  IF rcvdTs /\ ~again THEN "WAITING_FOR_RESP" ELSE reqState
             [] reqState = "WAITING_FOR_RESP"      -> AfterResp
             [] reqState = "WAITING_FOR_FUP"       -> AfterFup
             [] reqState = "WAITING_FOR_INTERVAL"  ->
                  IF Expired THEN "SEND" ELSE "WAITING_FOR_INTERVAL"

\* The request has to be sent again: it could not be sent, or its transmit
\* timestamp is overdue.
Resend == reqState \in Sending /\ (again \/ (~stopped /\ ~rcvdTs /\ since >= TxtsLost))

Enters(state) == ReqRuns /\ Target = state /\ (reqState # state \/ Resend)

-----------------------------------------------------------------------------
(* The machine: one action per state entered                               *)

EnterNotEnabled ==
    /\ Enters("NOT_ENABLED")
    /\ reqState' = "NOT_ENABLED" /\ again' = FALSE
    /\ UNCHANGED <<reqPc, envVars, seq, since, txts, rcvdTs, t1, rcvdVars,
                   countVars, delayVars, unanswered>>

\* txPdelayReq: the request goes out with sequence number s, and its transmit
\* timestamp comes or not.
Transmit(s) ==
    /\ txts' \in {txts, txts \cup {s}}
    /\ since' = 0 /\ again' = FALSE

TransmitFails == again' = TRUE /\ UNCHANGED <<txts, since>>

\* initial_send_pdelay_req_proc
SendInitial ==
    /\ Enters("INITIAL_SEND")
    /\ reqState' = "INITIAL_SEND" /\ ReqReturn
    /\ rcvdResp' = FALSE /\ rcvdFup' = FALSE /\ rcvdTs' = FALSE /\ prevSet' = FALSE
    /\ seq' \in InitialSeqs
    /\ \/ TransmitFails /\ UNCHANGED <<countVars, measuring, capable>>
       \/ /\ Transmit(seq')
          /\ lost' = 0 /\ multi' = 0 /\ faults' = 0
          /\ measuring' = FALSE /\ capable' = FALSE
    /\ unanswered' = 0
    /\ UNCHANGED <<envVars, t1, resp, fup, paired, rateValid>>

\* send_pdelay_req_proc.  A request sent again keeps its sequence number.
SendReq ==
    LET s == IF reqState = "SEND" /\ ~again THEN seq ELSE NextSeq(seq)
    IN  /\ Enters("SEND")
        /\ reqState' = "SEND" /\ ReqReturn
        /\ rcvdResp' = FALSE /\ rcvdFup' = FALSE
        /\ multi' = IF ConformToAvnu /\ multi >= AllowedLost /\ reqState = "RESET"
                    THEN 0 ELSE multi
        /\ \/ TransmitFails /\ seq' = PrevSeq(s)
           \/ Transmit(s) /\ seq' = s
        /\ unanswered' = IF reqState # "SEND" /\ unanswered <= AllowedLost + 1
                         THEN unanswered + 1 ELSE unanswered
        /\ UNCHANGED <<envVars, rcvdTs, t1, resp, fup, paired, lost, faults, delayVars>>

EnterWaitResp ==
    /\ Enters("WAITING_FOR_RESP")
    /\ reqState' = "WAITING_FOR_RESP" /\ rcvdTs' = FALSE
    /\ UNCHANGED <<reqPc, envVars, again, seq, since, txts, t1, rcvdVars,
                   countVars, delayVars, unanswered>>

EnterWaitFup ==
    /\ Enters("WAITING_FOR_FUP")
    /\ reqState' = "WAITING_FOR_FUP" /\ rcvdResp' = FALSE
    /\ UNCHANGED <<reqPc, envVars, again, seq, since, txts, rcvdTs, t1,
                   resp, rcvdFup, fup, paired, countVars, delayVars, unanswered>>

\* Values of multiResponses above AllowedLost behave alike.
CountMulti ==
    IF reqState = "WAITING_FOR_FUP" /\ ~Expired /\ multi < AllowedLost
    THEN multi + 1 ELSE multi

\* lostResponses is below allowedLostResponses.
Tolerated == lost < AllowedLost

CountLostNoFup == IF Tolerated /\ reqState # "WAITING_FOR_FUP" THEN lost + 1 ELSE lost

CountLost == IF Tolerated THEN lost + 1 ELSE lost

SilencedLate == (Tolerated \/ capable) /\ ConformToAvnu /\ CountMulti > AllowedLost

\* Too many exchanges with several responses: transmission will cease.  The
\* early return of reset_proc skips this.
Silenced == (Tolerated \/ capable) /\ ConformToAvnu /\ CountMulti >= AllowedLost

RateStaysValidNever == FALSE

RateStaysValid == ~Silenced /\ (Tolerated \/ ~capable)

\* reset_proc
EnterReset ==
    /\ Enters("RESET")
    /\ reqState' = "RESET" /\ rcvdResp' = FALSE
    /\ multi' = CountMulti /\ lost' = CountLost
    /\ measuring' = (measuring /\ Tolerated /\ ~Silenced)
    /\ capable' = (capable /\ Tolerated /\ ~Silenced)
    /\ rateValid' = (rateValid /\ RateStaysValid)
    /\ UNCHANGED <<reqPc, envVars, again, seq, since, txts, rcvdTs, t1, resp,
                   rcvdFup, fup, paired, faults, prevSet, unanswered>>

\* waiting_for_pdelay_interval_timer_proc: the delay is within its limits or
\* not, the rate ratio can be computed once there is an earlier response.
Measure ==
    /\ Enters("WAITING_FOR_INTERVAL")
    /\ reqState' = "WAITING_FOR_INTERVAL" /\ rcvdFup' = FALSE
    /\ lost' = 0 /\ multi' = 0
    /\ prevSet' = (prevSet \/ computeRate)
    /\ \E withinLimits, rateInRange \in BOOLEAN :
          /\ rateValid' = (rateValid \/ ~computeRate \/ (prevSet /\ rateInRange))
          /\ LET fault == rateValid' /\ ~withinLimits
                 kept  == fault /\ faults <= AllowedFaults
             IN  /\ capable' = ((rateValid' /\ withinLimits) \/ (kept /\ capable))
                 /\ measuring' = ((rateValid' /\ withinLimits) \/ kept)
                 /\ faults' = IF kept THEN faults + 1 ELSE 0
    /\ unanswered' = 0
    /\ UNCHANGED <<reqPc, envVars, again, seq, since, txts, rcvdTs, t1,
                   rcvdResp, resp, fup, paired>>

\* No condition holds.  A Follow_Up that comes before its Pdelay_Resp is kept
\* if it has the sequence number of the request.
ReqSettled ==
    /\ ReqRuns /\ Target = reqState /\ ~Resend
    /\ rcvdFup' = (rcvdFup /\ ~(reqState = "WAITING_FOR_RESP" /\ fup # seq))
    /\ ReqReturn
    /\ UNCHANGED <<envVars, reqState, again, seq, since, txts, rcvdTs, t1,
                   rcvdResp, resp, fup, paired, countVars, delayVars, unanswered>>

ReqEvent ==
    \/ \E s \in Seqs : RecvFup(s) \/ \E own \in BOOLEAN : RecvResp(s, own)
    \/ RecvTxts \/ ReqTick \/ Elapse \/ SetOper \/ DevDown \/ SetInterval

ReqStep ==
    \/ IntervalTick \/ EnterNotEnabled \/ SendInitial \/ SendReq \/ EnterWaitResp
    \/ EnterWaitFup \/ EnterReset \/ Measure \/ ReqSettled

ReqNext == ReqEvent \/ ReqStep

\* The requests that a step of the requester puts on the wire.
ReqSends == IF (SendInitial \/ SendReq) /\ ~again' THEN {seq'} ELSE {}

ReqSpec == ReqInit /\ [][ReqNext]_reqVars

\* A handler runs to its end, timeouts come again and again
\* (gptpnet_catch_event makes up for a missed one), and time passes.
ReqFairness == WF_reqVars(ReqStep) /\ SF_reqVars(ReqTick) /\ SF_reqVars(Elapse)

ReqFairSpec == ReqSpec /\ ReqFairness

-----------------------------------------------------------------------------
(* Properties                                                              *)

ReqTypeOK ==
    /\ reqPc \in {"idle", "req", "tick", "ld"}
    /\ portOper \in BOOLEAN /\ ldOn \in BOOLEAN
    /\ stopped \in BOOLEAN /\ computeRate \in BOOLEAN
    /\ reqState \in {"NOT_ENABLED", "INITIAL_SEND", "RESET", "SEND", "WAITING_FOR_RESP",
                     "WAITING_FOR_FUP", "WAITING_FOR_INTERVAL"}
    /\ again \in BOOLEAN /\ seq \in Seqs /\ since \in 0..Cease /\ txts \subseteq Seqs
    /\ rcvdTs \in BOOLEAN /\ t1 \in Seqs
    /\ rcvdResp \in BOOLEAN /\ resp \in [seq : Seqs, own : BOOLEAN]
    /\ rcvdFup \in BOOLEAN /\ fup \in Seqs /\ paired \in BOOLEAN
    /\ lost \in 0..AllowedLost /\ multi \in 0..AllowedLost
    /\ faults \in 0..(AllowedFaults + 1)
    /\ measuring \in BOOLEAN /\ capable \in BOOLEAN /\ rateValid \in BOOLEAN
    /\ prevSet \in BOOLEAN /\ unanswered \in 0..(AllowedLost + 2)

\* A neighbour counts as capable only while the delay is being measured with a
\* valid rate ratio, whatever resets, faults and links going down interleave.
CapableIsMeasured == capable => measuring /\ rateValid

\* A neighbour that no longer answers is not capable for more than
\* allowedLostResponses further requests (reset_proc), and one request more
\* that is still open.
CapableWhileAnswered == capable => unanswered <= AllowedLost + 1

\* While the requester waits for an answer, t1 is the transmit time of the
\* request it waits for: requests that fail or are sent again, and transmit
\* timestamps that come late, do not mix it up.
T1IsOfTheRequest ==
    reqState \in {"WAITING_FOR_RESP", "WAITING_FOR_FUP"} => t1 = seq

\* After too many exchanges with more than one response the requester is
\* silent and the neighbour is not capable (reset_proc, reset_condition).
CeasingIsSilent ==
    reqPc = "idle" /\ Ceasing =>
       ~capable /\ reqState \in {"RESET", "NOT_ENABLED", "INITIAL_SEND"}

\* The requester never waits for ever: whatever is lost, it goes on to the
\* next request or is disabled.
RequestsGoOn ==
    reqState \in {"RESET", "WAITING_FOR_RESP", "WAITING_FOR_FUP", "WAITING_FOR_INTERVAL"}
       ~> reqState \in {"SEND", "INITIAL_SEND", "NOT_ENABLED"}

=============================================================================
