----------------------------- MODULE PdelayResp -----------------------------
(***************************************************************************)
(* md_pdelay_resp_sm: the end of a link that answers Pdelay_Req.           *)
(*                                                                         *)
(* Left out: requests of another PTP profile (majorSdoId), mock_txts64,    *)
(* which only the fault injection hooks use, and portEnabled1, which is    *)
(* fixed when the machine is created (TRUE here).                          *)
(***************************************************************************)
EXTENDS PdelayLink

VARIABLES
    rspPc,      \* "idle", or "rsp" while the machine runs
    rspOper,    \* portOper of the responder's port
    rspState,   \* "INITIAL", "WAITING" or "SENT"
    rspAgain,   \* last_state is REACTION: the entry action runs again
    rcvdReq,    \* rcvdPdelayReq
    rspReq,     \* sequence number in rcvdPdelayReqPtr
    lastSeq,    \* last_seqid, or -1
    ts2,        \* request that ts2 was taken of
    ts3,        \* response that ts3 was taken of
    rspTs,      \* rcvdMDTimestampReceive
    rspTxts,    \* responses whose transmit timestamp may still come
    rspLate     \* gptpnet_txtslost_time has passed since the response

rspVars == <<rspPc, rspOper, rspState, rspAgain, rcvdReq, rspReq, lastSeq, ts2, ts3,
             rspTs, rspTxts, rspLate>>

RspInit ==
    /\ rspPc = "idle" /\ rspOper = TRUE /\ rspState = "INITIAL" /\ rspAgain = FALSE
    /\ rcvdReq = FALSE /\ rspReq = 0 /\ lastSeq = -1 /\ ts2 = 0 /\ ts3 = 0
    /\ rspTs = FALSE /\ rspTxts = {} /\ rspLate = FALSE

-----------------------------------------------------------------------------
(* Events                                                                  *)

\* md_pdelay_resp_sm_recv_req.  The request replaces the stored one before
\* its sequence number is looked at.
RecvReq(s) ==
    /\ rspPc = "idle"
    /\ rspReq' = s
    /\ IF lastSeq >= 0 /\ s # NextSeq(lastSeq)
       THEN lastSeq' = -1 /\ UNCHANGED <<rcvdReq, ts2, rspPc>>
       ELSE lastSeq' = s /\ rcvdReq' = TRUE /\ ts2' = s /\ rspPc' = "rsp"
    /\ UNCHANGED <<rspOper, rspState, rspAgain, ts3, rspTs, rspTxts, rspLate>>

RecvRspTxtsAnySeq ==
    /\ rspPc = "idle"
    /\ \E s \in rspTxts :
          /\ rspTxts' = rspTxts \ {s}
          /\ IF rspState = "SENT"
             THEN ts3' = s /\ rspTs' = TRUE /\ rspPc' = "rsp"
             ELSE UNCHANGED <<ts3, rspTs, rspPc>>
    /\ UNCHANGED <<rspOper, rspState, rspAgain, rcvdReq, rspReq,
                   lastSeq, ts2, rspLate>>

\* md_pdelay_resp_sm_txts
RecvRspTxts ==
    /\ rspPc = "idle"
    /\ \E s \in rspTxts :
          /\ rspTxts' = rspTxts \ {s}
          /\ IF rspState = "SENT" /\ s = rspReq
             THEN ts3' = s /\ rspTs' = TRUE /\ rspPc' = "rsp"
             ELSE UNCHANGED <<ts3, rspTs, rspPc>>
    /\ UNCHANGED <<rspOper, rspState, rspAgain, rcvdReq, rspReq,
                   lastSeq, ts2, rspLate>>

\* The call that gptpnet_cb_timeout makes.
RspTick ==
    /\ rspPc = "idle" /\ rspPc' = "rsp"
    /\ UNCHANGED <<rspOper, rspState, rspAgain, rcvdReq, rspReq, lastSeq, ts2, ts3,
                   rspTs, rspTxts, rspLate>>

RspElapse ==
    /\ rspPc = "idle" /\ rspState = "SENT" /\ rspLate' = TRUE
    /\ UNCHANGED <<rspPc, rspOper, rspState, rspAgain, rcvdReq, rspReq,
                   lastSeq, ts2, ts3, rspTs, rspTxts>>

RspDev ==
    /\ rspPc = "idle" /\ rspOper' = ~rspOper
    /\ UNCHANGED <<rspPc, rspState, rspAgain, rcvdReq, rspReq,
                   lastSeq, ts2, ts3, rspTs, rspTxts, rspLate>>

-----------------------------------------------------------------------------
(* The machine                                                             *)

\* Without portOper the machine falls through NOT_ENABLED into
\* INITIAL_WAITING_FOR_PDELAY_REQ at every call.
RspDisable ==
    /\ rspPc = "rsp" /\ ~rspOper
    /\ rspState' = "INITIAL" /\ rspAgain' = FALSE
    /\ rcvdReq' = FALSE /\ lastSeq' = -1
    /\ rspPc' = "idle"
    /\ UNCHANGED <<rspOper, rspReq, ts2, ts3, rspTs, rspTxts, rspLate>>

\* A request waits, or the response has to be sent again.
WantsResp ==
    IF rspState = "SENT" THEN rspAgain \/ (~rspTs /\ rspLate)
                         ELSE rcvdReq /\ ~(rspState = "WAITING" /\ rspAgain)

\* setPdelayResp
PdelayRespFrame == [kind |-> "resp", seq |-> rspReq, rcpt |-> ts2]

\* SENT_PDELAY_RESP_WAITING_FOR_TIMESTAMP is entered, or entered again.
SendResp ==
    /\ rspPc = "rsp" /\ rspOper /\ WantsResp
    /\ rspState' = "SENT" /\ rcvdReq' = FALSE /\ rspTs' = FALSE
    /\ rspPc' = "idle"
    /\ \/ rspAgain' = TRUE /\ UNCHANGED <<rspTxts, rspLate>>
       \/ /\ rspAgain' = FALSE /\ rspLate' = FALSE
          /\ rspTxts' \in {rspTxts, rspTxts \cup {rspReq}}
    /\ UNCHANGED <<rspOper, rspReq, lastSeq, ts2, ts3>>

\* The timestamp is there, or the Follow_Up could not be sent before.
WantsFup ==
    \/ rspState = "SENT" /\ ~rspAgain /\ rspTs
    \/ rspState = "WAITING" /\ rspAgain

\* setPdelayRespFollowUp
PdelayRespFollowUpFrame == [kind |-> "fup", seq |-> rspReq, egress |-> ts3]

\* WAITING_FOR_PDELAY_REQ is entered, or entered again.
SendFup ==
    /\ rspPc = "rsp" /\ rspOper /\ WantsFup
    /\ rspState' = "WAITING"
    /\ \/ rspAgain' = TRUE /\ rspPc' = "idle"
       \/ rspAgain' = FALSE /\ UNCHANGED rspPc
    /\ UNCHANGED <<rspOper, rcvdReq, rspReq, lastSeq, ts2, ts3, rspTs,
                   rspTxts, rspLate>>

RspSettled ==
    /\ rspPc = "rsp" /\ rspOper /\ ~WantsResp /\ ~WantsFup
    /\ rspPc' = "idle"
    /\ UNCHANGED <<rspOper, rspState, rspAgain, rcvdReq, rspReq, lastSeq, ts2, ts3,
                   rspTs, rspTxts, rspLate>>

RspEvent ==
    (\E s \in Seqs : RecvReq(s)) \/ RecvRspTxts \/ RspTick \/ RspElapse \/ RspDev

RspStep == RspDisable \/ SendResp \/ SendFup \/ RspSettled

\* The frames that a step of the responder puts on the wire.
RspSends ==
    CASE SendResp /\ ~rspAgain' -> {PdelayRespFrame}
      [] SendFup /\ ~rspAgain'  -> {PdelayRespFollowUpFrame}
      [] OTHER                  -> {}

RspSpec == RspInit /\ [][RspEvent \/ RspStep]_rspVars

-----------------------------------------------------------------------------
(* Properties                                                              *)

\* A Follow_Up that ends the wait for a transmit timestamp carries the
\* transmit time of the response it names, whatever requests arrive, fail to
\* be answered or are answered again in between
\* (md_pdelay_resp_sm_txts, setPdelayRespFollowUp).
FupIsOfItsResp ==
    [][rspState = "SENT" /\ rspState' = "WAITING" => ts3 = rspReq]_rspVars

=============================================================================
