--------------------------- MODULE MdSyncReceive ---------------------------
(***************************************************************************)
(* md_sync_receive_sm: the end of a link that receives Sync and Follow_Up  *)
(* and pairs them to an MDSyncReceive structure.                           *)
(*                                                                         *)
(* Left out: asymmetry measurement mode, ptpPortEnabled and instanceEnable *)
(* (TRUE), the warnings on late messages (rsync_ts, rfup_ts), and          *)
(* oneStepReceive, which nothing but its initialisation to FALSE           *)
(* (mdeth.c:295) sets: a one-step Sync is received and discarded.          *)
(***************************************************************************)
EXTENDS Naturals, Sequences

VARIABLES
    rcvPc,      \* "idle", "start", or the state being entered:
                \* "discard", "waitFup" or "measure"
    rcvOper,    \* portOper and asCapable of the port
    rcvState,   \* "DISCARD", "WAITING_FOR_FOLLOW_UP" or "WAITING_FOR_SYNC"
    rcvdSync,   \* rcvdSync
    recSync,    \* recSync, with the transmission the ingress timestamp is of
    rcvdFup,    \* rcvdFollowUp
    recFup,     \* recFollowUp
    fupLate,    \* followUpReceiptTimeoutTime has passed
    measured    \* mdSyncReceive: the Sync and the Follow_Up it was made of

rcvVars == <<rcvPc, rcvOper, rcvState, rcvdSync, recSync, rcvdFup, recFup, fupLate, measured>>

NoSync == [kind |-> "sync", seq |-> 0, tx |-> 0, two |-> TRUE]
NoFup  == [kind |-> "fup", seq |-> 0, ts |-> [tx |-> 0, seq |-> 0, info |-> 0], info |-> 0]

RcvInit ==
    /\ rcvPc = "idle" /\ rcvOper = FALSE /\ rcvState = "DISCARD"
    /\ rcvdSync = FALSE /\ recSync = NoSync /\ rcvdFup = FALSE /\ recFup = NoFup
    /\ fupLate = FALSE /\ measured = [sync |-> NoSync, fup |-> NoFup]

-----------------------------------------------------------------------------
(* Events                                                                  *)

\* md_sync_receive_sm_recv_sync and md_sync_receive_sm_recv_fup
RecvFrame(f) ==
    /\ rcvPc = "idle" /\ rcvPc' = "start"
    /\ IF f.kind = "sync"
       THEN rcvdSync' = TRUE /\ recSync' = f /\ UNCHANGED <<rcvdFup, recFup>>
       ELSE rcvdFup' = TRUE /\ recFup' = f /\ UNCHANGED <<rcvdSync, recSync>>
    /\ UNCHANGED <<rcvOper, rcvState, fupLate, measured>>

\* The call that gptpnet_cb_timeout makes.
RcvTick ==
    /\ rcvPc = "idle" /\ rcvPc' = "start"
    /\ UNCHANGED <<rcvOper, rcvState, rcvdSync, recSync, rcvdFup, recFup, fupLate, measured>>

RcvElapse ==
    /\ rcvPc = "idle" /\ rcvState = "WAITING_FOR_FOLLOW_UP" /\ ~fupLate /\ fupLate' = TRUE
    /\ UNCHANGED <<rcvPc, rcvOper, rcvState, rcvdSync, recSync, rcvdFup, recFup, measured>>

RcvDev ==
    /\ rcvPc = "idle" /\ rcvOper' = ~rcvOper
    /\ UNCHANGED <<rcvPc, rcvState, rcvdSync, recSync, rcvdFup, recFup, fupLate, measured>>

-----------------------------------------------------------------------------
(* A run of the machine                                                    *)

\* Mutant: the sequence numbers are not compared.
FupMatchesAny == rcvdFup

\* The Follow_Up that is there belongs to the Sync that is there.
FupMatches == rcvdFup /\ recFup.seq = recSync.seq

\* Where the conditions lead: the state to enter, or "idle".
RcvNextPc ==
    CASE ~rcvOper -> "discard"
      [] rcvOper /\ rcvState = "WAITING_FOR_FOLLOW_UP" ->
            IF rcvdSync /\ recSync.two THEN "waitFup"
            ELSE IF FupMatches THEN "measure"
            ELSE IF fupLate \/ rcvdSync THEN "discard" ELSE "idle"
      [] OTHER ->
            IF ~rcvdSync THEN "idle" ELSE IF recSync.two THEN "waitFup" ELSE "discard"

\* A Follow_Up that does not match is dropped while one is waited for, and
\* kept otherwise: the driver may deliver it before its Sync.
RcvCondition ==
    /\ rcvPc = "start" /\ rcvPc' = RcvNextPc
    /\ rcvState' = CASE rcvPc' = "discard" -> "DISCARD"
                     [] rcvPc' = "waitFup" -> "WAITING_FOR_FOLLOW_UP"
                     [] rcvPc' = "measure" -> "WAITING_FOR_SYNC"
                     [] OTHER -> rcvState
    /\ rcvdFup' = IF rcvState = "WAITING_FOR_FOLLOW_UP" /\ rcvPc' \in {"discard", "idle"}
                  THEN FALSE ELSE rcvdFup
    /\ UNCHANGED <<rcvOper, rcvdSync, recSync, recFup, fupLate, measured>>

\* discard_proc
EnterDiscard ==
    /\ rcvPc = "discard" /\ rcvPc' = "idle"
    /\ rcvdSync' = FALSE /\ rcvdFup' = FALSE
    /\ UNCHANGED <<rcvOper, rcvState, recSync, recFup, fupLate, measured>>

\* waiting_for_follow_up_proc; the condition of the state follows.
EnterWaitFup ==
    /\ rcvPc = "waitFup" /\ rcvPc' = "start"
    /\ rcvdSync' = FALSE /\ fupLate' = FALSE
    /\ UNCHANGED <<rcvOper, rcvState, recSync, rcvdFup, recFup, measured>>

\* waiting_for_sync_proc, setMDSyncReceive: the run ends with the structure.
EnterMeasure ==
    /\ rcvPc = "measure" /\ rcvPc' = "idle"
    /\ rcvdSync' = FALSE /\ rcvdFup' = FALSE
    /\ measured' = [sync |-> recSync, fup |-> recFup]
    /\ UNCHANGED <<rcvOper, rcvState, recSync, recFup, fupLate>>

RcvStep == RcvCondition \/ EnterDiscard \/ EnterWaitFup \/ EnterMeasure

RcvNext == RcvTick \/ RcvElapse \/ RcvDev \/ RcvStep
=============================================================================
