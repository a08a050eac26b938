----------------------------- MODULE MdSyncSend -----------------------------
(***************************************************************************)
(* md_sync_send_sm: the end of a link that sends Sync and Follow_Up.       *)
(*                                                                         *)
(* A transmission of a Sync is named by its number in the behaviour (tx),  *)
(* together with the synchronisation information (MDSyncSend) that was the *)
(* newest when it left.  Left out: one-step transmission (oneStepTxOper is *)
(* FALSE, mdeth.c:297, and one_step_tx_oper_setting_sm is not run),        *)
(* asymmetry measurement mode, mock_txts64, which only the fault injection *)
(* hooks use, and ptpPortEnabled and instanceEnable, which stay TRUE.      *)
(***************************************************************************)
EXTENDS Naturals, Sequences

CONSTANTS
    MaxSync,    \* bound: transmissions of a Sync
    MaxInfo,    \* bound: MDSyncSend structures received
    MaxWire,    \* bound: frames on the link
    LateTxts    \* TRUE, as the code is: a timestamp may come after it has been
                \* given up, when gptpnet_txtslost_time has passed and the Sync
                \* is repeated, or when the port was down.  FALSE: none does;
                \* every timestamp comes, or is lost, before one of the two

ASSUME SyncSendAssumption ==
    MaxSync \in Nat /\ MaxInfo \in Nat /\ MaxWire \in Nat /\ LateTxts \in BOOLEAN

VARIABLES
    sndPc,      \* "idle", "start", or the state being entered: "sync" or "fup"
    sndOper,    \* portOper and asCapable of the port
    sndState,   \* "INITIALIZING", "SEND_SYNC_TWO_STEP" or "SEND_FOLLOW_UP"
    sndAgain,   \* last_state is REACTION: the entry action runs again
    rcvdMDSync, \* rcvdMDSync
    mdInfo,     \* content of the MDSyncSend that rcvdMDSyncPtr points to
    sndSeq,     \* syncSequenceId
    ntx,        \* transmissions so far
    sndTs,      \* rcvdMDTimestampReceive
    syncTs,     \* transmission that sync_ts was taken of
    sndTxts,    \* transmissions whose timestamp may still come
    sndLate,    \* gptpnet_txtslost_time has passed since txSync_time
    wire        \* frames on the link, the oldest first

sndVars == <<sndPc, sndOper, sndState, sndAgain, rcvdMDSync, mdInfo, sndSeq, ntx,
             sndTs, syncTs, sndTxts, sndLate>>

NoTx == [tx |-> 0, seq |-> 0, info |-> 0]

SndInit ==
    /\ sndPc = "idle" /\ sndOper = FALSE /\ sndState = "INITIALIZING" /\ sndAgain = FALSE
    /\ rcvdMDSync = FALSE /\ mdInfo = 0 /\ sndSeq = 1 /\ ntx = 0
    /\ sndTs = FALSE /\ syncTs = NoTx /\ sndTxts = {} /\ sndLate = FALSE

-----------------------------------------------------------------------------
(* Events                                                                  *)

\* md_sync_send_sm_mdSyncSend.  port_sync_sync_send_sm makes the structure
\* only when the port is capable, and fills the one that the machine already
\* points to.
RecvMDSyncSend ==
    /\ sndPc = "idle" /\ sndOper /\ mdInfo < MaxInfo
    /\ mdInfo' = mdInfo + 1 /\ rcvdMDSync' = TRUE /\ sndPc' = "start"
    /\ UNCHANGED <<sndOper, sndState, sndAgain, sndSeq, ntx, sndTs, syncTs, sndTxts,
                   sndLate, wire>>

\* md_sync_send_sm_txts.  The sequence number of the event is not looked at.
RecvSyncTxts ==
    /\ sndPc = "idle"
    /\ \E t \in sndTxts :
          /\ \A u \in sndTxts : t.tx <= u.tx
          /\ sndTxts' = sndTxts \ {t} /\ syncTs' = t
    /\ sndTs' = TRUE /\ sndPc' = "start"
    /\ UNCHANGED <<sndOper, sndState, sndAgain, rcvdMDSync, mdInfo, sndSeq, ntx, sndLate, wire>>

\* The timestamp of a transmission never comes.
LoseTxts ==
    /\ sndPc = "idle"
    /\ \E t \in sndTxts : sndTxts' = sndTxts \ {t}
    /\ UNCHANGED <<sndPc, sndOper, sndState, sndAgain, rcvdMDSync, mdInfo, sndSeq, ntx,
                   sndTs, syncTs, sndLate, wire>>

\* The call that gptpnet_cb_timeout makes.
SndTick ==
    /\ sndPc = "idle" /\ sndPc' = "start"
    /\ UNCHANGED <<sndOper, sndState, sndAgain, rcvdMDSync, mdInfo, sndSeq, ntx, sndTs,
                   syncTs, sndTxts, sndLate, wire>>

\* gptpnet_txtslost_time passes; only without LateTxts does time wait for the
\* timestamps that are to come.
SndElapse ==
    /\ sndPc = "idle" /\ sndState = "SEND_SYNC_TWO_STEP" /\ ~sndLate /\ sndLate' = TRUE
    /\ LateTxts \/ sndTxts = {}
    /\ UNCHANGED <<sndPc, sndOper, sndState, sndAgain, rcvdMDSync, mdInfo, sndSeq, ntx,
                   sndTs, syncTs, sndTxts, wire>>

SndDev ==
    /\ sndPc = "idle" /\ sndOper' = ~sndOper
    /\ UNCHANGED <<sndPc, sndState, sndAgain, rcvdMDSync, mdInfo, sndSeq, ntx, sndTs,
                   syncTs, sndTxts, sndLate, wire>>

-----------------------------------------------------------------------------
(* A run of the machine                                                    *)

\* Mutant: the flag of the transmit timestamp is not cleared.
SndInitializingKeepsTs ==
    /\ sndPc = "start" /\ ~sndOper
    /\ sndState' = "INITIALIZING" /\ sndAgain' = FALSE
    /\ rcvdMDSync' = FALSE
    /\ sndSeq' = IF sndState = "SEND_SYNC_TWO_STEP" THEN sndSeq + 1 ELSE sndSeq
    /\ sndPc' = "idle" /\ sndTxts' = IF LateTxts THEN sndTxts ELSE {}
    /\ UNCHANGED <<sndOper, mdInfo, ntx, sndTs, syncTs, sndLate, wire>>

\* allstate_condition and initializing_proc.  The random sequence number is a
\* number that no Sync has carried yet: that a recent one comes back is left out.
\* The code keeps what the driver still owes it; only LateTxts = FALSE drops it.
SndInitializing ==
    /\ sndPc = "start" /\ ~sndOper
    /\ sndState' = "INITIALIZING" /\ sndAgain' = FALSE
    /\ rcvdMDSync' = FALSE /\ sndTs' = FALSE
    /\ sndSeq' = IF sndState = "SEND_SYNC_TWO_STEP" THEN sndSeq + 1 ELSE sndSeq
    /\ sndPc' = "idle" /\ sndTxts' = IF LateTxts THEN sndTxts ELSE {}
    /\ UNCHANGED <<sndOper, mdInfo, ntx, syncTs, sndLate, wire>>

\* Mutant: a lost transmit timestamp does not lead to a new Sync.
SndNextPcNoResend ==
    CASE sndState = "INITIALIZING" /\ rcvdMDSync -> "sync"
      [] sndState = "SEND_SYNC_TWO_STEP" /\ sndAgain -> "sync"
      [] sndState = "SEND_SYNC_TWO_STEP" /\ ~sndAgain /\ sndTs -> "fup"
      [] sndState = "SEND_FOLLOW_UP" /\ sndAgain -> "fup"
      [] sndState = "SEND_FOLLOW_UP" /\ ~sndAgain /\ rcvdMDSync -> "sync"
      [] OTHER -> "idle"

\* What the conditions of the three states lead to.
SndNextPc ==
    CASE sndState = "INITIALIZING" /\ rcvdMDSync -> "sync"
      [] sndState = "SEND_SYNC_TWO_STEP" /\ sndAgain -> "sync"
      [] sndState = "SEND_SYNC_TWO_STEP" /\ ~sndAgain /\ sndTs -> "fup"
      [] sndState = "SEND_SYNC_TWO_STEP" /\ ~sndAgain /\ ~sndTs /\ sndLate -> "sync"
      [] sndState = "SEND_FOLLOW_UP" /\ sndAgain -> "fup"
      [] sndState = "SEND_FOLLOW_UP" /\ ~sndAgain /\ rcvdMDSync -> "sync"
      [] OTHER -> "idle"

SndCondition ==
    /\ sndPc = "start" /\ sndOper
    /\ sndPc' = SndNextPc
    /\ sndState' = CASE sndPc' = "sync" -> "SEND_SYNC_TWO_STEP"
                     [] sndPc' = "fup"  -> "SEND_FOLLOW_UP"
                     [] OTHER -> sndState
    /\ UNCHANGED <<sndOper, sndAgain, rcvdMDSync, mdInfo, sndSeq, ntx, sndTs, syncTs,
                   sndTxts, sndLate, wire>>

\* The driver takes the frame; a full link drops it.
Transmit(f) == wire' = IF Len(wire) < MaxWire THEN Append(wire, f) ELSE wire

\* send_sync_two_step_proc.  A failure is tried again in the next run.
EnterSendSync ==
    /\ sndPc = "sync" /\ sndPc' = "idle"
    /\ rcvdMDSync' = FALSE
    /\ \/ /\ ntx < MaxSync /\ ntx' = ntx + 1
          /\ Transmit([kind |-> "sync", seq |-> sndSeq, tx |-> ntx', two |-> TRUE])
          /\ sndTxts' = sndTxts \cup {[tx |-> ntx', seq |-> sndSeq, info |-> mdInfo]}
          /\ sndLate' = FALSE /\ sndAgain' = FALSE
       \/ sndAgain' = TRUE /\ UNCHANGED <<ntx, wire, sndTxts, sndLate>>
    /\ UNCHANGED <<sndOper, sndState, mdInfo, sndSeq, sndTs, syncTs>>

\* send_follow_up_proc, setFollowUp_txFollowUp
EnterSendFup ==
    /\ sndPc = "fup" /\ sndPc' = "idle"
    /\ sndTs' = FALSE
    /\ \/ /\ Transmit([kind |-> "fup", seq |-> sndSeq, ts |-> syncTs, info |-> mdInfo])
          /\ sndSeq' = sndSeq + 1 /\ sndAgain' = FALSE
       \/ sndAgain' = TRUE /\ UNCHANGED <<sndSeq, wire>>
    /\ UNCHANGED <<sndOper, sndState, rcvdMDSync, mdInfo, ntx, syncTs, sndTxts, sndLate>>

SndStep == SndInitializing \/ SndCondition \/ EnterSendSync \/ EnterSendFup

SndNext ==
    \/ RecvMDSyncSend \/ RecvSyncTxts \/ LoseTxts \/ SndTick \/ SndElapse \/ SndDev
    \/ SndStep
=============================================================================
