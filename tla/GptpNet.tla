------------------------------ MODULE GptpNet ------------------------------
(***************************************************************************)
(* tilld/lld_gptpnet.c: the event loop between the Ethernet driver and the *)
(* gPTP machines, and the ring of transmit timestamp requests.             *)
(*                                                                         *)
(* Four parties take steps: the event loop, which makes every callback and *)
(* from whose callbacks every message is sent; the driver, which completes *)
(* transmissions and receives frames; the status frame task, which exists  *)
(* when the PHY takes the timestamps; and the clock.                       *)
(*                                                                         *)
(* Frames are abstracted to the number of the event message (msgtype < 8)  *)
(* in the order of sending, and received frames to what becomes of them:   *)
(* "ptp", or "skip" (too short, no 1588 frame, no receive timestamp,       *)
(* unknown port, or cb_lld_recv returned 0xFFFF).  Left out: a wait on the *)
(* semaphore that fails for another reason than its timeout, and the stop  *)
(* of the loop.                                                            *)
(***************************************************************************)
EXTENDS Naturals, Sequences, FiniteSets

CONSTANTS
    MaxTxtsInfo,    \* MAX_TXTS_INFO, slots of the ring
    MaxSend,        \* bound: event messages sent in a behaviour
    MaxRx,          \* bound: frames waiting in the receive queue
    MaxSem,         \* bound: posts waiting in a semaphore
    Sources         \* possible timestamp sources, of "CPTS" and "PHY"

ASSUME GptpNetAssumption ==
    /\ MaxTxtsInfo \in Nat \ {0}
    /\ MaxSend \in Nat /\ MaxRx \in Nat /\ MaxSem \in Nat
    /\ Sources \subseteq {"CPTS", "PHY"}

VARIABLES
    tsSource,   \* gpnet->tsSource, read once by gptpnet_init
    slots,      \* txts_queue.txts_info: the request in a used slot, or 0
    rdi, wri,   \* its indices
    pc,         \* "notice", "link", "tout", "wait", "txts", "rx", "cb" or "failed"
    event,      \* the event of the callback in progress, or "NONE"
    lastTs,     \* message of the last timestamp event, or 0
    tout,       \* next_tout64: "none" (0), "set", or "passed"
    up,         \* nlstatus.up of the device
    sem,        \* posts of gpnet->semaphore
    statSem,    \* posts of gpnet->statPktSem
    rxq,        \* frames that wait in the driver
    status,     \* status frames that wait there, each with its message
    nsent,      \* event messages sent so far
    dma,        \* messages whose transmission has not been completed
    air,        \* event messages on their way to their timestamp
    stamped     \* event messages whose timestamp the driver holds

ring == <<slots, rdi, wri>>
loop == <<pc, event, lastTs, tout, up>>
hw   == <<rxq, status, dma, air, stamped>>
gnVars == <<tsSource, ring, loop, sem, statSem, hw, nsent>>

Slot == 0 .. MaxTxtsInfo - 1

GnInit ==
    /\ tsSource \in Sources
    /\ slots = [i \in Slot |-> 0] /\ rdi = 0 /\ wri = 0
    /\ pc = "notice" /\ event = "NONE" /\ lastTs = 0
    /\ tout = "none" /\ up = FALSE
    /\ sem = 0 /\ statSem = 0 /\ rxq = <<>> /\ status = {}
    /\ nsent = 0 /\ dma = 0 /\ air = {} /\ stamped = {}

-----------------------------------------------------------------------------
(* The ring of transmit timestamp requests                                 *)

\* Mutant: the used flag of the slot is not looked at.
push_txts_info_overwrites(m) ==
    /\ slots' = [slots EXCEPT ![wri] = m]
    /\ wri' = (wri + 1) % MaxTxtsInfo
    /\ rdi' = rdi

\* A refused request leaves no trace: the message goes out without one.
push_txts_info(m) ==
    /\ IF slots[wri] = 0
       THEN slots' = [slots EXCEPT ![wri] = m] /\ wri' = (wri + 1) % MaxTxtsInfo
       ELSE UNCHANGED <<slots, wri>>
    /\ rdi' = rdi

\* Succeeds when there is a request; the callers deal with an empty ring.
pop_txts_info ==
    /\ slots[rdi] # 0
    /\ slots' = [slots EXCEPT ![rdi] = 0]
    /\ rdi' = (rdi + 1) % MaxTxtsInfo
    /\ wri' = wri

-----------------------------------------------------------------------------
(* The event loop                                                          *)

\* A call of cb_func
Callback(e) == pc' = "cb" /\ event' = e

GoTo(p) == pc' = p /\ event' = event

\* Where the loop goes on after a callback
Resume ==
    CASE event = "TX_MSG_INTERVAL_REQ" -> "link"
      [] event \in {"DEVUP", "DEVDOWN"} -> "tout"
      [] event = "TIMEOUT" -> "notice"
      [] event = "TXTS" -> "txts"
      [] event = "RECV" -> "rx"

\* gptpnet_notice_check, when supportRtNotice is set
NoticeCheck ==
    /\ pc = "notice"
    /\ GoTo("link") \/ Callback("TX_MSG_INTERVAL_REQ")
    /\ UNCHANGED <<tsSource, ring, lastTs, tout, up, sem, statSem, hw, nsent>>

\* gptpnet_link_check: at most one notice is taken, and only a change is told.
LinkCheck ==
    /\ pc = "link"
    /\ \/ GoTo("tout") /\ up' = up
       \/ Callback(IF up THEN "DEVDOWN" ELSE "DEVUP") /\ up' = ~up
    /\ UNCHANGED <<tsSource, ring, lastTs, tout, sem, statSem, hw, nsent>>

\* Mutant: an interval that has passed is not looked at before the wait.
ToutCheckKept ==
    /\ pc = "tout"
    /\ GoTo("wait") /\ tout' = IF tout = "none" THEN "set" ELSE tout
    /\ UNCHANGED <<tsSource, ring, lastTs, up, sem, statSem, hw, nsent>>

\* The part of gptpnet_catch_event that looks at next_tout64.
ToutCheck ==
    /\ pc = "tout"
    /\ IF tout = "passed"
       THEN Callback("TIMEOUT") /\ tout' = "none"
       ELSE GoTo("wait") /\ tout' = "set"
    /\ UNCHANGED <<tsSource, ring, lastTs, up, sem, statSem, hw, nsent>>

\* CB_SEM_TIMEDWAIT returns with a post or, when there is none, at next_tout64.
Wait ==
    /\ pc = "wait"
    /\ IF sem > 0
       THEN sem' = sem - 1 /\ GoTo("txts") /\ tout' = tout
       ELSE /\ tout = "passed"
            /\ Callback("TIMEOUT") /\ tout' = "none" /\ sem' = sem
    /\ UNCHANGED <<tsSource, ring, lastTs, up, statSem, hw, nsent>>

\* LLDTSyncGetTxTime.  The CPTS variant returns LLDENET_E_OK whether or not
\* the driver had the timestamp; the caller then reads an unset variable.
GetTxTimeOk(m) == tsSource = "CPTS" \/ m \in stamped

\* Mutant: the event names the message that was sent last.
ProcessTxtsOfTxbuf ==
    /\ pc = "txts"
    /\ IF slots[rdi] = 0
       THEN GoTo("rx") /\ UNCHANGED <<ring, stamped, lastTs>>
       ELSE LET m == slots[rdi]
            IN  /\ pop_txts_info
                /\ stamped' = stamped \ {m}
                /\ IF GetTxTimeOk(m)
                   THEN Callback("TXTS") /\ lastTs' = nsent
                   ELSE GoTo("txts") /\ lastTs' = lastTs
    /\ UNCHANGED <<tsSource, tout, up, sem, statSem, rxq, status, dma, air,
                   nsent>>

\* One turn of process_txts, with provide_txts.
ProcessTxts ==
    /\ pc = "txts"
    /\ IF slots[rdi] = 0
       THEN GoTo("rx") /\ UNCHANGED <<ring, stamped, lastTs>>
       ELSE LET m == slots[rdi]
            IN  /\ pop_txts_info
                /\ stamped' = stamped \ {m}
                /\ IF GetTxTimeOk(m)
                   THEN Callback("TXTS") /\ lastTs' = m
                   ELSE GoTo("txts") /\ lastTs' = lastTs
    /\ UNCHANGED <<tsSource, tout, up, sem, statSem, rxq, status, dma, air,
                   nsent>>

\* One turn of process_rxdata, with provide_rxframe
ProcessRx ==
    /\ pc = "rx" /\ rxq # <<>> /\ rxq' = Tail(rxq)
    /\ IF Head(rxq) = "ptp" THEN Callback("RECV") ELSE GoTo("rx")
    /\ UNCHANGED <<tsSource, ring, lastTs, tout, up, sem, statSem, status, dma, air,
                   stamped, nsent>>

\* The end of process_rxdata and of gptpnet_catch_event
RxDone ==
    /\ pc = "rx" /\ rxq = <<>> /\ GoTo("notice")
    /\ UNCHANGED <<tsSource, ring, lastTs, tout, up, sem, statSem, hw, nsent>>

CallbackReturns ==
    /\ pc = "cb" /\ pc' = Resume /\ event' = "NONE"
    /\ UNCHANGED <<tsSource, ring, lastTs, tout, up, sem, statSem, hw, nsent>>

-----------------------------------------------------------------------------
(* gptpnet_send, called from a callback                                    *)

\* An event message asks for its timestamp, then it is handed to the driver.
SendEvent ==
    /\ pc = "cb" /\ nsent < MaxSend
    /\ nsent' = nsent + 1
    /\ push_txts_info(nsent')
    /\ \/ /\ dma' = dma + 1 /\ air' = air \cup {nsent'}
          /\ UNCHANGED loop
       \/ /\ pc' = "failed"
          /\ UNCHANGED <<event, lastTs, tout, up, dma, air>>
    /\ UNCHANGED <<tsSource, sem, statSem, rxq, status, stamped>>

\* A general message has no timestamp.
SendGeneral ==
    /\ pc = "cb" /\ dma < MaxSem
    /\ \/ dma' = dma + 1 /\ UNCHANGED loop
       \/ dma' = dma /\ pc' = "failed" /\ UNCHANGED <<event, lastTs, tout, up>>
    /\ UNCHANGED <<tsSource, ring, sem, statSem, rxq, status, air, stamped,
                   nsent>>

\* The end of gptpnet_send when the driver refused the message: the oldest
\* request is taken out, whichever message failed.
SendFailed ==
    /\ pc = "failed" /\ GoTo("cb")
    /\ IF slots[rdi] = 0 THEN UNCHANGED ring ELSE pop_txts_info
    /\ UNCHANGED <<tsSource, lastTs, tout, up, sem, statSem, hw, nsent>>

-----------------------------------------------------------------------------
(* The driver, the status frame task and the clock                         *)

txrx_notify_cb ==
    IF tsSource = "CPTS"
    THEN sem' = sem + 1 /\ statSem' = statSem
    ELSE statSem' = statSem + 1 /\ sem' = sem

\* A frame arrives.
Receive ==
    /\ Len(rxq) < MaxRx /\ sem < MaxSem /\ statSem < MaxSem
    /\ \E k \in {"ptp", "skip"} : rxq' = Append(rxq, k)
    /\ txrx_notify_cb
    /\ UNCHANGED <<tsSource, ring, loop, status, dma, air, stamped, nsent>>

\* Mutant: no callback for completed transmissions.
TxDoneSilent ==
    /\ dma > 0 /\ sem < MaxSem
    /\ dma' = dma - 1
    /\ UNCHANGED <<tsSource, ring, loop, sem, statSem, rxq, status, air, stamped, nsent>>

\* A transmission is completed.  With PHY timestamps no callback is registered.
TxDone ==
    /\ dma > 0 /\ sem < MaxSem
    /\ dma' = dma - 1
    /\ IF tsSource = "CPTS" THEN txrx_notify_cb ELSE UNCHANGED <<sem, statSem>>
    /\ UNCHANGED <<tsSource, ring, loop, rxq, status, air, stamped, nsent>>

\* The timestamp of a message is taken: CPTS keeps it, a PHY sends it to the
\* host in a status frame.
Stamp ==
    /\ \E m \in air :
          /\ air' = air \ {m}
          /\ IF tsSource = "CPTS"
             THEN stamped' = stamped \cup {m} /\ UNCHANGED <<status, sem, statSem>>
             ELSE /\ statSem < MaxSem /\ status' = status \cup {m}
                  /\ txrx_notify_cb /\ stamped' = stamped
    /\ UNCHANGED <<tsSource, ring, loop, rxq, dma, nsent>>

\* LLDEnet_processStatusFrames: the status frames are handed to the PHY driver,
\* the other frames go back into the receive queue.
processStatusFrames == stamped' = stamped \cup status /\ status' = {} /\ rxq' = rxq

\* gptpnet_statusFrameProcTask
StatusTask ==
    /\ statSem > 0 /\ statSem' = statSem - 1
    /\ processStatusFrames
    /\ IF status # {} THEN sem < MaxSem /\ sem' = sem + 1 ELSE sem' = sem
    /\ UNCHANGED <<tsSource, ring, loop, dma, air, nsent>>

\* next_tout64 is reached.
Elapse ==
    /\ tout = "set" /\ tout' = "passed"
    /\ UNCHANGED <<tsSource, ring, pc, event, lastTs, up, sem, statSem, hw, nsent>>

-----------------------------------------------------------------------------
LoopStep ==
    \/ NoticeCheck \/ LinkCheck \/ ToutCheck \/ Wait \/ ProcessTxts \/ ProcessRx
    \/ SendFailed \/ RxDone

GnNext ==
    \/ LoopStep \/ CallbackReturns \/ SendEvent \/ SendGeneral
    \/ Receive \/ TxDone \/ Stamp \/ StatusTask \/ Elapse

GnSpec == GnInit /\ [][GnNext]_gnVars

-----------------------------------------------------------------------------
(* Properties                                                              *)

Requests == {slots[i] : i \in Slot} \ {0}

\* Type invariant.
GnTypeOK ==
    /\ tsSource \in Sources /\ slots \in [Slot -> 0 .. MaxSend] /\ rdi \in Slot /\ wri \in Slot
    /\ pc \in {"notice", "link", "tout", "wait", "txts", "rx", "cb", "failed"}
    /\ event \in {"NONE", "TX_MSG_INTERVAL_REQ", "DEVUP", "DEVDOWN", "TIMEOUT", "TXTS", "RECV"}
    /\ event = "NONE" <=> pc \notin {"cb", "failed"}
    /\ tout \in {"none", "set", "passed"} /\ up \in BOOLEAN
    /\ sem \in Nat /\ statSem \in Nat /\ rxq \in Seq({"ptp", "skip"})
    /\ nsent \in 0 .. MaxSend /\ dma \in Nat
    /\ status \subseteq 1 .. MaxSend /\ air \subseteq 1 .. MaxSend
    /\ stamped \subseteq 1 .. MaxSend

\* The requests in the ring, the oldest first
Used == IF wri > rdi THEN wri - rdi
        ELSE IF wri < rdi THEN MaxTxtsInfo - rdi + wri
        ELSE IF slots[rdi] = 0 THEN 0 ELSE MaxTxtsInfo

RingQueue == [i \in 1 .. Used |-> slots[(rdi + i - 1) % MaxTxtsInfo]]

Fifo == INSTANCE BoundedFifo WITH
            Entry <- 1 .. MaxSend, Capacity <- MaxTxtsInfo, queue <- RingQueue

\* push_txts_info and pop_txts_info, with one flag per slot and two indices
\* that are equal for the empty and for the full ring, are a FIFO queue of
\* MAX_TXTS_INFO requests: none is lost, doubled or overtaken.
RingIsFifo == Fifo!FifoSpec

\* With CPTS timestamps no wake-up is lost: the loop never sleeps on an empty
\* semaphore while a received frame waits for process_rxdata, or while a request
\* is queued and every transmission is complete.  With PHY timestamps this holds
\* of the timestamps only: the two semaphores pass a status frame on, from the
\* driver to the task and from the task to the loop.  Received frames are
\* exempt there: txrx_notify_cb posts statPktSem for them, the task finds no
\* status frame, and the loop sleeps, TIMEOUT events aside, until the next one.
WakeNotLost ==
    pc = "wait" /\ sem = 0 =>
        /\ tsSource = "CPTS" => rxq = <<>> /\ (dma = 0 => Requests = {})
        /\ tsSource = "PHY" => /\ status # {} => statSem > 0
                               /\ Requests \cap stamped = {}

\* Timestamp events come in the order in which the messages were sent, and
\* at most one for each: the machines match them by sequence number only.
TxtsInOrder ==
    [][event # "TXTS" /\ event' = "TXTS" => lastTs' > lastTs]_gnVars

\* However busy the loop is with frames and timestamps, the timeout event of
\* an interval that has passed is delivered, unless process_rxdata, which has
\* no bound, is kept running by frames that arrive at every turn.
TimeoutServed ==
    []<>(pc # "rx" /\ event # "RECV") => ((tout = "passed") ~> (event = "TIMEOUT"))

-----------------------------------------------------------------------------
\* The loop, the status frame task, the driver and the clock go on.  A
\* callback sends a bounded number of messages and returns.
GnFairSpec ==
    /\ GnSpec
    /\ WF_gnVars(LoopStep) /\ SF_gnVars(CallbackReturns)
    /\ WF_gnVars(StatusTask) /\ WF_gnVars(TxDone) /\ WF_gnVars(Elapse)
=============================================================================
