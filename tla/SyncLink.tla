------------------------------ MODULE SyncLink ------------------------------
(***************************************************************************)
(* The two ends of a link over which the time is distributed: a master     *)
(* port (MdSyncSend) and a slave port (MdSyncReceive).  Frames may be lost *)
(* on the way, and a Follow_Up may be handed up before the Sync in front   *)
(* of it, whose receive timestamp the driver still waits for.              *)
(***************************************************************************)
EXTENDS MdSyncSend, MdSyncReceive

vars == <<sndVars, rcvVars, wire>>

Init == SndInit /\ RcvInit /\ wire = <<>>

RemoveFrame(i) == SubSeq(wire, 1, i - 1) \o SubSeq(wire, i + 1, Len(wire))

\* The frame may be taken from place i of the link.
Arrives(i) == i = 1 \/ (i = 2 /\ wire[2].kind = "fup" /\ wire[1].kind = "sync")

Deliver ==
    /\ \E i \in DOMAIN wire : Arrives(i) /\ RecvFrame(wire[i]) /\ wire' = RemoveFrame(i)
    /\ UNCHANGED sndVars

Lose ==
    /\ \E i \in DOMAIN wire : wire' = RemoveFrame(i)
    /\ UNCHANGED <<sndVars, rcvVars>>

\* A one-step Sync of another sender on the link.
OneStepSync ==
    /\ RecvFrame([kind |-> "sync", seq |-> sndSeq, tx |-> 0, two |-> FALSE])
    /\ UNCHANGED <<sndVars, wire>>

Next ==
    \/ SndNext /\ UNCHANGED rcvVars
    \/ RcvNext /\ UNCHANGED <<sndVars, wire>>
    \/ Deliver \/ Lose \/ OneStepSync

Spec == Init /\ [][Next]_vars

\* The machines run to their end and are called every timeout interval, time
\* passes, and the driver does not refuse every transmission forever.  A
\* timestamp that is not lost comes: with LateTxts = FALSE before it is given up.
FairSpec ==
    /\ Spec
    /\ WF_vars(SndStep /\ UNCHANGED rcvVars) /\ WF_vars(RcvStep /\ UNCHANGED <<sndVars, wire>>)
    /\ SF_vars(SndTick /\ UNCHANGED rcvVars) /\ SF_vars(RcvTick /\ UNCHANGED <<sndVars, wire>>)
    /\ SF_vars(SndElapse /\ UNCHANGED rcvVars) /\ SF_vars(RcvElapse /\ UNCHANGED <<sndVars, wire>>)
    /\ SF_vars(EnterSendSync /\ ~sndAgain' /\ UNCHANGED rcvVars)
    /\ SF_vars(RecvSyncTxts /\ UNCHANGED rcvVars)

-----------------------------------------------------------------------------
(* Properties                                                              *)

Seqs  == 0 .. MaxInfo + 1
Tx    == [tx : 0 .. MaxSync, seq : Seqs, info : 0 .. MaxInfo]
Sync  == [kind : {"sync"}, seq : Seqs, tx : 0 .. MaxSync, two : BOOLEAN]
Fup   == [kind : {"fup"}, seq : Seqs, ts : Tx, info : 0 .. MaxInfo]

\* Type invariant.
TypeOK ==
    /\ sndPc \in {"idle", "start", "sync", "fup"} /\ sndOper \in BOOLEAN
    /\ sndState \in {"INITIALIZING", "SEND_SYNC_TWO_STEP", "SEND_FOLLOW_UP"}
    /\ sndAgain \in BOOLEAN /\ rcvdMDSync \in BOOLEAN /\ mdInfo \in 0 .. MaxInfo
    /\ sndSeq \in Seqs /\ ntx \in 0 .. MaxSync /\ sndTs \in BOOLEAN /\ syncTs \in Tx
    /\ sndTxts \subseteq Tx /\ sndLate \in BOOLEAN
    /\ wire \in Seq(Sync \cup Fup) /\ Len(wire) <= MaxWire
    /\ rcvPc \in {"idle", "start", "discard", "waitFup", "measure"} /\ rcvOper \in BOOLEAN
    /\ rcvState \in {"DISCARD", "WAITING_FOR_FOLLOW_UP", "WAITING_FOR_SYNC"}
    /\ rcvdSync \in BOOLEAN /\ recSync \in Sync /\ rcvdFup \in BOOLEAN /\ recFup \in Fup
    /\ fupLate \in BOOLEAN /\ measured \in [sync : Sync, fup : Fup]

\* A Follow_Up carries the egress timestamp of a Sync with its own number.
\* The machine sends it as soon as rcvdMDTimestampReceive is set, and nothing
\* ties that flag to the Sync that is waiting.
FupIsOfItsSync ==
    /\ \A i \in DOMAIN wire : wire[i].kind = "fup" => wire[i].ts.seq = wire[i].seq
    /\ rcvdFup => recFup.ts.seq = recFup.seq

\* The ingress and the egress timestamp of a measurement are of one
\* transmission.  Only if the Sync was sent again, because its timestamp did
\* not come, may the egress timestamp be of a later copy that was lost.
MeasuresOneSync ==
    measured.sync.two =>
        \/ measured.fup.ts.tx = measured.sync.tx
        \/ measured.fup.ts.tx > measured.sync.tx /\ measured.fup.ts.seq = measured.sync.seq

\* Neither machine waits for ever.  A Sync whose timestamp is lost is sent
\* again, until a timestamp comes, the port is down, or the bound on
\* transmissions is met; the receiver gives up a Follow_Up that was lost.
WaitsEnd ==
    /\ sndState = "SEND_SYNC_TWO_STEP" ~> (sndState # "SEND_SYNC_TWO_STEP" \/ ntx = MaxSync)
    /\ rcvState = "WAITING_FOR_FOLLOW_UP" ~>
           (rcvState # "WAITING_FOR_FOLLOW_UP" \/ rcvPc = "waitFup")
=============================================================================
