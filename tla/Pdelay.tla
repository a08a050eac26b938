------------------------------- MODULE Pdelay -------------------------------
(***************************************************************************)
(* A requester and a responder at the two ends of a link that loses        *)
(* frames.  The handlers of one system run to completion in one thread,    *)
(* and the two systems share nothing but the frames, so at most one        *)
(* handler runs at a time here.                                            *)
(***************************************************************************)
EXTENDS PdelayReq, PdelayResp, Sequences

CONSTANT MaxWire    \* frames in flight in one direction

VARIABLES
    toRsp,      \* Pdelay_Req in flight: sequence numbers
    toReq       \* Pdelay_Resp and Pdelay_Resp_Follow_Up in flight

wires == <<toRsp, toReq>>
vars  == <<wires, reqVars, rspVars>>

\* Each frame sent is carried or lost; a full wire loses it.
Carried(wire, frames) ==
    {wire} \cup (IF Len(wire) < MaxWire THEN {Append(wire, f) : f \in frames} ELSE {})

\* The frames that may arrive next.  A Follow_Up needs no receive timestamp,
\* and a driver may hand it up before the Pdelay_Resp in front of it.
Arriving(wire) ==
    {i \in 1..Len(wire) :
        i = 1 \/ (i = 2 /\ wire[1].kind = "resp" /\ wire[2].kind = "fup")}

-----------------------------------------------------------------------------

\* The requester handles an event of its own, or a frame from the wire.
ReqReceives ==
    \E i \in Arriving(toReq) :
       /\ \/ toReq[i].kind = "resp" /\ RecvResp(toReq[i].seq, TRUE)
          \/ toReq[i].kind = "fup" /\ RecvFup(toReq[i].seq)
       /\ toReq' = [j \in 1..(Len(toReq) - 1) |-> toReq[IF j < i THEN j ELSE j + 1]]
       /\ UNCHANGED <<toRsp, rspVars>>

ReqLocal ==
    /\ RecvTxts \/ ReqTick \/ Elapse \/ SetOper \/ DevDown \/ SetInterval
    /\ UNCHANGED <<wires, rspVars>>

ReqRunsOn ==
    /\ ReqStep
    /\ toRsp' \in Carried(toRsp, ReqSends)
    /\ UNCHANGED <<toReq, rspVars>>

RspReceives ==
    /\ toRsp # <<>> /\ RecvReq(Head(toRsp))
    /\ toRsp' = Tail(toRsp)
    /\ UNCHANGED <<toReq, reqVars>>

RspLocal ==
    /\ RecvRspTxts \/ RspTick \/ RspElapse \/ RspDev
    /\ UNCHANGED <<wires, reqVars>>

RspRunsOn ==
    /\ RspStep
    /\ toReq' \in Carried(toReq, RspSends)
    /\ UNCHANGED <<toRsp, reqVars>>

Init == ReqInit /\ RspInit /\ toRsp = <<>> /\ toReq = <<>>

Next ==
    \/ rspPc = "idle" /\ (ReqReceives \/ ReqLocal \/ ReqRunsOn)
    \/ reqPc = "idle" /\ (RspReceives \/ RspLocal \/ RspRunsOn)

Spec == Init /\ [][Next]_vars

=============================================================================
