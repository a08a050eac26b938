---------------------------- MODULE NconfServer ----------------------------
(***************************************************************************)
(* The NETCONF server on FreeRTOS: nconf_transmngr.c and nconf_tlscon.c,   *)
(* whose callbacks run in the TCP/IP thread with its core lock held, and   *)
(* nconf_msghdlr.c, the thread that answers the requests.  Between them    *)
(* are the message queue and the table of connection handles, which both   *)
(* threads change without a lock.                                          *)
(*                                                                         *)
(* Connections are named by their session number.  Request k of a client   *)
(* travels as the parts 2k-1 and 2k, the second of which ends with the end *)
(* marker; a segment carries some parts, and a read buffer holds the parts *)
(* lo to hi of a session.  What a request asks for is chosen when it is    *)
(* decoded.  Left out: the content of requests and replies (a reply is one *)
(* transmission), failing allocations, the set-up and the shutdown.        *)
(***************************************************************************)
EXTENDS Naturals, Sequences, FiniteSets, SequencesExt

CONSTANTS
    MaxClients, \* NCONF_TLS_MAX_CLIENTS: entries of the table, and handles
    QueueLen,   \* NCONF_MSGQ_DEFAULT_QUEUE_NUM
    MaxDecode,  \* NCONF_MAX_MESSAGE_DECODE
    MaxSess,    \* bound: connections in a behaviour
    MaxReq,     \* bound: requests of a connection
    MaxSeg,     \* bound: parts of a segment
    Kinds       \* requests that occur

ASSUME NconfAssumption ==
    /\ {MaxClients, QueueLen, MaxDecode, MaxSeg} \subseteq Nat \ {0}
    /\ {MaxSess, MaxReq} \subseteq Nat
    /\ Kinds \subseteq {"get", "edit", "silent", "refused", "close", "kill", "unknown"}

VARIABLES
    sessidctr,  \* ncsrv_priv.sessidctr
    conn,       \* of a session: its TCP connection, the argument of its callbacks,
                \* and the parts that the client has sent
    table,      \* g_mngr_priv.conhdl: the handle of an entry, or 0
    hdl,        \* the nconf_tlscon_hdl structures
    pool,       \* handles that UB_SD_GETMEM may return
    queue,      \* the message queue
    net,        \* the TCP/IP thread: what it does, or is about to do
    srv,        \* the message handler: likewise
    heap,       \* read buffers that are allocated
    twice,      \* a buffer or a connection was released a second time
    leaked,     \* buffers that nobody will release
    done        \* of a session: the last of its requests that was served

vars == <<sessidctr, conn, table, hdl, pool, queue, net, srv, heap, twice, leaked, done>>

Sess   == 1 .. MaxSess
Handle == 1 .. MaxClients
NoBuf  == [sess |-> 0, lo |-> 1, hi |-> 0]
Idle   == [pc |-> "idle", h |-> 0, n |-> 0, buf |-> NoBuf, pcb |-> 0]
NoMsg  == [type |-> "none", h |-> 0, sess |-> 0, buf |-> NoBuf]

Init ==
    /\ sessidctr = 0
    /\ conn = [s \in Sess |-> [st |-> "none", h |-> 0, sent |-> 0]]
    /\ table = [i \in Handle |-> 0]
    /\ hdl = [h \in Handle |-> [sess |-> 0, pcb |-> 0, rbuf |-> NoBuf, newconn |-> FALSE]]
    /\ pool = Handle /\ queue = <<>>
    /\ net = Idle
    /\ srv = [pc |-> "idle", msg |-> NoMsg, at |-> 0, kind |-> "none", bye |-> FALSE,
              h |-> 0, i |-> 0, pcb |-> 0, then |-> "none"]
    /\ heap = {} /\ twice = FALSE /\ leaked = {}
    /\ done = [s \in Sess |-> 0]

-----------------------------------------------------------------------------
(* The connection table                                                    *)

\* NCONF_TLSCON_HANDLE_CHECK
Valid(h) == h # 0 /\ \E i \in Handle : table[i] = h

\* A read buffer is named by its session and its first part.
Id(b) == <<b.sess, b.lo>>
IsBuf(b) == b.sess # 0

\* nconf_tlscon_release_readbuf
Release(b) ==
    IF IsBuf(b)
    THEN heap' = heap \ {Id(b)} /\ twice' = (twice \/ Id(b) \notin heap)
    ELSE UNCHANGED <<heap, twice>>

-----------------------------------------------------------------------------
(* The TCP/IP thread.  Its core lock is held while net.pc is not "idle".   *)

\* nconf_transport_accept_tls_connection, nconf_tlscon_conhdl_new
Accept ==
    /\ net.pc = "idle" /\ sessidctr < MaxSess
    /\ sessidctr' = sessidctr + 1
    /\ IF (\E i \in Handle : table[i] = 0) /\ pool # {}
       THEN \E i \in Handle, h \in pool :
               /\ table[i] = 0 /\ \A j \in 1 .. i - 1 : table[j] # 0
               /\ table' = [table EXCEPT ![i] = h] /\ pool' = pool \ {h}
               /\ hdl' = [hdl EXCEPT ![h] = [sess |-> sessidctr', pcb |-> sessidctr',
                                             rbuf |-> NoBuf, newconn |-> TRUE]]
               /\ conn' = [conn EXCEPT ![sessidctr'] = [st |-> "open", h |-> h, sent |-> 0]]
       ELSE UNCHANGED <<table, pool, hdl, conn>>
    /\ UNCHANGED <<queue, net, srv, heap, twice, leaked, done>>

\* lwIP calls the receive callback with a segment, or with none when the
\* client has closed the connection, and the error callback.
Callback ==
    /\ net.pc = "idle"
    /\ \E s \in Sess :
          /\ conn[s].st = "open"
          /\ \/ \E n \in 1 .. MaxSeg :
                   /\ conn[s].sent + n <= 2 * MaxReq
                   /\ net' = [Idle EXCEPT !.pc = "connect", !.h = conn[s].h, !.n = n]
                   /\ conn' = [conn EXCEPT ![s].sent = @ + n]
             \/ \E p \in {"connect", "check"} :
                   /\ net' = [Idle EXCEPT !.pc = p, !.h = conn[s].h]
                   /\ conn' = conn
    /\ UNCHANGED <<sessidctr, table, hdl, pool, queue, srv, heap, twice, leaked, done>>

\* nconf_msgq_send waits while the queue is full.
Enqueue(m) == Len(queue) < QueueLen /\ queue' = Append(queue, m)

\* nconf_transport_process_tls_client_msg up to the call of nconf_tlscon_recv_msg
NetConnect ==
    /\ net.pc = "connect"
    /\ net' = [net EXCEPT !.pc = IF net.n > 0 THEN "data" ELSE "check"]
    /\ IF Valid(net.h) /\ hdl[net.h].newconn
       THEN /\ Enqueue([type |-> "connect", h |-> net.h, sess |-> hdl[net.h].sess, buf |-> NoBuf])
            /\ hdl' = [hdl EXCEPT ![net.h].newconn = FALSE]
       ELSE UNCHANGED <<queue, hdl>>
    /\ UNCHANGED <<sessidctr, conn, table, pool, srv, heap, twice, leaked, done>>

\* A buffer of r with the n parts that the client sent last
Grown(r, s, n) ==
    [sess |-> s, lo |-> IF IsBuf(r) THEN r.lo ELSE conn[s].sent - n + 1, hi |-> conn[s].sent]

\* nconf_transport_is_message_complete: an end marker is somewhere in it.
IsComplete(b) == \E p \in b.lo .. b.hi : p % 2 = 0

\* nconf_tlscon_recv_msg
NetData ==
    /\ net.pc = "data"
    /\ IF Valid(net.h)
       THEN LET b == Grown(hdl[net.h].rbuf, hdl[net.h].sess, net.n)
            IN  /\ hdl' = [hdl EXCEPT ![net.h].rbuf = b]
                /\ heap' = heap \cup {Id(b)}
                /\ net' = IF IsComplete(b) THEN [net EXCEPT !.pc = "unlink", !.buf = b] ELSE Idle
       ELSE net' = Idle /\ UNCHANGED <<hdl, heap>>
    /\ UNCHANGED <<sessidctr, conn, table, pool, queue, srv, twice, leaked, done>>

\* Mutant: the buffer stays with the connection.
NetUnlinkNot ==
    /\ net.pc = "unlink" /\ net' = [net EXCEPT !.pc = "enqueue"]
    /\ hdl' = hdl
    /\ UNCHANGED <<sessidctr, conn, table, pool, queue, srv, heap, twice, leaked, done>>

\* nconf_tlscon_unlink_readbuf, whose result is not looked at
NetUnlink ==
    /\ net.pc = "unlink" /\ net' = [net EXCEPT !.pc = "enqueue"]
    /\ hdl' = IF Valid(net.h) THEN [hdl EXCEPT ![net.h].rbuf = NoBuf] ELSE hdl
    /\ UNCHANGED <<sessidctr, conn, table, pool, queue, srv, heap, twice, leaked, done>>

NetEnqueue ==
    /\ net.pc = "enqueue" /\ net' = Idle
    /\ Enqueue([type |-> "message", h |-> net.h, sess |-> net.buf.sess, buf |-> net.buf])
    /\ UNCHANGED <<sessidctr, conn, table, hdl, pool, srv, heap, twice, leaked, done>>

\* nconf_tlscon_disconnect_client in the TCP/IP thread: the entry is searched
\* and cleared, then the connection and the handle are given back.
NetCheck ==
    /\ net.pc = "check"
    /\ IF Valid(net.h)
       THEN /\ table' = [i \in Handle |-> IF table[i] = net.h THEN 0 ELSE table[i]]
            /\ net' = [net EXCEPT !.pc = "free", !.pcb = hdl[net.h].pcb]
       ELSE table' = table /\ net' = Idle
    /\ UNCHANGED <<sessidctr, conn, hdl, pool, queue, srv, heap, twice, leaked, done>>

\* altcp_close: no callback comes after it.
Closed(p) == IF p = 0 THEN conn ELSE [conn EXCEPT ![p].st = "closed"]

NetFree ==
    /\ net.pc = "free" /\ net' = Idle
    /\ conn' = Closed(net.pcb)
    /\ Release(hdl[net.h].rbuf)
    /\ hdl' = [hdl EXCEPT ![net.h].pcb = 0, ![net.h].rbuf = NoBuf]
    /\ pool' = pool \cup {net.h}
    /\ UNCHANGED <<sessidctr, table, queue, srv, leaked, done>>

-----------------------------------------------------------------------------
(* The message handler                                                     *)

\* Mutant: the message of an ended connection is dropped with its buffer.
SrvRecvKeepsBuf ==
    /\ srv.pc = "idle" /\ queue # <<>> /\ queue' = Tail(queue)
    /\ LET m == Head(queue)
       IN  srv' = IF Valid(m.h)
                  THEN [srv EXCEPT !.pc = IF m.type = "connect" THEN "send" ELSE "decode",
                                   !.msg = m, !.at = 0, !.kind = "hello", !.bye = FALSE]
                  ELSE srv
    /\ UNCHANGED <<sessidctr, conn, table, hdl, pool, net, heap, twice, leaked, done>>

\* nconf_msghdlr_main_loop and nconf_msghdlr_proc
SrvRecv ==
    /\ srv.pc = "idle" /\ queue # <<>> /\ queue' = Tail(queue)
    /\ LET m == Head(queue)
       IN  IF Valid(m.h)
           THEN /\ srv' = [srv EXCEPT !.pc = IF m.type = "connect" THEN "send" ELSE "decode",
                                      !.msg = m, !.at = 0, !.kind = "hello", !.bye = FALSE]
                /\ UNCHANGED <<heap, twice>>
           ELSE srv' = srv /\ Release(m.buf)
    /\ UNCHANGED <<sessidctr, conn, table, hdl, pool, net, leaked, done>>

\* Requests that nconf_msgdec_parse_netconf_frame finds in a buffer: none when
\* it starts in the middle of one, and at most MaxDecode.
Decoded(b) ==
    IF b.lo % 2 = 0 THEN <<>>
    ELSE [i \in 1 .. (IF (b.hi - b.lo + 1) \div 2 < MaxDecode
                      THEN (b.hi - b.lo + 1) \div 2 ELSE MaxDecode) |-> (b.lo - 1) \div 2 + i]

\* Disconnect h, then go on at p
Disconnect(h, p) == [srv EXCEPT !.pc = "check", !.h = h, !.then = p]

\* nconf_msghdlr_client_msg_proc: the next request, or the end of the buffer,
\* or a buffer that cannot be parsed, which is not released.
SrvDecode ==
    /\ srv.pc = "decode"
    /\ LET ks == Decoded(srv.msg.buf)
       IN  IF ks = <<>>
           THEN /\ srv' = Disconnect(srv.msg.h, "idle")
                /\ leaked' = leaked \cup {Id(srv.msg.buf)}
                /\ UNCHANGED <<heap, twice, done>>
           ELSE IF srv.at = Len(ks)
           THEN /\ srv' = IF srv.bye THEN Disconnect(srv.msg.h, "idle")
                          ELSE [srv EXCEPT !.pc = "idle"]
                /\ Release(srv.msg.buf) /\ UNCHANGED <<leaked, done>>
           ELSE /\ \E k \in Kinds : srv' = [srv EXCEPT !.pc = "rpc", !.at = @ + 1, !.kind = k]
                /\ done' = [done EXCEPT ![srv.msg.sess] = ks[srv.at + 1]]
                /\ UNCHANGED <<heap, twice, leaked>>
    /\ UNCHANGED <<sessidctr, conn, table, hdl, pool, queue, net>>

\* nconf_tlscon_get_connhdl_by_sessid may return h.  It follows an empty entry
\* (a NULL pointer) too.  Where that does not end the process the number it
\* reads is any, and the search ends there if that happens to be s.
ConnhdlBySessid(s, h) ==
    LET At(i) == table[i] # 0 /\ hdl[table[i]].sess = s
    IN  \/ h # 0 /\ \E i \in Handle : table[i] = h /\ At(i)
        \/ h = 0 /\ \/ \A i \in Handle : ~At(i)
                    \/ \E i \in Handle : table[i] = 0 /\ \A j \in 1 .. i : ~At(j)

\* nconf_msghdlr_rpc_msg_proc and what it calls.  "silent" stands for the
\* operations that are only logged (lock, unlock, delete-config) and for a
\* correct hello, "refused" for a hello that lacks the base capability.
SrvRpc ==
    /\ srv.pc = "rpc"
    /\ CASE srv.kind \in {"get", "edit", "close"} -> srv' = [srv EXCEPT !.pc = "send"]
         [] srv.kind = "silent"  -> srv' = [srv EXCEPT !.pc = "decode"]
         [] srv.kind = "unknown" -> srv' = [srv EXCEPT !.pc = "decode", !.bye = TRUE]
         [] srv.kind = "refused" -> srv' = Disconnect(srv.msg.h, "decode")
         [] srv.kind = "kill" ->
              \E s \in Sess, h \in Handle \cup {0} :
                 /\ s # (IF Valid(srv.msg.h) THEN hdl[srv.msg.h].sess ELSE 0)
                 /\ ConnhdlBySessid(s, h)
                 /\ srv' = IF h = 0 THEN [srv EXCEPT !.pc = "send"] ELSE Disconnect(h, "send")
    /\ UNCHANGED <<sessidctr, conn, table, hdl, pool, queue, net, heap, twice, leaked, done>>

\* Mutant: a reply that could not be sent is sent again.
AfterSendRetries(ok) ==
    CASE srv.kind = "hello" -> [srv EXCEPT !.pc = "idle"]
      [] srv.kind = "close" /\ ok -> Disconnect(srv.msg.h, "decode")
      [] srv.kind = "get" /\ ~ok -> [srv EXCEPT !.pc = "send"]
      [] OTHER -> [srv EXCEPT !.pc = "decode"]

\* Where the handler goes on after a transmission
AfterSend(ok) ==
    CASE srv.kind = "hello" -> [srv EXCEPT !.pc = "idle"]
      [] srv.kind = "close" /\ ok -> Disconnect(srv.msg.h, "decode")
      [] srv.kind = "get" /\ ~ok -> Disconnect(srv.msg.h, "decode")
      [] OTHER -> [srv EXCEPT !.pc = "decode"]

\* nconf_tlscon_send_msg, up to the lock
SrvSend ==
    /\ srv.pc = "send"
    /\ srv' = IF Valid(srv.msg.h) THEN [srv EXCEPT !.pc = "write"] ELSE AfterSend(FALSE)
    /\ UNCHANGED <<sessidctr, conn, table, hdl, pool, queue, net, heap, twice, leaked, done>>

\* With the lock: altcp_write fails without a connection, and may fail anyway.
SrvWrite ==
    /\ srv.pc = "write" /\ net.pc = "idle"
    /\ \E ok \in BOOLEAN :
          /\ ok => hdl[srv.msg.h].pcb # 0
          /\ srv' = AfterSend(ok)
    /\ UNCHANGED <<sessidctr, conn, table, hdl, pool, queue, net, heap, twice, leaked, done>>

\* nconf_tlscon_disconnect_client: the comparison, the store that clears the
\* entry, the read of conn_pcb, the close with the lock, and the release.
Forget(s) == IF s.h = s.msg.h THEN [s EXCEPT !.msg.h = 0] ELSE s

SrvCheck ==
    /\ srv.pc = "check"
    /\ IF Valid(srv.h)
       THEN \E i \in Handle : table[i] = srv.h /\ srv' = [srv EXCEPT !.pc = "clear", !.i = i]
       ELSE srv' = [Forget(srv) EXCEPT !.pc = srv.then]
    /\ UNCHANGED <<sessidctr, conn, table, hdl, pool, queue, net, heap, twice, leaked, done>>

SrvClear ==
    /\ srv.pc = "clear"
    /\ table' = [table EXCEPT ![srv.i] = 0]
    /\ srv' = [srv EXCEPT !.pc = "close", !.pcb = hdl[srv.h].pcb]
    /\ UNCHANGED <<sessidctr, conn, hdl, pool, queue, net, heap, twice, leaked, done>>

SrvClose ==
    /\ srv.pc = "close" /\ (srv.pcb = 0 \/ net.pc = "idle")
    /\ conn' = Closed(srv.pcb)
    /\ twice' = (twice \/ (srv.pcb # 0 /\ conn[srv.pcb].st = "closed"))
    /\ srv' = [srv EXCEPT !.pc = "free"]
    /\ UNCHANGED <<sessidctr, table, hdl, pool, queue, net, heap, leaked, done>>

\* No connection was left in the handle: the other thread has released it.
SrvFree ==
    /\ srv.pc = "free"
    /\ LET b == hdl[srv.h].rbuf
       IN  /\ heap' = heap \ {Id(b)}
           /\ twice' = (twice \/ srv.pcb = 0 \/ (IsBuf(b) /\ Id(b) \notin heap))
    /\ hdl' = [hdl EXCEPT ![srv.h].pcb = 0, ![srv.h].rbuf = NoBuf]
    /\ pool' = pool \cup {srv.h}
    /\ srv' = [Forget(srv) EXCEPT !.pc = srv.then]
    /\ UNCHANGED <<sessidctr, conn, table, queue, net, leaked, done>>

-----------------------------------------------------------------------------
\* What the program does after a second release is undefined: the model ends.
NetStep ==
    /\ ~twice
    /\ \/ NetConnect \/ NetData \/ NetUnlink \/ NetEnqueue \/ NetCheck \/ NetFree

SrvStep ==
    /\ ~twice
    /\ \/ SrvRecv \/ SrvDecode \/ SrvRpc \/ SrvSend \/ SrvWrite
       \/ SrvCheck \/ SrvClear \/ SrvClose \/ SrvFree

ClientStep == ~twice /\ (Accept \/ Callback)

Next == ClientStep \/ NetStep \/ SrvStep

Spec == Init /\ [][Next]_vars

\* Both threads are scheduled.
FairSpec == Spec /\ WF_vars(NetStep) /\ SF_vars(SrvStep)

-----------------------------------------------------------------------------
(* Properties                                                              *)

Buf == [sess : 0 .. MaxSess, lo : 1 .. 2 * MaxReq + 1, hi : 0 .. 2 * MaxReq]

\* Type invariant.
TypeOK ==
    /\ sessidctr \in 0 .. MaxSess
    /\ conn \in [Sess -> [st : {"none", "open", "closed"}, h : Handle \cup {0}, sent : 0 .. 2 * MaxReq]]
    /\ table \in [Handle -> Handle \cup {0}] /\ pool \subseteq Handle
    /\ hdl \in [Handle -> [sess : 0 .. MaxSess, pcb : 0 .. MaxSess, rbuf : Buf, newconn : BOOLEAN]]
    /\ queue \in Seq([type : {"connect", "message"}, h : Handle, sess : Sess, buf : Buf])
    /\ Len(queue) <= QueueLen
    /\ net.pc \in {"idle", "connect", "data", "unlink", "enqueue", "check", "free"}
    /\ net.h \in Handle \cup {0} /\ (net.h = 0 <=> net.pc = "idle")
    /\ srv.pc \in {"idle", "decode", "rpc", "send", "write", "check", "clear", "close", "free"}
    /\ heap \subseteq Sess \X (1 .. 2 * MaxReq) /\ leaked \subseteq Sess \X (1 .. 2 * MaxReq)
    /\ twice \in BOOLEAN /\ done \in [Sess -> 0 .. MaxReq]

\* The requests of a session are served in their order, none is served twice
\* and, while its connection is open, none is passed over: a request whose
\* beginning was swallowed with the buffer of the one before ends the session.
ServedInOrder ==
    [][srv.pc = "decode" /\ srv'.pc = "rpc" =>
          LET s == srv.msg.sess
          IN  /\ done'[s] > done[s]
              /\ conn[s].st = "open" => done'[s] = done[s] + 1]_vars

Held ==
    {Id(b) : b \in {hdl[h].rbuf : h \in Handle} \cup {queue[i].buf : i \in DOMAIN queue}
                      \cup (IF net.pc \in {"unlink", "enqueue"} THEN {net.buf} ELSE {})
                      \cup (IF srv.pc # "idle" THEN {srv.msg.buf} ELSE {})}

\* A read buffer belongs to a connection, to a queued message or to the request
\* in progress until it is released: only that of a message that cannot be
\* parsed is lost, whichever thread ends the connection and when.
NoBufferLeak == ~twice => heap \subseteq Held \cup leaked

\* Every message in the queue is taken: the two threads do not wait for each
\* other as long as the queue has room for what may be under way.
QueueDrains == queue # <<>> ~> (queue = <<>> \/ twice)
=============================================================================
