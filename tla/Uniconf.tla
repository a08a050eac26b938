------------------------------ MODULE Uniconf ------------------------------
(***************************************************************************)
(* Notices between the uniconf thread and its clients, in thread mode:     *)
(* uc_notice.c with the parts of cb_link_tilld.c, uc_hwal.c,               *)
(* yang_db_access.c, simpledb.c and gptpgcfg.c that take part.             *)
(*                                                                         *)
(* A client writes an item and asks uniconf to act on it: the hardware is  *)
(* written and the other clients are told.  A link that changes is found   *)
(* by uniconf, written to the database and told to the clients.  A client  *)
(* that is told reads the item, as gptpgcfg_link_check does.               *)
(*                                                                         *)
(* Every database operation is one step, and so is the walk of             *)
(* uc_nc_get_notice_act, although it holds no lock (SimpleDb shows what    *)
(* becomes of such a walk).  ntmutex is held between the steps where       *)
(* uni.pc is "post"; the other sections with it are one step.              *)
(* The clients that write are serialized by ydbimutex: they are one        *)
(* thread here.  Registrations name whole items, as those of gptp do: a    *)
(* push then tells a client of one item at most.  Left out: registrations  *)
(* for a prefix of several items, the deregistration of one item           *)
(* (UC_NOTICE_DBVAL_DEL of uc_nc_notice_register), the further items of a  *)
(* link (speed and duplex), the deletion of items, a query that the driver *)
(* fails and that ends uniconf, the check of UC_READY by the main loop,    *)
(* and the process mode.                                                   *)
(***************************************************************************)
EXTENDS Integers, FiniteSets, FiniteSetsExt

CONSTANTS
    Conf,       \* items that clients write
    Links,      \* the operational status of the devices
    Client,     \* clients that are told
    MaxSet,     \* bound: writes of the clients
    MaxChange,  \* bound: changes of a link
    MaxEvents,  \* bound: writes and changes together
    Disabled,   \* links whose device is not enabled
    MaxRef,     \* bound: refcounter up to which an item is registered once more
    Late,       \* clients that register during operation
    Leaves      \* clients that deregister during operation

ASSUME UniconfAssumption ==
    /\ Conf \cup Links \subseteq Nat /\ Conf \cap Links = {}
    /\ IsFiniteSet(Conf \cup Links) /\ Conf \cup Links # {}
    /\ Client \subseteq Nat \ {0} /\ IsFiniteSet(Client) /\ 0 \notin Links
    /\ Disabled \subseteq Links /\ Late \subseteq Client /\ Leaves \subseteq Client
    /\ MaxSet \in Nat /\ MaxChange \in Nat /\ MaxEvents \in Nat /\ MaxRef \in Nat

Item == Conf \cup Links
NoSem == [on |-> FALSE, ref |-> 0, act |-> 0]

\* The uniconf thread in its wait, with nothing in its hands
Waiting == [pc |-> "wait", k |-> 0, np |-> <<0, 0>>, n2 |-> <<0, 0>>, v |-> 0,
            first |-> <<0, 0>>, last |-> <<0, 0>>, ret |-> "none"]

VARIABLES
    data,       \* of an item: the value and refcounter of its entry
    ask,        \* UC_ASKACTION_REG: an item and 0, or the item and client of a deregistration
    reg,        \* UC_NOTICE_REG: of an item and a client "add", "del" or "none"
    act,        \* UC_NOTICE_ACT: the items that a client is told of
    getsem,     \* getnotice_sem
    list,       \* putnotice_list: of a client the entry of its semaphore
    sig,        \* the semaphore of a client
    relwait,    \* relwait_sem of the database
    uni,        \* the uniconf thread
    wr,         \* the thread that writes
    cl,         \* of a client: what it does
    hw,         \* what was written to the hardware
    view,       \* of a client: the value of an item that it read last
    link,       \* the state of a device: its link, how often it changed, an interrupt to come
    opersts,    \* netdev_opersts: the link that uniconf has noticed
    deleting,   \* UC_STATIC_ACTREG_DELETING
    overtaken,  \* items written while the request before was being answered
    refused,    \* links whose new state could not be written
    orphans     \* clients whose semaphore was closed although they are registered

vars == <<data, ask, reg, act, getsem, list, sig, relwait, uni, wr, cl, hw, view,
          link, opersts, deleting, overtaken, refused, orphans>>

Init ==
    /\ data = [k \in Item |-> [v |-> 0, ref |-> 0]]
    /\ ask = {} /\ act = {} /\ getsem = 0 /\ relwait = 0
    /\ reg = [p \in Item \X Client |-> IF p[2] \in Late THEN "none" ELSE "add"]
    /\ list = [c \in Client |-> IF c \in Late THEN NoSem ELSE [on |-> TRUE, ref |-> Cardinality(Item), act |-> 0]]
    /\ sig = [c \in Client |-> 0]
    /\ uni = Waiting
    /\ wr = [pc |-> "idle", k |-> 0, n |-> 0]
    /\ cl = [c \in Client |-> [pc |-> IF c \in Late THEN "new" ELSE "idle", k |-> 0]]
    /\ hw = [k \in Conf |-> 0] /\ view = [c \in Client |-> [k \in Item |-> 0]]
    /\ link = [l \in Links |-> [up |-> 0, n |-> 0, irq |-> FALSE]]
    /\ opersts = [l \in Links |-> 0]
    /\ deleting = FALSE /\ overtaken = {} /\ refused = {} /\ orphans = {}

-----------------------------------------------------------------------------
(* The database                                                            *)

\* simpledb_get, simpledb_get_release and simpledb_put of an item
Get(k) == data' = [data EXCEPT ![k].ref = @ + 1]
GetRelease(k) ==
    /\ data' = [data EXCEPT ![k].ref = @ - 1]
    /\ relwait' = IF relwait = 0 THEN 1 ELSE relwait
Put(k, v) == data' = [data EXCEPT ![k].v = v]
Free(k) == data[k].ref = 0

\* simpledb_wait_release: a token, or the time is over
WaitRelease == relwait' = IF relwait = 0 THEN 0 ELSE relwait - 1

\* uc_notice_sig_getvalue and uc_notice_sig_post of getnotice_sem
WakeUniconf == getsem' = IF getsem = 0 THEN 1 ELSE getsem

MinOf(S) == CHOOSE x \in S : \A y \in S : x <= y

\* Pairs of an item and a client in the order of their keys
NotAfter(p, q) == p[1] < q[1] \/ (p[1] = q[1] /\ p[2] <= q[2])
First(S) == CHOOSE p \in S : \A q \in S : NotAfter(p, q)
Last(S)  == CHOOSE p \in S : \A q \in S : NotAfter(q, p)
Registered == {p \in Item \X Client : reg[p] # "none"}

MoreEvents == wr.n + MapThenSumSet(LAMBDA l : link[l].n, Links) < MaxEvents

-----------------------------------------------------------------------------
(* A client writes an item: ydbi_set_foot, yang_db_put, askaction_push     *)

Write ==
    /\ wr.pc = "idle" /\ wr.n < MaxSet /\ MoreEvents
    /\ \E k \in Conf : wr' = [pc |-> "put", k |-> k, n |-> wr.n + 1]
    /\ UNCHANGED <<data, ask, reg, act, getsem, list, sig, relwait, uni, cl, hw, view,
                   link, opersts, deleting, overtaken, refused, orphans>>

\* The first attempt; a reader makes it wait and try once more.
WriterPut ==
    /\ wr.pc \in {"put", "again"}
    /\ IF Free(wr.k) THEN Put(wr.k, wr.n) /\ wr' = [wr EXCEPT !.pc = "ask"]
       ELSE data' = data /\ wr' = [wr EXCEPT !.pc = IF wr.pc = "put" THEN "wait" ELSE "idle"]
    /\ UNCHANGED <<ask, reg, act, getsem, list, sig, relwait, uni, cl, hw, view,
                   link, opersts, deleting, overtaken, refused, orphans>>

WriterWait ==
    /\ wr.pc = "wait" /\ wr' = [wr EXCEPT !.pc = "again"]
    /\ WaitRelease
    /\ UNCHANGED <<data, ask, reg, act, getsem, list, sig, uni, cl, hw, view,
                   link, opersts, deleting, overtaken, refused, orphans>>

\* uniconf has read the item of the request it is answering.
Answering(k) ==
    /\ uni.np = <<k, 0>>
    /\ uni.pc \in {"write", "del"} \/ (uni.pc \in {"push", "scan", "post"} /\ uni.ret = "del")

WriterAsk ==
    /\ wr.pc = "ask" /\ wr' = [wr EXCEPT !.pc = "sig"]
    /\ ask' = ask \cup {<<wr.k, 0>>}
    /\ overtaken' = IF Answering(wr.k) THEN overtaken \cup {wr.k} ELSE overtaken
    /\ UNCHANGED <<data, reg, act, getsem, list, sig, relwait, uni, cl, hw, view,
                   link, opersts, deleting, refused, orphans>>

NtFree == uni.pc # "post"

WriterSig ==
    /\ wr.pc = "sig" /\ NtFree /\ wr' = [wr EXCEPT !.pc = "idle", !.k = 0]
    /\ WakeUniconf
    /\ UNCHANGED <<data, ask, reg, act, list, sig, relwait, uni, cl, hw, view,
                   link, opersts, deleting, overtaken, refused, orphans>>

-----------------------------------------------------------------------------
(* The uniconf thread: uc_nu_proc_asked_actions                            *)

\* uc_notice_sig_check
SigCheck ==
    /\ uni.pc = "wait" /\ getsem > 0 /\ getsem' = getsem - 1
    /\ uni' = [uni EXCEPT !.pc = "query", !.k = 0]
    /\ UNCHANGED <<data, ask, reg, act, list, sig, relwait, wr, cl, hw, view,
                   link, opersts, deleting, overtaken, refused, orphans>>

\* cbl_query_response: the next device whose link is not the one noticed.  One
\* that is not enabled ends the query.
Query ==
    /\ uni.pc = "query"
    /\ LET D == {l \in Links : l > uni.k /\ opersts[l] # link[l].up}
           l == MinOf(D)
       IN  IF D = {} \/ l \in Disabled THEN uni' = [uni EXCEPT !.pc = "range"] /\ opersts' = opersts
           ELSE /\ uni' = [uni EXCEPT !.pc = "lput", !.k = l, !.v = link[l].up]
                /\ opersts' = [opersts EXCEPT ![l] = link[l].up]
    /\ UNCHANGED <<data, ask, reg, act, getsem, list, sig, relwait, wr, cl, hw, view,
                   link, deleting, overtaken, refused, orphans>>

\* set_netdev_linkstatus; its failure is ignored by cbl_query_response.
LinkPut ==
    /\ uni.pc \in {"lput", "lagain"}
    /\ IF Free(uni.k)
       THEN /\ Put(uni.k, uni.v) /\ refused' = refused \ {uni.k}
            /\ uni' = [uni EXCEPT !.pc = "push", !.ret = "query"]
       ELSE /\ data' = data
            /\ refused' = IF uni.pc = "lput" THEN refused ELSE refused \cup {uni.k}
            /\ uni' = [uni EXCEPT !.pc = IF uni.pc = "lput" THEN "lwait" ELSE "query"]
    /\ UNCHANGED <<ask, reg, act, getsem, list, sig, relwait, wr, cl, hw, view,
                   link, opersts, deleting, overtaken, orphans>>

LinkWait ==
    /\ uni.pc = "lwait" /\ uni' = [uni EXCEPT !.pc = "lagain"]
    /\ WaitRelease
    /\ UNCHANGED <<data, ask, reg, act, getsem, list, sig, wr, cl, hw, view,
                   link, opersts, deleting, overtaken, refused, orphans>>

\* respond_getnotice: the range of the requests, found once
AskRange ==
    /\ uni.pc = "range"
    /\ uni' = IF ask = {} THEN Waiting
              ELSE [uni EXCEPT !.pc = "read", !.np = First(ask), !.n2 = Last(ask)]
    /\ UNCHANGED <<data, ask, reg, act, getsem, list, sig, relwait, wr, cl, hw, view,
                   link, opersts, deleting, overtaken, refused, orphans>>

\* What a deregistration names is not in the database: nothing is written.
AskRead ==
    /\ uni.pc = "read"
    /\ IF uni.np[2] = 0
       THEN /\ Get(uni.np[1]) /\ overtaken' = overtaken \ {uni.np[1]}
            /\ uni' = [uni EXCEPT !.pc = "write", !.v = data[uni.np[1]].v]
       ELSE /\ uni' = [uni EXCEPT !.pc = "push", !.k = uni.np[1], !.ret = "del"]
            /\ UNCHANGED <<data, overtaken>>
    /\ UNCHANGED <<ask, reg, act, getsem, list, sig, relwait, wr, cl, hw, view,
                   link, opersts, deleting, refused, orphans>>

\* uc_hwal_writehw, and the entry is released
AskWrite ==
    /\ uni.pc = "write"
    /\ hw' = [hw EXCEPT ![uni.np[1]] = uni.v]
    /\ GetRelease(uni.np[1])
    /\ uni' = [uni EXCEPT !.pc = "push", !.k = uni.np[1], !.ret = "del"]
    /\ UNCHANGED <<ask, reg, act, getsem, list, sig, wr, cl, view,
                   link, opersts, deleting, overtaken, refused, orphans>>

\* Mutant: the whole range of requests is deleted.
AskDelAll ==
    /\ uni.pc = "del"
    /\ ask' = {}
    /\ uni' = Waiting
    /\ UNCHANGED <<data, reg, act, getsem, list, sig, relwait, wr, cl, hw, view,
                   link, opersts, deleting, overtaken, refused, orphans>>

\* uc_del_in_range: the request answered is deleted, also when it is a new one.
AskDel ==
    /\ uni.pc = "del"
    /\ ask' = ask \ {uni.np}
    /\ uni' = IF uni.np = uni.n2 THEN Waiting
              ELSE [uni EXCEPT !.pc = "read", !.np = First({p \in ask : ~NotAfter(p, uni.np)})]
    /\ UNCHANGED <<data, reg, act, getsem, list, sig, relwait, wr, cl, hw, view,
                   link, opersts, deleting, overtaken, refused, orphans>>

\* uc_nu_putnotice_push: the range of the registrations, before ntmutex is taken
Push ==
    /\ uni.pc = "push"
    /\ uni' = IF Registered = {} THEN [uni EXCEPT !.pc = uni.ret, !.ret = "none", !.v = 0]
              ELSE [uni EXCEPT !.pc = "scan",
                       !.first = First(Registered), !.last = Last(Registered)]
    /\ UNCHANGED <<data, ask, reg, act, getsem, list, sig, relwait, wr, cl, hw, view,
                   link, opersts, deleting, overtaken, refused, orphans>>

\* nu_clear_refcounter, then nu_increment_refcounter for each registration
RefCount(c, Add) == IF list[c].on THEN Cardinality({p \in Add : p[2] = c}) ELSE 0

\* ntmutex is taken and the registrations are gone through: those to delete are
\* deleted, the others counted, and the clients of the item are told.
Scan ==
    /\ uni.pc = "scan"
    /\ LET In == {p \in Registered : NotAfter(uni.first, p) /\ NotAfter(p, uni.last)}
           Add == {p \in In : reg[p] = "add"}
           Told == {p \in Add : p[1] = uni.k}
       IN  /\ reg' = [p \in Item \X Client |-> IF p \in In \ Add THEN "none" ELSE reg[p]]
           /\ act' = act \cup Told
           /\ deleting' = (deleting /\ In = Add)
           /\ list' = [c \in Client |-> [list[c] EXCEPT
                         !.ref = RefCount(c, Add),
                         !.act = IF list[c].on THEN @ + Cardinality({p \in Told : p[2] = c}) ELSE @]]
    /\ uni' = [uni EXCEPT !.pc = "post"]
    /\ UNCHANGED <<data, ask, getsem, sig, relwait, wr, cl, hw, view,
                   link, opersts, overtaken, refused, orphans>>

\* Mutant: only one client is posted.
PostOne ==
    /\ uni.pc = "post"
    /\ LET S == {c \in Client : list[c].on /\ list[c].ref > 0 /\ list[c].act > 0}
       IN  sig' = [c \in Client |-> IF c \in S /\ c = MinOf(S) THEN sig[c] + 1 ELSE sig[c]]
    /\ list' = [c \in Client |-> IF list[c].ref = 0 THEN NoSem ELSE [list[c] EXCEPT !.act = 0]]
    /\ uni' = [uni EXCEPT !.pc = uni.ret, !.ret = "none", !.v = 0,
                        !.first = <<0, 0>>, !.last = <<0, 0>>]
    /\ UNCHANGED <<data, ask, reg, act, getsem, relwait, wr, cl, hw, view,
                   link, opersts, deleting, overtaken, refused, orphans>>

\* proc_refactcounter: semaphores without a registration are closed, those with
\* notices are posted once.  ntmutex is released.
Post ==
    /\ uni.pc = "post"
    /\ LET Close == {c \in Client : list[c].on /\ list[c].ref = 0}
       IN  /\ sig' = [c \in Client |-> IF c \in Close THEN 0
                                       ELSE IF list[c].act > 0 THEN sig[c] + 1 ELSE sig[c]]
           /\ list' = [c \in Client |-> IF c \in Close THEN NoSem ELSE [list[c] EXCEPT !.act = 0]]
           /\ orphans' = orphans \cup {c \in Close : \E k \in Item : reg[<<k, c>>] = "add"}
    /\ uni' = [uni EXCEPT !.pc = uni.ret, !.ret = "none", !.v = 0,
                        !.first = <<0, 0>>, !.last = <<0, 0>>]
    /\ UNCHANGED <<data, ask, reg, act, getsem, relwait, wr, cl, hw, view,
                   link, opersts, deleting, overtaken, refused>>

-----------------------------------------------------------------------------
(* The clients                                                             *)

\* uc_nc_notice_register with UC_NOTICE_DBVAL_ADD, for one item after the other;
\* an item registered before counts once more.
Register ==
    /\ NtFree
    /\ \E c \in Client, k \in Item :
          /\ cl[c].pc = "new" /\ (reg[<<k, c>>] = "none" \/ list[c].ref < MaxRef)
          /\ reg' = [reg EXCEPT ![<<k, c>>] = "add"]
          /\ list' = [list EXCEPT ![c].on = TRUE, ![c].ref = @ + 1]
          /\ cl' = IF \A i \in Item \ {k} : reg[<<i, c>>] # "none"
                   THEN [cl EXCEPT ![c].pc = "idle"] ELSE cl
    /\ UNCHANGED <<data, ask, act, getsem, sig, relwait, uni, wr, hw, view,
                   link, opersts, deleting, overtaken, refused, orphans>>

\* Mutant: uniconf is not asked.
DeregisterAllUnasked ==
    /\ NtFree
    /\ \E c \in Leaves :
          /\ cl[c].pc = "idle" /\ cl' = [cl EXCEPT ![c].pc = "gone"]
          /\ list' = [list EXCEPT ![c] = NoSem] /\ sig' = [sig EXCEPT ![c] = 0]
          /\ reg' = [p \in Item \X Client |-> IF p[2] = c /\ reg[p] = "add" THEN "del" ELSE reg[p]]
          /\ ask' = ask /\ deleting' = TRUE
    /\ WakeUniconf
    /\ UNCHANGED <<data, act, relwait, uni, wr, hw, view,
                   link, opersts, overtaken, refused, orphans>>

\* uc_nc_notice_deregister_all: the semaphore is closed, the registrations are
\* marked and uniconf is asked to delete them.  The name is not used again.
DeregisterAll ==
    /\ NtFree
    /\ \E c \in Leaves :
          /\ cl[c].pc = "idle" /\ cl' = [cl EXCEPT ![c].pc = "gone"]
          /\ list' = [list EXCEPT ![c] = NoSem] /\ sig' = [sig EXCEPT ![c] = 0]
          /\ reg' = [p \in Item \X Client |-> IF p[2] = c /\ reg[p] = "add" THEN "del" ELSE reg[p]]
          /\ ask' = ask \cup {<<MinOf(Item), c>>} /\ deleting' = TRUE
    /\ WakeUniconf
    /\ UNCHANGED <<data, act, relwait, uni, wr, hw, view,
                   link, opersts, overtaken, refused, orphans>>

\* uc_notice_sig_trywait in gptpgcfg_link_check
ClTake ==
    /\ \E c \in Client :
          /\ cl[c].pc = "idle" /\ sig[c] > 0
          /\ sig' = [sig EXCEPT ![c] = @ - 1] /\ cl' = [cl EXCEPT ![c].pc = "find"]
    /\ UNCHANGED <<data, ask, reg, act, getsem, list, relwait, uni, wr, hw, view,
                   link, opersts, deleting, overtaken, refused, orphans>>

\* uc_nc_get_notice_act: the first notice of the client; there may be none.
ClFind ==
    /\ \E c \in Client :
          LET K == {k \in Item : <<k, c>> \in act}
          IN  /\ cl[c].pc = "find"
              /\ cl' = [cl EXCEPT ![c] = IF K = {} THEN [pc |-> "idle", k |-> 0]
                                         ELSE [pc |-> "del", k |-> MinOf(K)]]
    /\ UNCHANGED <<data, ask, reg, act, getsem, list, sig, relwait, uni, wr, hw, view,
                   link, opersts, deleting, overtaken, refused, orphans>>

ClDel ==
    /\ \E c \in Client :
          /\ cl[c].pc = "del" /\ cl' = [cl EXCEPT ![c].pc = "get"]
          /\ act' = act \ {<<cl[c].k, c>>}
    /\ UNCHANGED <<data, ask, reg, getsem, list, sig, relwait, uni, wr, hw, view,
                   link, opersts, deleting, overtaken, refused, orphans>>

ClGet ==
    /\ \E c \in Client :
          /\ cl[c].pc = "get" /\ cl' = [cl EXCEPT ![c].pc = "rel"]
          /\ Get(cl[c].k)
          /\ view' = [view EXCEPT ![c][cl[c].k] = data[cl[c].k].v]
    /\ UNCHANGED <<ask, reg, act, getsem, list, sig, relwait, uni, wr, hw,
                   link, opersts, deleting, overtaken, refused, orphans>>

ClRelease ==
    /\ \E c \in Client :
          /\ cl[c].pc = "rel" /\ cl' = [cl EXCEPT ![c] = [pc |-> "idle", k |-> 0]]
          /\ GetRelease(cl[c].k)
    /\ UNCHANGED <<ask, reg, act, getsem, list, sig, uni, wr, hw, view,
                   link, opersts, deleting, overtaken, refused, orphans>>

-----------------------------------------------------------------------------
(* The links                                                               *)

\* A link changes; its interrupt calls cb_lld_notify_linkchange.
LinkChange ==
    /\ MoreEvents
    /\ \E l \in Links :
          /\ link[l].n < MaxChange
          /\ link' = [link EXCEPT ![l] = [up |-> 1 - @.up, n |-> @.n + 1, irq |-> TRUE]]
    /\ UNCHANGED <<data, ask, reg, act, getsem, list, sig, relwait, uni, wr, cl, hw, view,
                   opersts, deleting, overtaken, refused, orphans>>

\* Mutant: the post is only made while uniconf waits.
NotifyLinkChangeWaiting ==
    /\ \E l \in Links : link[l].irq /\ link' = [link EXCEPT ![l].irq = FALSE]
    /\ getsem' = IF uni.pc = "wait" THEN getsem + 1 ELSE getsem
    /\ UNCHANGED <<data, ask, reg, act, list, sig, relwait, uni, wr, cl, hw, view,
                   opersts, deleting, overtaken, refused, orphans>>

NotifyLinkChange ==
    /\ \E l \in Links : link[l].irq /\ link' = [link EXCEPT ![l].irq = FALSE]
    /\ getsem' = getsem + 1
    /\ UNCHANGED <<data, ask, reg, act, list, sig, relwait, uni, wr, cl, hw, view,
                   opersts, deleting, overtaken, refused, orphans>>

UniStep ==
    \/ SigCheck \/ Query \/ LinkPut \/ LinkWait \/ AskRange \/ AskRead \/ AskWrite \/ AskDel
    \/ Push \/ Scan \/ Post
RegStep == Register \/ DeregisterAll
WriterStep == WriterPut \/ WriterWait \/ WriterAsk \/ WriterSig
ClientStep == ClTake \/ ClFind \/ ClDel \/ ClGet \/ ClRelease

Next ==
    \/ Write \/ WriterStep \/ UniStep \/ RegStep \/ ClientStep
    \/ LinkChange \/ NotifyLinkChange

Spec == Init /\ [][Next]_vars

\* Every thread is scheduled, ntmutex is handed to every thread that waits for it,
\* and an interrupt is delivered.  Nothing makes a client leave or write.
FairSpec ==
    /\ Spec /\ WF_vars(UniStep) /\ SF_vars(WriterStep) /\ SF_vars(Register)
    /\ WF_vars(NotifyLinkChange) /\ WF_vars(ClientStep)

-----------------------------------------------------------------------------
(* Properties                                                              *)

\* Type invariant.
TypeOK ==
    /\ \A k \in Item : data[k].v \in Nat /\ data[k].ref \in 0 .. Cardinality(Client) + 1
    /\ ask \subseteq Item \X (Client \cup {0}) /\ act \subseteq Item \X Client
    /\ reg \in [Item \X Client -> {"none", "add", "del"}]
    /\ getsem \in Nat /\ relwait \in 0 .. 1 /\ sig \in [Client -> Nat]
    /\ \A c \in Client : list[c].on \in BOOLEAN /\ list[c].ref \in Nat
    /\ uni.pc \in {"wait", "query", "lput", "lwait", "lagain", "range", "read", "write",
                   "push", "scan", "post", "del"}
    /\ wr.pc \in {"idle", "put", "wait", "again", "ask", "sig"}
    /\ \A c \in Client : cl[c].pc \in {"new", "idle", "find", "del", "get", "rel", "gone"}
    /\ deleting \in BOOLEAN /\ overtaken \subseteq Conf /\ refused \subseteq Links
    /\ orphans \subseteq Client

\* Every notice has a post of its own, made, about to be made or just taken by
\* the client: gptpgcfg_link_check takes one notice for each post, so that one
\* post too few would leave a notice behind.  Exempt is a client whose
\* semaphore was closed because a registration of it was missed.
NoticeNotLost ==
    \A c \in Client \ orphans :
        cl[c].pc # "gone" =>
            Cardinality({k \in Item : <<k, c>> \in act}) <=
                sig[c] + (IF uni.pc = "post" /\ list[c].act > 0 THEN 1 ELSE 0)
                       + (IF cl[c].pc \in {"find", "del"} THEN 1 ELSE 0)

\* Nothing is under way.
Quiet ==
    /\ uni.pc = "wait" /\ getsem = 0 /\ wr.pc = "idle"
    /\ \A c \in Client : cl[c].pc \in {"idle", "gone"} /\ sig[c] = 0
    /\ \A l \in Links : ~link[l].irq

\* Clients that were registered all the time
Present == {c \in Client \ Late : cl[c].pc # "gone"}

\* When nothing is under way the hardware has what the database has and every
\* client has read it, unless a write overtook the answer to the one before.
WritesArrive ==
    Quiet => \A k \in Conf \ overtaken :
                hw[k] = data[k].v /\ \A c \in Present : view[c][k] = data[k].v

\* When nothing is under way every client knows the state of every link, unless
\* a reader kept uniconf from writing it, or the query of the links ended at a
\* device that is not enabled, the link's own or one before it, and has a link
\* that changed.
LinksArrive ==
    Quiet => \A l \in Links \ refused, c \in Present :
                (\A d \in Disabled : d <= l => opersts[d] = link[d].up) => view[c][l] = link[l].up

\* A deregistration is carried out in the end: uc_nc_wait_deleting returns.
DeletingEnds == deleting ~> ~deleting
=============================================================================
