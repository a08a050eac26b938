# A verification of the TSN stack (gPTP, uniconf, unibase, combase, netconf)

TLA+ modules that model the control logic of the stack, TLC configurations that
check them on small instances, and theorems that TLAPS proves for every value of
the constants. `PROJECT.json` lists components, runs, mutants, the map from
definitions to source lines, hazards and theorems.

## 1. The system

The repository is an IEEE 802.1AS-2020 (gPTP) implementation for TI's Ethernet
drivers with the services it needs.

* `tsn_gptp` - the protocol. One process (or task) per gPTP instance, single
  threaded: `gptpnet` waits for a frame, a transmit timestamp (TxTS), a link
  change or its timer and calls `gptpnet_cb` (`gptpman.c`), which runs the
  802.1AS state machines to completion. A machine is a function with a loop:
  an all-state condition, entry actions, transition conditions, until nothing
  changes. Machines share the per-system and per-port records of `mind.c`.
* `tsn_uniconf` - configuration: an in-memory key-value database (`simpledb`),
  YANG key and value tables, notices between its clients (`uc_notice`), a server.
* `tsn_combase`, `tsn_unibase` - timers, shared memory, containers, memory pools,
  logging, string and file helpers.
* `tsn_netconf` - a NETCONF front end of uniconf.

### Components, their state, operations and interactions

| Component | State | Operations | Interacts with |
|---|---|---|---|
| Announce reception and port information (`port_announce_receive_sm`, `port_announce_information_sm`) | per port: infoIs, portPriority, messagePriority, portStepsRemoved, updtInfo, reselect, path trace | an Announce, a timeout, a capability or link change | selection: sets reselect, takes over masterPriority when updtInfo is set |
| Port state selection (`port_state_selection_sm`) | gmPriority, masterPriority, selectedState, gmPresent, pathTrace | updtStatesTree over all ports | port information, announce transmission, gmsync, gm_stable_sm |
| Announce transmission (`port_announce_transmit_sm`, `md_announce_send_sm`) | newInfo, state, deferred message | periodic and triggered Announce, retry | the network layer |
| Grandmaster stability (`gm_stable_sm`) | state, gmchange flag | grandmaster change, timeout | gmsync in `gptpclock`, asCapableOrAll |
| Clock master, clock slave (`clock_*_sm`) | rate and offset quality | a Sync, a clock source request | gmsync, the software clock |
| Peer delay (`md_pdelay_req_sm`, `md_pdelay_resp_sm`) | state, sequence numbers, four timestamps, lost, multiple and faulty counts, asCapableAcrossDomains | request, response, Follow_Up, TxTS, timeout | the neighbour over the link, asCapable |
| Sync chain (`md_sync_*`, `port_sync_sync_*`, `site_sync_sync_sm`) | received Sync/Follow_Up pair, per port intervals and timeouts | Sync, Follow_Up, TxTS, timeout | peer delay, selection, clock slave |
| Signaling, intervals, gPTP capable | current intervals, capability of the neighbour | message interval request, capable TLV, timeout | every periodic sender |
| External port configuration | desired port states | configuration | replaces the selection |
| Clocks (`gptpclock`, `gptpmasterclock`) | offsets, rates, active domain, gmsync in shared memory | adjust, read, switch domain | other processes |
| Network layer (`tilld/lld_gptpnet`) | TxTS ring, timer, link status, two semaphores | send, receive, timestamp, timer | the driver, the status frame task, gPTP |
| uniconf database (`simpledb`) | sorted list of entries with reader counters, the saved file | put, get and release, delete, walk over a range, save, load | every client, through `yang_db_*` |
| uniconf notices (`uc_notice`, `cb_link_tilld`) | requests, registrations and notices in the database, counters, semaphores | write and ask, register, deregister, tell, link change | the uniconf thread and its clients |
| NETCONF server (`nconf_transmngr`, `nconf_tlscon`, `nconf_msghdlr`) | table of connections, handles, read buffers, message queue | connect, data, close, failure, requests, kill-session | the TCP/IP thread and the message handler |

### What is hard here

* *Interleaving of handlers.* One handler is sequential, but a frame on one port,
  a timeout that visits the ports one after the other and a link change come in
  any order, and several flags (updtInfo, reselect, newInfo, portOper,
  asCapableOrAll, gmchange) are set by one handler and acted on by a later one.
* *Unreliable frames and timestamps.* Frames get lost, late or overtaken,
  transmissions fail, transmit timestamps are late or never come; the machines
  repeat what they sent.
* *Threads.* Outside the gPTP machines several threads share state: the event loop
  with the driver and the status frame task, the uniconf thread with its clients,
  the TCP/IP thread with the NETCONF message handler. A semaphore is posted only when
  it is not up, ranges are found before a mutex is taken, a table is changed
  without a lock.
* *Saves.* The saved database is truncated before it is written; the process may end
  in between, and a write may fail.
* *Shared results.* gmsync is written by six functions, several of them in one handler, in
  an order that matters.
* *Loops.* `sm_bmcs_perform` repeats while a flag is set; each machine loops until
  it is settled.
* *Limits.* Path trace length, lost and multiple responses, wrap of 16-bit
  sequence numbers, the TxTS ring and the message queue when they are full.

The hazards in `PROJECT.json` name the lines where these bite.

## 2. Modules

| Module | Models | Extends |
|---|---|---|
| `Bmcs` | best master clock selection of one domain, N ports | - |
| `BmcsProofs` | its theorems | `Bmcs` |
| `GmSync` | what a domain reports as gmsync | - |
| `GmSyncProofs` | its theorems | `GmSync` |
| `PdelayLink` | frames and sequence numbers of the peer delay protocol | - |
| `PdelayReq` | requester and link delay interval setting, open environment | `PdelayLink` |
| `PdelayResp` | responder, open environment | `PdelayLink` |
| `Pdelay` | requester and responder on a link that loses and reorders | both |
| `PdelayProofs` | theorems about requester, responder and link | `Pdelay` |
| `GptpNet` | event loop, driver callbacks, status frame task and TxTS ring of the network layer | - |
| `BoundedFifo` | abstract specification: a bounded queue | - |
| `MdSyncSend`, `MdSyncReceive` | the two ends of a link that carry Sync and Follow_Up | - |
| `SyncLink` | both on a link that loses and reorders | both |
| `FrameProofs` | theorems about the network layer and the link | `GptpNet`, `SyncLink` |
| `SiteSync` | the way of a Sync through a system, with the clock master | - |
| `SiteSyncProofs` | its theorems | `SiteSync` |
| `SimpleDb` | the database of uniconf, its save and load | - |
| `SimpleDbProofs` | its theorems | `SimpleDb` |
| `Uniconf` | the uniconf thread, writers, clients and links with the notices between them | - |
| `UniconfProofs` | its theorems | `Uniconf` |
| `NconfServer` | the two threads of the NETCONF server | - |
| `NconfServerProofs` | its theorems | `NconfServer` |
| `MCBmcs`, `MCGmSync`, `MCPdelayReq`, `MCGptpNet`, `MCNconfServer`, `MCSimpleDb` | constants of the TLC instances | |

In the modules of the gPTP machines an event is enabled only while no handler runs (`pc`, `reqPc`,
`rspPc` is "idle"); then one step is taken per state that a machine enters,
until the handler returns. An action named `EnterX` is the entry action of state
X with the condition that leads there; `...Settled` is the exit of the loop.
Operators that precede a definition and carry its name with a suffix
(`EligibleAged` before `Eligible`) are the mutants: plausible bugs that the
properties have to detect.

### Bmcs

State: per port infoIs, portPriority, updtInfo, reselect, selectedState, the
information machine, the transmit machine with newInfo and the deferred
message; per system gmPriority, masterPriority, pathTrace, the selection machine.
Events: `RecvAnnounce` (qualifyAnnounce, then the handler), `Timeout`/`TickPort`
(the port loop of `gptpnet_cb_timeout`), `DevUp`, `DevDown`, `Guard`,
`UpdateAsCapable`. Steps: `EnterDisabled`, `EnterAged`, `EnterUpdate`,
`EnterSuperior`, `EnterRepeated`, `EnterInferior`, `InfoSettled` for the
information machine, `SelectStates`/`KeepStates` for the selection,
`TransmitAnnounce`/`TransmitNothing` for the transmission.
The five components of a priority that are compared before the clock identity are
one number; time is a choice, made when a port is visited, of whether its
timeouts have passed.

### GmSync

The selection is abstract here (each port hears a clock or none; the best wins,
`Best`), so that the module can concentrate on the writers of gmsync:
`SelectedSync` (updtStatesTree), gm_stable_sm (`EnterInitialize`,
`EnterUnstable`, `EnterStable`, `EnterLost`, `GmSettled`) and the clock source
(`SourceSync`, `ClockSourceReq`), called in the order of `sm_bmcs_perform`. A domain above 0,
and domain 0 with an INITIAL_SLAVE_TIME, defer the report of a grandmaster (`deferred`):
`Selects` is what state_selection_proc does to the deferral, `EndInitialSlave` and `EndDeferral` are
proc_deferred_gmsync, which ends it and makes up for the report; `domain`, `gmsync0` and `late` are the
three kinds of domain, the state of domain 0 as another domain sees it, and the end of the initial
slave time, during which this clock has the lowest priority (`Lowest`). The timeout rebuilds asCapableOrAll port by port (`TickPort`), with the
announce handling of each port in between.

### PdelayReq, PdelayResp, Pdelay

The state of `md_pdelay_req_sm` is `reqState`; `again` is last_state = REACTION,
the trick with which the code runs an entry action again. `Target` is the
combination of the all-state condition and the transition conditions. `since` is
the time since pdelayIntervalTimer in the steps that matter: TxTS overdue, interval
over, five minutes of ceasing over. A timestamp is reduced to the sequence
number of the frame it was taken of, the rate and delay arithmetic to its
verdicts (rate in range or not, delay within limits or not). `SetInterval`
and `IntervalTick` are link_delay_interval_setting_sm. The environment of the
requester is open: any response (of this port's request or not) and any Follow_Up
may come at any time, which includes every neighbour that misbehaves; `paired`
says whether the two stored frames came from the same port. The responder is
open to any sequence of requests. `Pdelay` closes both with two wires: a frame is
carried or lost, at most `MaxWire` are in flight, and a Follow_Up may overtake
the response before it (the case a comment in the code is about). The
handlers of two systems do not interact except through frames, so only one of
them is inside a handler at a time.

### GptpNet and BoundedFifo

State: the ring (`slots`, `rdi`, `wri`), the loop (`pc`, `event`, `tout`), the two
semaphores, and what the driver holds. Parties: the loop (`NoticeCheck`,
`LinkCheck`, `ToutCheck`, `Wait`, `ProcessTxts`, `ProcessRx`, `RxDone` in the order of
`gptpnet_eventloop`), the callback in progress, which sends (`SendEvent`, `SendGeneral`,
`SendFailed`) and returns, the driver (`Receive`, `TxDone`, `Stamp`), the status frame
task (`StatusTask`) and the clock (`Elapse`). Event messages are numbered as they are
sent. The PHY and the CPTS timestamp source are both initial states. `RingIsFifo` is a
refinement: the ring, read from `rdi` over its used slots, is the queue of
`BoundedFifo`, whose steps are to enqueue, to dequeue, or neither.

### MdSyncSend, MdSyncReceive, SyncLink

`md_sync_send_sm` and `md_sync_receive_sm` as machines with entry steps, like the peer
delay modules. A transmission of a Sync has a number of its own, so that the
timestamp of one can be told from that of its repetition, which has the same
sequence number. `SyncLink` joins the two by a wire on which frames are lost and a
Follow_Up may arrive before its Sync.

### SiteSync

One system: `SyncMeasured` is a Sync that a port has measured, `Timeout` a tick with the turn of
`clock_master_sync_send_sm`, the other actions are changes of roles, capability and
intervals. A handler is one action; `SiteNext`, `Accepts`, `LateStored` are
`site_sync_sync_sm`, `SndNext`, `Sends`, `MayGoOn` are `port_sync_sync_send_sm`.
Time is discrete here, because the properties compare times: intervals and the
timeout are counted in ticks.

### SimpleDb

An operation of `simpledb.c` holds `dbmutex` throughout and is one action. A walk
over a range (`GetRange`, `MoveBottom`, `Read`, `DelInRange`, `GetRangeRelease`) and a
save (`SaveOpen`, `SaveLock`, `SaveOne`, `SaveFails` when a write fails) are several, between which
others run; while a save holds the mutex only it takes steps. Nothing keeps another thread from
deleting a node that a walk points to; the walk is then torn (`range.torn`), and only its release is
modelled from there on. `Restart` is the end of the process at any time
and the load of what has reached the file. Keys are sequences of bytes, compared
by `keycmp`; `bin_search` is the search by halving as the code does it. `seen` and `wanted`
record what a walk has returned and what it should.

### Uniconf

Four kinds of threads: the uniconf thread (`SigCheck`, `Query`, `LinkPut`, `LinkWait`,
`AskRange`, `AskRead`, `AskWrite`, `AskDel`, and `Push`, `Scan`, `Post` of
`uc_nu_putnotice_push`), a writer (`WriterPut`, `WriterWait`, `WriterAsk`,
`WriterSig`), clients that register, leave, and read what they are told of
(`ClTake` to `ClRelease`), and links with their interrupt. Every database
operation is a step, and so is the unlocked walk of uc_nc_get_notice_act (`ClFind`). A client may
register an item more than once, which raises the counter of its semaphore each time (up to
`MaxRef`); the next push counts anew. Registrations name whole items, as those of gptp do. `overtaken`, `refused` and `orphans` record the cases in which
the code loses something (section 3, disagreements), so that the properties can say
that nothing else is lost.

### NconfServer

`net` is the TCP/IP thread in a callback (accept, receive, close, error), `srv` the message
handler. Connections are named by their session, request k is two parts of a
stream of which the second ends with the end marker, and segments may split them
anywhere. A buffer is identified by its first part; `heap` is what is allocated. The
model stops when something has been released twice (`twice`), because what
follows is undefined.

## 3. Runs

| Run | Instance | Shows |
|---|---|---|
| `bmcs` | 2 ports, 2 masters, one heard on both ports; quick update on | `TypeOK`, `OneSlave`, `GmIsBest`, `MineIsCurrent`; action properties `AnnounceIsOwn`, `GmLostOnlyByPort`, `TimeoutRepairs`; liveness `HandlerReturns` |
| `bmcs_retry` | 1 port, failing transmissions, paths up to and beyond the limit, a degrading master; quick update off | `PathTraceSound`, `SendsOnlyCapable` |
| `gm_sync` | 2 ports, 2 better clocks, the three kinds of domain | `GmIsSynced`, `ChangeNotForgotten`, `TimeoutSettles` |
| `pdelay_req` | sequence numbers 0..1, one lost response allowed, no fault allowed, AVnu behaviour, interval requests | `ReqTypeOK`, `CapableIsMeasured`, `CapableWhileAnswered`, `CeasingIsSilent`, `T1IsOfTheRequest` |
| `pdelay_live` | the same without interval requests | `RequestsGoOn` |
| `pdelay_resp` | the responder, sequence numbers 0..3 | `FupIsOfItsResp` |
| `gptp_net` | a ring of 2 slots, 3 event messages, 1 frame waiting, both timestamp sources | `WakeNotLost`; the refinement `RingIsFifo`; `TxtsInOrder`; liveness `TimeoutServed` |
| `sync_link` | 2 transmissions, 2 structures to send, 2 frames on the wire | `FupIsOfItsSync`, `MeasuresOneSync`; liveness `WaitsEnd` |
| `site_sync` | 2 ports, intervals of 2 and 3 ticks, timeout of 3 intervals, 10 ticks, 3 Sync messages, 2 changes | `NoEcho`, `NothingExpired`, `LossIsBridged` |
| `simpledb` | 3 keys, one a prefix of another and one that is not saved; values of 1 or 2 bytes; failing writes, deletions by other threads | `SearchExact`, `RangeValid`, `WalkSeesAll` |
| `uniconf` | 1 configuration item, 2 links, the first of a device that is not enabled, 2 clients of which one comes late, may register twice and may leave; 2 writes or link changes together | `NoticeNotLost`, `WritesArrive`, `LinksArrive`; liveness `DeletingEnds` |
| `nconf` | 2 connections that may get the same handle, 2 requests each, every kind of request | `NoBufferLeak`; `ServedInOrder`; liveness `QueueDrains` |

The modules `GmSync`, `GptpNet`, `SyncLink`, `SiteSync`, `SimpleDb`, `Uniconf` and
`NconfServer` state their type invariants as the description of their variables; the
runs do not check them. Those of `GmSync`, `GptpNet`, `SyncLink`, `SiteSync` and `Uniconf` are
theorems (section 4); those of `SimpleDb` and `NconfServer` are in their inductive invariants but for
the bounds of counters.

### Disagreements met while modelling

What a comment, a message or a description says and the code does otherwise, or what the
code loses. The models contain them as the code has them unless the entry says that a case is
assumed away or left out; the properties are stated so that they hold in spite of them, and where a
property exempts a case it is one named here.

* `port_announce_receive_sm.c:127` "path trace TLV not present, empty pathTrace": the entries
  are zeroed, their number stays.
* `gm_stable_sm.c:118`: stable, described in `xl4-ieee1588-ptp-tt.yang:101` as synchronized to
  the grandmaster and stable, stays reported when another clock becomes
  grandmaster over the same port.
* `clock_master_sync_receive_sm.c:441`: after a grandmaster change gmsync is raised to synchronized
  (`xl4-ieee1588-ptp-tt.yang:96`) before a Sync of the new grandmaster.
* `port_state_selection_sm.c:352` "if init_slave_ts is set, defer gptpclock_set_gmsync": the clock source
  request that sm_bmcs_perform makes after every grandmaster change (`gptpman.c:197`) raises
  gmsync to synchronized in the same turn, deferred or not. `GmIsSynced` therefore exempts a domain that
  defers its report only between the selection and that request.
* `md_pdelay_req_sm.c:137` "only after 2 valid responses": `neighborRateRatioValid`
  survives a link that was down (`:237`), so one response is enough then.
* `md_pdelay_req_sm.c:506` "Discard this RESP": the response is used, and the delay is
  computed from two exchanges.
* `md_pdelay_resp_sm.c:267` "send again the same PdelayResp": the stored request may have been
  replaced by one that was rejected (`:366`).
* `tilld/lld_gptpnet.c:534` "just to pop the previously pushed": a failed send removes the oldest
  request of the ring, also when it belongs to another message or when nothing was pushed. A
  request that stays behind is then answered by a later timestamp. `TxtsInOrder` holds in spite of
  it; `PdelayReq` assumes that no timestamp is handed up later than an interval (`Elapse`).
* `tilld/lld_gptpnet.c:162`: with PHY timestamps a received frame posts `statPktSem` only, and the status
  frame task posts the loop only when it finds status frames (`:278`). A general message may so wait
  until the next status frame, and a TIMEOUT event does not read it either. `WakeNotLost` exempts
  received frames with PHY timestamps.
* `md_sync_send_sm.c:493`: the sequence number of a transmit timestamp is not compared. A
  timestamp that arrives after the machine has given it up, because of a link change or
  because its time was over and the Sync was repeated (`:331`), is taken for that of
  the next one. `sync_link` assumes that neither happens (`LateTxts = FALSE`): time then waits for the
  driver, and a restart of the machine drops what the driver still owes.
* `site_sync_sync_sm.c:138`: while the Sync of the slave port is overdue, a Sync of any port is
  taken (`Substitute`); the port may then send back what it received.
* `simpledb.c:572`: the comment leaves the locking of a range to its caller, and no caller locks; the clients
  of `uc_nc_get_notice_act` (`uc_notice.c:909-935`) walk and delete in one area. A walk whose node
  another thread has deleted follows a released node; `RangeValid` and `WalkSeesAll` exempt it from
  there on (`torn`). `Uniconf` makes that walk one step, so that this case is only in `SimpleDb`.
* `simpledb.c:196`: a write of `serialize_one` that fails ends the loop (`:243`), and `simpledb_savedata`
  returns 0 (`:501`) with a file that is cut. `SaveIsComplete` says exactly when entries are missing.
* `uc_notice.c:187` (comment) and `:223`: a write whose request is made while the request before is
  being answered has its request deleted unanswered (`overtaken`).
* `uc_notice.c:829`: a client that registers between the search for the range and the mutex loses
  its semaphore (`orphans`).
* `uc_notice.c:438`: a push posts the semaphore of a client once, also when it has left several notices,
  which a registration for a prefix (`:858`) makes possible, and `gptpgcfg_link_check` takes one
  notice per post (`gptpgcfg.c:878`). gptp registers for whole items only; registrations for a prefix are left out
  of `Uniconf`, and `NoticeNotLost` does not speak of them.
* `cb_link_tilld.c:188`: the new link state is noted before it is written; when a reader makes
  the write fail it is never tried again (`refused`).
* `cb_link_tilld.c:169` "ifname is not enabled, ignore it": the function returns, so that a changed link of
  a device that is not enabled hides the links of the devices behind it, from every query, for as
  long as it differs from the state noticed. `LinksArrive` exempts the links at or behind such a device.
* `cb_link_tilld.c:162`: a query that the driver fails ends uniconf; it is left out.
* `nconf_tlscon.c:251`: the search for a session reads the field of every entry of the table without the test
  for an empty one that the other searches have (a NULL pointer). `NconfServer` passes over an
  empty entry.
* `nconf_tlscon.c:100`: both threads may find and release the same connection (`twice`).
* `nconf_transmngr.c:282`: with a full queue the TCP/IP thread waits with its core lock, which the
  message handler needs to send: both wait for ever. `nconf` has a queue with room for
  what is under way.
* `nconf_msghdlr.c:303`: a buffer that cannot be parsed is not released (`leaked`).
* `nconf_msgdec.c:321`: at most three requests of a buffer are decoded (`NCONF_MAX_MESSAGE_DECODE`); the
  others are released with the buffer, unanswered. `ServedInOrder` is checked and proved for
  segments that cannot complete more.

### Bounds and why they are enough

* Two external ports and the local clock are the smallest system in which ports
  compete for the slave role, one port's handling changes another's pending
  information, and a partial asCapableOrAll is visible. Two masters, one of
  them on both ports, give every comparison: better, worse, same over another
  port. Theorems lift the main invariants to any number of ports.
* `MaxPath = 3` with announced paths of every length up to it and beyond reaches
  the limit with few clocks. `MaxSteps` is the width of stepsRemoved as the
  selection sees it.
* Sequence numbers 0..1 give a response that is equal, smaller and larger than
  the open request, and the wrap.
* `AllowedLost = 1`, `AllowedFaults = 0` are the smallest values at which
  "tolerated" and "too many" both happen; theorems cover every value.
  multiResponses and the history counter `unanswered` are capped where larger
  values behave alike; `since` stops at its last threshold.
* `Pdelay` as a whole has too many states for a complete search (tens of millions
  with one frame in flight) and has no run: that the theorems about the requester hold on the link
  is the lemma `LinkImplementsRequester`.
* A ring of 2 slots wraps, is empty and is full with 3 messages. The semaphores are bounded by 2:
  one post that is taken and one that comes meanwhile; a post more changes nothing.
* `SyncLink`: 2 transmissions are a Sync and its repetition, or two Sync; a wire of 2
  holds a Sync and its Follow_Up, or two frames of different transmissions.
* `SiteSync`: with intervals 2 and 3 ports both agree and disagree with the interval of
  the clock master; 10 ticks are more than a receipt timeout of 9 ticks; 2 changes take a
  role away and give it back.
* `GmSync`: the two better clocks and two ports give every change of grandmaster and of slave port; the
  kind of the domain is chosen at the beginning.
* `SimpleDb`: 3 keys have a first, a middle and a last, and one is a prefix of another, which
  is where `keycmp` and the halving have their edges.
* `Uniconf`: 2 writes are needed for a write that overtakes, 2 link changes for one that meets
  a reader of the first, and a change at the disabled device before one behind it; writes and changes
  together are bounded by 2 (`MaxEvents`), counters of repeated registrations by 2 (`MaxRef`).
* `NconfServer`: 2 connections for a handle that is used again and a session that kills the other;
  2 requests of 2 parts for requests that share a buffer; `MaxDecode = 2` is room for all that a
  segment of `MaxSeg = 2` parts and the part kept before it can hold.

### Fairness

* `Bmcs`: weak fairness of the steps of a handler. The process runs a handler it
  has started; nothing is assumed of events.
* `PdelayReq`: weak fairness of the steps of a handler, strong fairness of the
  timeout and of the passing of time. The event loop computes the time of
  the next timeout and calls a missed one (`gptpnet_catch_event`), whatever other
  events arrive, hence strong. Nothing is assumed of frames, timestamps or
  successful transmissions, so `RequestsGoOn` says only that no wait is
  without end, and not that a request succeeds.
* `GptpNet`: weak fairness of the loop, the status frame task, the completion of a
  transmission and the clock; strong fairness of the return of a callback, which
  may send in between but has a bounded number of messages to send. `TimeoutServed`
  is stated for loops that leave `process_rxdata` infinitely often: nothing in the code bounds it.
* `SyncLink`: weak fairness of the machines, the timeouts and time; the driver
  does not refuse every transmission for ever, and a timestamp comes or is lost. Nothing of frames.
* `Uniconf`: weak fairness of the uniconf thread, of each client's next step and of the
  interrupt; strong fairness of the writer and of registering, which wait for
  `ntmutex`. Nothing makes a client write or leave.
* `NconfServer`: weak fairness of the TCP/IP thread, strong fairness of the message handler,
  which waits for the core lock.
* `GmSync`, `PdelayResp`, `Pdelay`, `SiteSync`, `SimpleDb`: no fairness, only safety is claimed.

Deadlock is checked except where the bounds end a behaviour: `site_sync` (the last tick),
`uniconf` (no write or link change left, everybody waits) and `nconf` (no request left, or
something was released twice). In the others a timeout or an operation is always possible.

## 4. Proofs

Checked by TLAPS with the constants arbitrary under the named assumptions
(`ConstantsAssumption`, `GmSyncAssumption`, `LinkAssumption`, `ReqAssumption`,
`GptpNetAssumption`, `SyncSendAssumption`, `SiteSyncAssumption`, `UniconfAssumption`,
`SimpleDbAssumption`, `NconfAssumption`): any number of ports, any set of Announce messages over any priorities,
any number of sequence numbers, a ring, a link or a queue of any size, any limits, intervals, items,
clients and connections, any keys and values. The assumptions give the constants their types; beyond that
`UniconfAssumption` says that there is an item and that items and clients are finitely many,
`SiteSyncAssumption` that one of the intervals is the longest. A few theorems have a
hypothesis more, named with them below.

*BmcsProofs.* `TypeCorrect`, `OneSlaveAlways`, `GmIsBestAlways`,
`MineIsCurrentAlways`, `AnnounceIsOwnAlways`. `GmIsBest` is not inductive:
it speaks of settled states, and a handler passes through states in which a vector
has changed and the selection has not yet run. The inductive invariant `IInv` adds
what holds in between: a port with changed information has reselect set and the
handler has not yet passed its selection (`ReselectServed`, `SelectedFits`);
received vectors name their own port (`ReceivedOwn`), which makes the best vector
name exactly one slave port; vectors a port made itself are this clock's
(`MineOwn`) and up to date or marked (`MineUpToDate`, `MasterMine`); a
slave port is never told to replace its information (`SlaveKeepsInfo`). The
lemmas on `Superior` (a strict order on vectors of the type) carry the argument
that the minimum that updtStatesTree finds is the best.

`SendsOnlyCapableAlways` follows from `IInv`, for a deferred message too: a port that is to be
disabled has its information disabled before it comes to its transmission (`TurnEnabled`).
`TimeoutAlwaysRepairs` needs `RepairInv`: the state of the information machine fits infoIs
(`PaInfoFits`), the last selection has seen which ports are disabled (`DisabledFits`), and the ports
that the loop of a timeout has already visited (`Turned`) are enabled exactly when they are
capable. `PathTraceAlwaysSound` rests on
`PathInv` (stored paths are free of this clock, pathTrace is one of them with this clock at its
end) and `RcvdFits`, what qualifyAnnounce lets through. Its hypothesis `WithTlv` says that
the neighbours' messages carry a path trace TLV: without one the number of entries of the message
before stays (section 3). `GmLostOnlyByPortAlways` needs that the grandmaster is this clock or
is offered by a port (`GmOffered`): an aged or disabled port, or one with a vector at least
as good. Its hypothesis `WithPriority` excludes messages with an all-zero root quality and
zero steps, for which HAS_PORT_PRIORITY is false, so that the selection passes over the port.

*GmSyncProofs.* `ChangeNeverForgotten`, `GmAlwaysSynced`, from the invariant that
follows a grandmaster change through the handler (`ChangeHandled`) and the order
of the writes to gmsync, the end of a deferral included. `TimeoutAlwaysSettles` needs `SettleInv`: while a timeout rebuilds
asCapableOrAll from port 1 on, it is the disjunction over the ports visited so far
(`CapableFits`), a port that was visited and is not capable offers nothing (`HeardFits`), the selected
grandmaster is the best of what is heard (`TreeFits`) and the state of gm_stable_sm fits both
(`GmFits`). With `OtherTypes`, the types that it does not speak of, it gives `TypeCorrect`.

*PdelayProofs.* `ReqTypeCorrect`, `CapableAlwaysMeasured`,
`CapableOnlyWhileAnswered`. `CapableWhileAnswered` needs
the strengthening `LostAreCounted`: while the neighbour is capable, the requests
since the last measurement are at most those counted in lostResponses and one that is
still open (`Open`). A reset closes the open one and counts it, a new request opens
one, a measurement clears both; when the limit is reached the reset takes the
capability away instead. The lemma `LinkImplementsRequester` maps every step of the
composed system to a step of the requester against its open environment or to a
stutter. Most of it is the way the steps of `Pdelay` are put together; what it adds is that frames
on the wires are well formed (`WireOK`), which needs the type invariant of the requester.

`T1AlwaysOfTheRequest` (`T1Inv`): a transmit timestamp that can still come is of the request that
was sent last, because a request is only sent when those before have come or are overdue, and
a repetition of a failed transmission takes its sequence number back (`NextOfPrev`).
`CeasingAlwaysSilent` (`SilentInv`): with the limit of multiple responses reached the machine is in
RESET, NOT_ENABLED or on its way out, and the counter is cleared before a request goes out.
`FupAlwaysOfItsResp` (`RspInv`): the responder takes and uses a timestamp within one run.

*FrameProofs.* `RingImplementsFifo` (the refinement `RingIsFifo`) rests on `RingInv`: exactly
the slots from `rdi` up to `wri`, going round, are in use, which is what lets the flag of one
slot tell the full ring from the empty one. `PushFacts` and `PopFacts` turn the two index
operations into `Append` and `Tail` of the queue; they are stated for any slots and indices.
`TxtsAlwaysInOrder` adds that the queue is increasing and lies above the message of the last
event (`OrderInv`). `WakeNeverLost` needs `WakeInv`, which says at every point of the loop who
will bring the work that waits to its notice: with CPTS timestamps a post, the rest of the
current turn or, for a request, a transmission in progress, except for the one request of a
send that has just failed and that the end of gptpnet_send takes out; with PHY timestamps, of
timestamps only, the post of the status frame task or of the driver. `NetTypeCorrect` is the type invariant, from the
same one.

`FupCarriesItsSync` and `MeasurementIsOfOneSync` follow from `LinkInv`: a timestamp
that may come is of the last transmission and the machine waits for it (`OneOutstanding`), the
one in hand is of the last transmission as long as a Follow_Up is to be sent with it
(`StampIsCurrent`), and of all frames on the wire or stored at the receiver, the number of a
Follow_Up is not used again and no Sync with it was sent after the transmission it is about
(`FramesOK`). The hypothesis `~LateTxts` says that the driver hands up no timestamp the machine has
given up; with one TLC finds a Follow_Up with the timestamp of another Sync (section 3).
`LinkTypeCorrect` does without it. It needs that every sequence number that was used up was asked
for by an MDSyncSend (`SeqBound`): a failed or repeated transmission takes the number it already
has, so that no number above `MaxInfo + 1` is in hand or on the wire, however often the sender tries.

*SiteSyncProofs.* `NothingEverExpired`, `NeverEchoes` and `LossAlwaysBridged`. The first two follow
from the types of the stored Sync and a case distinction over what the site machine does with a
Sync (it takes it, repeats the stored one, or drops it). The third needs `BridgeInv`: there is a time of
the last turn of the clock master and a time of the last Sync that was sent on, from which the
next turn and the time of the substitute are counted, and the silence is no longer than the time
since them. The longest interval in `LossIsBridged` includes that of the clock master itself.
`TypeCorrect` adds the send machines of the ports (`IsMachine`): what they remember is a port of
the system, and a handler sends from no port another structure than the one it sent on to all.

*SimpleDbProofs.* `SearchAlwaysExact`, `RangeAlwaysValid` and `WalkAlwaysSeesAll`, bottom up:

* the order: `keycmp` decides a strict total order on sequences of bytes (`KeycmpFacts`,
  `LessTrans`), and it is the one that the properties state without the code (`BeforeIsLess`);
* the search: `SearchAnswers` says what `bin_search` gives on any sorted list and for any key. The
  recursive function is shown to exist by building it up over the size of the part that is
  searched (`HalfEquation`), and one turn keeps the place of the key within that part (`OneTurn`). `RangeIs` is the same for `get_range`;
* the list: `InsertAt`, `RemoveAt` and an update keep it sorted and change its keys as they
  should (`Inserted`, `Removed`, `Updated`), and `ReadsAll` says that `deserialize_all` skips
  nothing of a file in order, so that a restart has a sorted list again;
* the invariant `DbInv`: the list and the file are sorted; the key to be written next is in the
  list and above all that have been written; the ends and the node of a walk are in the list and
  in order, and every wanted key has been seen or is ahead of the walk in its direction. Before
  the first step all of them are between the ends, which is what lets `uc_move_bottom_in_range`
  turn the walk round. `RangeValid` alone is not inductive: that the node after a deleted one
  is still in the range needs the order, and `WalkSeesAll` needs to know what is ahead;
* the file: `SaveAlwaysComplete` says that a save leaves the first entries of the list up to
  `LastSaved`, as they are, and all of them exactly when no write failed. `SaveFits` follows it: while it writes, the file is what the
  list holds below the next entry, and the end that was found at the beginning is still the last
  one up to `LastSaved`, because puts and deletions wait for a save. `LoadAlwaysComplete`
  says that a restart brings back the entries of the file one by one, and all of them unless the
  save was cut off.

None of them has a hypothesis. What other threads delete takes an entry out of what a walk has to see; the
parts of the invariant about a walk hold until it is torn.

*UniconfProofs.* `NoticeNeverLost` counts (`NoticeInv`): the notices of a client are at most the
posts of its semaphore, the one that uniconf is about to make for it and the one that it has
taken and not used yet. It holds of registrations for whole items, and not of `orphans`. `WritesAlwaysArrive` and `LinksAlwaysArrive` rest on `ArriveInv`. It joins the
counting with: a request is in the database or its writer or uniconf is about to see to it
(`RequestInv`); an entry that is read is counted (`ReadInv`); a client that never leaves stays
registered (`PresentInv`); and a value that differs from what the hardware, a client or the link
has is on its way: a request, a notice or a thread holds it (`HwFits`, `ViewFits`, `LinkFits`,
`ReadsFresh`). The cases in which the code loses one are in `overtaken`, `refused` and `orphans`.
`LinkFits` also says how far a query has got, and gives up the links at or behind a device that is not enabled and
has changed. `ReadInv` bounds the reader counters of entries, which `TypeCorrect` gives; the counter of a semaphore
has no bound, as a registration may be repeated.

*NconfServerProofs.* `BuffersNeverLost` rests on `LeakInv`. Both threads change the table without a
lock, so the invariant cannot say that an entry belongs to one of them; it says who may still use a handle:
an open connection and its handle lead to each other (`ConnFits`, `PcbFits`), a handle in the
pool is empty, a callback runs for an open connection (`NetFits`), and the handler ends the connection
whose handle it read (`SrvFits`), as long as nothing was released twice.
`RequestsServedInOrder` rests on `PartInv`, which follows every part of a session from the
connection to the request: buffers of one session in the queue, with the TCP/IP thread and in
progress hold increasing parts, all after the requests served (`QueuedFits`, `NetBufFits`,
`InProgress`); a read buffer that is still filled holds the first half of one request
(`FillingFits`); a buffer that starts in the middle of a request ends its session (`GivingUp`); and
every request of a session in the table that arrived and was not served is in some buffer
(`AllKept`), which is what makes the next request the one after the last. Both are stated over the
session, not the handle, so that they survive a handle that is given to the next connection. The
hypothesis `(MaxSeg + 1) \div 2 <= MaxDecode` is the room for requests named in section 3.

Only model-checked:

* liveness - `HandlerReturns`, `RequestsGoOn`, `TimeoutServed`, `WaitsEnd`, `DeletingEnds`,
  `QueueDrains`: fairness and ENABLED are beyond the prover.

Every other property that a run checks is a theorem. No module uses RECURSIVE operators: the
recursive function of `bin_search` and the fold of `deserialize_all` are reasoned about through sets
of numbers (a set that has 0 and the successors has them all, a set that is not empty has a smallest
element), which takes no induction theorem with an operator as its parameter.

## 5. What is not modelled, and why

* Byte layout and conversion of frames (`mdeth.c`), YANG tables, logging, string
  and file helpers, XML: no state of their own.
* Rate, phase and delay arithmetic on doubles and 64-bit nanoseconds: out of TLC's
  reach; its verdicts are nondeterministic choices.
* In Bmcs: static slave configuration, time properties. In the peer delay
  modules: fixed NEIGHBOR_PROP_DELAY, asymmetry measurement, other PTP profiles,
  a missing transmit buffer, the test hooks for injected faults.
* In the network layer: opening and closing of sockets and clocks, the adjustment of
  the timeout interval. In the sync chain: one-step transmission, which the code never switches on,
  more than one domain (each has machines of its own), rate and correction arithmetic.
* In GmSync: the static slave port configuration, with which `init_bridge_proc` and
  `site_sync_sync_sm.c:171` write gmsync.
* In uniconf: speed and duplex of a link, registrations for a prefix, the deregistration of one item, a
  walk that is set back to its top, the process mode, the UDP monitor, the binary configuration file. In netconf: XML and the content of requests.
* More than a third of the repository's C lines (`tsn_uniconf/yangs`) are access functions and
  tables generated from YANG modules, and most of the rest is XML and message encoding,
  hardware access, glue to drivers and operating systems, arithmetic, tools and tests. They have no behaviour that a state machine would show: one call, one buffer, one key. The modules
  cover the parts with state, threads and time; the share of mapped lines stays
  small for that reason.
* gPTP capable, the other interval settings, external port configuration, the clocks in shared
  memory, unibase, the rest of combase: see the plan.

## 6. Plan

Done: `Bmcs`, `GmSync`, `PdelayReq`/`PdelayResp`/`Pdelay`, `GptpNet`, the sync chain, `SimpleDb`,
`Uniconf` and `NconfServer` with their runs and with proofs of every safety property that the runs
check. Next, in this order:

1. Proofs: the bounds of the counters of `SimpleDb` and `NconfServer`.
2. `GptpClock` and a two-domain `GmSync`: active domain, gmsync over domains, shared
   memory read while it is written.
3. `GptpCapable`, `IntervalSetting` (with `LOG_TO_NSEC` as a pure operator), then
   `ExtPortConfig`.
4. `BmcsNetwork`: several `Bmcs` systems on links; convergence to one grandmaster.
5. The memory pool and expandable array of unibase, the descriptor queues of `lldenet.c`, the timers of
   combase.
