# BlueZ in TLA+

TLA+ models of the protocol cores of BlueZ, configurations that check them with
TLC on small instances, and proofs of their main invariants with TLAPS. Paths
below are relative to the root of the repository, except where they name the
modules and configurations beside this file.

- `AttBearer.tla`: the ATT bearer of `src/shared/att.c`
- `AttTransaction.tla`: what a bearer promises its user; `AttRefinement.tla`: the
  mapping under which `AttBearer` implements it
- `AttBearerProofs.tla`: theorems about `AttBearer` for every value of its constants
- `SharedQueue.tla`: `struct queue` of `src/shared/queue.c` as a sequence, used by
  the modules over it; `SharedQueueProofs.tla`: lemmas about its operators
- `MgmtRequests.tla`: the requests of the management client, `src/shared/mgmt.c`;
  `MgmtRequestsProofs.tla`: theorems about it
- `MgmtNotify.tla`: the event handlers of the same client, over `queue_foreach`
  of `src/shared/queue.c`; `MgmtNotifyProofs.tla`: theorems about it
- `GattLongWrite.tla`, `MCGattLongWrite.tla`: long and reliable writes of
  `src/shared/gatt-client.c` composed with the prepare queue of
  `src/shared/gatt-server.c`; `GattLongWriteProofs.tla`: theorems about it
- `GattNotify.tla`: registrations for notifications, `src/shared/gatt-client.c`;
  `GattNotifyProofs.tla`: theorems about it
- `MeshIv.tla`: sequence numbers, IV Update and the node's configuration file,
  `mesh/net.c`, `mesh/mesh-config-json.c`; `MeshIvProofs.tla`: theorems about it
- `MeshRpl.tla`: the replay protection list, `mesh/net.c`, `mesh/rpl.c`;
  `MeshRplProofs.tla`: theorems about it
- `PbAdv.tla`, `MCPbAdv.tla`: provisioning, `mesh/pb-adv.c`, `mesh/prov-acceptor.c`,
  `mesh/prov-initiator.c`, `mesh/remprv-server.c`
- `Gobex.tla`, `MCGobex.tla`: OBEX transfers between two ends, `gobex/gobex.c`,
  `gobex/gobex-transfer.c`
- `ServiceConnect.tla`, `MCServiceConnect.tla`: the calls that connect and disconnect
  a device and its profiles, `src/device.c`, `src/service.c`, `src/profile.c`,
  `src/sdp-client.c`
- `PROJECT.json`: components, runs, the map from definitions to source lines,
  hazards, findings, theorems

Contents: 1 the system, 2 how it is modelled, 3 the modules, 4 the runs, 5 where
code and text disagree, 6 fairness, 7 what is proved, 8 what is not modelled,
9 the plan.

## 1. The system

BlueZ is a set of single-threaded daemons (`bluetoothd`, `bluetooth-meshd`,
`obexd`) over the kernel's Bluetooth sockets. There are no data races. What is
hard is re-entrancy and order: a main loop callback calls back into its user,
who calls the API again, cancels, unregisters or drops the last reference before
control returns; queues of operations outlive the channel they were meant for;
answers come late, twice or never. Mesh adds state on disk and crashes.

### 1.1 The core, by component

| Component | State | Operations | Talks to | Hard | Correct when |
|---|---|---|---|---|---|
| ATT bearer, `src/shared/att.c` | channels; per channel own queue, pending request, pending indication, `in_req`, writer, MTU, security; shared request, indication and write queues | send, resend, cancel, cancel all, respond, attach, set MTU, unref; write, read, disconnect, time-out handlers | GATT client and server above, L2CAP socket below | cancel or unref in a callback; two channels and one set of queues; retry against time-out; disconnect with work queued | one request and one indication in flight per channel; every operation ends once; cancelled ones stay silent; no wake-up lost; `in_req` is true to the peer |
| Management client, `src/shared/mgmt.c` | three request queues, timers, writer, notify list | send, reply, nowait, cancel (id, index, all), register, unregister; answer, time-out, event | adapter, device, mesh, tools; the kernel | answers matched by opcode and index; time-outs; nested callbacks; handlers changing the list being walked | each request ends once, with its own answer; commands one by one; handlers called exactly while registered |
| Queue, `src/shared/queue.c` | linked list | push, pop, find, remove, remove_if, remove_all, foreach | everything | the callback of foreach removes entries | no freed entry is read |
| GATT client, `src/shared/gatt-client.c`, helpers | discovery in progress, CCC registrations, long writes, Service Changed queue | read, write, register notify, reliable write | ATT bearer, GATT database | registrations sharing a descriptor; discovery restarted by the server; cancel in flight | descriptor enabled exactly while someone is registered; a write reported as done is whole; queues drain; ready once |
| GATT server, `src/shared/gatt-server.c` | prepare queue, attribute operations in flight | handlers of every request, notify, indicate | ATT bearer, GATT database | asynchronous attribute writes; requests on several channels | one response per request; the execute is all or nothing as far as the code promises |
| GATT database, `src/shared/gatt-db.c` | attributes, pending reads and writes with timers | insert, remove, read, write | server, client, D-Bus | removal while pending | handles never overlap; a pending access ends once |
| Services, `src/service.c`, `src/profile.c`, with `src/device.c` and `src/sdp-client.c` | state per service; list of services to connect; connections of each profile; SDP searches | Connect, Disconnect, ConnectProfile, DisconnectProfile; connections from outside; completion | applications, policy plugin, kernel, remote device | a profile that completes or fails within the call; two connections of one profile; a search cancelled for another's sake | each call is answered once and truly; the list keeps its driver; services and connections agree |
| Agent, `src/agent.c` | default agent, one request | request, reply, cancel, unregister | D-Bus, device | agent leaves with a request pending | every request is answered once |
| AVDTP, `profiles/audio/avdtp.c` | session, streams, request queues | discover to abort, indications | A2DP, L2CAP | both sides open; callbacks close the session | stream states of both ends agree |
| Mesh network, `mesh/net.c`, `mesh/mesh-config-json.c` | IV Index and phase, sequence number, its cached value in the file, messages sent in segments and those that wait | send, acknowledge, time-outs, beacon, idle save | provisioner, disk, radio | crash between two writes; an update while messages wait | no sequence number twice under one IV Index; the index never goes back; an update ends |
| Replay list, `mesh/net.c`, `mesh/rpl.c` | last number per source, in memory and in a file per source and index | receive, IV Index change, load | disk, radio | a crash inside a file write; a full list | no message accepted twice |
| Mesh provisioning, `mesh/pb-adv.c`, `prov-*.c`, `remprv-server.c` | link, transaction numbers, received segments, protocol step, PDUs put off, timers | open, transact, close, agent answers, cancel | advertising bearer, agents, remote provisioning server | loss, repetition and reordering; sending cancels what is on the air; time-outs at both ends | a PDU delivered once and in order; both ends agree on the outcome |
| GOBEX, `gobex/*.c` | pending request, send queue, single response mode (SRM), the transfer | send, cancel, suspend, resume, respond, put, get | OBEX client and server (`obexd`) | abort against response; time-out; packets encoded when it is their turn; suspending | both ends agree on the outcome of a transfer; no callback of a freed transfer; every transfer ends |
| Bluetooth adapter and device, `src/adapter.c`, `src/device.c` | settings, discovery clients, bonding, connections | D-Bus methods, kernel events | all of the above | D-Bus requests against kernel events | each D-Bus request is answered once |

The other components (HID, HDP and MCAP, PAN, SAP, media transport, LE
audio, advertising, storage, D-Bus library, OBEX daemons, tools) are in
`PROJECT.json` with what keeps them out or when they are planned.

### 1.2 Interaction

Kernel sockets call `att.c` and `mgmt.c` through `struct io`, whose handlers
return whether they want to be called again; the write handler exists only while
there is work (`wakeup_chan_writer`, `wakeup_writer`). The layers above hold ids,
not pointers, of what they sent; results come by callback, the end of an
operation by its destroy function. The two clients differ in one respect that
matters here: in `att.c` a sent operation keeps its slot until the peer answers,
even when cancelled; in `mgmt.c` a cancelled request is forgotten at once.

## 2. How it is modelled

One step is one main loop callback, or the stretch of one between two calls into
user code. A variable says which callback is running (`ctl` in `AttBearer`,
`frames` in `MgmtRequests`, `entry` in `MgmtNotify`). The user's API calls are
enabled whenever user code runs, which is in the main loop and in each callback;
main loop events only when no callback runs. So every re-entrant call the user
can make is explored, and nothing interleaves where a single thread would not.

Data is abstracted to what the properties tell apart: a PDU is its kind and its
length class, an error code what `change_security` does with it, handles and
values are not there. Ids are numbers because they wrap and are reused by
`bt_att_resend`. The peer and the kernel are actions marked external in the map:
they do what the code must stand, within a constant that says how badly they may
behave (`Rogue`, `Forgets`, `EarlyStatus`).

Variables called ghosts in the modules record history (`calls`, `freed`, `ended`,
`heard`, ...) and guard nothing.

Where a property holds but for a case the code does not cover, the case is named
in the property by a ghost (`orphan`, `torn`, `grown`, `stranded`, `leaked`,
`excuse`, ...), and the property fails without the exception. The findings in
`PROJECT.json` and section 5 describe these cases.

## 3. The modules

### 3.1 AttBearer

| In the module | In `src/shared/att.c` |
|---|---|
| `link` | whether the channel is attached, and the state of its socket: `up`, `down` (peer hung up, the disconnect handler has not run), `shut` (`io_shutdown`), `gone` |
| `chanQ`, `pendReq`, `pendInd`, `writer`, `inReq`, `mtu`, `sec` | fields of `struct bt_att_chan` |
| `reqQ`, `indQ`, `writeQ`, `attMtu`, `nextId` | fields of `struct bt_att` |
| an operation's `live` | its callback is not taken away (`cancel_att_send_op`) and not run |
| `leg` | tells apart the operations `bt_att_resend` creates under one id |
| `flush` | the entries `queue_remove_all` has detached and not yet destroyed |
| `wire`, `iwire`, `inbox`, `peerWait` | the peer and the socket buffers |
| `owed` | a request handed to its handler, which has not responded yet |

The callback of a time-out, of a failed write and of a notification handler is
not a control state of its own: in these places the code touches nothing of the
bearer after the callback that the callback could have changed, or (time-out) all
it does is `io_shutdown`. User calls made there are explored as calls made right
after. Where the code does go on with what it read before (response,
confirmation, the disconnection and its flush) there is a control state.

`bt_att_unref` by the user is enabled in the main loop and in the callbacks that
run under a reference of the code's own (responses, confirmations, the three flush
loops). In the callbacks of a time-out, of a failed write and of the operations
pending on a channel that is being detached the code holds none; there the call is
left out, since the users keep a second reference until they are told of the
disconnection (section 8).

What the socket has buffered is read until the channel is freed (`Readable`), also
after `io_shutdown`: a response may come after its request timed out, when the slot is
empty, and is one nobody waits for.

Two constants state preconditions. `MtuAlone`: an Exchange MTU request is sent
only with no request pending on the fixed channel. `gatt-client.c` sends it first
thing, and `bt_att_send` does not enforce it. `Rogue`: whether the peer may break
the protocol.

Bounds: `MaxId`, `MaxLegs`, `MaxQueue` stop the user and the peer from sending
for ever; `MaxLen` is the number of PDU length classes, which are also the MTUs.

### 3.2 MgmtRequests

`request_queue`, `reply_queue`, `pending_list` hold ids in the order of the code's
queues; `timer` is the set of requests with a `timeout_id`; `kernel` what was
written and not answered. `Completed` is the choice `request_complete` makes: the
first pending request with the answer's opcode and index, else the first with its
index. A callback may call the API: it sends, cancels this request or others, or drops
the client, and `mgmt_send_nowait` that fails calls back inside it. Hence the stack
`frames`, at most `MaxFrames` deep; user code runs inside a callback if `MaxFrames` is
at least 2. `can_read_data` runs answers
on a reference of its own: `Guarded`. A time-out runs on none: `mgmt_unref` in its
callback frees the client at once, as in the code.

### 3.3 MgmtNotify

A handler is in `notify_list` or its queue entry is freed. `entry` and `next` are
the two pointers of `queue_foreach`; `broken` records that it has read a freed
entry. `mgmt_unregister` unlinks at once, also during the walk;
`mgmt_unregister_index` and `mgmt_unregister_all` only mark. `due` is whom the
event was for when it came in, `heard` who was called.

`MgmtRequests` and `MgmtNotify` share no state but the reference count: an event
is handed out by `can_read_data` only when no request's callback runs.

`SharedQueue` is what both, `AttBearer` and `GattNotify` make of `struct queue`: a
sequence of the entries' data. `Without` is `queue_remove`, `queue_remove_if` and
`queue_remove_all`; it picks the entries that stay by their rank, without recursion, so
that what it returns can be proved.

### 3.4 AttTransaction and AttRefinement

`AttTransaction` is the bearer as its users know it: an operation is accepted, with a
callback (`open`) or without one (`mute`, a command), runs its callback at most once,
is silent after it was taken back, and ends. One that is open does not end without its
callback: `End` is for the others, and `Drop`, the end of an open one, asks that the
user has let go of the bearer (`held`) or that the operation waits in the own queue of
the channel that is being destroyed (`lost`). The peer has one operation per slot. The
mapping of `AttRefinement` reads the stage of an operation off `freed`, `silenced`,
`calls`, `nextId` and the `live` of what the queues and slots hold, and a slot off
`pendReq` and `pendInd`. One step of the bearer (a disconnection) may be a step of many operations,
so a step of the promise is a step of each. The retry after a security error releases
the slot of an operation that has not ended; the promise allows it.

### 3.5 GattLongWrite

| In the module | In the code |
|---|---|
| `in_long_write`, `long_write_queue`, `session` | fields of `struct bt_gatt_client` |
| `index`, `cur_length`, `success` | fields of `struct long_write_op` |
| `req_queue`, `pending`, `mtu`, `up` | `att->req_queue`, `chan->pending_req`, `att->mtu`, `att->chans` |
| `stage` | how far the request of a channel has got at the server |
| `prep_queue`, `item` | `server->prep_queue` and the entry `exec_next_prep_write` waits for |
| `wrote` | ghost: the bytes of each caller that reached the attribute |

The two ends are composed over a bearer reduced to one queue, a slot per channel and
`bt_att_resend` at the head of the queue: what `AttTransaction` promises plus the
order. The attribute's owner may take any time and may refuse, both when a prepare
is authorised and when it is executed. Lengths are counted in prepares of the
default MTU. `start_next_long_write` is a step of its own (`ctl`), since the callback
of the finished write runs before it and may make calls. `long_write_queue` is a queue of
`SharedQueue`, from which a cancellation takes a write with `Without`.

### 3.6 GattNotify

One characteristic with a CCC descriptor; `writes` are the CCC writes in flight, which
on several channels may arrive in any order. `skew` is the difference between the two
counters of ids, which `complete_unregister_notify` mixes up: 1 makes the
cancellation hit the write before, 2 the one before that, 9 none. The callbacks of the
registration, called in the loop that drains `reg_notify_queue`, make no calls here.

### 3.7 MeshIv

| In the module | In the code |
|---|---|
| `seq`, `iv`, `ivu`, `state`, `timer` | `seq_num`, `iv_index`, `iv_update`, `iv_upd_state`, `iv_update_timeout` of `struct mesh_net` |
| `sarOut`, `sarQueue` | `sar_out`, `sar_queue`, by destination |
| `jnode`, `disk` | the configuration in memory and the file |
| `idle` | the idle queue of the main loop: `idle_save_config` and `send_msg_pkt_oneshot` in the order they were put there |
| `timer` | `off`, `set`, or `due`: its time is over and `iv_upd_to` has not run |
| `sameMs` | the millisecond of `write_time` is not over |
| `busy` | the loop over segments under way |
| `top` | ghost: the numbers that went on the air, by index |

A restart starts from `disk`, whatever was in memory; `cleanup_node` first saves the
true number. `SeqWrites` is `mesh_config_write_seq_number` with its three early
returns; the rate the code measures is a nondeterministic addition (`Rates`). A
number out of range is taken but its PDU is not built. Any number of numbers may be
used while `sameMs` holds, which is set by each save and by each start, as `write_time`
is; those the configuration does not cover are `bare`.

`iv_upd_to` samples `sar_out` and `sar_queue` when its timer is due and sets the timer
again if it finds a message (`SarPending`). `mesh_net_iv_index_update` may fail to save
the configuration (`FailUpdate`): the update does not begin, but `jnode` keeps the new
index, and the next save writes it. The other writes of the index, in `iv_upd_to` and
for a beacon, succeed in the model; the code ignores their result. `iv < MaxIv` bounds
the node's own updates: an update that would pass it is not started.

### 3.8 MeshRpl

`cache` is `net->replay_cache`, `file` the directories of `rpl.c`. Any message may be
heard at any time and again; `net_rx` decrypts those of the current index and the one
before. A write may fail or be cut short by a crash after the truncation
(`PutEmpty`) or before the old entry is removed (`PutBoth`); the directories of an
old index are removed one at a time (`CrashInUpdate`). The IV Index itself is saved
before `rpl_update` and is what the restarted node starts from: how it gets to the
disk is the business of `MeshIv`.

### 3.9 PbAdv

| In the module | In the code |
|---|---|
| `adv` | `struct pb_adv_session`: link, transaction numbers, expected and received segments, the buffer |
| `air` | what `mesh_send_pkt` repeats until `mesh_send_cancel` |
| `int`, `acp` | `struct mesh_prov_initiator`, `struct mesh_prov_acceptor` |
| `rpb` | `rpb_prov->state` of the remote provisioning server |
| `prompts` | requests to agents and to the application |
| `sent`, `got`, `told`, `excuse` | ghosts |

An advertisement on the air is heard any number of times, in any order, or never. A
handler is one step through all layers: a packet that completes a PDU runs
`pb_adv_packet`, the server's report and the role's handler at once, as calls between
client and server of one node are synchronous. Both ends compute a confirmation from
the same inputs or not: `Knows` and `proof`.

### 3.10 Gobex

| In the module | In the code |
|---|---|
| `obex[e]` | `struct _GObex` of the client and of the server; `write_source` is whether the handler is installed, `srm`, `srmp`, `srmpOut` the `struct srm_config` |
| `tx_queue`, `pending_req` | the packets that wait, the request that is not answered; `id` 0 for what awaits no answer, `cb` is `rsp_func` |
| `transfer` | the one `struct transfer` of each end; `x` stands for its address, `n` for the client's transfer it belongs to |
| `leaked` | timers whose `timeout_id` was overwritten |
| `idle` | requests taken out of the queue whose `cancel_complete` has not run |
| `told` | ghost: what `complete_func` was told, and whether the object was whole |
| `broken` | ghost: a callback or a read of something that was freed |

Both ends run the same code. The user of the client does what `obexd/client/transfer.c`
does with a transfer (cancel once, suspend, resume), that of the server what
`obexd/src/obex.c` does (accept or refuse an object, suspend while the object is not
ready). The client starts a GET by `g_obex_get_req`. `obexd/client/transfer.c` sends the
first request of a GET itself (`g_obex_send_req` with `get_xfer_progress_first`, 845) and
starts the transfer when the first part has come (`g_obex_get_req_pkt`); a cancellation
of that first request removes it at once (`g_obex_cancel_req` with `TRUE`, 154-175). That
path, and `g_obex_cancel_transfer` of a transfer without a request or of one that is
not found, are not in the model. The body of a packet is produced
when the packet is written: `Produce` calls the producer of the transfer the packet
points to, which may be one that was freed. `transport` is whether the transport
carries packets; SRM is negotiated then. `Faults` says what may happen besides the
transfers themselves.

### 3.11 ServiceConnect

| In the module | In the code |
|---|---|
| `pending`, `connect`, `disconnect`, `disconnects` | `pending`, `connect`, `disconnect`, `disconnects` of `struct btd_device` (`src/device.c`) |
| `browse` | `struct browse_req` |
| `svc` | the state of each `struct btd_service` (`src/service.c`) |
| `conns` | the `struct ext_io` of each profile, in the order of `ext->conns` (`src/profile.c`), by what they wait for |
| `searches` | `context_list` of `src/sdp-client.c`: who started each search |
| `link`, `timer`, `down` | `bredr_state.connected`, `disconn_timer`, whether the kernel was told to disconnect |
| `told` | ghost: the answers each D-Bus call got |
| `dropped`, `stalled`, `crossed`, `refused`, `crowded`, `linkless` | ghosts for the exceptions |

A handler with every callback it runs is one step, written as operators that take the
state of the daemon and give the next one. The device is BR/EDR only, bonded as far as
needed, powered, and its profiles are those of applications (`ext`). A freed owner of a
search that is called back (`Dangling`) is undefined behaviour: the model stops there
and promises nothing. `btd_device_is_connected` is true while the link is up or any
service is connected, so a device is "connected" after its link has gone until the
sockets of its services have hung up.

The modules share no state with each other except as said; `GattLongWrite` and
`GattNotify` describe two uses of one bearer, `MeshIv` and `MeshRpl` the two halves of
one node.

## 4. The runs

`CHECK_DEADLOCK FALSE` everywhere: each system stops when its bounds are used up,
the last reference is gone, or the procedure is over.

| Run | Instance | Shows |
|---|---|---|
| `att_single` | 1 channel, 2 ids, requests, indications, commands, a peer that breaks every rule, also after a time-out; fair | `TypeOK`; the bearer implements `AttTransaction`, liveness included (`Transactions`) |
| `att_eatt` | 2 channels, 2 MTU classes, 2 ids, Exchange MTU | `SlotInv`, the invariant of a proof; `NoLostWakeup`; no operation lost or doubled (`NoOpLostOrDoubled`) |
| `att_server` | 1 channel, 2 ids of 2 legs, the peer's requests and indications, handlers for both | `NeverBlamed` |
| `mgmt_requests` | 3 requests, 2 opcodes, callbacks that call the API, 2 deep, cancelling, failing writes, an early status, forgetting kernel; fair | `OneOwner`, `ToldAtMostOnce`, `AnswersMatch`, `EveryRequestEnds` |
| `notify_walk` | 4 handlers, 2 indexes | `NextAlive`, `SilentAfterUnregister`, `EveryHandlerHears` |
| `gatt_write` | 2 long writes, one of which may be cancelled, a session, a fixed and an EATT channel; fair | `WrittenWhole`, `OneWriterPrepares`, `NoResidue`, `EveryWriteTold` |
| `gatt_notify` | 4 handlers, one without callback, three skews of the ids; fair | `ToldMeansOn`, `OffWhenUnused`, `AssertHolds`, `EveryRegistrationTold` |
| `mesh_iv` | 3 values of the IV Index, 4 numbers of which an update takes the upper half, messages of 2 segments, failing saves, 1 restart; fair | `NoncesFresh`, `IvNeverBack`, `UpdateEnds` |
| `mesh_rpl` | 2 sources, room for 1, 2 numbers, 3 values of the index, 1 restart | `NoReplay` |
| `pb_adv` | one session with each of the 8 authentications, failing agents, refusal, cancelling, time-outs; fair | `Agreement`, `DeliveredInOrder`, `NothingOverwritten`, `NoNullUse`, `Completes` |
| `obex` | 2 objects of 3 chunks over a stream, with refusals, failing producers, waiting, cancelling, suspending and hang-up, or over packets with SRM, with waiting, suspending and hang-up; fair | `NotBroken`, `Agreement`, `NoMix`, `EveryTransferEnds`, `FailSilently` |
| `services` | 2 profiles, one found by SDP, one by its channel; 2 calls, 2 acts of others; fair | `PendingDriven`, `SessionMatches`, `SearchesOwned`, `RepliesTrue`, `EveryCallAnswered` |

Each module has one type invariant. Only that of `AttBearer` is an invariant of a run:
it says more than ranges. The others are there for the proofs and for whoever changes a
module.

Why the bounds are enough for the cases that matter.

- ATT. Two ids give a request in the slot with one queued behind it, a callback that
  cancels the other, and a retry that meets a queued request. Two legs (`att_server`)
  give the resend from a callback. Two channels give all the sharing there is: the code treats
  channels alike except the oldest and the last. Two length classes give a head of
  queue that fits one channel and not the other.
- Management. Three requests give a pending one, a queued one and one sent from a
  callback; two opcodes give a right and a wrong match. Two frames give a callback in
  which the user cancels another request, or one index, or has a second callback run. The
  opcodes are interchangeable, so the constraint `FirstOpcode` fixes that of the first
  request; what it cuts off never comes back to what is kept. Four handlers give one that
  runs, the next, one before and one registered during the walk.
- GATT. A value of two units over a channel of one unit takes two prepares, over the
  other one; two prepares of room at the server give a full queue. Four handlers give
  one that enables, one that relies on it, one that waits, and one that leaves.
- Mesh. Four numbers and the first refused one are enough for the number to run out, for
  a reset number to meet old ones, and for several to be used in one millisecond. Three values of the index give two updates in a row, so that a
  message can be two indices old. `Value` and `Trigger` keep their order (the file is
  brought up to date before it is overtaken), and the largest control message takes
  three numbers, more than `Value`. One crash is enough for the properties, which
  relate a state before it to the states after it. Two sources with room for one give
  the full list.
- Provisioning. One session is all there is: both ends are freed after it. Public key
  and data take several segments, the other PDUs one. The numbers keep their width
  (bytes) and start where the code starts them.

- OBEX. Two transfers are enough for one to meet what the one before left behind. Two
  chunks give a first packet, one in the middle and the end; SRM needs three, so that
  the sender is ahead of the other side. Two suspensions give one at each end at once.
- Services. Two calls give one that waits while another comes, or a `Disconnect` during
  a `Connect`. Two profiles give a list whose head fails and whose rest goes on, with
  one that needs a search and one that does not. Two acts of others let a connection
  from outside meet one of ours, and the link break.

Each passing run has a mutant of the code for each of its properties (a slot not looked at, a
queue not flushed, a file not written, an acknowledgement of an earlier PDU taken,
...): they stand beside the definition they replace, commented "Mutant", and each
makes TLC find the property violated.

## 5. Where code and text disagree

No run expects a violation: what the code does against its own text is an exception
named in a property of a passing run, by a ghost or by a constant, and the property
fails without it. The findings in `PROJECT.json`, in short:

- Mesh: a message that waits in `sar_queue` behind one that timed out is orphaned
  (`mesh/net.c:1532`), keeps its old index, and is sent later under numbers that start
  again; the save of the number is skipped in the millisecond after a save or a start
  (`mesh/mesh-config-json.c:2392`), on the assumption that one is pending, so that a
  number that was sent may be used again after a crash (`bare`).
- Long writes: a write that had to wait is always reported as failed
  (`src/shared/gatt-client.c:3196`); a bearer whose MTU grows cuts a write short and
  reports it as done (3319).
- Notifications: two disables in flight run into an assertion (2211); the id given to
  `bt_att_cancel` is not an ATT id (2203).
- Provisioning: data after the acceptor's time-out call a null pointer
  (`mesh/prov-acceptor.c:668`); PDUs after `initiator_cancel` read through one
  (`mesh/prov-initiator.c:980`).

- OBEX: the ABORT of a cancelled transfer waits in the queue, which is emptied when
  the answer that overtook it ends the transfer (`gobex/gobex-transfer.c:92`); the
  server goes on with a transfer the client has forgotten.

- Services (`src/device.c`, `src/profile.c`): DisconnectProfile of a service that is
  still connecting, and the end of its application, take the head off the list of
  services to connect without going on to the next (`stalled`); Disconnect frees the
  message of a Connect that waits for the services, which is never answered (`dropped`);
  `bt_cancel_discovery` cancels the first search of the device, whoever waits for it
  (`crowded`, `Owned`); an application that refuses to disconnect has its connection
  closed and stays "connected" (`refused`); any profile that disconnects answers a
  DisconnectProfile, and a disconnection that fails at once is answered twice
  (`RepliesTrue`); a Disconnect that finds no link but a service still connected is
  answered at once and again when the next link ends (2083), or waits for a link that
  has gone, if that service cannot be disconnected at the time (2089; `linkless`); `-EALREADY` of `ext_connect_dev` for a connection that only waits for
  authorization passes for success (`Leftover`). What
  needs `ext_disconnect_dev` to fail with `-EBUSY` takes `MaxOthers = 3` to be seen.

What breaks `Gobex` outside its run, by the constant `Faults`:

- `"consume"` (the client cannot store what it gets): no ABORT is sent, and the
  server's transfer meets the next object (`NoMix`).
- `"decline"`, `"produce"` or `"cancel"` under SRM: only the queued PUT of a transfer
  is taken out when it is freed, the pending one keeps its callback, and a CONTINUE in
  the queue of the server its producer (`NotBroken`).
- `"pause GET"` with either transport: `g_obex_resume` sends a GET and sets a new timer
  for every GET that is pending, though only under SRM did `g_obex_suspend` remove the
  old one (`gobex/gobex.c:1012`). The old timer fires when the request is gone, and
  `req_timeout` asserts that there is one (`gobex/gobex.c:238`; `NotBroken`).
- `"late"`: an answer nobody waits for is to be ignored ("fail silently",
  `gobex/gobex.c:1370`), but the test takes CONTINUE, 0x10 without the final bit, for a
  request, and the connection is dropped (`FailSilently`); the late answer is also taken
  for that of the next request (`Agreement`).
- `"race"` with `"hangup"`: a write that fails calls and frees the request, which
  `pending_req` still names (`gobex/gobex.c:496`; `NotBroken`).

Five statements about the bearer and the management client fail on instances other
than those of the runs. To see a counterexample, take the module, the constants and
the property:

- `CancelSilences` (`AttBearer`; `NChans = 1`, `MaxId = 2`, `MaxLegs`, `MaxLen` and
  `MaxQueue` 1, `ClientKinds = {"REQ"}`, no kinds of the peer, `Rogue = FALSE`,
  `MtuAlone = TRUE`): a cancellation from a callback that `disconnect_cb` runs does not
  reach the operations of the queue that is being flushed, since `queue_remove_all`
  has detached them ("Just cancel since disconnect_cb will be cleaning up",
  `src/shared/att.c:1784`).
- `DisconnectNotifies` (the same with `MaxId = 1`): a request in the channel's own
  queue (put back for a retry) is destroyed without its callback when the channel goes
  ("Notify request callbacks", `src/shared/att.c:695`).
- `NeverBlamed` (two channels, `MaxId = 1`, `PeerKinds = {"REQ"}`, `Handled = {}`):
  `respond_not_supported` answers through the queue all channels share; the answer may
  leave on another channel, and the next request on the first is taken for a protocol
  violation (`src/shared/att.c:1074`).
- `OpcodeIdentifies` (`MgmtRequests` as in `MgmtRequests.cfg`, but `Kinds = {"send"}`,
  `Forgets` and `Abandons` false): after a time-out the late answer ends the next
  command for the same index (`src/shared/mgmt.c:296`), though the opcode identifies
  the command (`doc/mgmt.rst:4181`).
- a command queued behind one the kernel forgot (`src/adapter.c:4567`) is never written,
  since `request_timeout` does not wake the writer: `EveryRequestEnds` without its
  exception `forgotten`, as in `MgmtRequests.cfg`.

Also seen:

- a Command Status with status success ends the request although `doc/mgmt.rst:4194`
  calls it an early status (`src/shared/mgmt.c:397-405`);
- a handler that unregisters the next one by `mgmt_unregister` frees the entry
  `queue_foreach` turns to (`InCallback` of `MgmtNotify` with `"next"`); a handler
  unregistered by `mgmt_unregister` during the walk is never destroyed, because the
  clean-up looks for it in the list it was taken from;
- a channel whose MTU is smaller than the head of a shared queue loses its write
  handler and is not woken when another channel has sent that head; since `att->mtu`
  never falls again, a head cut for a channel that has gone blocks the others;
- the cancellation of a long write in flight only adds an execute request at the tail
  of the queue (`src/shared/gatt-client.c:2599`), so the write may be done first, and
  a queued one is removed without its callback;
- a registration without a callback (`src/shared/gatt-client.c:1815`) is counted without
  writing the descriptor, and a failed enabling leaves its count: later registrations
  are told that notifications are on (`misled` of `GattNotify`);
- a close indication is reported to the provisioner as a state no client acts upon
  (`mesh/remprv-server.c:167`), which waits for its time-out; a node that refuses the
  data has already sent COMPLETE (`mesh/prov-acceptor.c:660-680`);
- an agent that answers for the public key before the start PDU was heard
  (`mesh/prov-initiator.c:371`), or after the provisioner's key came
  (`mesh/prov-acceptor.c:509`), jams the exchange until a time-out.

## 6. Fairness

`AttBearer!Fairness`: weak fairness of each channel's write watch, time-out and
disconnect handler, and of the return of callbacks. The main loop polls every
watch in each iteration, a `timeout` source is served once due, and a watch whose
descriptor reports an error is either called or removed. Reading is not assumed,
nor does the peer or the user owe anything: an operation that nobody answers is
ended by its time-out. The time-out is the only clock and may come at any time
after the PDU was written.

`MgmtRequests!Fairness`: the write handler, the return of callbacks, a timer as long as
some request has one, and an answer as long as the kernel owes one for a command it has
not forgotten; which request is served first is left open. Once it has forgotten one
(`forgotten`) `EveryRequestEnds` promises nothing.

`GattLongWrite!FairSpec`, `GattNotify!FairSpec`: the main loop delivers what is due and
the server answers each request, with whatever verdict. Users owe nothing: a session
that is not executed may stay open, and `EveryWriteTold` says so.

`MeshIv!FairSpec`: weak fairness of time (`TimerDue`); strong fairness of the handler of
the update timer once it is due and of the head of the idle queue, because a handler
that runs in between disables them for a moment (`busy`, the bound `MaxIdle`) and the
main loop serves them all the same. Strong fairness makes `iv_upd_to` run, not find
what it looks for: if it always finds a segmented message it sets its timer again for
ever, so `UpdateEnds` is stated for nodes that stop sending segmented messages
(`NoMoreSegmented`). Strong fairness of
`outmsg_to`, whose timer is set once for a message and not by its retransmissions;
weak fairness of the loop over segments. No beacon and no message is owed.

`PbAdv!Fairness`: what is repeated without end is heard in the end (weak fairness per
segment and for opening); an acknowledgement that is put on the air again and again is
heard once (strong fairness); agents answer. No timer, close indication or cancellation
is owed, so `Completes` does not rest on a time-out.

`Gobex!FairSpec`: weak fairness of the write, read and hang-up handlers of each end, of
`cancel_complete` and of the timer of the pending request: the main loop serves them
all; and who has suspended an object resumes it. Except with the fault `"late"` a timer
fires only when nothing else is under way, since it is set to seconds and an answer
that is on its way takes less.

`ServiceConnect!FairSpec`: weak fairness of all that is due taken together (`Due`):
searches, authorizations, sockets and D-Bus calls end, well or not, each by a time-out of
its own; sockets hang up when the link is gone; the kernel drops the link it was told to
drop. One condition for all is enough, as each of these happens a bounded number of times
before others must act. No call, connection from outside or exit is owed.

## 7. What is proved

`AttBearerProofs` proves, for every number of channels, ids, legs and length
classes and every set of kinds the user and the peer send:

- `TypeCorrect`: `Spec => []TypeOK`, from `BearerAssumption` alone, whatever the
  peer does. `TypeOK` is more than ranges: it says which kinds of operation each
  queue and slot may hold, so that the writer never finds a response in a slot.
  One lemma per action, `NextType` collects them.
- `SlotsHold`: with `~Rogue` and `MtuAlone`, `Spec => []SlotInv`.
- `SequentialHolds`: under the same assumptions, `Spec => []SequentialProtocol`.

`SequentialProtocol` (on a channel that is up, at most one request and one
indication are unanswered, and they are those in the slots) is not inductive:
`pick_next_send_op` takes what is in the channel's own queue without a look at the
slot. `SlotInv` adds what makes it so, per channel: a request in the channel's own
queue has reserved the empty slot and is the only one there (`SlotReserved`); while
a response callback runs the slot is full and nothing is on the wire
(`Delivering`); the correspondence also holds while the peer has hung up
(`WireMatches` for `new`, `up`, `down`); and no stray response is under way. The
proof has one lemma per action. The interesting ones are the write (`SlotWrite`),
the retry after a security error (in `SlotReadRsp`: it empties the slot and
reserves it), the end of a callback (`SlotEndCallback`) and the Exchange MTU
request (`SlotSend`, the only place `MtuAlone` is used). `~Rogue` is used for
strays: a peer that sends a response nobody asked for may complete a request it
has not read, after which the next one goes out, and two are unanswered.

It also proves two properties of the queues and of the server side. Neither is
inductive, and each needs an argument of its own:

- `WakeupsHold`: `Spec => []NoLostWakeup`, from `BearerAssumption` alone, whatever the
  peer does. `WakeInv` is the exact form of what the code relies on: an idle channel
  has nothing it could write (`WakeOK`), where one thing is excepted, a
  `bt_att_set_mtu` inside a response callback (`InRsp`), which wakes nobody until the
  callback ends and `handle_rsp` does so; with it, that nothing in a shared queue is longer
  than `att->mtu` and no channel has a larger MTU (`SizeInv`), that the MTU request is only
  on the oldest channel (`OrderInv`), and what a callback or a close under way says of its
  channel (`CtlInv`). Most
  steps are `Calm`: no channel comes up, no MTU changes, nothing too long is queued, and
  a channel that gets work is woken. For those one lemma says that `WakeOK` is kept.
- `NeverBlamedHolds`: `Spec => []NeverBlamed` for `~Rogue` and `Handled = PeerKinds`.
  `ServeInv` says per channel that a request in service means that the peer waits and
  that the one response is still owed by a callback or queued on the channel, never both
  and never twice. The second hypothesis is the case the code gets wrong:
  `respond_not_supported` queues its error in the queue of the bearer, from which another
  channel may send it.

It also follows the operations through the bearer, for `MtuAlone`:

- `NoneLostHolds`: `Spec => []NoOpLostOrDoubled` for `MtuAlone`, rogue peers included.
  `PlaceInv` says that an operation that has been created and not freed is in exactly one
  of the queues, slots and hands of the bearer and any other in none (`Placed`), that no
  queue holds it twice (`Solo`), that a request in the channel's own queue has its slot
  kept empty (`SlotReserved`), and that what is closed or not attached holds nothing
  (`TidyInv`). Every action is one of four kinds of step: nothing moves (`StillKeeps`),
  one operation goes (`FreeKeeps`), moves (`MoveKeeps`) or comes (`BeginKeeps`); the
  steps that free whole queues are `FreeMany` and `FlushMoves`. Without `MtuAlone`
  `pick_next_send_op` puts the MTU request over another one in `pending_req`.
- `SafeHolds`: `Spec => Safely`, the safety part of the refinement of `AttTransaction`,
  rogue peers included. The mapping reads `silenced` and `calls`, which say nothing of
  where an operation is, so it needs `CallInv`: a callback has run only for an operation
  that is freed or is being called back, what the bearer holds of an operation
  that was taken back has no callback any more (`live`), and what has none is a command
  or was taken back. Each step is shown `Orderly`: no operation gets a callback back or
  loses it but by being taken back (`CallbacksKept`, `Silences`), none is freed with a
  callback that has not run but where the abstract specification allows it
  (`NoneDropped`), at most one callback runs, of an operation that the bearer held
  (`Tells`), who is in a callback has been called (`Enters`), and none is created in a
  step that frees one (`Begins`). From `Orderly` the
  lemma `OpFrame` gives the abstract step of every operation; the slots move by
  `pick_next_send_op` (`Send`) and by what empties `pending_req` and `pending_ind`
  (`Release`). The security retry is the step that looks wrong and is not: the slot is
  released though the operation has not ended, and that is allowed only while it has
  not been told. The other half of `Transactions`, that what was accepted ends,
  is liveness and stays with TLC.

`SharedQueueProofs` has the lemmas all of these use about `src/shared/queue.c`:
`Without` (remove) and `Append` are defined without recursion, and `FirstPlace`,
`WithoutPlaces`, `WithoutKeeps`, `AppendKeeps` and `TailKeeps` say what is where
afterwards.

`MgmtNotifyProofs` proves `SilentHolds`, `HearsHolds` and `NextAliveHolds`: after
`mgmt_unregister` a handler is not called, an event that arrives reaches every handler
that is registered for it, and the entry the walk goes on from has not been freed. The
invariant speaks of the list (who is on it, marked or not), the walk (a walk under way
keeps removed entries on the list, so the next one is still there) and of what has been
heard so far. `NextAliveHolds` has the hypothesis `"next" \notin InCallback`: no callback
unregisters the handler that comes next. With it the property is false where the entry is
removed at once, which is a hazard of section 5 and not something to assume away in the
other two theorems.

`MgmtRequestsProofs` proves `OneOwnerHolds`, `ToldOnceHolds` and `AnswersMatchHolds` from
`MgmtAssumption`. `OwnInv`: no id is in two of the queues and in the callback under
way, and it is in one exactly if it has been created and not destroyed; `ToldInv`: who is
still waiting has not been told; `MatchInv`: until something is given up (`NothingGivenUp`)
the requests the kernel has and has not answered are those of `pending_list`.

`GattNotifyProofs` proves `ToldHolds`, `OffHolds` and `AssertNeverFails`: who is told that
the registration is complete does get notifications, nobody leaves the CCC on without
a user, and `assert(notify_data->chrc->ccc_write_id)` fails only where a disable was sent
over a write in flight; each with the exceptions the property names (section 5). The invariant relates
the count of users, the CCC write in flight and the queue of those that wait for it
(`CountInv`, `QueueInv`, `EnablesInv`, `FlightInv`).

`GattLongWriteProofs` proves `WrittenWholeHolds`, `OneWriterHolds` and `NoResidueHolds` (and
`LongTypes`) from `LongWriteAssumption` alone, for any number of writes and channels,
values of any length and any limit of the prepare queue. The three properties look at the
server, and what makes them true is at the client, so the invariant follows the requests
from one to the other:

- `OwnInv`, which holds in every mode: each request that waits or is in flight is what the
  state of its caller says it is (`Matches`: the offset of a prepare is `index`, its size
  `cur_length`), and no caller has two, but for the CANCEL of a long write.
- `LineInv`: unless `Overtaken`, at most one channel is busy, and `Line` is the request in
  flight followed by those that wait. Only its head can be a continuation (`bt_att_resend`
  puts those at the head of the queue) or the execute of a long write; the others are
  first prepares. A session that is open or ends excludes long writes, and the
  requests of long writes are ahead of those of the session. As long as `in_long_write`
  guards every write, there is one request.
- `StoreInv`, unless `Lost`: what is prepared at the server belongs to the head of the line
  or to the session that is open, and an execute that has been carried out or refused leaves
  nothing.
- `CoverInv`: the write at the head has prepared every byte below its offset, all of them
  when it executes; and while `exec_next_prep_write` walks, each byte is still stored, is
  being written or has been written. That the last part is known by being shorter than the
  MTU (`AllPrepared`) is where `grown` comes in: a part is as long as it can be only while the
  MTU stays what it was.

There is one lemma for each way the line changes (`KeepSerial`, `AppendSerial`,
`SendSerial`, `DropSerial`, `ResendSerial`) and one for each action above them. A
write is told success only in the callback of its execute, when `CoverInv` has the whole
value written.

`MeshRplProofs` proves, for every number of sources, entries, indices and restarts and
from `MeshRplAssumption` alone, `RplNoReplay`, `Spec => []NoReplay`, by way of `RplTypes`
and `RplCovers`.

The inductive invariant `RplInv` says of every message that was handled that the files
know it (`DiskCovers`: its number, or a higher one, or any number under a higher index,
can be read) and the list in memory too; the second also for torn sources as long as the
process has not been restarted, since a torn file harms only the next process. It needs
`FilesBelow`, no readable number under an index above the node's, without which the
removal of old directories could take away what the highest file hides. What
`rpl_get_list` makes of the files is a choice of a highest index; `HasMax` shows from
well-foundedness that there is one, `LoadedCovers` that the list read back covers what
the files know, and no later step looks at the choice again.

`MeshIvProofs` proves `NoncesFreshHolds` and `IvNeverBackHolds` (and `IvTypes`) from
`MeshIvAssumption`, for any range of numbers, rates, segments and restarts. A node that
restarts goes on from the file, so the file must never be behind the numbers on the air;
but it is written by a callback of the idle queue, and not at all within the millisecond
after the last time. `UsedInv` is what the code makes true all the same: a PDU that waits
in the idle queue under the index in use has a number below that of the file, or a save
is ahead of it in the queue, or its number is bare. What went on the air and was not bare
is below both the file and the next number, and nothing went on the air under a later
index. How many numbers are used in a millisecond plays no part: only within that of
`write_time` can the cached number fall behind the next one (`Took`), and the numbers
taken then and there are the bare ones. No hypothesis is made about how many there are.

`StateInv` (no update is on in a normal state), `SavedInv` (`jnode` and the file give the
index in use, also after an update that could not be saved, and the file has the cached
number too unless a save waits) and `PayloadInv` (no payload is ahead of the
index, and only orphans are behind it) carry the indices through updates and restarts.
`FreshInv` is `NoncesFresh` made inductive: a PDU that waits is also above the orphans
ahead of it. The index never goes back because a beacon is taken only if it does not
lead back and a restart finds the index in use in the file.

Only model-checked:

- liveness, fairness being out of the prover's reach: the part `Ends` of `Transactions`,
  `EveryRequestEnds`, `EveryWriteTold`, `EveryRegistrationTold`, `UpdateEnds`, `Completes`,
  `EveryTransferEnds`, `EveryCallAnswered`;
- `PbAdv`: its constants have finitely many values, and its run has the largest (each of
  the 8 authentications, everything that may fail allowed to), so TLC decides its
  properties for all of them;
- `Gobex` and `ServiceConnect`, with their action properties `FailSilently` and
  `RepliesTrue`: both fold over or filter lists (of packets, services, searches), which is
  recursion, and what it returns needs induction the prover cannot do.

## 8. What is not modelled

- `att.c`: `bt_att_unref` of the last reference in a callback of a time-out, of a failed
  write or of what was pending on a channel that is detached, where the code holds no
  reference of its own and would go on with freed memory; the lists of notification, disconnect and exchange callbacks, signed writes,
  debug output, the `close_on_unref` and `timeout`-registration hooks; ids that wrap;
  `bt_att_cancel` of an id its own callback has just resent.
- `mgmt.c`: TLV lists and debug.
- Destructors that call the API: none of the ones in the repository does so in a way
  that matters to these queues.
- GATT: discovery, Service Changed, reads, notifications in multiple; the comparison of
  the echo in reliable writes; sessions of more than one prepare; the retry of a prepare
  at a higher security level; the loss of the last channel, and of a channel while the
  server works on its request; the second response after a failed allocation
  (`src/shared/gatt-server.c:1290`).
- Notifications: a characteristic removed with a write in flight; API calls from the
  callbacks of the loop that drains `reg_notify_queue`.
- Mesh network: a configuration file torn by a crash (`save_config` rewrites it in place
  and the node falls back to a backup with an older number); a write of the file that
  fails where the code ignores the result (all but `mesh_net_iv_index_update`); friendship; several
  subnets, keys and their refresh; relaying and the short caches of packets just seen;
  reassembly.
- Provisioning: sessions that loop back to the same daemon, a remote provisioning server
  on another node, the node provisioning protocol interface, scans, errors of the
  display, a second session, checksums that collide.

- GOBEX: CONNECT with authentication and connection ids, SETPATH and ACTION; the first
  request of a GET of `obexd/client/transfer.c` and its cancellation (3.10); a write that
  takes part of a packet; a server that accepts late (`-EAGAIN` from `check_put` or
  the headers of the object) or flushes late; a producer that suspends while it gives
  data; several transfers of one session; the coding of headers. After a disconnection
  the user frees everything it has (`disconn_func`).

- Services: one device on BR/EDR with the profiles of applications (`ext`), no bonding, no
  failure of an allocation; the daemon ends where the code uses a search that has been
  freed.

All other components are in `PROJECT.json` with the reason.

## 9. The plan

In this order; each step is a module with its configuration, mutants and map.

1. `AttBearer`, `MgmtRequests`, `MgmtNotify`; `AttTransaction` and the refinement;
   `GattLongWrite`, `GattNotify`; `MeshIv`, `MeshRpl`; `PbAdv`; `Gobex`; `ServiceConnect`:
   done.
2. Proofs: the safety of `AttBearer` and its refinement of `AttTransaction`, `MgmtRequests`, `MgmtNotify`,
   `GattNotify`, `GattLongWrite`, `MeshIv` and `MeshRpl`: done.
3. Proofs still to do: `ServiceConnect` and `Gobex`, once their lists are queues of
   `SharedQueue` and their folds recursive functions or quantifiers.
4. `Avdtp`: two sessions against each other, stream states agree; `Agent`.
5. Discovery and Service Changed of `gatt-client.c` with the readiness of the client.
6. `AttCallbacks`: the lists of `att.c` that are walked while callbacks change them,
   sharing its properties with `MgmtNotify`.

Runs stay few: a run that repeats a question on another instance makes room for one
that asks a new one.
