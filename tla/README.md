# Verification of the ESP32 HomeKit accessory stack

This directory holds TLA+ models of the HomeKit Accessory Protocol stack for the
ESP32 (C, `src/`), the TLC configurations that check them on small instances,
and proofs that TLAPS checks for every value of the constants. Every definition
is translated from the C source; `PROJECT.json` (`map`) names the lines each one
stands for.

    tlc -workers 2 -config MCHkPairing.cfg MCHkPairing     # one of the runs
    tlapm HkPairingProofs.tla                              # one of the proofs

## The system

An accessory speaks HAP over one of two stacks, chosen at build time: IP (Wi-Fi,
an HTTP server of ESP-IDF, mDNS) or BLE (NimBLE, GATT). Pairing, sessions, keys
and the flash store are common to both.

Three kinds of task run the code. On IP the *httpd task* executes one request
handler or queued work item at a time, for all connections. On BLE the *NimBLE
host task* does the same for GATT accesses and GAP events. The *application's
task* calls `hk_init`, `hk_notify` and `hk_reset`. **The code has no lock
anywhere**: whatever two tasks share, they interleave on.

### Inventory

| Component | State | Operations | Hard behaviour | Correct when | Model |
|---|---|---|---|---|---|
| Pairing store, `common/hk_pairings_store.c`, `hk_pairings.c` | one flash blob with the pairings | add, remove, remove_all, is_admin, has_admin, has_pairing; the `/pairings` request | read-modify-write without lock against `hk_reset`; id compared by `strcmp` without terminator; authorisation checked on an older read | only the pairing set up enters, only the one asked for leaves, a requester is still paired when its removal works on the copy | `HkPairing` |
| Pair setup, `common/hk_pair_setup.c` | SRP keys and session per connection | M1/M2, M3/M4, M5/M6 | store result dropped; two key writes with a power failure between; an SRP key that lives from M1 to M5 in fields nobody initialises or clears | a controller that got M6 finds the key pair it knows in flash; M3 and M5 use the SRP key of the last M2 | `HkPairing` (M5/M6), `HkIpSession` (M1 to M5 on a connection) |
| Key store and accessory id, `hk_key_store.c`, `hk_accessory_id.c` | three flash entries | get, set, create on first use, reset | entries are written one by one | key halves fit each other | `HkPairing` |
| mDNS advertising, `stacks/ip/hk_advertising.c` | running flag, TXT record with flag `sf` | init, update_paired, reset | service is removed and added again by either task; nobody updates it after pair setup | unpaired accessory is announced, paired one does not claim to be unpaired | `HkPairing` |
| Start and reset, `stacks/ip/hk.c` | - | `hk_init`, `hk_reset`, `hk_notify`, the setup functions | run in the application's task | erased data stays erased | `HkPairing`, `HkIpEvents`, `HkSetup` |
| Subscription store, `stacks/ip/hk_subscription_store.c` | list of elements, each with an array on the heap and its length | add, remove, get_sockets, get_number_of_sockets | arrays reallocated by hand, unlocked reads by `hk_notify`, closed connections never unsubscribed | heap stays owned, the list per characteristic is what the requests made it | `HkIpEvents`, `HkSubscriptions` |
| Characteristics requests, `stacks/ip/hk_chrs.c` | the values, which the application keeps | PUT, GET, `hk_chrs_notify` | an entry fails in the middle; queueing fails in the middle; the value is read between fetching the sockets and queueing, while the httpd task writes it | a notification serves the subscribers; a listener ends up with the current value | `HkIpEvents` (PUT, notify), `HkCharacteristics` (values, GET, writes) |
| HTTP server, `hk_server.c`, `hk_server_handlers.c` | sessions, work queue | handlers, `hk_server_send`, close by trigger | work item for a session that is gone; session kill queued to itself | removed controller is disconnected | `HkPairing`, `HkIpEvents`, `HkPairVerify` |
| Pair verify, `common/hk_pair_verify.c`, `utils/hk_ll.c` | linked list of sessions on the heap | M1/M2, M3/M4, resume with fallback | id and secret replaced before the response is sent; list head freed; ids compared by `strncmp` | both ends hold the same secret; a paired controller gets through | `HkPairVerify` |
| Connection keys and transport context | shared secret, frame keys, frame counters, `is_secure` | init, set, free | set in the order of the response | see pair verify | `HkPairVerify` (secret, `is_secure`), `HkIpSession` (counters, buffer) |
| IP transport, `hk_server_transport.c` | frame counters, received buffer | read through `recv` and frames, send in frames, send of events | one `recv` must hold whole frames; events are counted before the connection is secure and when `send` fails; 16-bit nonce | frames are decrypted in step; a handler gets the whole request | `HkIpSession` |
| TLV codec, linked list, `hk_mem` | - | serialise in fragments of 255, append, reverse, free | fragment boundaries | a value is found as it was added | `HkTlv`; list walk and removal in `HkPairVerify` |
| Global state number, `hk_global_state.c` | flash entry, 16 bit | get, next, reset | read-increment-write from two tasks, wraps and skips 0 | a controller sees a new number after a change or a restart | `HkBleNotify` |
| BLE GATT, `stacks/ble/hk_gatt.c`, `hk_connection*.c`, `operations/` | connections, transactions, MTU, frame counters | write and read of a characteristic in fragments, eight opcodes | fragments lost or repeated, 8-bit MTU arithmetic, control field tested with `&&` | each response belongs to its request and arrives whole | `HkGatt` |
| BLE timed write, `hk_chr_timed_write.c` | one global request and deadline | timed write, execute write | shared by all connections, freed and not cleared | what is executed is what its owner wrote | `HkGatt` |
| BLE notification and protocol configuration, `hk_broadcast_key.c`, `hk_protocol_configuration.c`, `ble/hk.c` | broadcast key, global state, configuration counter | indicate, configure, boot | two entries per key, revision stored before its counter, list of connections walked while it changes, one failed indication silences the rest of the walk | a change is announced so that the controller can read it; counter moves with the revision | `HkBleNotify` |
| BLE GAP, `hk_gap.c`, `hk_nimble.c` | advertising or connected | connect, disconnect, advertise | change broadcast against connect and disconnect | advertises while unconnected | `HkBleNotify`; MTU in `HkGatt` |
| BLE pairing characteristics, `hk_pairing_ble.c` | - | wrappers of the common code | `is_secure` set between request and response | both ends switch to encryption at the same point | `HkGatt` (pair verify) |
| Accessories store and serializer, `hk_accessories_store.c`, `hk_accessories_serializer.c` | linked lists of accessories, services and characteristics | add, end_config, get_chr, get_identify_chr, read as JSON | lists are built backwards, then turned round and numbered in one pass | `/accessories` shows what was set up, every id leads to its characteristic | `HkSetup` |
| BLE attribute table, `hk_gatt.c`, `hk_chr.c`, `ble/hk.c` | arrays of services and characteristics, setup indices | add_srv, add_chr, end_config, signature and id reads | arrays grow by hand, end markers, one index for all services | NimBLE finds what was set up and nothing else | `HkSetup` |
| Facade, `common/hk_fascade.c` | - | five setups in one call | - | as the calls it makes | `HkSetup` |
| Property tables, UUIDs, formats | constants | by type | 8 bits kept of a type | what is announced can be done | `HkSetup` (the types that occur) |
| Logging, heap debugging | - | - | none | - | not modelled |
| Cryptography (wolfSSL wrappers) | - | - | - | - | external: its contract is assumed |
| Flash (NVS wrapper `hk_store.c`) | entries | get, set, remove | writes fail, power fails | - | each entry is a variable of `HkPairing` |

### How the components interact

* Pair setup writes the pairing store and the key store; pair verify reads
  both. `/pairings` changes the store and, when the store is empty afterwards,
  the mDNS record. `hk_reset` does the same from the other task.
* Pair setup and removals do not tell the session list, the subscription store
  or open connections anything: sessions survive the removal of a pairing.
* A handler returns an error to httpd, which closes the connection. A removal
  that succeeded closes its own connection by a work item queued to httpd.
* `hk_notify` reads the subscription store and posts one work item per socket;
  httpd encrypts and sends them in its loop.

## The models

### `HkPairing` - pairing registry, keys and mDNS on IP

State: the flash entries (`store`, `pubKey`, `privKey`, `accId`), the mDNS
record (`running`, `sf`, `advId`), the connections, the httpd task's handler
(`req`: a program counter and the handler's locals), the application's task
(`app`), and `known`, the accessory key each controller received in M6.

Each flash or mDNS access is an action; locals of the C functions are fields of
`req`. Pair setup M5: `SetupRequest`, `AddRead`, `AddWrite`, `StorePub`,
`StorePriv`, `SetupReply`. Removal: `RemoveRequest`, `CheckAdmin`, `RemoveRead`,
`RemoveLoop` (one step per entry), `RemoveWrite`, `CheckOtherAdmin`, `EraseAll`,
`RemoveReply`, then `HttpUnpublish`, `HttpPublish`, `HttpAnnounce`. The
application: `Boot`, `InitAgain`, `Reset`, `ResetId`, `ResetStore` and the same
three mDNS steps. `Crash` keeps the flash only.

Abstractions: a request is given as its content (signatures and encryption are
assumed to work); a fresh key is one that nobody holds; a flash write that
returned is durable, one that fails changes nothing; a read fails only for a
missing entry; creating the accessory id does not fail.

### `HkSubscriptions` and `HkIpEvents` - subscriptions and events

`HkSubscriptions` is the abstract promise: one list of sockets per
characteristic, changed by `Subscribe` and `Unsubscribe` (with the code's rule
that the last subscription goes whoever asks). `HkIpEvents` is the
implementation: elements in `items`, their fields `ptr` and `cnt`, the arrays
in `heap`. Every write to a field or to an array in
`hk_subscription_store_add/remove` is an action (`AddClear` ... `LastClear`),
and `hk_notify` reads pointer and length in separate steps
(`NotifyGetSockets`, `NotifyGetNumber`, `NotifySend`), so that a reallocation in
the middle of a notification happens. A read of freed or unwritten memory
returns any socket number; a read through an unwritten pointer, and an event for
a socket without a session, restart the system (`NotifyPanics`, `SendPanics`).

The refinement mapping `Stored` lets a change take effect where the new array is
complete, while the old array is still allocated.

Abstractions: a PUT is a sequence of entries (subscribe, unsubscribe, end,
fail); written values do not matter here; the global state number that
`hk_notify` advances first is in `HkBleNotify`; copies by `memcpy` are one step.

### `HkSetup` and `HkCharacteristics` - accessories and their values

`HkSetup` is the setup of an accessory, on both stacks. A program is built for
one `stack`; it makes the calls of `hk.h` one by one (`SetupStart`,
`AddAccessory`, `AddSrv`, `AddChr`, `SetupFinish`) or one of `hk_fascade.h`
(`Facade`). `wanted` records what it asked for. On IP `list` is the linked list,
newest first until `IpEndConfig` turns it round, level by level, and numbers it;
`Serialized` is what `/accessories` shows, `GetChr` how an id is found. On BLE
`gatt` is the array of services, with `Resize` for an allocation that grows it
by one zeroed element (`End`), whatever that overwrites or leaves unwritten
(`Wild`); `Walk` is how NimBLE reads it, `Signature` what a controller reads of
a characteristic. `RestartSetup` loses everything.

`HkCharacteristics` extends it with the run time of an IP accessory: the
connections `fd`, the subscription store (an instance of `HkSubscriptions`, which
`HkIpEvents` shows to be implemented), `value`, what each controller takes for
the value (`mirror`), the write the httpd task has not answered yet (`put`), the
application's task in `hk_notify` (`app`) and the queued work items (`queue`).
Requests are `Get`, `Subscribe`, `Unsubscribe`, `Write`, `WriteFails` and the end
of a write, `WriteReturns` or `WriteReplyFails`; a notification is `AppChange`,
`NotifyGetSockets` or `NotifyNobody`, `NotifyReadValue`, `NotifyQueue` for each
socket or `NotifyQueueFails`; a work item is `SendEvent`, `SendEventFails` or,
for a closed socket, `SendEventPanics`. `behind` is history: the controllers
that the code leaves without the current value (a write notifies nobody, a
subscription sends no first value, queueing or sending failed, or an older event
overtook). Such states are reachable, and `ListenerIsCurrent` speaks of all
others.

Abstractions: tables by type have the entries that occur; primary, hidden,
ranges, flags and descriptors are left out; a controller addresses only what it
found, with one entry per PUT (several, and their failures, are in
`HkIpEvents`); the write function of the application does not notify, as in the
examples; an unlocked read of the store is a copy (again `HkIpEvents`).

### `HkPairVerify` - pair verify, resume and the session list

State: who is `paired`; the session list (`head`, `node`: liveness, secret and
link of each address malloc can return); per controller its connection (`conn`:
both ends, `is_secure` and the message on the wire) and the session it remembers
(`cache`); `hung` (the httpd task walks a cycle) and a fault count. A handler
runs to its end before httpd looks at another socket, so a handler is one action
together with its response: `VerifyStart` (M1), `VerifyFinish`, `VerifyRefused`
(M3), `ResumeNotFound`, `ResumeAccepted`, `ResumeMistaken`, `ResumeRejected`.
`Walk` is `hk_ll_foreach`; `Unlink` is `hk_ll_remove` with its result dropped,
so a freed head stays the head: later walks read freed memory (`ResumePanics`,
`FinishPanics`) or, once malloc returned the address again, run in a circle
(`FinishHangs`, `ResumeHangs`).

Abstractions: one value stands for a shared secret and the session id derived
from it; ids collide only when both begin with a zero byte (what `strncmp`
makes of binary ids); which unused secret or address is drawn does not matter,
so one of each kind is. A controller has one connection and verifies once on
it. A failed send, a lost message and an unreadable key all end in a closed
connection (`Lose`).

### `HkGatt` - procedures over BLE

A controller writes a request to a characteristic in fragments and reads the
response in fragments. State: `conn`, one `hk_connection_t` with its
transactions, newest first; `ctl`, the controller's end (MTU, encryption, its
frame counters, the characteristic whose timed write it may execute); `proc`,
the procedure it is in and how far it got; `timed`, the two globals of the timed
write. An access callback of NimBLE runs to its end, so a callback and the ATT
exchange it serves are one step: `WriteFirst` and `WriteNext` are
`hk_gatt_write_ble_chr` without and with a continuation, and `HandleWrite` is its
second half, with a disjunct per kind of opcode; `Read` is
`hk_gatt_read_ble_chr`. `ReadIsCut` and `ReadFails` are reads whose response does
not fit or cannot be queued; `Abandon` leaves a transaction behind that nobody
frees. `Room` is `max_response_size` with its 8 bits: before an MTU exchange
`mtu_size` is `(uint8_t)256`, zero, and the room is 249.

The accessory does not advertise while it is connected, so one connection is
modelled in full; what another one could do to the shared globals are the steps
`OtherTimedWrite` and `OtherExecuteWrite`. An execute write of a request that was
freed uses freed memory: it may panic (`ExecutePanics`) or go on.

Abstractions: bytes are counted, contents left out; the opcodes that only make a
response are one (the broadcast key that opcode 8 may write belongs to
`HkBleNotify`); the response status is left out; the controller follows the
protocol (well-formed requests, one procedure at a time, a fresh transaction id,
one successful pair verify per connection). Pair verify itself, and which
messages it refuses, is `HkPairVerify`.

### `HkBleNotify` - how a BLE accessory tells of changes

State: `flash` (global state, broadcast key and the state at its creation,
revision and configuration counter, whether a pairing exists), the revision the
`firmware` was built as, `phase` (where the start is), the connections, newest
first, and the `session` of each (its shared secret and the reply that waits to
be read; the secret `Unshared` is that of a connection that is not secure), the
advertisement `adv`, and `thread`, the program counter and locals of the
application's tasks and of the NimBLE task (`Host`).

* Start: `SameRevision` or `NewRevision` and `WriteCounter`
  (`hk_setup_update_configuration_counter`), `InitState`, `InitNext`
  (`hk_global_state_init`, then NimBLE's first advertisement). `Crash` restarts
  from anywhere, `Update` with another firmware. `Equal` is the comparison of
  revisions, for which "1.0.1" equals a stored "1.0" (`Prefixes`).
* Advertising: `AdvertiseRegular` prepares the payload; `AdvStop`, `AdvSet`,
  `AdvStart` are the three NimBLE calls, of whichever task; the payload of a
  stopped advertisement is forgotten once no task can start it any more (`Silent`).
* Connections: `Connect`, `Disconnect`, `Pair`, `Verify`, and the protocol
  configuration (`Configure`, `GetKey`, `CreateKey`, `WriteKey`,
  `WriteKeyState`, `Reply`), where each flash entry is a step. Neither
  `hk_gatt.c` nor `hk_protocol_configuration.c` asks whether the connection is
  secure: a peer that did not verify may have a broadcast key made, too, from
  the empty secret or that of a pair verify it did not finish.
* `hk_notify`: `Notify` to `NotifyMove` walk the connections, reading and writing
  the global state in separate steps; without a connection `KeyAge`, `ReadKey`,
  `AdvertiseChange` broadcast. A walk that meets a freed connection reads
  anything, or panics (`NotifyPanics`). `hk_gatt.c:70` copies the handle to a
  `bool` (`Cut`), and `ble_ret` outlives its connection (`failed`): once the
  characteristic was not found or an indication failed, for lack of memory or as
  the cut handle is that of no connection, no later connection is indicated,
  though the global state advances for each. With secure connections <<2, 0>>
  nobody is told.
* `hk_reset`: `Reset`, `ResetState`, `ResetPairings`.

`ctl` is what the paired controller learned last from an advertisement
(`HearRegular`, `HearChange`) or a reply (`ReadReply`), with history the
properties need: `undone` (the number was set back by `hk_reset` or another
task's write, or a write failed), `lost` (the key changed and the reply with it
was not read). `Misled` clears the counter it knows when that counter is left
behind: a write of the revision or of the counter failed, power failed between
the two, or the new revision only appends to the stored one. These are the cases
in which the code makes no promise good: all of them are reachable. A power
failure in the first start can also leave a revision without a counter, and then
`hk_gap_start_advertising` fails until the next firmware update, which is why the
run does not check for deadlock.

A notification is `alone` as long as nothing that concerns it was changed by
others and no call failed for reasons outside the model of connections
(`Disturbed`); whom it `told` is kept that long. `UndisturbedNotifyIsAnnounced`
says exactly who that is at the end: the secure connections before the first
whose cut handle is not connected (`Reached`), each under its cut handle, and
nobody else.

Abstractions: payloads are their global state, counter and key; reading the
values of the application succeeds; a key is the shared secret it is derived
from; one broadcast key per secret, as a pair setup (which would change the salt)
also drops the pairing it belongs to; the accessory has one pairing; the
advertisement fails to start only while a connection exists or another task
started it, never in its other two calls; `AdvStop` is the check
`ble_gap_adv_active` and the stop in one step, without an error return: in the
code a task whose stop fails because another task or a connection stopped it in
between gives up; the other task still starts it, the NimBLE task at the latest
after the connection. `Unshared` stands for the keys of all connections that are not
secure, so `WriteKey` takes any of them for one the controller does not have
(`lost`). Who may read a reply is kept only as far as a promise needs it:
the reply of a secure connection is read by the controller, or teaches it
nothing when the connection is of one that was paired before a `hk_reset`; other
replies teach nothing. NimBLE indicates a handle as long as the list of
connections has it.

### `HkTlv` and `HkIpSession` - one connection of the IP stack

`HkTlv` has the TLV codec as operators: `Add` (fragments of `MaxLength` bytes,
prepended), `Serialize` (which reverses the list), `Deserialize` and `Get`.
The setup messages of `HkIpSession` go through them in both directions.

`HkIpSession` follows the bytes of a connection. State: `acc`, the transport
context (`is_secure`, both frame counters, and how much of `received_buffer` is
not submitted yet); `keys`, the pair setup fields of `hk_conn_key_store_t`;
`req`, how far httpd is with a request; `up` and `down`, the frames on the way;
`ctl`, the controller; `work`, the queued events.

* Reading: `Recv` is `hk_server_transport_recv` for a limit; plain, from the
  buffer, or by `Decrypt`, for which what one `recv` returned must be whole
  frames with the expected numbers. `ReadHeader` reads in blocks as httpd's
  parser does, `ReadBody` is the one `httpd_req_recv` for the content, and
  `BodyTimeout` its timeout, after which the handler goes on.
* Handlers: `HandleM1`, `HandleM3`, `HandleM5`, `HandleVerify`, `HandlePut`,
  `HandleGet`; each runs to its end, with its response (`Respond` in frames,
  `RespondPlain`). `Fails` is a handler that returns an error: httpd closes the
  connection, and since `RUN_AND_CHECK` skips the sending, the M4 with an error
  that `hk_pairing_setup_srp_verify` makes is never sent over IP.
* Events: `Notify` queues, `SendEvent` encrypts and counts one whatever
  `is_secure` says: the frame keys are set from the first message of pair verify
  on (`hk_pair_verify.c:139`), before the connection is secure. An event on a
  connection that is not secure, or whose `send` fails, has used a number
  (`skipped`); the controller then gives the connection up, and
  `StreamsInStep` says nothing of it. `SendEventPanics` is an event for a socket that was closed.
* The controller: `AskSetup`, `AskVerify`, `AskSecure` with a request in one
  frame or two (`Cut`), and `Receive`. It is correct: one request at a time,
  M3 after M2, M5 after M4; pair setup may start again, and its user may mistype
  the code.

What the code does and no property excludes: a full controller frame (1024
bytes of data and 18 more) does not fit the one `recv` of 1024, and a request
that comes in several `recv`s loses its rest: its handler works on
uninitialised memory. A repeated M1, or a connection that ends, leaks the SRP
key that M1 made (`hk_conn_key_store.h:27` leaves it to `hk_pair_setup`).

Abstractions: httpd is external; the content of secure requests and responses is
its size; the bytes a handler did not get are not right by chance, so it fails;
the 408 response to a late content is left out, as the failing handler then closes the
connection; what is late (`Reads`, `BodyTimeout`) and what fails to be sent
costs a fault; pair verify is its last message (the rest is `HkPairVerify`), and
what M5 stores is in `HkPairing`.

## What the runs check

| Run | Instance | States | Shows |
|---|---|---|---|
| `pairing` | 2 controllers, 1 connection, 2 accessory keys, a key of each kind | 0.4 M | `UnpairedIsDiscoverable`, `ConfirmedKeyIsDurable`, `RemovalStillAuthorised` hold through every interleaving of the two tasks, failing flash writes and power failures; the liveness `RequesterIsDisconnected`: a connection that asked for a removal is closed, however the removal goes |
| `pairing_removal` | as `pairing`, 4 accessory keys | violation | `RemovalSparesOthers`: removing one controller drops the others |
| `pairing_flag` | as `pairing`, 4 accessory keys | violation | `PairedIsNotDiscoverable`: after a pair setup the record still says unpaired |
| `pairing_reset` | as `pairing`, 4 accessory keys | violation | `ErasedStaysErased`: a reset inside a store update is undone |
| `events` | 1 characteristic, 2 sockets, 2 blocks, 3 subscriptions, queue of 2 | 0.69 M | `StoreOwnsHeap`, `UndisturbedNotifyServesStore`, and the refinement `ImplementsSubscriptions` |
| `events_listeners` | as `events` | violation | `NotifyReachesListeners`: a peer without a subscription takes away another's |
| `verify` | 2 controllers, 2 list elements, 5 secrets (2 colliding), 1 fault | 0.18 M | `SecureKeysAgree`, `SessionIsKept`, and the liveness `PairedGetsThrough` |
| `verify_list` | as `verify` | violation | `ListIsLinked`: a rejected resume leaves the head of the list dangling |
| `gatt` | pair verify and 2 characteristics, 2 transactions, MTUs 23, 60, 256 | 0.5 M | `ProcedureAgrees`, `FramesInStep`, `PlainResponseFits`, `TimedWriteIsOwn`, and the liveness `ProcedureEnds` |
| `ble_notify` | 1 task and NimBLE's, up to 2 connections of 3 handles, 4 keys, 4 revisions, global states 1 to 3, up to 2 faults | 3.1 M | `AdvertisesWhenFree`, `RestartIsNoticed`, `CounterFollowsRevision`, `UndisturbedNotifyIsAnnounced` |
| `ip_session` | 1 connection at a time, 2 SRP keys, keys of 1 to 4 bytes with TLV fragments of 2, `recv` of 12, 5 frame numbers, 2 events, 2 faults | 0.24 M | `StreamsInStep`, `RequestIsWhole`, `SetupUsesLiveKeys`, and the liveness `RequestIsAnswered` |
| `characteristics` | both stacks; setups of 2 accessories, 2 services and 3 characteristics of their own, and the 5 of the facade; run time with a switch or a sensor, 2 controllers, 2 sockets, 2 subscriptions, queue of 2 | 0.28 M | `ListServesSetup`, `TableServesSetup`: both stacks serve what was set up; `ListenerIsCurrent`: at rest, a listener that was not left behind has the current value |

### Findings

The five violations are disagreements between the code and what the repository
says of it; the lines are quoted in `PROJECT.json`.

1. `hk_pairings_store.c:158` keeps exactly the entries it should drop: `strcmp`
   is used as a truth value, and one side has no terminator, so a removal drops
   (nearly) every pairing.
2. `hk_pair_setup.c:240`: pair setup does not update the mDNS record, which
   keeps the flag of an unpaired accessory until the next start or removal.
3. `hk_pairings_store.c:94`: `hk_reset` between read and write of an update is
   undone by the write.
4. `hk_subscription_store.c:135`: the last subscription is removed without
   comparing the socket.
5. `hk_pair_verify.c:306`: the result of `hk_ll_remove` is dropped.

### Bounds, and why they are enough

* *Two controllers* are what every property about "another controller" needs.
  They are interchangeable: `characteristics` uses them and its sockets as
  symmetry sets; `events` uses the sockets and the blocks. No run with a liveness
  property uses symmetry.
* *Accessory keys*: with two, every setup replaces the key of the one before, in
  flash or in the hands of a controller, and fails where none is left. With four,
  as in the runs that look for a violation, both controllers may hold one, flash
  a third (torn or not), and a setup can still generate a fourth; the safety
  properties were checked with these, too (2.5 M states), and are proved for any
  number. `MaxEntries` = 2 lets a removal see zero, one and several entries,
  those of a setup in progress included.
* *One connection* suffices for `HkPairing` because httpd handles one request at
  a time. Two (with one controller) passed as well; a second connection can only
  delay the close of the first.
* *Three subscriptions*: an array with a first, a middle and a last element, and
  a socket that subscribed twice. *Two blocks* are the most the store uses at
  once for one characteristic (old and new array), so malloc must return an
  address that a notification may still be reading from. Two characteristics
  with two subscriptions and three blocks (2.3 M states) passed as well, and
  add no behaviour: the elements of different characteristics share nothing but
  the heap.
* *Two list elements*: a session is removed at the head or behind it, and a
  freed address returns while it is linked. Three (0.6 M states) passed as well.
  *Five secrets*: two sessions, two remembered by the controllers and a new
  one. `MaxFaults` = 1 bounds lost connections, restarts, forgotten sessions,
  removals and colliding tags together.
* *Two transactions* of `HkGatt`: the one in progress and one given up, of the
  same or of another characteristic. A request with a body is one fragment in
  the clear, two encrypted and three before the MTU exchange; the long response
  has five fragments with the MTU of 60 and one byte more than a fragment with
  256, the largest MTU the 8 bits of `max_response_size` can serve. Frame
  counters are kept modulo 2, which shows any single frame out of step.
* `HkBleNotify`: one application task meets the NimBLE task in every step of a
  notification; two tasks at once only add the cases `undone` excludes. With
  `MaxState` = 3 the number wraps, and `MaxUnseen` = 1 keeps a controller from
  missing so many changes that two numbers are equal by wrapping (65535 in the
  code): `MayChange` stops the number `MaxUnseen` ahead of what a controller saw
  or is offered, and a start adds one (`MaxUnseen + 1 < MaxState`).
  `MaxAge` is half of `MaxState`, as in the code. An update waits until the
  controller knows the accessory as it is (`Update`), which makes two values of
  the counter enough. The keys are `Unshared` and three more: in
  flash, known to the controller, and the secret of a new connection; these three
  are a symmetry set.
  `Scope` makes the run the sum and not the product of three worlds, by what can
  happen with a firmware. `r1` and `r2`, one a prefix of the other, are updated
  into each other, with two faults, so that a write can fail in the start after a
  power failure. With `r3` one connection comes, verifies, configures in both
  ways, goes and is broadcast to, with one fault (a power failure, a panic, a
  failed call or a reset) anywhere. With `r4` up to two connections of the
  handles 0, 1 and 2 meet notifications and requests of handle 0, without faults: all lists of two, secure
  or not, occur, <<2, 0>> (nobody is told) and <<0, 1>> (both are) among them; a
  cut handle may then be right, wrong, or that of another connection. A third
  connection adds only one more that is told or not as its position says. The
  properties are proved for any `Scope`, any number of connections and faults.
* `HkIpSession` scales the sizes of the code so that each of their relations
  occurs: a header of two blocks; values shorter and longer than a TLV fragment,
  and of exactly one and two; requests of one frame and of two, that just fit a
  `recv` with their overhead or do not; responses of one frame and of several.
  With five frame numbers both counters wrap. The true numbers (`ctl`) stop one
  beyond the last, where a 16-bit nonce would repeat: a controller with 65536
  frames counts on, and the accessory then no longer understands it. Two SRP
  keys: the live one and the one a restarted setup replaces it with. Connections
  follow one another without bound; two at once share nothing but the paired
  flag, as httpd handles one request at a time.
* `HkSetup`: two accessories, each with its own services, and up to two services
  and three characteristics more, empty ones included, are all positions an
  element can have in a list or an array: first, last, in between, alone. Types
  beyond 8 bits occur for both. `CharRange` = 20 lets service ids run out.
* `HkCharacteristics`: two events of one notification, or of two, wait in a full
  queue; sockets are reused by the other controller with the subscription they
  had. Only the setups of `MCServed` are started, as the run time of others
  differs by the characteristic only.
* `MaxQueue` = 2: a notification of three sockets meets a full queue.

### Fairness

* `HkPairing` (`pairing`): weak fairness of a handler's steps, because the
  httpd task never blocks inside one; strong fairness of `CloseTriggered`,
  because httpd serves its control socket, where the close is queued, before the
  connections in every turn of its loop, and so cannot be kept from it by new
  requests. Nothing is assumed of peers, the application or power.
* `HkPairVerify` (`verify`): weak fairness of `Serve(d)`, because httpd serves
  every ready socket in each turn of its loop; weak fairness of `Controller(d)`
  is an assumption about the controllers: they connect again and answer.
  Disconnects, faults, pairings and removals are free to happen or not. The
  property asks only for behaviours in which the list is never broken
  (finding 5) and the controller stays paired from some time on.
* `HkGatt` (`gatt`): weak fairness of `Continue`. The NimBLE task answers every
  ATT request, so a step that the controller asks for happens; that it goes on
  with a procedure, or ends a connection that is out of step, is an assumption
  about it.
* `HkIpSession` (`ip_session`): weak fairness of `ReadHeader`, `ReadBody` and
  `Handle`, because httpd reads what has arrived and never waits inside a
  handler; weak fairness of `Receive` is an assumption about the controller, that
  it reads what it is sent.

## What is proved

Seven modules, and one with lemmas on numbers, prove from the named assumptions of the models on their constants
(distinct null values, subsets, a finite set of addresses, positive bounds) and
for **any** value of them: any number of controllers, connections, keys,
characteristics, sockets, blocks, list elements, sizes, frame numbers and faults.
Each state machine has an inductive invariant, a conjunction of named parts (those TLC
can evaluate were invariants of a run before they were proved); the proof has one step
per action.

* `HkPairingProofs`: `TypeCorrect`, `DiscoverableCorrect`, `KeysCorrect`,
  `RemovalCorrect`.
  * `TypeInv` adds to `TypeOK` that a handler in a setup has its device and key.
  * `KeyInv` explains why halves are not torn: the key that `StorePub` chose
    (`FreshKeyLeft`: one was left) is unknown to every controller until M6
    (`NewKeyUnknown`); at M6 without an error both entries hold it
    (`ReplyKeyComplete`). Hence a half written before a power failure belongs to
    no controller. `ConfirmedKeyIsDurable` alone is not inductive.
  * `AuthInv`: between check and read the store can only lose *all* entries
    (`hk_reset`), because additions run in the same task; so
    `CheckedIsPaired` - the device is in the store, or the store is empty -
    survives until the copy is made.
  * `UnpairedIsDiscoverable` carries its own strengthening: `PublishPending`
    names the task that is still to announce the accessory.
* `HkPairVerifyProofs`: `TypeCorrect`, `KeysAgree` and `SessionStays`. `SecureKeysAgree` needs
  `ConnectionsAgree`: for each kind of message on the wire, what the accessory
  holds at that moment. The argument never looks at the session list, so the
  two ends agree even where the list is broken. `Walk`, `FirstMatch` and
  `Session` stay folded there: only the type of what they return matters.
  * `SessionIsKept` is about the walk itself. `Walk` is a recursive function, of
    which lemmas show that it exists and how it changes when an element is pushed
    or unlinked. `SessionInv` then has two more facts: a session in use is listed
    (`ListKeeps`), and no two controllers or elements have the same secret, so a
    resume touches only the element of the controller that asks.
* `HkIpEventsProofs`: `TypeCorrect`, `StoreCorrect` (no access to freed memory,
  no leak), `NotifyCorrect`, and `Refinement`: the store, with its `malloc`s,
  copies and `free`s one by one, implements the lists of `HkSubscriptions`.
  * `OwnerInv`: each array belongs to one element of the list, or is the old one
    of the change in progress; only the element being changed may not fit its
    array. `FirstInv`, `GrowInv`, `ShrinkInv`, `LastInv` say how far the change
    is, `CopyInv` what its two arrays hold.
  * `NotifyInv`: as long as nothing disturbs it, what `hk_notify` has read of the
    list, element, array and count, is what they still are.
  * The refinement follows from these: a step belongs to one characteristic
    (`ChangeStays`, `OthersStay`), and the abstract list changes in the step that
    makes the new array visible and complete, once. That the two `memcpy`s of a
    removal leave out the first occurrence (`WithoutIsRemoveFirst`) needs a
    smallest index; `Smallest` gets it from the well-foundedness of strict
    inclusion on finite sets.
* `HkGattProofs`: `TypeCorrect`, `ProcedureCorrect`, `FramesCorrect`,
  `ResponseCorrect`, `TimedWriteCorrect`.
  * `ProcedureInv`: `hk_gatt.c` puts new transactions first and looks for the id
    in the whole list, but the controller has one procedure at a time, so its
    transaction is always the first, whatever older ones are behind it.
  * `FramesInv`: both ends count frames alike, except while the response that
    ends pair verify is read. `MtuInv`: the accessory fragments by the MTU that
    the controller has, or by the smallest. `TimedInv`: a timed write that was
    written is stored from then on, though it may be executed only after its
    response.
* `HkBleNotifyProofs`: `TypeCorrect`, `AdvertisingCorrect`, `CounterCorrect`,
  `NoticeCorrect`, `NotifyCorrect`.
  * `AdvertisingInv`: whoever stopped the advertisement is still to start it, and
    NimBLE, which stops it for a connection, is when that ends.
  * `PayloadInv`: what is or will be advertised has the counter of the flash.
  * `CounterInv`: a controller that knows the counter in flash knows the revision,
    too; also between the writes of the two, and after a power failure there.
  * `NoticeInv`: the number is at most `MaxUnseen` steps ahead of what a controller
    saw, counted modulo `MaxState`, so neither the step of a start nor that of a
    change comes round to it. The arithmetic is in `HkNumbers`.
  * `TellsInv` and `AloneInv` are for `UndisturbedNotifyIsAnnounced`, an action
    property: a key in flash was told to the controller or its change is recorded
    as untold, and a notification that nothing disturbs has, at each of its steps,
    read what is in flash, or told the secure connections before the one it is at
    and before the first whose cut handle is not connected; `failed` says whether
    there was one (`Walked`). `WalkedStays`, `WalkedNothing` and `WalkedNext` say
    what that becomes at an insecure connection, at a secure one that is not
    indicated, and at one that is.
* `HkCharacteristicsProofs`: `TypeCorrect`, `ListenersAreCurrent`, `ListIsServed` and
  `TableIsServed`.
  * `TypeInv`: `TypeOK`, that httpd gives a socket to one connection at a time, and
    that nothing has happened before the stack runs.
  * `ListenerIsCurrent` speaks of tasks at rest. `CurrentInv` says what holds at any
    time: what a controller will take for the value once it has read all that is on
    its way (`LearnsLast`: the last queued event, else what it wrote itself, else
    what it knows) is the current value, or the notification has not read the value
    yet, or it has read the current one and still has the controller's socket.
  * `SetupInv` says what a stack holds between two calls of a setup, as a function of
    what was asked for so far (`wanted`): `Raw` is the IP stack's lists, backwards and
    without ids; `IsTable` the BLE stack's arrays, every service closed by an end
    marker but the last (`IsOpen`). Each call turns the form of `wanted` into that of
    `wanted'`: a characteristic more is an element at the head of a list
    (`RawChrsGrow`), or the element that took the place of an end marker (`NextChr`).
    `SetupFinish` turns it into the numbered lists (`IsNumbered`) or the closed arrays
    (`IsEnded`), which nothing changes until a restart. `ListServesSetup` and
    `TableServesSetup` are only about that end, so neither is inductive.
  * `FirstIds` are the ids of the services: each begins after the last characteristic
    of the one before (`IdsGrow`), which makes all ids of an accessory different.
  * A call that adds several things is a fold over them, and `FlattenSeq` is a recursive
    function; lemmas show that both exist (`Iteration`, `FlatExists`) and what a step is.
  * `KindsAssumption` is what an application may ask for: types are numbers, and a type
    that the property table calls readable comes with a read function or a value, since
    `hk_chr_read` calls it unseen. `MarkerAssumption`: an end marker and an
    unwritten element are no entry.
* `HkIpSessionProofs`: `ElementsAreFound` and `ValuesAreFound`, the round trip of a
  message through `Add`, `Serialize`, `Deserialize` and `Get` of `HkTlv`, for lists
  and values of any length and any `MaxLength`. Each of these is a fold or a recursive
  function, of which a lemma first shows that it exists and what a step of it is
  (`SerializeFold`, `AddFold`, `DeserializeFunction`, `GetFold`); then an induction along
  the list or the fragments, for a set of numbers each time. `HkNumbers` has that
  induction (`Induction`, `InductionUpTo`, from a smallest element) and the
  arithmetic of quotients, remainders and products that the provers do not know.
  Of the session: `TypeCorrect`, `StreamsCorrect`, `RequestCorrect`,
  `SetupKeysCorrect`.
  * `RequestInv`: until its handler ran, each byte of a request was taken by
    httpd, is in the buffer or is on its way, and from then on nothing is left. It
    also fixes when frames are used: the accessory is secure one response earlier
    than the controller.
  * `DownInv`: at most one response is on its way, events before and behind it,
    and a plain one only in front. `NumberInv` and `UpInv` count both directions;
    the plain response that ends pair verify counts as the frame before the first
    (`Base`), as the accessory encrypts the next one before the controller has
    read it. `StreamsInStep` alone is not inductive because it says nothing of
    that time.
  * `WholeInv`: what fits a `recv` is in the buffer after the first read, so the
    one `httpd_req_recv` gets the rest. That the handler finds the values is
    `ValuesAreFound`.
  * `KeysInv`: the accessory's SRP key is the controller's, except while an M2 is
    on its way; then it is the one which that M2 shows (`KeyOfM2`).

**Only model-checked**:

* liveness (`RequesterIsDisconnected`, `PairedGetsThrough`, `ProcedureEnds`,
  `RequestIsAnswered`), because fairness and ENABLED are beyond the prover;
* the violations, which are traces.

## Plan

Order of the next modules, most important first:

1. `HkIpSession` with a controller that repeats setup messages and verifies a
   second time on its connection, so that use of freed SRP keys and the change of
   frame keys in the middle of a response are in the model.
2. `HkCharacteristics` with write functions that call `hk_notify` themselves.

Every safety property the passing runs check is proved. Proofs planned: those of the
properties these modules will add. Modules to be proved about use folds and recursive
functions, not recursive operators.

## Not modelled

Cryptographic algorithms, JSON and mDNS formats, logging, the entries of the
property tables for types that do not occur. `/identify` calls one global
function of the application and changes no state. The libraries (NVS, httpd, NimBLE, malloc) are
modelled by what the code relies on. Hazards that no property covers yet, and
why, are listed in `PROJECT.json`.
