# TLA+ models of the SLATE106 file server (raspberry_pi-bluez_server_file_transfer)

The program runs on a Raspberry Pi. It scans for one SLATE106 by Bluetooth LE,
connects to it, goes through an identification handshake over GATT, and then
serves files to it with a variant of E-Kermit, over a byte pipe made of two
"MLDP" characteristics. When the link breaks it scans again.

All paths below are relative to `src/raspberry_pi-bluez_server_file_transfer/`.

## The system and its parts

| Part | Code | State | Operations | Talks to |
|---|---|---|---|---|
| Kermit, as a server | `src/libe_kermit/kermit.c`, `kermit_main` in `libe-kermit.c` | `k->state`, `k->what`, the send window (`opktinfo`, `s_pw`, `s_seq`), open file, `retrycounter` | one turn of the loop: `rxd`, `kermit(K_RUN)`, result; `K_REINIT`, `K_ERROR` | peer through `rxd`/`txd`, files through `openf`, `readf`, `closef` |
| Kermit, as a client | the same files, states `R_WAIT` to `R_DATA`, run by the SLATE | receive window (`ipktinfo`, `r_pw`), output file, request slot | `K_GET`, `K_DIR`, `handle_good_rpkt`, `flush_to_file` | the server |
| Byte pipe | `kreadpkt`, `ktx_data` in `unixio_rpi.c`; `tx_fifo_send_bytes`, `server_mldp_data_char_write_cb` in `main.c` | two FIFOs, GATT writes in flight | read a packet with a timeout, send one in chunks | both Kermits |
| FIFO | `src/fifo.c` | `p_buff`, `write_pos` | put, get, read, write, flush | main thread and file transfer thread |
| Connection | `src/main.c` | `ble_con_step`, socket, GATT operation under way, `epoll_terminate`, signal flags | scan, connect, open, discover, three writes, MLDP data, disconnect, SIGINT | BlueZ callbacks, the thread |
| File transfer task | `src/file_transfer_task.c`, `libfile_transfer.c` | the thread | start, loop of transactions, end | Kermit; joined by the disconnect callback |
| Main loop | `src/mainloop.c` | epoll set, callbacks, timers | add, modify, remove, run, quit | runs the callbacks |
| Packet codec | `encode`, `decode`, `getpkt`, `chk1..3`, `spar`, `rpar`, `gattr`, `sattr` | run-length state, packet buffer | pure functions | Kermit |
| CRC-32 | `src/libcrc32` | none | checksum of a file | command-line use |
| ATT bearer | `bluez_deps/src/shared/att.c` | request, indication, write and channel queues; the outstanding request and indication; writer; timers | send, cancel, answer, confirm, timeout, disconnect | peer; both GATT roles |
| GATT client, discovery | `gatt-client.c` (first half), `gatt-helpers.c` | ready, discovery under way, handle ranges, pending services, queue of Service Changed | initial discovery, Service Changed, database hash | ATT bearer, database |
| GATT client, requests | `gatt-client.c` (second half) | registrations and the count of each CCC, request list, queue of long writes, reliable session | register, unregister, long read, long and reliable write, cancel | ATT bearer |
| GATT database | `gatt-db.c` | services and their attributes, pending reads and writes with their 5 s timers | insert, remove, clear a range, read, write | client and server |
| GATT server | `gatt-server.c` | one read and one write slot, the queue of prepared writes, MTU | one handler for each request | ATT bearer, database, the application |
| Other BlueZ code | `queue.c`, `util.c`, `crypto.c`, `uuid.c`, `hci.c`, `bluetooth.c` | containers, conversions, system calls | | |

What is hard here: packets are lost, cut or spoilt in both directions and
either side may time out at any moment, so that retransmissions and late ACKs
cross; the window logic has one slot and sequence numbers wrap; the receive
FIFO is shared by two threads without a lock; callbacks, the thread and SIGINT
interleave with the state machine of `main()`; below them the Bluetooth library
chains callbacks over many PDUs while answers, timers, cancellations, Service
Changed indications and the loss of the link come in between; and every part has
error paths that a test bench never takes. `PROJECT.json` lists these hazards with their
lines.

## Modules

| Module | Models | Extends |
|---|---|---|
| `KermitLink` | packets and the pipe (lose, spoil) | |
| `KermitServer` | one run of `kermit_main(A_WAIT)` | `KermitLink` |
| `KermitClient` | one run of `kermit_main(A_GET)` or `(A_DIR)` | `KermitLink` |
| `KermitTransfer` | both and the pipe: a transaction | both |
| `KermitServerEnv` | the server against any peer | `KermitServer` |
| `KermitClientEnv` | the client against any server | `KermitClient` |
| `Fifo` | `fifo.c`, one caller at a time | |
| `BoundedQueue` | what `fifo.c` promises (abstract) | |
| `RxFifoRace` | the receive FIFO with its two threads, load by load | |
| `Connection` | `main()`, its callbacks, the thread's life, SIGINT | |
| `Att` | the ATT bearer | |
| `AttRequests` | what the bearer promises to those who make requests (abstract) | |
| `GattDb` | the database as the client fills it | |
| `GattDiscovery` | discovery and Service Changed, PDU by PDU | `GattDb` |
| `GattClient` | registrations, long reads, long and reliable writes, cancel | |
| `GattServer` | every request handler, with the pending reads and writes of the database | |
| `*Proofs` | theorems | the module they are about |
| `MC*` | the same modules for TLC, with the `.cfg` files | |

Definitions called "Mutation of ..." in a module are deliberate errors. No
specification uses them; they serve to see that each property can fail. Where a
module's `TypeOK` is not an invariant of its own it is the first part of another
one.

### Kermit

A packet is a type, a number and what the control flow tells apart in its data
(`NoText`, parameters with or without attribute packets, a cancel text, the
number of a chunk of the file). `BAD` is a packet with a wrong block check and
`SHORT` one with fewer than four characters; both keep the number, which nobody
reads. Encoding, run-length compression, parity and long packets are abstracted.
Block check type 1 is assumed, as negotiated by default.

The window is one packet wide (`P_WSLOTS` is 1), so `opktinfo` is the record
`slot` and `s_pw` the *set* of numbers that map to slot 0. One step is one turn
of the loop of `kermit_main`: a packet (`ServerReceive`), a timeout
(`ServerTimeout`), the last timeout (`ServerGiveUp`), or the text CMD CR LF
(`ServerEnd`). `GoodPacket` has one disjunct for each branch of `kermit(K_RUN)`;
the names of the branches that fail say what fails (`OpenFails`,
`GetNotAccessible`, `ListingFails`, `RefuseFile`). Oddities of the code are kept:
S, X and D of a listing all have number 0; `rpar` files S under the old `s_seq`
and reports success without sending when the slot is taken; in a DIR anything
but an ACK falls through to the cases of a file transfer; `resend` after a bad
block check has its result dropped; R is accepted in every state.

`txd` always reports success: `ble_mldp_send_bytes` refuses only outside
`BLE_FILE_TRANSFER`, and `Connection` shows that the thread never runs outside
it (`SendNeverRefused`). So a packet that does not get out is a lost one.

The client runs on the SLATE, whose code is not in the repository. It is
modelled as the receiving half of this same `kermit.c`, with a file system that
can create files. `ClientIdle` is what such a client does after success when B
comes again: a NAK with number 0, which the server takes for the ACK to B.

### FIFO

`Fifo` is `fifo.c` called by one thread at a time. `fifo_shift` moves one cell
too many, so that on a full FIFO it reads the byte behind the buffer: that is
any byte of `Byte`. `IsQueue` states that nothing of this is visible to a caller.
`RxFifoRace` splits `fifo_put` and `fifo_get` into single loads and stores.

### Connection

`pc` says where the main thread is (`top` of its loop, `scan`, blocked in
`read`, `mainloop`, or `join`ing). Callbacks are atomic. `pthread_join` of a
thread that was never created is undefined: it may return or end the process
(`bad_join`). `sock = "stdout"` is the value EXIT_FAILURE of
`l2cap_le_att_connect` taken for a descriptor; the ATT timeout ends that
connection. The GATT library is modelled from how `main.c` uses it: an operation
under way is completed, refused, or failed when the link breaks.

### ATT bearer

An operation of `Att` is a number; the queues of `att.c` are sequences of these
numbers. `Send`, `Cancel`, `Respond` and `Unref` are calls of the upper
layer; `Write` is one turn of `can_write_data`; answers, errors, confirmations
and incoming requests are the cases of `can_read_data`; `Timer` is `timeout_cb`,
`Disconnect` is `disconnect_cb`. A confirmation that nobody waits for, or that is
not empty, disconnects (`HandleConf`). A callback of the main loop is atomic. The
program attaches one channel and keeps the default MTU. `late` holds the events
of the channel that the main loop had collected in the batch in which the
bearer was shut: their handlers still run. `peer` holds what the peer was asked
and has not answered; it need not answer, and may send a response to nothing
(`rogue`, at most `MaxRogue` times). An operation records how often its callback ran and what it was told,
so that `EndsOnce` and `AnswerIsOwn` can be stated. A request that the peer
refuses for lack of security goes to the head of its queue again after the
level was raised. `AttRequests` is the owner's view: a queue from which
requests leave in their order, with one result each, or are withdrawn. Its queue
is `Awaited`: the outstanding request and those that wait behind it, without the
oldest one if that was withdrawn and is kept only because it is on the wire or
goes again.

### GATT discovery

The client is one record `c`; a callback is an operator from clients to clients,
because a callback runs to its end and itself starts the next procedure. One
step is one answer of the peer (`Answered`: a PDU of the list asked for, or an
error), an indication, a change of the peer's database, or the loss of the link.
The procedures of `gatt-helpers.c` are modelled PDU by PDU: `ResultAppend`
collects, and the next request begins behind the last handle. A database is a
sequence of services; a service holds those of its attributes that were stored,
with the slots of its handles. Handles end at `UINT16_MAX`, which is small in
the run, so that ranges reach the last handle and wrap.

Two ghosts tell what the properties excuse. `view` is no longer `"all"` when the
peer changed its database between two PDUs of a discovery; `lost` holds the
handles whose services the client dropped because a discovery failed or was
shortened.

### GATT client requests

`wire` is the request queue of the bearer: its head is with the peer.
`Disconnect` closes the bearer; `DiscAttSendOp` is the rest of `disconnect_cb`,
which fails the requests that wait and then the one with the peer, one in a step,
and nothing else happens before the last one. The value
of a long write is `NChunks` prepared writes, chunk i of request j being
`<<j, i>>`, and `<<j, -i>>` when the peer garbled it.

Registrations are for one characteristic, with or without a CCC (`hasCcc`) and
with or without NOTIFY or INDICATE (`can`): without either of the two
`notify_data_write_ccc` sends nothing, and `register_notify` returns 0 but keeps
`notify_count` (`Drop`). The answer to a write of the CCC is a response ("ok"),
an Error Response with a code ("err"), or what `process_error` makes 0 of, an
answer of another opcode or a broken link ("none"): then the registration is
removed and its callback hears success (`ProcessError`), and nobody knows
whether the peer wrote the CCC (`CccAfter`).

The ghosts mark what the code is known to get wrong (below): `leak`, an enabling
failed and `notify_count` was not taken back; `stuck`, one was cancelled;
`overlap`, a disabling was to be sent over another write; `mixed`, long writes
may meet in the peer's queue. `guess` marks the single registration that was
told success by a `notify_count` that is off. `ToldMeansEnabled` leaves out these
registrations, not all that follows a failure: whoever was told by an answer, or
by a count that is right, keeps the CCC.

### GATT server

The attributes are a constant: those of the MLDP service of `main.c` and some
that use more of the server. `fr` and `fw` say whether an attribute has a
function and whether it reports at once or later. A PDU of a wrong length is the
request `short`; an Execute Write of a wrong length is one of unknown flags, which
drops the prepared writes, too. A byte of a value is the
number of the request that wrote it, 0 for the initial value and `Junk` for
memory that nobody initialised, so that `ValueIsFresh` and `PreparedWhole` can
follow a value. `Receive` is a request, `Report` the application, `Timeout` the
5 s timer of `gatt-db.c`. A result that is there at once calls the next read or
write in place: `ReadOn`, `ReadMultipleOn` and `ExecOn` are these chains of
callbacks, as functions of the number of turns. `chan` and `att` are the MTU of
the channel, by which PDUs are read, and that of the bearer, by which the server
fills its responses; they differ after an exchange that lowers the MTU.

## Runs

| Run | Bounds | Checks |
|---|---|---|
| `transfer` | 4 numbers, 3 chunks, 1 retry, fair | `FileIsPrefix`, `SuccessIsWhole`, `NoStaleAck`, `WindowFull`, `NoConfusion`, `EotIsAcked`, `Termination`, types |
| `server_any_peer` | 4 numbers, 2 chunks, 1 retry | `ErrorIsFinal`, `OutstandingPacket`, `FileClosed`, `OneNumberAwaited`, types |
| `client_any_server` | 4 numbers, at most 5 chunks | `WrittenInOrder`, `NothingLeftBehind`, `WindowHoldsLatest` |
| `fifo` | 4 cells, writes of up to 5 of 2 bytes | `IsQueue`, types |
| `rx_fifo_race` | 3 cells, 4 bytes | `InBounds` |
| `connection` | 2 writes in the FIFO, 2 ctrl-c, fair | `SendNeverRefused`, `CleanRescan`, `Rescan` |
| `att` | 3 operations, 1 stray response, 1 request of the peer, 2 security levels, fair | `EndsOnce`, `AnswerIsOwn`, `RequestsInOrder` (implements `AttRequests`), `EveryOpEnds` |
| `gatt_discovery` | 16 handles, 5 databases of the peer, 2 changes, fair | `Mirror`, `PendingExist`, `EndsReady`, `ChangesHandled` |
| `gatt_server` | 15 attributes, 4 requests, MTU 23 and 27 (exchanges with 23 and 64), 2 prepared writes, fair | `AnsweredOnce`, `ValueIsFresh`, `PreparedWhole`, `NothingSkipped`, `FitsMtu`, `EveryRequestAnswered` |
| `gatt_client` | 3 calls, 2 chunks, responses of 2 octets, values of 2 and 5, limit 4, fair | `ToldMeansEnabled`, `OneCccWrite`, `LongWhole`, `CallsEnd` |
| `listing_delivered`, `bytes_in_order` | small | one property each, which the code breaks (below) |

Why the bounds are enough. A GET of 3 chunks has 8 packets (S F A D D D Z B),
so with 4 numbers they wrap inside the data; two timeouts on each side and one
repetition per packet are enough for a packet and its copy, and an ACK and its
copy, to be under way at once. With 5 chunks the client's window wraps as well.
A FIFO of 4 with writes of 5 is full, cut and shifted while full. Two ctrl-c
suffice for one to be lost and one to be noticed.

Three operations of the bearer are one with the peer, one cancelled or timed out
before it and one that must not get its answer. The five databases of the peer differ in what a discovery
must tell apart: a service that grows, shrinks, moves, vanishes or is replaced,
with includes, descriptors and a hash; two changes let a second indication
arrive during the discovery for the first. With four requests a late result
meets the next read, and the queue of prepared writes is full and then executed
or dropped. Three calls are two registrations
and the end of one, or two long writes and the cancellation of one; the
invariants of `gatt_client` were also checked with four calls (6.2 million
states). A value of 2 octets ends exactly with a response, one of 5 exceeds the
limit of 4.

Fairness. `Termination` assumes that both loops keep turning: `rxd` returns
after its timeout (with `r_timo` above 0) and `kermit()` always returns. Nothing
is assumed of the pipe: it may lose everything. `Rescan` assumes that the main
thread goes on where it does not block, that a broken link is noticed, and that
a thread without a SLATE gives up, which `Termination` shows for the Kermit loop.
In the Bluetooth library the main loop runs the write handler, the timers and
the disconnection: `EveryOpEnds` assumes no answer of the peer, because the 30 s
timer of `att.c` takes its place; `EveryRequestAnswered` assumes no report of
the application, because the 5 s timer of `gatt-db.c` takes its place.
`EndsReady`, `ChangesHandled` and `CallsEnd` assume that the peer answers or
refuses each request or the link ends, which is what `EveryOpEnds` says of the
bearer below, and that an indication that was received is handed out.

CHECK_DEADLOCK is off where a run of the program really ends: both Kermits have
returned, the process has ended, the link is lost, or all bytes, calls or
requests of the bound have been used.

### Runs that show a disagreement

| Run | What the code does |
|---|---|
| `listing_delivered` | S, X and D of a listing share number 0. When X is repeated, its second ACK stands for that of D; if D is lost the client ends its DIR in success without the listing. |
| `bytes_in_order` | The mutex of `ft_t` protects nothing: the FIFO loses, repeats or invents bytes. Kermit's block check then sees bad packets. |

Other behaviour of the code that the models have and that no property rules out.

In the program itself:

- `start` is cleared by the first turn of the Kermit loop, timeouts included, so
  a server that has heard nothing sends an E packet, which the comment at
  `libe-kermit.c:163` says it does not;
- after a timeout while F or A is out the input file stays open;
- a link that breaks before the first MLDP data makes the disconnect callback
  join a thread that does not exist (`bad_join`);
- `s_pw` holds the number of an earlier reply when S is sent after one, so S is
  then not repeated; timeouts are counted over a whole run although the limit is
  called per-packet; when B has number 0 the server may take an impatient
  client's repeated parameters for its ACK (hence the exception in `EotIsAcked`);
- MLDP data that comes before the handshake ends is flushed; ctrl-c just before
  `read()` blocks is not noticed before the next one, and during the handshake it
  reads through a null pointer; a discovery that fails is only logged; a socket
  that cannot be opened ends the program, but one that cannot be connected is
  taken for descriptor 1.

In the Bluetooth library (line numbers of the files under `bluez_deps/src/shared`):

- any response clears `in_req`, also the refusal of an unknown opcode while an
  answer is still owed (`att.c:531`); a write that fails is taken for a success
  (`att.c:510`), and only the timer ends that request;
- a service that replaces another one makes the client drop every service behind
  it, although only the range of the change is reported (`gatt-client.c:390`,
  `1806`); a peer that changes between two PDUs leaves freed services in the list
  of the discovery (`376`); the range behind the last handle wraps to 0 (`1139`);
  the stored hash may be that of another database than the one discovered
  (`1376`). `Mirror` and `PendingExist` leave these out with `lost` and `view`;
- `init_complete` reports the client ready once the write of the CCC of Service
  Changed is queued (`gatt-client.c:1995`), where the comment at `1775` says
  "report ready only if the handler is registered successfully"; a client whose
  write is refused afterwards stays ready, and hears of no change;
- a registration with nothing to enable returns 0 and leaves `notify_count` at 1
  (`1726`), and an enabling that is refused leaves it too high as well (`1626`,
  `leak`): the next registration is told at once that notifications are "already
  enabled" (`1718`), with the CCC not set. Without `guess`, TLC finds
  `ToldMeansEnabled` violated after two registrations;
- cancelling an enabling leaves `notify_count` too high, too, and `ccc_write_id`
  set, so that later registrations wait for ever (`2113`, `stuck`); a
  registration whose enabling ended with an answer that is none is removed and
  told success (`1602`); two disablings under way make the second callback fail its
  assertion (`2089`, `overlap`);
- long writes interleave in the peer's queue after a reliable session, or when
  one was cancelled after it began, although a comment (`84-87`) says that they
  do not (`mixed`); a reliable session that is cancelled does not start the long
  writes behind it (`2501`);
- a Write Command that arrives while a slow write is pending is dropped
  (`gatt-server.c:857`); Read Multiple Variable Length with no room for another
  length wraps and copies the whole value (`1076`, left out of `FitsMtu`); a
  write behind the end of a stored value leaves octets that nobody initialised
  (`gatt-db.c:1934`); an MTU exchange that lowers the MTU again leaves `att->mtu`
  at the higher value, by which the server goes on filling its responses
  (`att.c:1374`, hence `chan = att` in `FitsMtu`).

## Proofs

| Module | Theorems | About |
|---|---|---|
| `FifoProofs` | `FifoIsQueue`, `FifoTypeOK` | `fifo.c` implements `BoundedQueue`; `write_pos` stays within the buffer |
| `RxFifoRaceProofs` | `RaceInBounds` | the two threads stay within the buffer |
| `ConnectionProofs` | `ConnectionSendNeverRefused`, `ConnectionCleanRescan` | `main()`, its callbacks, the thread and ctrl-c |
| `KermitProofs` | `ServerErrorIsFinal`, `ServerOutstandingPacket`, `ServerFileClosed`, `ServerOneNumberAwaited`, `ServerAnyPeerTypes` | one turn of either Kermit loop (lemmas); the server against any peer |
| | `ClientWrittenInOrder`, `ClientNothingLeftBehind`, `ClientWindowHoldsLatest` | the client against any server |
| `KermitTransferProofs` | `TransferFileIsPrefix`, `TransferSuccessIsWhole`, `TransferNoStaleAck`, `TransferNoConfusion`, `TransferEotIsAcked`, `TransferWindowFull`, `TransferTypes` | the whole transaction |
| `AttProofs` | `AttEndsOnce`, `AttAnswerIsOwn`, `AttRequestsInOrder` | the ATT bearer; it implements `AttRequests` |
| `GattClientProofs` | `OneCccWriteHolds`, `ToldMeansEnabledHolds`, `LongWholeHolds` | registrations, long reads and long writes of the GATT client |
| `GattServerProofs` | `AnsweredOnceHolds`, `ValueIsFreshHolds`, `PreparedWholeHolds`, `NothingSkippedHolds`, `FitsMtuHolds` | every request handler of the GATT server |

They hold for every `SeqMod` above 2, every `NChunks` and every `Retry`
(`LinkAssumption`), every size of the FIFO (`FifoAssumption`, `RaceAssumption`),
every number of operations, stray PDUs and requests of the peer
(`AttAssumption`, with a security level of 1 to 4 as the kernel has them),
every number of calls and chunks, every MTU and every limit on the length of a
value (`ClientAssumption`), and, for the GATT server, every finite database of
attributes without or with a function, every set of requests, every MTU from 23
on and every limit of the queue (`ServerAssumption`). Every
inductive invariant below was first checked by TLC on the constants of its run.

**The server.** `ServerInv` in `KermitProofs`: while the
loop runs, a receiving server has an empty window and an empty `s_pw`, any other
has its slot taken by a packet that is no E packet and exactly one number in
`s_pw`; the input file is open only while a file is sent and before Z; no E
packet has been sent. None of the four properties is inductive by itself:
`FileClosed` needs to know that a DIR never has the file open and that Z closes
it, `OneNumberAwaited` that an ACK frees the number it was found under.
`ServerStep` proves it once, for any packet, with one step per branch of
`kermit()`; the theorems about `KermitServerEnv`, in the same module, and those
of `KermitTransferProofs` use it.

**The client** (`AnyServerInv`, in the same module). A chunk is known by its
number, so what a server sends is only assumed to carry the chunk its number
says. The
invariant adds to the three properties that the window, the open file and the
state `R_DATA` go together (`WindowInData`), and that the packet in the window
is the one that follows the end of the file (`WindowFollows`): that is what an
accepted packet, which first flushes the window, needs in order to keep
`WrittenInOrder`.

**The transaction** (`KermitTransferProofs`). First `WindowFull`: the client
never sends S, F, A, D, Z, B or X (`ClientPackets`), so that a receiving server
is still in `R_WAIT` with `s_seq` 0 (`Waiting`). That rules out the misfiled S of
`rpar`. Then, for a GET, `GetInv`, the argument of a stop-and-wait protocol over
a pipe that loses, spoils and, through timeouts, repeats:

- the client has written the file from its beginning up to the chunk in its
  window, which is the next one (`ClientFile`);
- the server's state and position tell what is in its slot (`ServerChain`);
- the packets under way to the client are the one in the slot or the one before
  it, in that order, and the client took the last of them or the one before
  (`StreamFits`, `StreamOrdered`);
- a request is behind no ACK and reaches no server that is past S, and a NAK
  comes from a client that is done (`Requests`);
- the ACKs under way are for the packet before the one in the slot and then for
  that in the slot, which the client then has (`Acks`);
- an E packet has a failed server behind it (`ErrorsExplained`), and success has
  a closed file (`Outcome`, with the properties that are left).

Two neighbouring numbers and their predecessor are different because `SeqMod` is
above 2 (`NextSeqDiffers`), and that is the only fact about the numbers that is
used. `FileIsPrefix` alone is not inductive: nothing in it says which chunk an
old copy holds. For a DIR `DirInv` says that no file is written.

**The race.** A thread acts on a check of `write_pos` that the other one may
outdate, but never in the direction that hurts (`RoomToPut`, `ByteToGet`).

**The connection.** The thread lives only in step `FILE_TRANSFER` with no GATT
operation under way whose callback could move the step (`ThreadInTransfer`), an
operation is under way only in the main loop and at the step that started it
(`OperationInMainloop`), and `main()` scans under its own handler
(`ScanUnderMain`).

**The bearer** (`AttProofs`). `Ownership`: the queues have no duplicates
(`QueuesOK`), the type of an operation says which places may hold it
(`PlacesOK`), it is held exactly until it is freed (`HeldUntilFreed`), and its
record is that of a live, cancelled or freed operation (`OpsOK`). `EndsOnce`
counts pointers, which no single step can be seen to preserve without knowing
that the places of a type are disjoint. For `AnswerIsOwn`, `AnswerInv`: while
the bearer can be read, what the peer still has to answer is the pending
request and the pending indication, or, once the bearer is shut, one that the
timer ended; a bearer that is shut is read before it is written, and not after,
so that no later request can take a late answer. For the refinement,
`OnlyOldest`: of the requests that the bearer holds only the oldest can have been
withdrawn. With it every action either is one of `AttRequests` or leaves
`Awaited` and what was heard alone (`InOrder`, one lemma per action): a retry
puts the request back where it was, the end of a withdrawn request is invisible,
and a disconnection fails all that are left. The lemmas on `queue.c`
(`PushTail`, `PushHead`, `PopHead`, `RemoveIf`) are stated once.

**The GATT client** (`GattClientProofs`). The invariant `Inv` is a typing of the
client's record and two halves: `RegInv` is about the registrations and the
writes of the CCC, `OpInv` about the other requests. None of the three
properties is inductive, because each speaks of what was told and not of the
requests that will tell it.

- `RegWaits`: a write of the CCC in the queue of the bearer belongs to a
  registration that is listed and waits for it, if it enables, and to one that is
  not listed, if it disables; nobody waits twice, in `reg_notify_queue` or for a
  write. That is what makes each of them told once.
- `OneWrite`: `ccc_write_id` is set exactly while one such write is in the queue.
  The callbacks assert it.
- `Counted` and `Enabled`: as long as no enabling failed or was cancelled,
  `notify_count` is the number of the listed registrations; while it is not 0
  and nothing is being written, the CCC is set; while something is written
  nobody who is listed was told "ok", and each waits in the queue or for the
  write that enables. `ToldMeansEnabled` needs the second part when a write is
  answered, and the count when a registration is told at once.
- `Lasting`: afterwards the count is higher than that number, and stays so. It
  never becomes 0 again, so the CCC is never disabled again, no disabling is in
  the queue, and who knew that it is set (`Knows`) goes on being right. The
  failed paths of `register_notify` and `enable_ccc_callback`, and the
  cancellation of an enabling, lead from `Enabled` to `Lasting`: they are taken
  only while nobody who is listed was told "ok", as `Enabled` says.
- `OpWaits`: the request of an operation has the PDU and the callback of its
  kind, there is one at most whose answer is its result or its next step, and
  an operation that waits in `long_write_queue` is untouched.
- `Whole` is `LongWhole` in terms of the prepared writes that the peer holds
  (`Placed`), and `InTurn` says why it is kept: while the bearer stands and
  nothing is `mixed`, one long write or one session has the only Prepare or
  Execute Write in the queue, and the peer holds exactly the chunks in front of
  it.

Every operator of the module is shown to keep the half it works on and to leave
the fields of the other one alone (`SameReg`, `SameOp`); the callbacks are put
together from them, and `InvNext` has one lemma for each action. A
disconnection is not one step but one for each request that is failed
(`DiscAttSendOp`): in between the invariant holds with the bearer closed.
`OneCccWriteHolds` and `ToldMeansEnabledHolds` speak of any number of
registrations and of an answer of any kind to each write of the CCC.

**The GATT server** (`GattServerProofs`). The invariant `Inv` is `InvOf(s, req,
n)`: of the server, the request and its number, so that it can be stated of the
states inside a handler, too. `Base` is what holds whatever the server is doing,
the rest speaks of the request that is being answered:

- `Numbered`: a pending operation and a call of the application with the same id
  are of the same request, and no id was given twice. That is why a late result
  finds its own operation or none (`ValueIsFresh`).
- `Slots`, and in `Answering`: an operation that is no command waits only while
  the request has no answer, and there is one at most; what it keeps will end in
  a good answer (`Going`). For Read By Type what is in the PDU, the attribute
  that is waited for and those still to be read are together the whole range
  (`TypeGoing`); for Read Multiple the PDU has room left (`MultGoing`).
  `AnsweredOnce`, `NothingSkipped` and `FitsMtu` speak only of the answer, and
  would say nothing of one that is still being put together.
- `Declared`: a declaration of a service keeps its value, because it is not
  writable and nothing else gets into the queue of prepared writes. Without it
  what a Find By Type Value answered could change between two requests.
- `Session`: `Unbroken` until an Execute Write is answered, then an empty queue.
  The lemmas `HeldEmpty` to `HeldHead` say how the octets in the queue change when
  an entry is appended, joined to the last one, or taken from its head.

A handler starts from `Work`, the request without an answer and nothing pending
but a command, and each of them ends in `InvOf` (`GrpEnds`, `TypeEnds`,
`WriteEnds`, ... put together in `Handled`). A report or a timer takes the
operation out of the queue, is at `Work` again (`WorkAgain`) and goes through the
same lemmas (`CallbackKeeps`). The chains of callbacks have an induction each
(`ReadOnIs`, `ReadMultipleOnIs`, `ExecOnIs`): the library's induction theorem has
an operator as a parameter, so `Induct` states induction on the natural numbers
for a *set*, from the well-foundedness of the subsets of a finite set, and a turn
of the chain keeps what `Work` and the PDU under way say.

**The FIFO.** `ShiftContents` shows that n shifts drop the first n bytes of
`Contents` and keep the others, whatever lies behind the buffer.

Only model-checked:

- liveness (`Termination`, `Rescan`, `EveryOpEnds`, `EndsReady`,
  `ChangesHandled`, `EveryRequestAnswered`, `CallsEnd`), which this prover does
  not handle;
- the properties of `GattDiscovery` (`Mirror`, `PendingExist`): a callback there
  folds over all services of the database and over all attributes of an answer,
  with the fold operators of the community modules. Each fold would need its own
  induction over the length of the list, as `GattServerProofs` has for its three
  chains, and that has not been done.

## Not modelled

The packet codec, the byte loop of `kreadpkt`, the chunks of
`tx_fifo_send_bytes`, the loop over several transactions and `K_REINIT` between
them, the client functions of `libfile_transfer`, the main loop's descriptor and
timer tables, the CRC, the debug code, paths and stdio.

A peer of `GattDiscovery` answers or refuses: that an answer of another opcode to
the write of the CCC counts as success (`gatt-client.c:1602`) is in `GattClient`
only.

Of the Bluetooth library: signed writes, the lists of notify and disconnect
handlers and several channels of `att.c`; the MTU exchange (`main.c` passes 0),
the server and client features, clones and included services with long UUIDs of
`gatt-client.c`; the delivery of a notification to its handlers; notifications
and indications sent by the server, and its authorize function, which the
program does not use; the hash function and the access functions of `gatt-db.c`.
`queue.c` is a sequence in the models; `util.c`, `uuid.c`, `crypto.c`, `hci.c`
and `bluetooth.c` are conversions, name tables and system calls. The queues of
`att.c` are used by the file transfer thread and the main thread without a lock
(`main.c:918`); the models take them as the library does, under one thread.

## Plan

1. `ReadPkt`: `kreadpkt` byte by byte (timeout on the last poll, SOH inside a
   packet, `cmd[5]`, length limit, a timeout of 0), refining the lost and spoilt
   packets of `KermitLink`.
2. `FtTask`: several transactions on one connection, `K_REINIT`, the results of
   `libfile_transfer`, `ft_wait_ms`.
3. `Mainloop`: descriptors, removal during dispatch, timers, the descriptor limit.
4. `Codec`: `encode`, `decode`, block checks and sequence fields as functions,
   checked against a reference.
5. Proofs: `PendingExist` of `GattDiscovery`, with a lemma for each of its folds.
