# A TLA+ model of libpict

libpict is a C library that speaks PTP to cameras, over USB, over TCP with
USB-style packets (`PTP_IP_USB`) and over PTP/IP. An application makes one
`struct PtpRuntime`, shares it between its threads, and calls `ptp_*` functions
that each run one operation on the camera. This directory holds the TLA+
modules that model the library's control, the TLC configurations that check
them, and TLAPS proofs about them. `PROJECT.json` gives, for every definition,
the lines of the source it stands for.

## 1. The system

| component | source | state it keeps | operations | model |
|---|---|---|---|---|
| operation layer | `src/src/lib.c` | `mutex`, `data`, `data_length`, `transaction`, the two kill switches | `ptp_send`, `ptp_send_data`, `ptp_mutex_*`, `ptp_buffer_resize` | `PtpRuntime` (threads), `UsbTransport` (bytes), `OperationBus` (what it promises) |
| operation wrappers | `src/src/operations.c`, `src/src/canon.c` | none of their own; `session` | one `ptp_send` each, some with the mutex around it and a parser behind it | `PtpRuntime` (threads), `Requests` (loops), `Encoding` (payloads) |
| disconnect | `src/src/error.c` | the kill switches | `ptp_report_error` | `PtpRuntime`, `Connection` |
| USB-style transport | `src/src/transport.c` | `wait_for_response`, the read loop's counters | `ptp_send_packet`, `ptp_receive_all_packets` | `UsbTransport` |
| PTP/IP transport | `src/src/transport.c`, `operations.c` | `wait_for_response`, the place in `r->data` where the packet under way begins | the handshake, `ptpip_receive_bulk_packets`, `ptpip_read_packet` | `IpTransport` |
| packets | `src/src/packet.c` | headers in `r->data` | generation and access | `Encoding` (bytes), `PtpRuntime` and `UsbTransport` (lengths, types, transaction IDs) |
| data structures | `src/src/data.c`, `libpict.h` | none | reading and writing strings, arrays, object, storage and device info, property values and descriptions, uploads | `Encoding` |
| libusb backend | `src/src/libusb.c` | `comm_priv` (handle, endpoints), `max_packet_size` | list, open, connect, close, transfer | `Connection`; open and close among threads in `PtpRuntime` |
| socket backend | `src/src/ip.c` | `comm_priv` (sockets), `max_packet_size` | connect, close, write, read | `Connection`, `UsbTransport`, `IpTransport` |
| runtime life cycle | `src/src/lib.c` | every field | `ptp_new`, `ptp_init`, `ptp_reset` | `Connection` |
| supported values | `src/src/lib.c`, `data.c`, `generic.c` | `avail`, a list of lists | `ptp_set_prop_avail_info`, the `AvailListChanged` event, `ptp_set_generic_property` | `PropAvail` |
| event reader | `src/src/data.c` | a cursor into `r->data`, `struct PtpEventReader` | `ptp_eos_events_*` | `EosEvents`, composed with `PropAvail` |
| value conversion | `src/src/conv.c`, `data.c` | none | four tables, the image formats, `ptp_eos_prop_next` | `Conversion` |
| procedures | `generic.c`, `liveview.c`, `ml.c`, `canon.c`, `operations.c` | the camera's shutter and mirror; a file position | taking a picture, live view, `ptp_download_object`, `ptp_eos_update_firmware`, `ptp_get_event` | `Requests` |
| bitmap frames | `src/src/ml.c` | none | `ptp_ml_get_bmp_lv`, `yuv2rgb` | `Frame`, used by `Encoding` |
| bindings | `src/src/bind.c` | one runtime | a text protocol over the calls above | `Requests` |
| enumerations, printing, command line tools, Windows and empty backends | the rest of `src/src` | none, or an external service's | constants, text and sequences of calls above | not modelled |

How they interact: a wrapper fills a `struct PtpCommand` and calls `ptp_send`,
which takes the recursive mutex, has the packet built in `r->data`, lets the
transport write it and read the reply over it, takes the return code out of it
and releases the mutex. Whoever wants more of the reply reads it out of
`r->data`, inside a mutex of its own or not. Failure is signalled through two
switches: `operation_kill_switch` (no more operations) and `io_kill_switch` (no
more I/O), which are set by failing operations, by the disconnect procedure and
by `ptp_device_close`, and cleared by whatever connects. `ptp_send_packet`
chooses a backend by `connection_type`; the backends share the pointer
`comm_priv`, which each takes for its own structure.

What is hard here, and what makes it correct:

* **Threads.** Every shared field is read and written between and around lock
  and unlock, with early returns, retries, nested locks and two looks at a
  switch. Correct means: locks pair up, the buffer has one writer, each caller
  sees the reply to its own command, transaction IDs are consecutive, nothing
  is sent after the disconnect, nobody waits forever.
* **Replies.** Packets arrive cut at any byte, in one transfer or many, with
  empty transfers between, late, or never; over PTP/IP also doubled, foreign, or
  followed by the end of the connection. Correct means: the whole reply and
  nothing else, inside the buffer, once, in bounded time.
* **Connections.** Opening has several steps that fail on their own; listing,
  opening, closing, resetting and connecting again come in any order. Correct
  means: a connected runtime has the device it claims to have, with its
  endpoints and packet size, and the caller's lock survives.
* **Supported values.** Lists grow, shrink and vanish in place. Correct means:
  memory stays inside the allocation and validation decides as the camera last
  said.
* **Event packets.** The reader counts the records of a packet, then takes them
  one by one out of a buffer that any other operation overwrites, unless the
  application holds the mutex. Correct means: the array is not overrun whatever
  happens, and a reader that holds the mutex gets every event in order.
* **Procedures.** A picture, a bulb exposure or live view is several operations,
  and each request looks at their results in its own way: the result of
  `ptp_send`, or the return code in `r->data`, which may be an older one. Correct
  means: success means done, and nothing follows a failure. Files go in pieces,
  whose sizes and offsets are counted in two places each. Correct means: what
  arrives is the file.
* **Bytes.** Two packet layouts, fields that follow strings and arrays of any
  length. Correct means: what is parsed is what was sent.

## 2. The modules

### `PtpRuntime`: threads

One action is one access of a thread to shared state: a look at a switch, a
lock, a write of the buffer, a transfer. `pc[t]` is the place in the code,
`call[t]` which function the thread is in, and the label names follow the
statements: `Check1` is the look at `operation_kill_switch` before the lock in
`ptp_send`, `Check2` the one after it, `Resize` the reallocation in
`ptp_send_data` with the unlock that follows it and the return of
`PTP_OUT_OF_MEM` if `realloc` fails (fault `"memory"`: `r->data` is then NULL, and
who uses it ends the program), `Build` ... `ReadReply` one
`ptp_send_try`, `ReadIgnored` the retry, `FailUnlock` and `FailKill` the error
exit in the order the code has them, `Count` the transaction counter, `CheckRc`
the return code, `ReleaseLock` the last unlock. The wrappers are told apart by
how they use mutex and buffer (`SendOnly`, `SendData`, `SendThenParse`,
`LockedParse`). The camera answers each command with one reply, or none, or too
late; replies queue in `inbox`. Who built a packet, for which call, is history
kept in the packet (`by`, `nth`).

### `OperationBus` and `PtpRuntimeBus`: what the operation layer promises

The abstract specification: a bus that one thread owns at a time, on which
commands are numbered in turn, each answer belongs to the command on the wire,
and each operation ends with a result, once, before its caller can make another
call: success if the camera has answered `PTP_RC_OK` to the command of that very
call, or a failure. Who is in an operation (`operating`) and what it has
returned (`told`, "none" until then) are part of its state, so a call that
returns success without an answer, or never gets a result, is no behaviour of
it. It has no buffer, no retry, no second switch and no nested mutex.
`PtpRuntimeBus` maps it: the owner of the mutex is the owner of the bus,
`io_kill_switch` shuts it, `transaction` is its turn, `last` is the command on
the wire, `data`, once it holds a response, is the answer, and `rc` is what an
operation has returned. An ignored command that is sent again is a second `Send`
of the same turn.

### `UsbTransport`: one call, byte by byte

The camera's bytes are one stream; a position says where its packets start, and
`read` how much of it the current attempt has in `r->data`. `Write` is one turn
of the loop in `ptp_send_packet`; `Read`, `ReadZero` and `ReadError` are one
turn of the loop in `ptpusb_read_all_packets`, with the buffer growing before
each read (`Room`) and the decision after it (`Decide`). When the loop looks for
a header where the camera has put none, the header it sees is arbitrary. The two
connection types differ in what a transfer can bring (`Available`) and in
whether silence is an error or zero bytes. `WaitDefault` is
`response_wait_default`: 1 is what `ptp_new` ships (`lib.c:18`). The fault `"zlp"`
is the empty packet that USB allows behind a payload that ends with a full one.

### `IpTransport`: the handshake and the replies of a PTP/IP camera

The same for PTP/IP, where each packet tells its length before it is read.
`InitCommand`, `AckRead`, `AckReadRest` and `InitEvents` are the handshake on the
two sockets: two reads, of what there is by then, after which the type is looked
at where it should be (`Refused`); `ack` remembers whether the answer came whole
to its place, in parts, or not at all.
`Receive` starts one reply; `ReadLength`, `LengthFails` and `ReadRest` are the
turns of the loops in `ptpip_read_packet`, and `PacketRead` is what
`ptpip_receive_bulk_packets` does with a packet: the first, second or third
(`part`), at offset `of`. Bytes are numbers in the camera's stream, so that the
content of `r->data` shows where it came from, and what the code takes for a
length or a type (`LengthsAt`, `TypesAt`) is that of the packet whose bytes lie
there, or anything. Lengths are unsigned and count modulo `Word` (`Asked`); a
packet may have any. The network is external: `Arrive`
brings some bytes, `Close` ends the connection at any place. The application
stops after an error, as every caller in the repository does.

### `Connection`: the life of a runtime

One action is a library call, in one thread, except for the loop over the
devices (`StartList`, `FillEntry`, `EndList`, `ConnectFirst`). All handles ever
opened are remembered with their state, so a dangling or stolen handle shows.
`Dispatch` is the choice in `ptp_send_packet`: the packet goes to a claimed
device, a socket, descriptor 0, the other backend's structure, or the program
aborts. The application is assumed to do what a caller of this interface must:
not to list or connect while connected (`ptp_comm_init` aborts), not to open
sockets on a USB runtime, to close only what it opened. `Settings` says which
application it is, with which faults; one run has four of them.

### `PropAvail`: lists of supported values

The chain of nodes as a sequence, each with `memb_size`, `memb_cnt`, the bytes
allocated for it (`room`), those the last copy wrote (`filled`) and what its
members read as (`data`). A list has members of a size of its own, as
`ptp_eos_events_next` divides it out of the record, while the node keeps that of
its first list; members read over bytes of another size are `Mixed`. A size other
than 1, 2 or 4 makes the validation abort (`Unsupported`). `told` and `sizes` are
history: what the camera last announced, and the sizes it has announced. Nodes of
the placeholder code 0 do not occur.

### `EosEvents`: the event reader

Extends `PropAvail`, whose variables it shares, and `Conversion`. `packet` is the
sequence of records in `r->data`, with their sizes in bytes; `data_of` and
`index` are the reader's cursor. `Open` counts, `NextEvent` takes one record,
stores and prints it and applies it to the supported values; `NoMore`,
`Overflow` and `Terminator` are the three ways out of `ptp_eos_events_next`.
`GetEvent` chooses whether the application holds the mutex (`held`); while it
does not, `OtherOperation` may put another reply, or other events, into
`r->data` between any two steps. An offset where no record begins shows
arbitrary bytes (`At`), which may read as an `AvailListChanged` of any property
with a list of any size (`Stray`), and are applied like any other. `former` is
history: the supported values when who holds the mutex got the packet.

### `Conversion`: tables

The rows of `conv.c` and the lookups in both directions, and `Reported`, the
value `ptp_eos_prop_next` makes of a property. No variables.

### `Requests`: procedures and bindings

A request is a sequence of operations (`Procedure`), each with what it does to
the camera (`Effect`) and how its result is looked at (`Look`): `"rc"`,
`"code"`, `"payload"` or `"none"`; loops and events have a look of their own
(`"piece"`, `"firmware"`, `"event"`). Each operation succeeds, is refused, fails
in transfer before or after the camera has acted, or is not sent because
operations are stopped. `ReadEvent` is `ptp_get_event`: the interrupt endpoint
needs a connection (`io_kill_switch`) and not the other switch, its errors other
than a device that is gone count as nothing read, and a container is left in
`r->data` while the caller gets its length. `Connect` and `Disconnect` may fail.
`code` is what `ptp_get_return_code` would find, which after a failure may be
anything, and after an unsent operation is that of the reply before. `di` may be
garbage, since it is allocated before it is filled: then the request may take
the camera for any kind. `TakePiece` and `PieceFails` are one turn of the loop
of `ptp_download_object`; `SendPiece` and `SendPieceFails` one of
`ptp_eos_update_firmware`, with the unsigned arithmetic of `sent` and with what
`fread` leaves in the buffer behind the end of the file. `image` is the firmware
the camera has then, byte for byte. Requests that are one operation on every
camera, and alike to all that follows, are one (`Single`). The camera is
external: it does what it is told, if it knows the operation.

### `Encoding`: bytes

`data` is the bytes of `r->data`. `Ask` and `SendPayload` build the packets,
`Answered` is the camera's reply in the layout of the connection type, and the
accessors (`ptp_get_return_code` and the others, under their own names) and
parsers are operators on `data`. A structure is a layout, a sequence of fields,
so that object, storage and device info share `Pack` and `Parse`.
`SetThenReported` sets a property through the tables and reads it back. `AskIn`
is the first packet to a PTP/IP camera, with a device name in it. `ValidEntries`
and `Separated` are the values `ptp_prop_desc_json` lists and where it puts a
separator.

### `Frame`: a bitmap becomes a frame

`ptp_ml_get_bmp_lv`: the loops over the bitmap (`Pixel`, one turn), the
conversion of a colour (`Rgb`, `Shown`) with the integer division of C, and
`FrameOf`, the frame after the last turn. No variables; `Encoding` extends it and
checks it on the payload of an answer.

`MC*` modules instantiate these for TLC, `*_proof` modules hold the proofs.

## 3. The runs

| run | question | bounds |
|---|---|---|
| `operations` | do locks pair up, is the buffer guarded, does each call read its own reply, are transaction IDs consecutive? | three threads, one call each of the four ways to use the mutex, ignored and unanswered commands |
| `disconnect` | is CloseSession last, is there no transfer after the switch, does every call return, is `OperationBus` implemented? | two threads, two calls each, intended and reported disconnects, ignored, lost and failing transfers |
| `reconnect` | does a connected runtime have an open handle? | two threads, three calls each: one closes, opens and reports, the other reports and sends payloads that resize the buffer; failing transfers and a failing `realloc` |
| `replies` | is the whole reply read, once, inside the buffer, and is a command sent again only if it was ignored? | packets of 8 bytes, so that headers of 12 are cut; payloads that end inside, before and with a packet; the single try that `ptp_new` ships, and callers that set three; ignored commands; both connection types, so that a socket cuts the reply anywhere at up to 8 bytes; no empty packets, see `empty_packet` |
| `transfer_errors` | does a call return whatever fails? | both connection types; stalls, errors, ignored commands |
| `connections` | claimed handle, packets to that device or socket, its endpoints and packet size, caller's lock | two cameras, six calls, four applications: one that lists and opens USB cameras, with failing open, detach, claim, release and transfer, and one of each connection type that connects by the other ways (devices found elsewhere, sockets) with every fault |
| `ip_replies` | over PTP/IP, is one whole reply taken, inside the buffer, and none from a camera that refused the handshake, and does every call return? | packets of their real sizes with four bytes of payload; replies of one and three packets, with a packet missing, doubled or foreign, and with packets that end within their header (lengths of 4 and 6); pieces that cut a length or the rest (3), end with the length (4) or bring all (50); bytes read as a length that say 2, 60, or, of numbers below 1000, 998, whose sum wraps; an answer to the handshake that comes before, between or after its two reads; silence before a packet and the end of the connection at any byte; a buffer of 36 bytes that a data phase outgrows; one try and two; two replies |
| `events` | one node for each property inside its allocation, validation as announced; each event delivered in order to who holds the mutex and printed as a well-formed JSON list, each list of its packet in the supported values and no other, the array never overrun | two properties, lists of up to two of two values with members of two bytes, and of four and of three; packets of up to three records with and without terminator, intruding replies of three kinds, stray records with and without a list, any number of packets |
| `requests` | does success mean that the camera has done it, does nothing follow a failure, is a file whole that was downloaded or sent? | three kinds of camera, four requests, files of zero, one, two and more pieces with and without a remainder (a download piece is 2 bytes, a firmware piece 6 with a name of 2, an unsigned int has 32 values), every outcome of every operation, connections that fail |
| `encoding` | does a parser return what was sent, in both packet layouts, is a value reported as set, and a bitmap cropped to the screen? | codes and transaction IDs above and below one and two bytes; strings that are empty, short, the longest that fit and one longer; arrays from empty to full; descriptions of each kind of type and form, values of each width; file and device names up to the longest that fit; every row of every table; bitmaps of two rows of four with one pixel unlike the others, cropped to two by two |
| `large_payload`, `empty_packet` | expected violations, see section 6 | the smallest instance that shows each |

Why the bounds are enough: the behaviours of `PtpRuntime` differ by how calls
overlap, and two or three threads show each pair of places in the code together
(a third waits for the mutex meanwhile); what depends on a call before (a
leftover reply, a switch that stays set) needs two calls of a thread. In
`UsbTransport` only lengths relative to the header and to the packet size
matter, and the payloads cover smaller, equal and larger. In `IpTransport` every
read starts over at a packet, so that the ways to cut the first packets are all
there are, and the second reply shows what the first leaves behind. Six calls are
list, connect, use, close, reset or reconnect, and use again. What `Requests`
keeps from one request to the next is `di`, `code`, the kill switch and the size
of the buffer: four requests set each of them wrong and use it. A pixel of
`Frame` depends on its own byte and its place only, and one turn moves at most
one pixel into the next row, so two rows with one pixel unlike the others show
each of them. The reader of
`EosEvents` starts over with each packet, so three records, of which each is
first, last or between, are enough; the chain of lists grows over packets. Fields
of four bytes hold values up to 2^31 - 1, TLC's largest: each byte is used, the
top bit is not.

Fairness. `PtpRuntime` assumes weak fairness of each thread's `Step`: a thread
inside the library is scheduled, and its transfers return because
`libusb_bulk_transfer` is called with `PTP_TIMEOUT` and sockets have a receive
time-out. Nothing is assumed of `Call`. Weak fairness does not promise a thread
the mutex while others keep taking it; `EveryCallReturns` holds because the
number of calls is bounded, that is, it says that no call keeps the mutex or a
retry forever, not that `pthread_mutex_lock` is fair. `UsbTransport` assumes that the
thread runs (`Step`) and that the camera answers or ignores what it was asked
(`Answer`). `IpTransport` assumes that the thread runs (`Step`) and that what the
camera has sent arrives while the connection is open (`Arrive`): a camera that
stops in the middle of a packet and never closes keeps the library waiting
(section 6).

Deadlock is checked in every run except that of `Connection` (`Finished` and
`Stopped` mark the intended ends). `Connection` stops when its calls are used
up or the program has aborted, so its run says `CHECK_DEADLOCK FALSE`.

## 4. The proofs

Each theorem is for every value of the constants: any number of threads, calls,
cameras, packets, sizes and faults. An assumption beyond those of the modules is
an operator of the proof module, named here with what it excludes; each excludes
a behaviour of the code that section 6 lists, or shows.

`PtpRuntime_proof` (locks, switches and replies; `PtpRuntimeBus`)

* `TypeCorrect`: `TypeOK`, inductive as it stands given the lemmas on mutex and
  replies.
* `LockInvariant`, `ExclusionHolds`, `BufferIsGuarded`. The inductive invariant
  is `LockInv`: the mutex is owned and as deep as the places of the threads
  require (`LockBalance`: `Held(t)` counts the locks a place implies), each part
  of the code runs for the calls that reach it (`Placed`), and no payload needs a
  resize (`Fits`). Assumption `SmallPayloads`: every payload fits the buffer.
  Without it the theorem is false, which run `large_payload` shows. `Exclusion`
  follows, since two threads in the locked part would both own the mutex, and so
  does the action property `BufferGuarded`.
* `NoTransferAfterKillHolds`, from `KillInv`, with `NoDeviceClose`:
  `ptp_device_close` sets the switch without the mutex (`libusb.c:320`).
  `io_kill_switch` is otherwise set by a thread that owns the mutex, so by
  `Exclusion` nobody is between a command and its reply.
* `OwnReplyHolds`, from `ReplyInv`: an unread reply is the only one, and belongs
  to the thread about to read it. Assumption: no reply comes after its read has
  given up (fault `"late"`), because no transaction ID of a reply is compared
  and a late one would be taken for the next.

and what the operation layer promises:

* `RuntimeImplementsBus`: `Spec => ImplementsBus`, each action of `PtpRuntime`
  is one of `OperationBus` or a stutter. So an operation that returns success
  has had `PTP_RC_OK` in answer to its own command: `Tell` is the only action
  that tells of success, and it needs that answer. The invariant is `BusInv`:
  those above, `PacketInv` (what is in `r->data` and on the wire where a thread
  is: its packet carries the counter as it still is, and the second attempt
  repeats the first), `AnswerInv` (what the thread has read is the answer to the
  command on the wire) and `ToldInv` (a thread in an operation has a result from
  the end of its `ptp_send` on, and not before). `Shared`: the payloads fit, no
  reply is late, and nobody opens a session or a device or closes it meanwhile;
  `ptp_open_session` starts the count again without the mutex
  (`operations.c:88`).
* `TransactionOrderHolds`: `TurnInv` adds that the count is one ahead of the wire
  before a first attempt. `Undisturbed` also excludes a wire that fails in the
  middle: the mutex is then free before the switch is set (`lib.c:224`), and a
  thread that waited sends a second command of the same number.
* `GoodbyeIsLastHolds`: `GoodbyeInv` says that once CloseSession is out the
  operations are stopped, or the thread that sent it is on its way to stop them
  and has not let another one in. Nobody may
  open the device or a session again (`Never(Restart)`); every fault may happen.
* `ConnectedHasHandleHolds`: `HandleInv` follows the thread that closes and
  opens; `OneCloser`: there is one, since `ptp_device_close` takes no mutex: what
  one thread opens between the switch and the handle of another's close is closed
  by it, with the switch clear.

`UsbTransport_proof` (a call, byte by byte)

* `TypeCorrect` and `ReadFitsHolds`, for every packet size, buffer size, set of
  commands, fault and way to cut the reply.
* `WholeReplyHolds`, `NoRepeatHolds`, `ResentOnlyIfIgnoredHolds`, from
  `ReplyInv`. A read that has begun reads either the reply to its own command,
  which then is the last thing in the stream (`Answered`), or nothing, because
  the camera has ignored the command (`Unanswered`); what is read is `read`
  bytes from the first of that reply (`Reading`), and between calls the stream
  is used up (`Resting`). That the parts of a stream follow each other without
  gaps (`StreamOK`) makes the bytes read of a packet a number that the loop can
  take for its length. `Patient`: commands may be ignored and packets be empty,
  but no read gives up on a reply that is coming, which the code does not ensure
  (section 6); and with one try only, which is what `ptp_new` ships
  (`lib.c:18`), no packet is empty, since an empty packet uses up the try, which
  run `empty_packet` shows to fail. With two tries or more there may be any.

`IpTransport_proof` (a reply over PTP/IP)

* `WholeIpReplyHolds` and `RefusedStaysOutHolds`, from `IpInv`, while the
  exchange is `Clear`: the handshake has got its answer whole or not at all, and
  no packet is shorter than a header. Both can fail in the code, and section 6
  says what follows. A call that reads is at the start of packet `b` of the
  stream, which no read before has touched, and `r->data` holds the packets
  before `b` of this call side by side (`ReadingAt`); the bytes of the packet
  read so far are those of the stream, so the length found there is the
  packet's, which bounds the next read. `RefusedInv`: while a refusal has not
  been read, nothing behind it was. `BaseInv` is what holds whether the exchange
  is clear or not. `Visible` is about the model only: `BufferMax`, the part of
  `r->data` it shows, covers the answer to the handshake and the packets of a
  reply.
* `IpReadFitsHolds`, from `FitsInv`, without any assumption, for every sequence of
  packets, torn handshakes included, and whatever else is read as a length: of a
  length above four (section 6 says what a smaller one does) whose sum with
  the place of the packet does not wrap around.

`Connection_proof` (the life of a runtime)

* `ConnectedClaimedHolds`, without any assumption, from `ClaimInv`: a runtime
  that is connected by USB has a claimed handle, no other handle has its number
  (`Single`), and while devices are listed it is not connected.
* `CallerLockKeptHolds`, from `LockInv`: the depth is the caller's, and one more
  in the loop over the devices, unless the open of a listed device fails, where
  `libusb.c:121` unlocks once too often.
* `SendsToDeviceHolds` with `KeepsKind`: the application neither closes a socket
  in use nor resets a runtime with sockets (`ip.c:218`, `lib.c:17`).
* `ParametersMatchHolds` with `KeepsKind` and `OneWay`: it finds its devices in
  one way, since each way stores other fields (`libusb.c:105`, `:254`).

`EosEvents_proof` (supported values, of `PropAvail`; events)

* `ChainSound`: one node for each property (`OneNode`), and what is copied and what
  is compared inside its allocation if its members have always had one size
  (`InsideAllocation`, the other half of `ChainIntact`), for lists of members of
  any sizes. The invariant is `Inv`: the size of a node's members is one that was
  announced, and while that is the only one, there is room (`NodeOK`). `OneNode`
  is needed for the allocation: an update must hit the node whose `memb_cnt` it
  compares. `UpdatedSound` and `FreshSound` are the two ways to store a list.
* `ValidatesLastHolds`, from `ToldInv`: each node's data begins with the list
  announced last, unless that was empty, and no `memb_cnt` is 0.
* `EventsChainSound` and `EventsValidate` carry these over to the reader by the
  lemma `ReaderSpec`, with whatever other threads put under it, and with stray
  records, which may announce any list of the constants.
* `EntriesFitHolds`, from `ArrayInv`, whatever replaces the packet between two
  records.
* `DeliveredHolds`, from `HeldInv`: a reader that holds the mutex is at the first
  byte of a record, `length` events behind the start, and has delivered those
  before. Assumption: an event packet has at least one record, the terminator.
* `ListsAppliedHolds`, from `AppliedInv` and under the same assumption: after each
  record, the node of every property begins with the last list taken of it, or
  is as it was when the packet came. This fails if a list is lost, taken twice out
  of order, taken of the wrong property, or taken out of bytes that are no record.

`Requests_proof` (procedures)

* `SuccessMeansDoneHolds`, `CameraAsAskedHolds` and the action property
  `NothingAfterFailureHolds`, without any assumption, from `StepsInv`: what is
  under way is a procedure of the request for some kind of camera
  (`FromProcedure`, which knows by `ProcedureShape` what each procedure looks
  like), the operations before the present one that were looked at have
  succeeded (`DoneSoFar`; the interrupt endpoint is excepted, whose 0 says
  nothing), a failure ends the request or stops all operations
  (`FailedStops`), and the camera has done what they do (`CameraSoFar`).
* `FileWholeHolds`, from `FilesInv`, for every size of piece, name and file: the
  pieces of an object lie end to end, and those of a firmware are in place and
  `sent` is what they add up to. The arithmetic is in `Multiples`, `WholePieces`
  and `LastBegins`. `Counted`: no file is so long that `sent` wraps
  (`unsigned int`, `canon.c:204`).

`Encoding_proof` (bytes, over both transports)

The proofs speak of where bytes lie (`Lies`), what is kept when more is put
behind (`Put`, `Keeps`), and what is read there (`ReadThere`): a number of one,
two or four bytes is read back if it is below the `Limit` of its width.
`EncodingAssumption` says that what is packed fits its field: codes of two bytes,
transactions and parameters of four, payloads whose packets have a length of
four, names without NUL and, for the handshake, of at most three characters
(`ptp.h:82`), and bitmaps with all their rows (`ml.c` does not look at the
length). What a camera sends in a structure or a description is what its types
allow, within what `Structure` and `Description` say: the characters of a string
are those that `ptp_read_string` leaves as they are (32 to 128), `FieldSize` is
at most 256, since the count of a string is a byte, a number of four bytes is one
that an `int` holds, and the count in front of an array or a string is that of
its items.

* `CommandWholeHolds`, for every command, payload, file and name. `HeaderFields`
  is the USB header, whose two-byte fields are written as four: each is written
  over the start of the next, and then that one is written. `UploadRead` finds
  name and content of an upload, `InitRead` the name in the first packet, of
  whose terminator only one byte is written.
* `ReplyReadHolds`, from `Shape`: `r->data` holds an optional data phase, the
  response and its parameters. `BareReply`, `UsbReply` and `IpReply` show that
  the accessors look for the response where it begins (`Whole`), whose fields
  are then read at their places (`ResponseRead`, `Accessed`).
* `ValueParsedHolds`, a part of `ParsedAsPacked`: a value of 1, 2 or 4 bytes that
  an `int` holds is read as sent, and one of another size is refused.
* `FrameCroppedHolds`, for every size of screen and bitmap. After `k` turns of
  the loops the places passed show their pixel (`Painted`); the pixel written
  behind the last column is the first of the next row, which has not been
  passed (`PixelStep`), and `OnePlace` says that it is no other.

`Parsing_proof` (what is parsed, and the tables; it extends `Encoding_proof`)

* `ParsedAsPackedHolds`, from `PackedOK` (the payload is that of a structure, a
  description or a value the camera may send) and `PayloadThere` (it begins where
  `ptp_get_payload` points, over both transports). It has three parts:
  `StructureParsedHolds`, `DescriptionParsedHolds` and `ValueParsedHolds`.
* `StructureParsedHolds`, for every layout and every value of its fields.
  `Flattened` says that what is packed is the fields side by side, each where the
  one before it ends (`LaidOut`); `FieldRead` that a field is read from where it
  lies and leaves what is behind it. For a string that is because a unit of two
  bytes is one character and the terminator ends the C string (`UnitsRead`,
  `StringRead`): with two units to spare, the terminator is among the units read.
* `DescriptionParsedHolds`, for each type, each value and each form. `DataThere`
  says that the size `ptp_get_prop_size` finds in the bytes is the length of what
  was sent, from which the place of each later part follows (`PartsAreRead`,
  `PartsLie`), and the end of an enumeration (`EnumRead`). `RangeLast`: in a range
  the number listed without a separator is the last one below the maximum, for
  every step, whether it divides the range or not.
* `ShownAsSetHolds`. No two rows of a table have one code, except ISO 640 and 500
  (`TableRows`), so the row found by the code of a value is one with that value
  (`ThereAndBack`), also where rows share a value.

Induction over data. The library's induction theorems take an operator as a
parameter, which no prover here can instantiate. Where data is of any length
(the packets of a reply, the records of an event packet, the pieces of a file,
the turns of the loops over a bitmap), the proofs take the least number for
which a fact fails (`LeastNat`, from the theorem that `<` is well founded on
`Nat`) and show that there is none. That a recursive function has the values its
definition says is shown in the same way (`TurnsExist`, `FrameTurns`,
`FlatExists`), or by showing that any function which says the same of each turn
has its values (`ParseIs`, `LengthIs`).

Only model-checked: the liveness properties (`EveryCallReturns`, `Terminates`,
`IpTerminates`), since liveness under fairness is out of the prover's reach.
Every safety and action property that a passing run checks has a theorem.

## 5. Not modelled

* Commands over PTP/IP: `ptp_send_packet` aborts for `PTP_IP` before any is sent
  (`Dispatch` of `Connection`). What an application may send by itself, through
  the public functions under it, is the environment of `IpTransport`.
* The video socket: three calls that share no state with the operations. Of the
  interrupt endpoint `ptp_get_event` is modelled; `bind_read_int` (`bind.c:524`)
  reads eight bytes of it into `r->data` and does nothing else.
* Connecting while connected, which aborts (`libusb.c:24`), and disconnecting
  without a connection, which uses a closed handle: applications are assumed to do
  neither (`Connect` and `Disconnect` of `Requests`, and `Connection`).
* Printing, JSON included, except for the lists of events and of allowed values;
  `enums.c` and `enum_dump.c`, a generated table of names and searches in it.
* `ptp_close`, after which nothing may use the runtime, and with it a second
  `bind_init`.
* `ptp_device_reset`, `ptpusb_get_status`, `ptp_update_transaction` and
  `ptp_eos_get_liveview`: nothing else in the library calls them, and they change
  none of the state modelled.
* `cli.c`, `dec.c` and `stuff.c`: programs that make the modelled calls from one
  thread and exit, and a printer of packets.
* `libwpd.c`, the backend of Windows builds (`CMakeLists.txt:88`): each of its
  functions is one or two calls of another project, libwpd, and its state and
  results are those of a Windows service. `nikon.c` is one unfinished function
  and is not built; `no_usb.c` and `no_ip.c` return constants.

## 6. Where the code departs from what its docs, comments or tests say

Shown by a run:

* `lib.c:286` releases the mutex after the resize and goes on without it
  (`large_payload`; `libpict.h:257` says thread safe).
* `transport.c:186`, with the runtime as `ptp_new` makes it: an empty USB packet,
  which a camera may send behind a data packet that ends with a full one, uses up
  the only try (`lib.c:18`). The response that follows is dropped as
  `PTP_COMMAND_IGNORED`, and the camera executes the command a second time
  (`empty_packet`). The passing run of that configuration, `replies`, has no empty
  packets; `NoRepeatHolds` has them for two tries and more.

Seen while modelling. The model states the code's behaviour, and the properties
exclude these cases by the guards and assumptions named above:

* `lib.c:285` resizes to the payload without its header, so that a payload that
  just fits is written past the end of `r->data` (`lib.c:283`).
* `lib.c:224` releases the mutex before it sets `operation_kill_switch`, so a
  waiting thread sends a command after a failure (`libpict.h:108`).
* `operations.c:88-97` reset session and transaction without the mutex, though
  `operations.c:96` relies on 0 being sent.
* `operations.c:116` and `:208` parse the reply after the mutex was released.
* `libusb.c:320-327` closes the handle without the mutex, under a transfer.
* `transport.c:149` overwrites `wait_for_response` (`libpict.h:165`,
  `generic.c:88` and `:99` set it in vain).
* `transport.c:186`: bytes that come after one empty read count as an ignored
  command, which is then sent again. `libpict.h:55` says that
  `PTP_COMMAND_IGNORED` is no response; a command with payload goes the same way,
  against the comment at `lib.c:290`, which says 0 bytes. `replies` has no reads
  that give up on a reply that is coming.
* `transport.c:23` aborts for `PTP_IP` (`README.md:10`).
* `transport.c:65`: a connection that is closed counts as an ignored command, and
  silence as an error, the reverse of the comment at `lib.c:290`.
* `transport.c:70`: a length that TCP has cut ends the call with an error;
  `transport.c:90` waits without end for the rest of a packet as long as the
  connection is open.
* `transport.c:114-147`: `data_filled_length` leaves out the first packet.
* `operations.c:47-50`: the two reads of the handshake take what there is by then.
  A refusal that comes between them lies four bytes too far, its length is taken
  for its type, the handshake returns 0 with the refusal read, and the next reply
  is taken from a camera that refused (`operations.c:46`: "Read the packet size,
  then receive the rest"). The model has this; `RefusedStaysOut` and `WholeIpReply`
  are about handshakes that have got their answer whole or not at all (`Clear`).
* `operations.c:47`: silence passes for success in the handshake, and an answer
  that comes later is taken for the next reply; `RefusedStaysOut` says that a
  refusal is not. `operations.c:49` reads as many bytes as the answer says it has,
  whatever the size of `r->data`: the model has answers that fit.
* `transport.c:77-90`: the length of a PTP/IP packet is not looked at. Below 4,
  `h->length - read` wraps around, and the read asks for almost 2^32 bytes behind
  `r->data`, which was made large enough for the length only (`transport.c:81`).
  The model has such lengths; `IpReadFits` is about those above 4.
* `transport.c:77` and `:82`: a packet of length 4 is accepted, and those of 5 to 7,
  though they have no type, for which the bytes behind them are taken; and a length
  near 2^32 makes the sum at line 82 wrap, so that the buffer is not resized.
  `WholeIpReply` leaves out packets shorter than a header, `IpReadFits` the sums
  that wrap.
* `ptp.h:82`: a device name of more than three characters is written over the
  version fields behind it.
* `ip.c:218-227` leave `io_kill_switch` clear: the next packet goes to
  descriptor 0 (`libpict.h:105`).
* `lib.c:17` makes a socket runtime a USB one in `ptp_reset`, which also keeps
  `di` and `avail` of the camera before (`libpict.h:244`).
* `libusb.c:105` stores the packet size of every device listed, so the last one
  counts.
* `libusb.c:121` unlocks a mutex `fill_device_entry` did not lock
  (`test/mutex.cocci:3`).
* `libusb.c:254`: `ptp_device_connect_from_libusb_handle` never stores the
  endpoints.
* `lib.c:76`: a list of no more members than the first is copied over its
  allocation, though each member may be larger, since the size is taken from each
  record (`data.c:799`) and not compared (`lib.c:75`). The model has such lists;
  `ChainIntact` and `ValidatesLast` are about properties whose members keep one size
  (`Steady`).
* `lib.c:80` leaves `memb_cnt` as it was: after a shorter list old values are
  accepted, after a longer one new values are refused (`libpict.h:173`). The
  validation properties are conditioned on it (`Counted`, `Covered`).
* `lib.c:80`: a list of members of another size leaves `memb_size` as it was, so its
  members are compared in the wrong width (`Mixed`); `generic.c:27` aborts on a
  size other than 1, 2 or 4, which a camera may announce. `data.c:799` divides
  without looking at the remainder, and `data.c:795` wraps for a record shorter
  than 20 bytes; records of the model hold a whole number of members, and a
  property code of 0, which would pass for the placeholder, does not occur.
* `data.c:789-802`, read without the mutex: bytes of another reply may be taken for
  a list, which then is what a property is validated against (`Stray`).
* `generic.c:72-73` send the white balance without validation, and the first
  result is overwritten.
* `generic.c:51-82`: a known property of a camera that is not an EOS is not set,
  and the result is 0.
* `bind.c:63`: a failed GetDeviceInfo leaves `r->di` allocated and not filled;
  after a reconnect `di` is that of the camera before. Requests then answer 0
  without any operation, if that camera had none for them; `CameraAsAsked` is about
  requests that made one.
* `bind.c:35` refuses, until `bind_init`, a runtime whose buffer has grown, as
  after a download in pieces of 0x100000 or a firmware update.
* `bind.c:72` prints the device info over the reply in `r->data`, where a later
  `ptp_get_return_code` looks for a code.
* `operations.c:62` reads an event into `r->data` without the mutex.
* `operations.c:63` returns the length of an event before it is copied to the
  caller, and 0 when there was none or the transfer failed with anything but a
  device that is gone (`libusb.c:376-383`): an answer of 0 never says that there
  was an event. `SuccessMeansDone` excepts it.
* `lib.c:122-126`: after a failed `realloc`, `r->data` is NULL and the old buffer is
  lost, with `data_length` as if it had grown; the next operation writes to it.
* `bind.c:23-24` read `r->di` after `ptp_close` has freed `r`; `bind.c:135` sends
  an object info of which only the name is filled in.
* `bind.c:519` prints `"read": 0` after every download, since
  `ptp_download_object` returns 0; `operations.c:374` closes the caller's file on
  one of its exits, and `bind_download_file` closes it again (`closes` is 2).
* `bind.c:220-225` print the pixels of a null frame when the call has failed.
* `ml.c:110` converts one column more than the frame has: each row writes a pixel
  over the start of the next, which is then written, and the last row writes one
  behind the frame. `FrameCropped` is about the frame. The result of the request
  for the palette is not looked at.
* `liveview.c:48` and `:91` abort, and with them every request for a frame.
* `data.c:51` reads `max - 1` units of a string: one that fits its array exactly
  is left without its NUL, and the next field is read from its last unit.
  `ParsedAsPacked` asks for two units to spare.
* `data.c:231` returns a property value as an `int`: a value of 0xffffffff is read
  as -1, the answer for a size that is not known, and the ends of a range of UINT32
  from 2^31 on are negative (`data.c:224`).
* `data.c:217` reads INT8 without its sign; `data.c:335` aborts on a property
  without a form; `data.c:379` leaves the maximum out of the values of a range,
  and never ends if the step is 0; values that are strings or arrays abort the
  printing.
* `ptp_read_utf8_string` writes a terminator behind the array for a string that
  fills it.
* `data.c:506` takes the buffer to end 12 bytes behind its end.
* `data.c:736` never advances on a record of size 0.
* `conv.c:102` gives ISO 640 the code of ISO 500, so it is reported as 500; three
  rows of the shutter table share a value with another, whose code is used when
  it is set. The values are ten-thousandths of a second (`conv.c:9` says
  100000).
* `packet.c:210` returns the code for a parameter behind a USB data packet.
* `operations.c:304` sends GetThumb for `ptp_move_object`.
* `canon.c:204` takes the full piece less the rest for the size of the last piece,
  where it should be the rest. A file whose rest is at most half a piece arrives
  all the same, with bytes behind its end; of a longer rest the last bytes are
  missing and another piece, from other places of the file, is sent for them. A
  rest shorter than the name behind a whole piece makes the length of the data
  shorter than the name, so that `sent` steps back or wraps around, and the call
  may return 0 with part of the file unsent. A file of whole pieces never ends.
  `FirmwareWhole` is checked of the files for which the arithmetic is right.

## 7. Plan

Done, in order of importance: `PtpRuntime` and its proofs; `UsbTransport`;
`Connection`; `PropAvail`; `EosEvents`, which composes with it;
`Conversion`; `Requests`; `Encoding`; `OperationBus` and the
refinement of it; `IpTransport`; the firmware update and the other requests of
the bindings; `Frame`.

Proved: every safety and action property the passing runs check, and the
refinement of `OperationBus`.

Of the model, what would add most is a `Requests` whose operations interleave
with those of another thread, and its composition with `Connection`: which
requests may come in which state.
