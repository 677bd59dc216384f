# A TLA+ model of Storjutp

Storjutp transfers files between peers over uTP. This directory holds TLA+
modules for its parts, TLC configurations that check them on small instances,
and proofs that TLAPS checks for every instance. Paths below are relative to
the repository.

## The system

| part | code | state | operations |
|---|---|---|---|
| Storjutp node | `cxx/Storjutp.cpp`, `cxx/Storjutp.hpp` | the `fileInfos` list, the user data pointer of each socket, the stop flag | `registHash`, `sendFile`, `stopHash`, `getProgress`, `start`, destructor; callbacks on read, error, accept, state change |
| FileInfo objects | `cxx/FileInfo.cpp` | hash, size, file, socket, bytes of the header | header encoding and decoding, `isCompleted` |
| Python class, binding | `storjutp/storjutp.py`, `cxx/utpbinder_python.cpp` | the loop thread, the capsule | every method: set the flag, join, call, start a new loop |
| libutp, a connection | `libutp/utp_internal.cpp` | send and receive buffers, sequence numbers, windows, timers | `utp_writev`, `utp_close`, `utp_process_incoming`, `check_timeouts`, deferred acks |
| libutp, set-up and dispatch | `utp_internal.cpp` | the socket table, connection ids, `rst_info` | `utp_connect`, `utp_process_udp`, `utp_check_timeouts` |
| libutp, containers | `utp_hash.cpp`, `utp_templates.h`, `utp_internal.cpp`, `utp_api.cpp` | the table of sockets, the ack list, `last_utp_socket`, ring buffers | lookup, add, delete, iterate; `grow`; `utp_issue_deferred_acks`; `utp_destroy` |
| libutp, measurement | `utp_internal.cpp` | delay histories, RTT, MTU search, clock drift | LEDBAT control |

How they interact. Application threads call a Python method. It stops the loop
thread, calls the C++ object under the interpreter lock, and starts a new loop
thread. The loop (`Storjutp::start`) polls the UDP socket, hands datagrams to
`utp_process_udp`, issues deferred acks when the socket is drained, and calls
`utp_check_timeouts`. libutp calls back into the node from any of these. The
node finds its FileInfo through the user data pointer of the socket, may delete
it and close the socket, and calls the handler of the application, which may
call methods again.

What is hard: pointers between sockets and objects that callbacks, API calls
and errors tear down in any order; a stop flag and a join in place of locks;
packets lost, duplicated and reordered; sequence numbers that wrap;
retransmissions that race late acknowledgements; connections that end from
both sides, by FIN, RST and timeout.

What makes each part correct: a callback never sees a deleted object, each file
is reported exactly once, a file reported received is the file (node); no call
overlaps the loop and the loop comes back (Python class); the stream is
delivered in order, without gaps, and ends cleanly only when delivered
(connection); a packet reaches the connection it belongs to (set-up); the
containers behave as the set, list or map they stand for.

## Modules

### `Storjutp.tla`: the node

`heap` holds every FileInfo ever allocated, numbered in the order of
allocation; a deleted one is kept with `live` FALSE, so that a dangling pointer
can be seen. `fileInfos` is the list (a set: the order of the list is the order
of allocation). `conn` and `userdata` are what libutp keeps for each socket.
`peer` is the byte stream the remote end of an accepted socket sends. `reports`
is a history. A callback with the whole of libutp's work around it is one step,
since the node has one thread, except where it calls the handler of the
application. Every caller of `callHandler` still has something to do after it:
`stopHash` has closed the socket and then deletes the object, the callbacks
delete the object and then close the socket. So the call is a step
(`CallHandler`), and the return of the handler with what its caller does then
is another (`HandlerReturns`, `Drop`). `handlers` is the stack of the
handlers under way, each with its caller, object and socket (`Frame`); the innermost
returns first. In between, the object is still listed and the user data of its
socket, and a handler may call methods where `HandlerCalls` says so: in a
callback of the loop, or called by `stopHash`. Each method called from within
`stopHash` starts the loop again (`storjutp.py`), so in such a handler the loop
may take steps too (`LoopRuns`). `MaxHandlers` bounds the stack.

`RegistHash`, `SendFile`, `StopHash`, `Destruct` are the API calls that change
state. `OnConnect`, `OnWritable` are `callback_on_state_change` with
`sendBytes`. `ReadBody`, `ReadHeader`, `BindFile`, `RejectFile` are the cases
of `callback_on_read` with `checkHash`. `OnEof`, `OnReset`, `OnTimeout` end a
connection (`Ends` calls the handler of the object, if it has one);
`DelayOver`, `FinAcked`, `Reap` delete the socket. `UseAfterFree`
is a callback that would touch a deleted object, a `stopHash` of an object
whose socket is gone, or a handler that returns to a caller whose object or
socket is gone; anything may follow, so the model stops there
(`node = "undefined"`).

libutp appears through the states a socket can be in, and the callbacks it
makes in each. Two flags say what peers may do: `MultiSource` lets two peers
send one hash at a time, `ShortHeader` lets a stream end inside the header.
With either, pointers dangle; the safety run has both FALSE.

The safety run and the theorems but `TypeCorrect` also have `HandlerCalls = {}`,
and need it. A
handler called by `stopHash` that calls `stopHash` for its hash again finds the
object still listed: with `HandlerCalls = {"stop_hash"}` and two handlers under
way TLC refutes `CloseIsLegal` (`utp_close` is called in `CS_FIN_SENT`, against
the assertion at `utp_internal.cpp:3294`), `ReportedOnce` and `NoUseAfterFree`
(the outer call deletes the object again). With two sockets `PointersAgree`
fails as well: while the handler is under way, the second loop may bind the
object, which is still listed, to the stream of another peer.
With `HandlerCalls = {"loop"}` the first three are refuted too, but from Python
calls of a handler in the loop do not reach the object: `join()` of the own
thread raises before (`StorjutpPy`).
So the assumption is a rule for applications: no method is called from the
handler of a `stop_hash`. The code neither states nor enforces it. It is the
rule under which the threads are safe too (`Disciplined`, below). The live run
does without it.

### `StorjutpPy.tla`: the threads

One agent per application thread, per loop thread (its handlers) and `"inner"`
for a handler called within `stop_hash`. Each method is a sequence of
statements (`pc`): set the flag, join, call, clear the flag, make a thread,
start it. A call and an iteration of the loop take time, so that an overlap is
visible. The interpreter lock keeps two calls of the object apart; it does not
keep a call and the loop apart, which runs without it (`Py_BEGIN_ALLOW_THREADS`).
`Serialized`, `Raising` and `HandlerCalls` say what the application does.
A handler in the loop that calls a method gets no further than `join()`; one
called by `stop_hash` runs the whole method, and starts a loop next to the
call it is in. `CallRaises` is a call whose arguments the binding refuses,
before it reaches the object; any method but `finalize` may. `raised` is a
history: the method that ended last raised.

With `HandlerCalls = {"stop_hash"}` TLC refutes `Exclusive` and `OneLoop`: the
loop that the inner method starts runs beside the outer call, and beside the
loop that the outer method starts. `NoRuntimeError` and `Returns` hold, which is
what `python_live` checks. With `Serialized` FALSE TLC refutes all three safety
properties: a second caller starts its loop while the first is in the object, or
joins a thread that is not yet started.

### `UtpStream.tla`, `ReliableStream.tla`: an established connection

`UtpStream` models both ends of a connection and the network. The state of a
socket is a record; each function of `UTPSocket` is an operator from records to
records, composed the way the code calls them (`ProcessIncoming` =
acknowledgements, flush, fast resend, selective ack, writable, then data and
the drain of the reorder buffer). A full packet holds one byte, which is its
position in the stream. The network keeps a set of packets per end; any packet
sent may be lost and any that arrives may stay to arrive again. How much each
application writes is chosen at the start from `Amounts`, so that one run holds
transfers of several lengths.

Congestion control is abstracted: an ack that acknowledges something may set
`max_window` to any value of `Windows`; a timeout shrinks it the way the code
does, except that it may leave it alone if a single packet is under way, which
may be an MTU probe (`ignore_loss`; `TimedOut`). Pacing, RTT and the peer's receive window are left out. The window never
closes in this program: Storjutp sets no `UTP_GET_READ_BUFFER_SIZE` callback,
so `get_rcv_window` always gives the whole of `opt_rcvbuf`. Buffers and packet
sizes are in `UtpTransfer`.

`ReliableStream` is what an application may rely on: bytes read are a prefix of
the bytes written, EOF comes after all of them, and a socket ends in good order
only if its peer has read everything, has closed first, or has been told EOF.
`ReliableDelivery` says that `UtpStream` implements it, under the refinement
mapping of `Promise`.

### `UtpBuffer.tla`, `UtpTransfer.tla`: rings, EACKs and the MTU search

`UtpBuffer` is `SizableCircularBuffer`: `Get`, `Put`, `EnsureSize` and `Grow`
on a mask and its slots. Slot numbers are sequence numbers masked, so a packet
may be taken for another that lies a ring's size away; nothing in the module
prevents it.

`UtpTransfer` is one direction of a connection on two such rings. The sender
keeps `outbuf` under `write_outgoing_packet`, which refills the last packet if
it was not sent, `flush_packets` with Nagle's rule, `ack_packet`,
`selective_ack` and the retransmission timer. The receiver keeps `inbuf`, reads
the bits of an EACK off its slots, and drains it. A packet carries the numbers
of the writes in it and a length, one byte or full, so that a packet can be
filled up after it was queued. Packets sent are data of the network for ever:
each may arrive at any time and repeatedly. There is one acknowledgement under
way, which may be lost, repeated, or overtaken by another.

The MTU search is part of `send_packet` and `utp_process_incoming` and so of
these actions: a probe is a packet of the transfer, remembered by number
(`mtu_probe_seq`), and probes that arrive, are lost or time out move the
interval. `is_full` depends on congestion control and may stop a flush at any
packet (`Quotas`). Storjutp's `callback_sendto` ignores `UTP_UDP_DONTFRAG`, so
a probe of any size may arrive, and may be lost.

Two things the module made visible, which break no promise of the stream. The
comment at `utp_internal.cpp:891` says that `seq_nr` was just incremented for
the packet sent, but `flush_packets` may send an older queued one; the probe is
then remembered under the wrong number, and the ceiling may fall below a size
that went through. `mtu_reset` does not set `mtu_last` (line 1292), so after a
search that ended at 576 no packet is large enough to start the new search the
comment at line 871 announces. `SearchInterval` still holds: the floor is only
raised to a size that arrived.

### `UtpHash.tla`, `UtpContext.tla`, `SocketDirectory.tla`: the containers

`UtpHash` is `utp_hash.cpp` with its array of elements, one chain of links for
each bucket, and the free list. Keys are numbers: what `compute_hash` makes of
an address and an id. An iterator holds the link it read before it gave out an
element, which may be deleted and used again before the next step.

`UtpContext` is the loop of `Storjutp::start` as the context sees it: datagrams
(`Receive`, with `Dispatch` through `last_utp_socket`), `Drained` and one
`DeferredAck` for each round of `utp_issue_deferred_acks`, then
`utp_check_timeouts` with one `Visit` and `Visited` for each socket, between
which its callbacks may open, use and end any socket; `Destroy` and `FreeNext`
are `utp_destroy`. `Forget` is the destructor of `UTPSocket`. The index of the
ack loop is a `size_t` and wraps (`Width`).

`SocketDirectory` is what the context promises: one socket for a key, due acks
are sent until none is due, a pass comes once to each socket that is there from
its start to its end and never to one that is gone, and a context that is
destroyed leaves nothing. A socket made during a pass may or may not be come
to. `ImplementsDirectory` says that `UtpContext` implements it.

### `UtpHandshake.tla`: set-up and dispatch

Two nodes, each with a set of sockets for the address of the other
(`utp_sockets`) and a set of refusals (`rst_info`). `Connect` is `utp_connect`
with `utp_initialize_socket`: seeds are drawn until `FreeSeed`. `ReceiveSyn`,
`Receive`, `Refuse`, `ReceiveReset` are the four ends of `utp_process_udp`;
`SynTimeout`, `Repeat`, `Delete`, `Forget` what `utp_check_timeouts` does;
`Close` is `stopHash`. `Restart` ends a node and starts another at its address,
with no sockets and no refusals, while its packets and its peer's sockets live
on. Ids are kept as the code keeps them, at full width in a
socket and modulo 2^16 (`Modulus`) in a packet. An established connection is
reduced to the packets it may send and the ways it may end, so the module is
an over-approximation of `UtpStream` in its payload and exact in its ids.

Each socket and packet carries `conn`, the number of the `utp_connect` call it
comes from, which the code does not have; `Routing` compares it with where the
ids lead. `clash` is a history: a seed was drawn while its ids were in use, by
another socket of the two nodes or by a packet still under way.
`utp_initialize_socket` prevents a clash only with receive ids of its own
node, so this can happen: for each other connection of the two nodes, 2 of the
65536 seeds clash. Then packets of one connection can be taken for
another's, and since an RST is looked up by receive id first
(`utp_internal.cpp:2795`), one connection can be reset in place of its
neighbour. The field `conn` also stands for the sequence number by which
`rst_info` tells refusals apart.

## Runs

| run | shows | bounds |
|---|---|---|
| `node_safe` | pointers agree, `utp_close` is legal, one report per file, whole files; handlers call no methods | 2 hashes, 2 sockets, 3 objects, header of 2 units, files of 0-2: a read can hold part of a header, all of it, or header and content |
| `node_live` | every send is reported; every receive whose peer goes on; closed sockets are freed | 1 hash, 2 sockets, 2 objects, any peers, and handlers of `stopHash` that call methods, 2 under way (`MaxHandlers`) |
| `node_shortheader` | violation: use after free when a stream ends inside its header | as above |
| `python_safe` | mutual exclusion, one loop, the loop comes back after every method that does not raise; handlers in the loop call methods | 2 callers, 3 loop threads |
| `python_live` | methods return; no RuntimeError, with handlers that call methods inside `stop_hash` | 1 caller, 3 loop threads |
| `python_raising` | violation: after an exception the loop is not started again | 1 caller |
| `stream_safe` | window, accounting, reorder buffer, delivery | one way, window of 2, numbers wrap at 16 right after the start (`Near`). 3 bytes and a FIN with 2 packets under way and an acknowledgement besides; or 2 bytes, where either end may close at any time, with a packet each way (`Bounded`) |
| `transfer_safe` | rings and EACKs hold what they should; the search keeps its interval; delivery | rings of 2 slots that grow to 8, numbers wrap at 16 after two packets. 6 full packets sent at once; or 3 writes of any size with an MTU between 2 and 6, and one rediscovery (`Bounded`) |
| `context_safe` | the table, the ack list, the cache and the iterators; they implement the directory | 4 keys in 3 buckets, two of them in one, room for 1 element at first; 3 sockets, and 3 acks due or sockets that are over (`Three`); memory is named like the key it is first used for (`OwnMemory`) |
| `handshake_safe` | socket keys are unique; a packet or RST finds its own connection | 2 nodes, 2 connects in either direction, seeds 0 and 2 (so that the ids of the two are neighbours, or a seed is drawn again by the other node, or after its socket has gone), the lower seed first (`FirstSeed`), 2 packets under way or refused, and RSTs besides (`TwoPackets`), limits of 1 socket and 0 refusals (the code compares with `>`: one more is allowed) |
| `handshake_live` | a SYN is given up; a receiver learns that its sender is gone | 1 connect, 2 SYNs again, 2 packets under way |
| `stream_live` | closed sockets are freed, full ones unblock | 3 packets, windows down to 0 |

Why these bounds are enough for what the runs say: two packets with a window of
two already give a hole, a selective ack, a fast resend and a late duplicate;
two connections with neighbouring ids reach every case of the RST lookup;
starting just below the modulus makes every comparison of sequence numbers and
every growth of a ring cross the wrap; a ring of 2 that grows twice holds
packets before, across and after the wrap; three sockets of which two share a
bucket give deletion at the head and inside of a chain, an element reused under
the iterator, and an ack list whose last, middle or only entry goes; two sockets and three objects, in `node_safe` and
`node_shortheader`, are enough for one object to be freed while another
connection still refers to it (two peers that send one hash make two headers
besides the object); in `node_live` a file to send and one to receive, or two
to send one after the other, and a handler within a handler. TLC's
bound on threads only limits how many old loops may be alive: a handler of
`stop_hash` calls a method only while two threads are unused, one for its loop
and one for that of the outer call (`InnerMethod` names the bound).

`CHECK_DEADLOCK FALSE` everywhere but in `transfer_safe`: a destructed node, a
finalized object, a finished connection and a destroyed context rightly have
nothing left to do. A transfer can always repeat a packet.

## Fairness

`Storjutp!LiveSpec`: the timers of `utp_check_timeouts`, which goes over all
sockets every half second while the loop runs, and for `ReceiverReported` that
the peer goes on sending its stream. Handlers return (`HandlerReturns`), also
to a caller whose object is gone (`FreedIsUsed`). Nothing is assumed of the
network.

`StorjutpPy!LiveSpec`: the interpreter runs every thread; a call and an
iteration of the loop end (poll has a timeout); a handler returns.

`UtpStream!LiveSpec`: only timers again. It is weak fairness with the enabling
condition written out, since `Timeout` may be taken without a visible change.

`UtpHandshake!TimerFairness`: `utp_check_timeouts` gets to every socket in
`CS_SYN_SENT` and to every refusal. `NetworkFairness` is what `OrphanLearns`
needs of the network, and no more: a keep-alive sent again and again arrives
some time, and so does an RST sent in answer again and again. A refusal is
forgotten after 10 s (`RST_INFO_TIMEOUT`) although each repetition refreshes
it, because keep-alives are 29 s apart (`KEEPALIVE_INTERVAL`).

## Proofs

Each module of proofs is about the module it is named after, `UtpDelivery_proofs`
about `UtpStream` too; `Basics` holds the lemmas on remainders, least elements
and folds that the proofs about libutp share. All theorems are of the
specification without fairness and for every value of the constants that
satisfies the assumptions stated with them. Every safety property of a passing
run is one of them, and so are the three refinements.

| theorem | module | property | hypotheses |
|---|---|---|---|
| `TypeCorrect` | `Storjutp_proofs` | `TypeOK` | |
| `FileReportedOnce` | `Storjutp_proofs` | `ReportedOnce` | `HandlersKeepOut`: no handler calls a method |
| `PointersAlwaysAgree`, `CloseAlwaysLegal`, `NeverUsedAfterFree` | `Storjutp_proofs` | `PointersAgree`, `CloseIsLegal`, `NoUseAfterFree` | `PeersBehave`, `HandlersKeepOut` |
| `ReceivedFileIsWhole` | `Storjutp_proofs` | `WholeFile` | `PeersBehave`, `HandlersKeepOut` |
| `TypeCorrect` | `StorjutpPy_proofs` | `TypeOK` | |
| `MutualExclusion`, `NeverTwoLoops`, `ThreadsNeverRaise`, `LoopRunsAgain` | `StorjutpPy_proofs` | `Exclusive`, `OneLoop`, `NoRuntimeError`, `RunsUnlessRaised` | `Disciplined`: calls are serialized, and no handler calls a method from within `stop_hash` |
| `NestedNeverRaise` | `StorjutpPy_proofs` | `NoRuntimeError` | `NestedOnly`: calls are serialized, and no handler calls a method from the loop |
| `TypeCorrect`, `UniqueKeys` | `UtpHandshake_proofs` | `TypeOK`, `KeysUnique` | |
| `RoutesToOwner` | `UtpHandshake_proofs` | `Routing` | seed 65535 is not drawn |
| `TypeCorrect`, `TableStaysIntact`, `DispatchStaysRight`, `AckListStaysRight`, `AcksAlwaysShrink` | `UtpContext_proofs` | `TypeOK`, `TableIntact`, `DispatchIsRight`, `AckListAgrees`, `AcksShrink` | |
| `DirectoryImplemented` | `UtpContext_proofs` | `ImplementsDirectory` | |
| `OldestStaysUnacked`, `WindowAlwaysAccounted`, `ReorderBufferAgrees`, `BuffersAreBounded` | `UtpStream_proofs` | `OldestUnacked`, `WindowAccounting`, `ReorderBuffer`, `TypeOK` | |
| `AcknowledgedWasReceived`, `FinArrivesLast` | `UtpDelivery_proofs` | `AckedIsReceived`, `FinIsLast` | `NoWrap` |
| `StreamIsReliable` | `UtpDelivery_proofs` | `ReliableDelivery` | `NoWrap` |
| `TypeCorrect` | `UtpTransfer_proofs` | `TypeOK` | |
| `NoWriteIsLost`, `FloorWentThrough` | `UtpTransfer_proofs` | `BuffersAgree`, `SearchInterval` | `NoWrap` |
| `RingsCarryTheStream` | `UtpTransfer_proofs` | `ReliableDelivery` | `NoWrap` |

### The node

`Storjutp_proofs`: for `TypeOK` the work is in sequences and records: a read
appends to the data of the object the user data points to, or allocates one,
and each action is followed through `[heap EXCEPT ...]`. `ReportedOnce` is not inductive: an object could be
reported again if it were reached after its removal, or while its handler is
under way. `Ledger` says where every object is: unallocated, in the list, a
header, being reported (still listed, with one report), or deleted with one
report; only a listed object or a header is live, and only a live one is ever
given to `callHandler`. The hypothesis `HandlersKeepOut` (`HandlerCalls = {}`)
is what it rests on: the handler under way is the only one, and until it returns
nothing happens but its return (`ActingAlone`). No assumption on the peers is
needed, although pointers may dangle, because the model stops at the first use
of one.

Its second part: for well-behaved peers (`PeersBehave`: both flags FALSE)
pointers do not dangle. `PointersAgree` alone is not enough: `deleteFileInfo` clears
the user data of one socket only, the one the object names. `Pointers` adds the
other direction (an object with a socket is the user data of that socket and
of no other) and where a header may be. `Pending` is about a handler under way:
the socket its caller will close is in a state that allows it, and if the
caller is `stopHash` the socket of the object is closed already, so that no
callback comes before the object is deleted. `Contents` then says, for
each accepted socket, that what was read is a prefix of what its peer sends,
split between header and content as `callback_on_read` does; `WholeFile`
follows when the sizes agree. `StreamAssumption` says what a stream is: at
least a whole header.

### The threads

`Exclusive` is not inductive: a caller in the object is alone only because the
join it passed was of the one thread that can be a loop. `IInv` says so: at
most one caller is in a method, a handler that calls a method gets no further
than the join, only the thread the object knows runs or will run, and from its
join to its `start()` a caller has that thread ended. `OneLoop` is a
consequence. For `LoopRunsAgain`, `LoopIsBack` adds that no caller starts a
thread with the flag set, whatever was raised before, and that where the last
method to end raised nothing and none is under way the loop runs, and only a
handler about to fail in `join()` can have set the flag under it. `NoRuntimeError` is proved
twice, once for each kind of handler: for those on the loop's thread, whose
methods raise in `join()` of their own thread before they get to `start()`, and
(`NestedNeverRaise`) for those that `stop_hash` runs on the caller's thread.

### Set-up and dispatch

Keys need no strengthening: the seed loop and the check for a known SYN are the
only ways in. `Routing` is far from inductive. `Routed` says that there is an
assignment of a seed and an initiator to each connection from which the ids of
all its sockets and packets follow (`Conforms`), and that until a clash no two
connections use the same id (`Apart`). The actions are first reduced to five
shapes (a socket is added, updated, deleted, a packet refused, nothing
changes), then each shape is shown to keep `Routed`; a restart takes sockets
away but no packets, whose ids stay in use as long as they are under way. The
theorem assumes that the seed 65535 is never drawn: its acceptor would have the
receive id 65536, which no packet can carry.

### The containers

The first part of `UtpContext_proofs` holds lemmas on the hash table. `Path` describes a bucket:
a sequence of distinct elements, each linked to the next, the last to none.
`Intact` says that the buckets' paths and the free list part the elements
between them and that an element is in the bucket of its key. From it
follows what `Lookup`, `Add`, `Delete` and one step of an iterator do to the
set of entries; `Walk`, a recursive function with a bound on its steps, is
shown to follow the path, so a bound of the number of elements is
never in the way.

In the second part `Consistent` is the conjunction of `Listed` (a socket and
its place on the ack list agree, and all on the list are in use), `Filed` (the
table is intact and its entries are the sockets in use, each under its key)
and `Pointers` (the cached socket, the iterator and the one being visited are
none or still there). No part is inductive alone: a socket taken off the ack
list is a live one only because `Filed` says that the destructor found it in
the table. The refinement shows that each step is a step of `SocketDirectory`
or a stutter, under the mapping `Entries`, `Due`, `Over`, `Todo`, `Phase`. The
hard case is the iterator: what a pass still has to come to (`Todo`) is what
lies on the rest of the current path and in later buckets, and a deletion or
insertion by a callback changes that as the directory allows. It is assumed
(`ContextAssumption`) that there is memory for finitely many sockets, and that
`NULL` is not one.

### The connection

`UtpStream_proofs`: `Sound` says that each socket is in `Good`: `cur_window` is
the number of packets of the window that are under way and not given up
(`InFlight`), the oldest packet is not `NULL`, and in a connected socket
`reorder_count` is the size of the reorder buffer, which does not hold the next
packet. Every function of a socket maps `Good` to `Good`, whatever packet it is
given, so nothing is assumed of the network. The first two parts
need each other: the loop over cumulative acks stops early only at a packet that
was never sent, and only `SkipAcked` makes the oldest place a packet again, so
within `utp_process_incoming` a socket is for a while in `Counting` only.

The bounds in `TypeOK` need two parts more. `Room`: a socket that is connected
has a place left in its window, `is_full` leaves one when data is written and
`utp_close` takes it for the FIN. `Inbox`: in every state, closed ones too,
`reorder_count` is at most the number of packets in the reorder buffer that are
less than `ReorderMax` past the next one. A closed socket no longer takes that
for the size of its buffer: an EOF resets the count and leaves the packets, which
fall behind as `ack_nr` goes on. A packet counted has a number of its own, so
there are fewer than `ReorderMax`.

The loops of libutp are folds over places of the window. As an induction
principle cannot be cited for them, `FoldExists` (in `Basics`) shows from the existence of a
least counterexample that the fold over `1..n` is what n steps make of its
base, and `FoldWithin` and `FoldStays` that it stays in a set its steps stay
in. With a set that depends on the turn this gives more: after k turns
over the reorder buffer, nothing is next or k packets have been taken out, so the
loop of one turn more than there are packets ends with nothing next. The sum
in `check_invariant` is the cardinality of `InFlight` (`FlightSum`), because a
packet of the model has a byte or none.

`UtpDelivery_proofs` is about the two sockets and the network together. Its
hypothesis is `NoWrap`: what an end has to write, with `ReorderMax + 3` numbers
to spare, is less than `Modulus`. The network of the model keeps a packet as
long as it likes, so without it a packet could come back one turn of the
numbers later and be taken for another; libutp leaves that to the network, and
no check in the code could tell. Where the numbers begin is open, so that
every comparison may be made across zero. The run `stream_safe` satisfies it.

The `k`-th packet of the stream of an end has the number `At(e, k)`. `Total`
is how many packets an end put into its stream, `Got` how many of its peer's
it took in order, `Has` those and what is in its reorder buffer: three
functions of `seq_nr`, `ack_nr` and `inbuf` that undo the wrap. `Delivery`,
the inductive invariant, has a part for each place the data can be in:

- `SendWindow`: each place of the window carries its packet of the stream, or
  is empty because the peer has it; all below the window the peer has; and a FIN
  that was transmitted has everything before it at the peer.
- `Reading`: what was read is `1..n`, an end that is connected has read all it
  took in order, what waits in the reorder buffer is in the stream of the peer,
  and EOF, the state `CS_DESTROY_DELAY` and `eof_pkt` come with the whole stream.
- `Valid`, of each packet under way: its number is that of its data, its `ack`
  and EACK bits name what its sender has now, hence whatever it had then.

No part is inductive without the others: an ack is believed (`SendWindow`)
because it is `Valid`, it is valid because its sender `Has` what it names, and
a FIN is next when it comes because Nagle's rule, `AckOldest` and the selective
ack were right about the packets before it. Each function of a socket
has a lemma `...Sends` that it keeps the sending half right and sends valid
packets; then `Acts` says what a step may do to a socket, in the three
kinds that `ReliableStream` knows (`Talks`, `Rests`, `Fails`), and `NextTurns`
that every action of `Next` is such a step. The invariant is kept by any such
step (`StepDelivers`), and each of the three kinds is shown to be a step of
`ReliableStream` or a stutter. `Budget`, that written and left add up to one of
the `Amounts`, bounds what `ReliableStream` lets an end write.

### The rings

`UtpTransfer_proofs` begins with `UtpBuffer`. `Ring(P)` is a buffer of a size
that is a power of two and divides `Modulus`; `Placed(b, o, w)` says that each
element is in the slot of its number and less than `w` past `o`. Where `w` is
no more than the size, a slot belongs to one number (`OneNumber`), so `Get` gives the
element of that number or `NULL`. The lemmas on `Put`, `Grow` and `EnsureSize`
say which elements a ring holds after them; `Grow` keeps all of them because
numbers less than the old size apart fall into different slots of the new one.
Sizes are members of `Powers`, that is up to 65536: there are no more sequence
numbers.

`TypeCorrect` follows from `Safe`, which assumes nothing of the network: the
ring of the sender holds packets of its window only, the oldest of them is
there, and the search is in its interval (`Sane`, `Live`); the ring of the
receiver holds as many packets as it counts, none of them next (`Receiving`,
`Settled`).

What a function of the sender does beyond that is put once for all of them. A
function changes the search (`Tuned`), learns that a probe arrived (`Arrived`),
sends a packet (`Transmitted`), drops one that is acknowledged (`Removed`) or
moves the window (`Shrunk`), in any order and number. So it keeps every set of
sockets that is `Closed` under the first four and `Shrinking`; each function
has one lemma that says so.

The stream is such a set. Packets cut the writes into runs: with a cut `c`,
which `Cut` says begins at 0, ends at what was written, and has no more packets
than writes, the `k`-th packet carries the writes from `c[k] + 1` to
`c[k + 1]`. A refill moves the last point of the cut and an appended packet
adds one; otherwise the cut stays. `Streaming`, the inductive invariant, says
that there is a cut for which

- `Supplies`: what is in the sender's ring, and all that was ever sent, carries
  its runs; a packet that may still be refilled was never sent;
- `Holds`: a packet that is not in the sender's ring the receiver `Has`;
- `Probes`: a floor above `LeastMtu` is the size of a packet that the receiver
  has, and a probe under way is the size of a packet not after the one it is
  remembered by. It cannot say that it is that packet (the comment at line 891),
  but only a cumulative ack raises the floor, and it covers both;
- `Reading`: what was read is the runs of the packets delivered, and what waits
  in the receiver's ring was sent;
- `Acking`: an acknowledgement names at most what the receiver has, in order and
  out of it, so a late one never takes a packet from the sender too early.

`AcksDelivered` is where `NoWrap` is needed: `acks` is a difference of sequence
numbers, and an acknowledgement older than a whole turn would count. `EackHas`
shows that the bits of an EACK do not run around a small ring into numbers the
receiver has not seen. `NoWrap`, `NumWrites + 2 <= Modulus`, is assumed for the
same reason as in `UtpDelivery_proofs`: a write may have a packet of its own,
and the network of the model keeps packets for ever. `transfer_safe` satisfies it. The
numbers may begin anywhere, so that they cross zero. `NullAssumption` says that
`NULL` is not a packet. For the refinement, each step lets the sender write on
(`SendsOn`) or the receiver read on (`ReadsOn`), which are steps of
`ReliableStream`.

### Model-checked only

Liveness: what the four live runs check needs fairness and ENABLED, which are
out of reach of the prover. The two runs that expect a violation refute their
properties; `NoUseAfterFree` is proved for the peers and handlers that exclude
it. What happens with handlers that call methods from within `stopHash` is only
model-checked: in `node_live` and `python_live`, and the refutations named with
the two modules.

## Findings

- `node_shortheader`: `deleteFileInfo` does not clear the user data of a socket
  whose header is incomplete (`cxx/Storjutp.cpp:272`). Setting `MultiSource`
  instead of `ShortHeader` shows a second way to the same state (line 81).
- `python_raising`: an exception leaves the object without a loop
  (`storjutp/storjutp.py:79`).

That success is reported to a sender when libutp has taken the last byte, and
an error after it to nobody (`cxx/Storjutp.cpp:193`), is as the code means it;
what a report of the receiver guarantees is `WholeFile`.

## Not modelled

- LEDBAT, RTT and delay histories, pacing, clock drift: numeric control loops.
  `UtpStream` gives `max_window` any value instead, `UtpTransfer` stops a flush
  anywhere.
- The receive window and its zero-window timer: it never closes here (above).
- Handlers that call the C++ object from a callback of the loop. No theorem
  and no run has them; from Python they do not get that far. Handlers of
  `stopHash` that call methods are in the live runs only (see `Storjutp.tla`
  and `StorjutpPy.tla` above: the safety properties fail with them).
- ICMP handling and the firewall callback: Storjutp never calls the one and
  never sets the other.
- Platform helpers, address packing, option setters; the disk (a short
  `fwrite` that loops at `cxx/Storjutp.cpp:113`, a failed `fopen`); memory leaks.
- `ucat`, the log tools, tests and build files. `docs/html` is generated
  documentation; its scripts (jQuery, underscore, the search page of Sphinx)
  are third-party assets of a web page and no part of the program.

## State of the work

Modelled and checked: the node, the threads, the connection, set-up with
restarts, the containers, the buffers and the MTU search. Proved: every safety
property of the passing runs, with the refinements of `ReliableStream` and
`SocketDirectory`. Liveness stays with TLC. What would extend the work is a
model of the parts listed above as not modelled, first of all of the congestion
window, which takes any value here.
