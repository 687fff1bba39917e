# A TLA+ model of cRPC

cRPC is a C++20 RPC framework on `io_uring`. This directory models its event
loop, its connections, its wire protocol, its response queue, its service
registration, the process of its echo servers and the clients among its
examples, and one of these clients together with the server; checks the models
with TLC on small instances; and proves every safety property that the passing
runs check with TLAPS, for every value of the constants.

## 1. The system

| Part | Source | State | Operations |
|---|---|---|---|
| Event loop | `src/io_context.cpp`, `io_context.h` | `running_`, `in_flight_`, the free list behind `req_pool_head_`, the two rings | `Run` (main loop and drain phase), `Stop`, `Submit`, `AllocRequestData`, `FreeRequestData` |
| Fixed buffers and files | same | `free_buf_indices_`, `free_file_indices_`, the registered file table | `AllocateBuffer`, `FreeBuffer`, `RegisterFile`, `UnregisterFile` |
| Awaitables, tasks | `src/coro.h` | the `result` in a coroutine frame, `TaskT`'s continuation | `await_suspend`, `await_resume`, start and end of a frame |
| Response queue | `src/response_queue.h` | `items_`, `waiter_`, `closed_` | `Push`, `Pop`, `Close` |
| Connection | `src/coro_connection.cpp` | descriptor, fixed file slot, two buffers | constructor, `Read`, `Write`, `WriteOnce`, `Close` |
| Server | `src/coro_tcp_server.cpp` | listening socket | constructor, `Start`, `AcceptLoop`, destructor |
| Buffer | `src/buffer.h` | storage, `read_idx_`, `write_idx_` | `EnsureWritable`, `Compact`, `HasWritten`, `HasRead` |
| Protocol | `src/protocol.cpp` | none | `ParseMessage`, `EncodeMessage` |
| Registry | `src/registry.cpp` | `keep_alive` | constructor, `RegisterService`, destructor |
| Echo servers | `examples/coro_echo.cpp`, `coro_echo_async.cpp` | one queue per connection; `ctxs`, `threads` and `g_all_ctxs` of the process | `handleConnection`, `writeLoop`, `handleRequest`, `main`, `HandleSigInt` |
| Multiplexing clients | `examples/multiplex_bench.cpp`, `mt_multiplex_bench.cpp` | `pending`, `in_flight`, `recv_error` | sender thread, receiver thread |
| Sequential clients | `examples/latency_bench.cpp`, `latency_bench_mt.cpp` | a staging buffer per connection, one result per thread, the start flag | connect, request loop, `SendAll`, `RecvExact`, merge, `PrintStats` |

How they interact. `main` of a server makes one `IoContext` per thread, enters
it in `g_all_ctxs` for the signal handler and starts the thread, which builds
its listening socket and runs the loop. `AcceptLoop` creates a `CoroConnection`
per client and calls the handler, which starts `writeLoop` and then reads. Every
operation on a socket is an SQE whose `user_data` is a `RequestData` naming a
coroutine; `Run` takes completions off the ring and resumes the coroutines they
name. The read loop cuts messages off the read buffer and starts a handler for
each request; a handler pushes its response into the connection's queue, which
resumes `writeLoop` *inside the push*. The loop that ends last drops the last
`shared_ptr`, and the destructor of the connection gives its buffers, its slot
and its descriptor back, for the next connection to use.

What is hard about it:

- requests, buffers, slots and descriptors are recycled at once, while the code
  that frees them is still running;
- `in_flight_` is counted by hand in several places, and ends the drain phase;
- coroutines are resumed from inside other coroutines, so an order of events
  is an order of nested calls;
- the kernel completes in any order, takes writes in part, hands reads over in
  any fragmentation, and runs out of ring entries;
- `Stop` comes from another thread at any time, and the drain phase that follows
  has a timeout;
- `HandleSigInt` walks a vector that `main` may be filling, or contexts that
  `main` may be destroying, on whatever thread the kernel picks;
- sender and receiver of a client share three accounts without a common lock, and
  the only bound on the server's queue is the window those accounts keep;
- the sequential clients never compare a response's `seq_id` with their request's.

## 2. The modules

| Module | Models | What one action is |
|---|---|---|
| `AsyncIo` | what `co_await` on an operation promises | request, answer, resumption |
| `IoContext` | event loop, request pool, rings, drain phase; coroutines and kernel as its environment | one step of `Run`, one turn of a coroutine up to its next suspension or call, one completion |
| `ResponsePath` | `ResponseQueue`, `writeLoop`, `CoroConnection::Write` | what the loop thread does from entering a coroutine until all are suspended |
| `Buffer`, `Protocol` | the two pure components, on explicit bytes | (operators) |
| `RequestPath` | `CoroConnection::Read`, the read loop; uses the two above | one completion of a read, one round of the parse loop, one act of the peer |
| `Connections` | constructor and `Close` of connections, `AcceptLoop`, buffer and file pools, life of the two loops | one completion with all it triggers |
| `MuxClient` | sender and receiver thread of the multiplexing clients, against an assumed server | one access to shared state |
| `MessageChannel` | what one direction of a connection promises: messages whole, once, in order | a message put in, a message handed over |
| `Rpc` | `MuxClient` with the handlers, queue and `writeLoop` of `ResponsePath` as its server | one step of either half; a socket between them |
| `SeqClient` | both ping-pong clients: threads, start signal, `main` with its report | one `send` or `recv`, one step of a loop |
| `ServerProcess` | `main`, the threads and `HandleSigInt` of the echo servers | one statement of `main` or of the handler that others can see |
| `Registry` | `RegisterService` and the destructor, against an external etcd | one call to etcd |
| `MC*` | message sets, sizes and symmetry for TLC | |
| `*Proofs` | the theorems, one module per component (section 4); those about `Registry` are in `ServerProcessProofs` | |

Variables carry the names of the members they stand for, and actions the names
of the functions, as far as TLA+ allows; a trailing comment at each variable says
what it is in the code. Variables marked *history* record the past for the
properties and influence nothing. Operators marked *Mutant* are deliberate
faults: put in place of the definition that follows them, they make TLC report
the property they aim at.

Decisions that matter when reading the models against the code:

- **Event loop.** The result of an operation is `"ok"` for whatever it returned by
  itself and `"canceled"` for `-ECANCELED`. The free list is a sequence of addresses,
  head first. `io_uring_submit_and_wait_timeout` is two steps (`EnterWait`, then
  `WaitReturns` or `WaitTimeout`), so that completions and `Stop` fall between them; its
  return value after a timeout is the number of SQEs it submitted if there were any,
  `-ETIME` if not. A NULL from `io_uring_get_sqe` ends `AcceptLoop` and, in every other
  coroutine, the process (`pc = "crashed"`). The `io_uring_submit` that begins the drain
  phase may fail unnoticed; the cancellation then goes with the next wait. The two
  copies of the reap loop are one set of actions, with `draining` to tell which of them
  is running.
- **Coroutines.** In `IoContext` a coroutine may do on its turn anything that
  code on this loop can do. After `-ECANCELED` it ends, as all the loops of the
  library and the examples do, unless it is one of `Heedless`.
- **Responses.** A response is its length; byte *k* of the *n*-th pushed response
  is `<<n, k>>`, so that order, loss and repetition can be seen.
- **Requests.** Bytes are bytes here: `htons` and `htonl` reverse them (the
  build's machines are little-endian), and the header is decoded from storage.
- **Connections.** A read brings a number of requests, and the queue is a number
  of responses. `accept` returns any descriptor that is not in use, a superset of
  what POSIX allows (the lowest one), so a closed descriptor may be reused at once.
  `io_uring_register_files_update` may fail wherever it is called: `RegisterFile`
  gives the slot back, `UnregisterFile` ignores it, and the free slot then still holds
  the old socket.
- **Multiplexing clients.** `Break` (the connection is lost) may happen at any time;
  responses that have arrived can still be read, requests that have arrived are still
  dispatched, and `send` may go on succeeding, into nothing. The clients' check of the
  magic number (`multiplex_bench.cpp:125`) is not a step: `EncodeMessage` writes the
  number they compare, and `StreamInOrder` keeps the stream aligned. `MuxClient` takes
  the server for something that answers each request at most once, in any order. `Rpc`
  replaces it: a request is in the socket, then with a handler, then in the queue, then
  in the write buffer, and counts as on its way back when its last byte is written. The
  requests `MuxClient` believes to be at the server are there the set `Unanswered`.
- **Sequential clients.** Byte *k* of response *s* is `<<s, k>>`; a header is accepted
  if its first byte is the first byte of a response, which stands for the magic
  number. A round trip takes one of a few values, so that samples can be equal.
- **Server process.** `g_all_ctxs` is its size and its capacity: a walk that began
  with another capacity than the present one, or that runs during a `push_back`,
  reads memory that is gone or being moved. That, and the use of a destroyed
  context, is undefined: the process dies, or carries on.
- **Registry.** A lease that no `KeepAlive` refreshes may expire at any moment,
  and takes its keys with it. `put` may fail although etcd has stored the key.

## 3. The runs

| Run | States | Shows |
|---|---:|---|
| `io_safety` | 1,812,447 | Three coroutines, one of them an acceptor, ring of two, so that it can be full. Every `RequestData` is in one place and `in_flight_` counts those in use; every resumption reaches a frame that waits for exactly this completion; the heap is used only if every request is in flight. |
| `io_live` | 4,541 | Two coroutines, ring of one entry, so that the ring is full all the time. The loop implements `AsyncIo`; completions are delivered; `Stop` ends the main loop; the drain phase ends unless coroutines keep feeding it. |
| `io_drain` | *violated* | See section 6. |
| `response` | 4,346 | Responses shorter than, as long as and longer than the staging buffer of two bytes; handlers that sleep or not; fixed or dynamic write buffer. Order and integrity of the stream, no lost wake-up, nothing lost at `Close`; unless a write fails, everything is sent in the end. |
| `request` | 135,180 | Two messages of three kinds and one stray byte, in every fragmentation, in a fixed buffer of 25 bytes and in a dynamic one. Unread bytes survive compaction and resizing, the kernel writes only behind them, exactly what was sent is parsed and dispatched, and all of it in the end if there was no stray byte. |
| `request_oversize` | *violated* | See section 6. |
| `connections` | 48,656 | Two connections, three buffers (the second one gets only a read buffer), one file slot, either registration refused by the kernel or not, and slots it may refuse to fill or to clear. Nothing is handed out twice, lost, or released under an operation in flight; a connection of which one loop has ended is closed in the end. |
| `rpc` | 107,338 | Client and server together: four requests through a window of three, responses of one to four bytes through a write buffer of two. The client's three safety properties, the bound the window puts on the server's queue, that the server is the one `MuxClient` assumes, that on a connection that stands nobody waits in vain, and that the client ends, except in one state. |
| `registry` | 1,352 | Nothing stays registered after the Registry is gone, at whatever point of a registration. |
| `registry_keep` | *violated* | See section 6. |
| `server_process` | 139,668 | Three threads, two signals, errors at every point of start-up. A started thread has its context; the signal handler is safe while `main` waits in `join`; a SIGINT while all threads are in their loops ends the process in order, unless a second one follows or the drain phase of a thread never ends. |
| `seq_client` | 60,256 | Both programs, two threads with two requests each, messages of two plus two bytes split in every way, connections refused or lost. Responses stay in step with requests, a thread that blocks in `recv` is owed an answer, the report is complete and its percentiles are ranks, and the run ends. |

**Bounds, and why they are enough.** The event loop treats its coroutines alike,
up to what they do with a NULL and with a cancellation; the interesting
conflicts are between a request that is recycled, one in the kernel and one in
the queue, for which three suffice. With a ring of one entry a submission meets
a full ring whenever another one is prepared. Response lengths 1, 2 and 5 over a
buffer of 2 give responses of one, one full and three chunks, each of which the
kernel may split further. Messages of 12, 13 and 14 bytes in 25 bytes of buffer:
two short ones fit, two long ones do not, so the second one arrives in pieces
around a compaction; the dynamic buffer begins with 2 bytes and makes room for 4
at a time, so that it is compacted and resized in every phase of a message. Two
connections over three buffers and one slot run out of each pool at a different
point of the constructor, and reuse what the other one gave back; the proofs
cover any number. A window of three and four requests fill the window, empty it
and fill it again. With three threads each push moves `g_all_ctxs` to a new
storage (of one, two and four entries), which is what a walk must not meet; the
first push that does not is the fourth. With four threads the run takes longer
than five minutes and finds no error either (1,234,095 states), and the proofs
cover any number. Two signals let two walks run side by side. Two bytes are
enough for a `send` or `recv` to be cut; three durations for up to four samples
give ranks with and without ties. `MaxQueue`, `MaxMessages`, `MaxLeases` and
`MaxSignals` bound what the code leaves unbounded.

**Deadlock.** The `IoContext` runs leave the deadlock check on, but it says
little there, because `Stop` may be called in every state; that the loop does
not halt is what `io_live` says. In the other runs the system comes to a
legitimate end (all responses sent, all connections closed, all threads done),
and deadlock checking is switched off; what must not stop early is stated as
liveness.

**Fairness.**
- `IoContext`: weak fairness of the loop thread, which nothing blocks but the
  wait, and the wait has a timeout. A coroutine's turn ends (strong fairness of
  the steps that end it), because the code between two `co_await`s is finite;
  calls of other coroutines may come between, but not for ever. Of the kernel
  only this is assumed: what was cancelled completes, and so does the
  cancellation itself. A read may stay pending for ever.
- `ResponsePath`: timers fire, and writes complete or fail. This rests on the peer: it
  goes on reading, or its connection is lost. For one that stays and never reads,
  `OpenPushIsSent` and `CloseEndsWriter` do not hold.
- `RequestPath`: bytes that have arrived are handed to a pending read; the loop
  thread runs.
- `Connections`: a response is made of finitely many partial writes, hence
  strong fairness of completion or failure, under the same condition on the peer. A
  write fails only because the
  connection is lost, so the read in flight beside it ends too (weak fairness).
  A read of a healthy connection may stay pending for ever.
- `Rpc`: the client's threads are scheduled; the loop thread runs, timers fire,
  and the kernel moves bytes or reports that the connection is lost. The spinning
  sender gets no special treatment: `Spin` needs a slot.
- `SeqClient`: threads are scheduled and the server answers while the connection
  lives.
- `ServerProcess`: every thread, and every run of the handler, is scheduled. That a
  stopped main loop is left is what `StopLeavesMainLoop` says of `IoContext`. The end of
  the drain phase is *not* fair: busy connections, old or new, can feed it for ever
  (`DrainEndsUnlessFed`), and `SigintEndsServer` names that case.
- `Registry`: a lease that is not refreshed expires.

## 4. The proofs

All of them are checked by TLAPS with SMT, Zenon and LS4. Their assumptions are
the `ASSUME`s of the modules: finitely many coroutines, `Null` not among them, at
least one ring entry; response lengths and buffer sizes at least one; messages
whose sequence number and payload length fit into 32 bits; a window of at least
one; at least one thread; for the sequential clients at least one request and
header and payload of at least one byte; finitely many connections, any number of
buffers and slots.

**`IoContextProofs`**: `TypeCorrect`, `RequestsAccounted`, `ResumesAreDue`,
`AllocOnlyWhenNeeded`, `DrainedMeansQuiet`, `LoopImplementsAsyncIo`. The inductive
invariant is `TypeOK /\ RequestAccounting /\ NoStrayResume /\ CancelOnce`, the last of
which says that outside the drain phase no cancellation is in the rings, so that the one
that `BeginDrain` prepares is the only one. None of the first three is inductive
alone: that `Deliver` enters a frame that is suspended needs the ownership of live
requests, and that ownership survives recycling only because a `RequestData` is
never both on the free list and in a ring, which is accounting. The stack part of
`NoStrayResume` is needed because a coroutine that suspends must be the one that
was running.

`DrainedMeansQuiet` sets the finding of `io_drain` in its frame: the counter
may be trusted, so that a drain phase that ends because `in_flight_` is not positive
leaves nobody suspended and every `RequestData` on the free list. It is the break at
a timeout that does not.

The refinement mapping of `LoopImplementsAsyncIo` says of each coroutine which answer,
if any, waits in the completion queue for the operation it awaits (`AwaitedOp`).
Requests, completions and resumptions map to the abstract actions, and everything else,
in particular `Advance`, submission and the drain phase, to stuttering. The invariant
above is used throughout: the `CHOOSE` in the mapping is determined because no two
unhandled completions carry the same request.

**`ResponsePathProofs`**: `TypeCorrect`, `NoWakeupIsLost`, `StreamStaysInOrder`,
`DrainedBeforeExit`, `ResponsesThroughChannel`. The invariant follows the responses:
`items_` holds the last ones pushed, consecutively; everything popped before has left
whole; of the response in `Write` exactly `ptr` bytes have left, and the SQE in flight
holds the bytes from `ptr` on. `SendKeeps` and `PushKeeps` isolate what happens to the
stream; the lemma `AwaitResumeInv` is used by `Push`, `Close` and `Pop`, which all
resume `writeLoop` in the same way.

`ResponsesThroughChannel` is the refinement of `MessageChannel` with what was pushed as
the messages sent, and the first `Left` of them, those whose last byte the kernel has
taken, as the messages received. That these are always a first part of what was pushed
follows from the invariant `Frontier`: no byte has left of a response that was not
popped, nor, of the one in `Write`, of the part behind `ptr`. A partial write then
either leaves `Left` as it was, a stutter, or completes exactly the response at the
frontier, a `Receive`.

**`RequestPathProofs`**: `TypeCorrect`, `BufferIsStream`, `ReadIntoFreeSpace`,
`LoopTakesAll`, `RoomForRead`, `EofIsPeerClose`, `ParsedInOrder`, `DispatchedInOrder`,
`RequestsThroughChannel`, `RoundTrip`. The lemmas follow the code upwards.
`CompactKeeps`, `ResizeKeeps`, `EnsureWritableKeeps`, `PutAppends` and `HasReadDrops`
say what each buffer operation does to the readable bytes; `ByteOrder` that `ntohl`
undoes `htonl`; `WireIs` what `EncodeMessage` writes; `ParsesMessage` and `ParsesNoise`
what `ParseMessage` finds. The inductive invariant is `TypeOK /\ StorePart /\
MessagePart /\ ReadingPart`. `BufferHoldsStream` needs `ReadTargetsFreeSpace`, because a
completed read writes where the SQE says and not where the buffer says. That the parsed
messages are the sent ones needs their places in the stream: `MessagePart` asks for a
function `off` to the end of each message and `st` to its start, at most one byte of
noise in between, and says that the reader is at the end of the last message parsed or
behind the noise that follows it. A stray byte of any value is harmless to the next
message because it is followed by the `'T'` of a header, and the second byte of the
magic number is `'R'`. `RoomForRead`, which is about fixed buffers that hold every
message whole and streams without stray bytes, then holds because what is left in the
buffer when a read starts is less than the next message. From it follows, for such
connections, what `request_oversize` refutes for others: a read returns 0 only at the
peer's close. `DispatchedInOrder` carries along the increasing function that picks the
requests out of the parsed messages (`DispatchPart`); a parsed message extends it by one
place or leaves it. `RequestsThroughChannel` is the same guarantee as a refinement: each
`Parse` that finds a message takes the very next one of those sent, and no other step of
reader or kernel shows through the mapping.

**`ConnectionsProofs`**: `TypeCorrect`, `BuffersAreOwned`, `SlotsAreOwned`,
`OperationsStayHome`, `NothingLeaks`. The two free lists obey the same discipline, so
`Owns` states it once, for a list and a function from connections to the indices they
hold; the constructor and `Close` preserve it, whatever runs out first. The invariant is
`ConfigPart /\ PoolPart /\ LoopPart`: `Owns` for both lists and the agreement of the
file table on the slots that are held, and what ties the two loops of a connection to
the object they share. The second is needed for the first, since `Close` gives back
indices that must not be in use by an operation.

**`MuxClientProofs`**: `TypeCorrect`, `EveryResponseFindsItsEntry`,
`WindowIsNeverExceeded`, `CompletedRunIsComplete`, `ThreadsWaitForServer`. The
invariant says by how much map, counter and wire may differ at each point of the two
threads. The last theorem is about deadlock: on a connection that stands, when the
sender waits for a slot or has ended and the receiver waits for bytes, some request is
with the server, so that the two never wait for each other only. It needs the converse
of the accounts (`Settled`): every request made is on the wire or has been measured,
and a thread gives up early only because the connection broke.

**`RpcProofs`**: `ServerIsAsTheClientAssumes`, `ClientIsServedCorrectly`,
`QueueStaysWithinWindow`, `NobodyWaitsInVainEver`. Every behaviour of client and server
is one of `MuxClient` under the mapping `requests <- Unanswered`. The inductive
invariants of `MuxClientProofs`, under that mapping, and of `ResponsePathProofs` are
reused as they are; new is `Link`, which follows a request from one half into the other:
in the socket nothing has happened to it, every response belongs to one request, and a
response that has not left the queue has not been read. From the refinement the client's
properties follow without another proof. The bound on the queue comes from counting:
what is in the socket, with a handler or in the queue is unanswered, and what is
unanswered is pending.

`NobodyWaitsInVainEver` carries `ThreadsWaitForServer` through the server: on a
connection that stands, whenever neither thread of the client can move, a request is
in the socket for an open read loop, a handler sleeps, or a write is in flight. The
invariant `Custody` follows every request made: it is in the socket, with a handler, or
its response was pushed; on a connection that stands the writer has not failed, and
what it has written whole is answered; and the queue is closed only when the connection
is lost or the client has ended. That a pushed response that was not written keeps
`writeLoop` out of `Pop` is the wake-up invariant of `ResponsePathProofs`.

**`ServerProcessProofs`**: `EveryThreadHasItsContext`, `SignalIsSafeWhileServing`.
The invariant says how far `main`'s loop has got (`StartUp`), that in and after
`join` everything is registered (`Served`), and that a thread inside the handler has
not ended (`Walks`). The last is why `join` cannot return during a walk.

The same module holds the theorems about `Registry`, as an instance over variables of
its own: `KeysHaveLeases` (its `TypeOK`: every key in etcd hangs on a lease that was
granted and lives) and `FirstIsKept`. The first needs that the lease of a registration
under way has been granted (`RegInv`). The second is what remains of the promise that
`registry_keep` refutes: with one registration the `KeepAlive` belongs to the lease of
whatever is registered (`OneLease`), so its key stays.

**`SeqClientProofs`**: `ThreadsStayInStep`, `WaitsOnlyForAnAnswer`,
`ReportsAreComplete`, `PercentilesRank`.
The invariant is `ThreadPart /\ MainPart`. `ThreadOK` says of each thread what is on
its connection: nothing, except between the end of a `send` and the end of the
payload, when it is the one request at the server or a piece of its one response, and
that piece continues exactly where the thread's reading has got to (`Stream`). This is
why a program that never compares `seq_id`s stays in step. `Stream` bounds what is on the
way from above; `WaitsOnlyForAnAnswer` needs it from below (`Whole`): on a connection
that stands, if the server does not have the request, then all of the response is in the
staging buffer or has arrived. `MainPart` says that
`main` reports what is final: no thread that was joined takes another step, and with
`latency_bench` only the first thread ever starts.

What the report says rests on lemmas about the operators. `Induction` is the usual
principle, stated for a set of numbers and proved from the well-foundedness of `<`.
With it, `MergeParts` shows that the recursion inside `Merge` has a solution
and `MergeCounts` that its length is the number of samples; `OrderExists` shows, by
insertion of one sample after the other, that every sequence can be sorted, so that
the `CHOOSE` in `Sorted` finds an order (`SortedInOrder`). `StatsAreRanks` counts:
below the value at index `idx` there are at most `idx` samples, not above it at least
`idx + 1`, and `idx` is the share rounded down (`Rounding`).

## 5. What is only model-checked

- Every liveness property: fairness and `ENABLED` are out of the prover's reach.
  These are `CompletionIsDelivered`, `StopLeavesMainLoop`, `DrainEndsUnlessFed`,
  `OpenPushIsSent`, `CloseEndsWriter`, `EveryMessageParsed`, `ClosedAfterEitherEnds`,
  `EndsOrStuckOnFullWindow`, `SigintEndsServer`, `NothingStaysBehind` and `MainEnds`.
  What they rest on short of fairness is proved: that those who wait do wait for
  somebody who can move (`NobodyWaitsInVainEver`, `ThreadsWaitForServer`,
  `WaitsOnlyForAnAnswer`, `NoWakeupIsLost`), and that what has left or been parsed is
  never lost again (the two channel refinements).
- The three counterexamples of section 6.

## 6. Where code and comments disagree

Each of these is a run that TLC ends with a counterexample.

- `io_drain`, `src/io_context.cpp:162-177`. The drain phase says it resumes all
  suspended coroutines with `-ECANCELED`. It cancels once, and breaks at the first
  timeout: an operation that completes by itself while the drain is under way lets
  its coroutine await another operation, which nobody cancels, and `Run` returns
  with that coroutine suspended.
- `request_oversize`, `src/coro_connection.cpp:73`. A message that does not fit the
  fixed buffer leaves no room for the next read. Its result 0 is taken for the
  peer's close.
- `registry_keep`, `src/registry.cpp:43`. There is one `keep_alive`: a second
  registration ends the first one's.

Other behaviour a reader may not expect is a step of the models, and where a property
would otherwise be violated, an exception that it names:

- `src/coro_connection.cpp:69` and `:104`, `src/coro.h:106`. `Read`, `WriteOnce` and
  `SleepAwaitable` use what `io_uring_get_sqe` returns without a test; only `AcceptLoop`
  tests it. It is NULL when one batch of completions prepares more SQEs than the ring
  has entries (1024), and nothing bounds a batch: one read of 64 KB can hold enough
  requests for thousands of handlers that each prepare a timeout. The process then
  crashes. In `io_safety` and `io_live` the ring is small and the step is taken
  (`pc = "crashed"`); no property excludes it.
- `src/io_context.cpp:104`. `UnregisterFile` ignores a failure. The slot is free, but
  the kernel's table still refers to the old socket, which stays open until the slot is
  filled again (`SlotOwnership` speaks of the slots that are held).
- `src/io_context.cpp:167` and `:171`. When the ring is full the drain phase cancels
  nothing, and when `io_uring_submit` fails it cancels later; neither is reported.
- `src/io_context.cpp:175`. Coroutines that go on getting data during the drain phase keep
  it going, as no later operation is cancelled. The server then does not end after a
  SIGINT (`DrainEndsUnlessFed`, `SigintEndsServer`).
- `examples/coro_echo_async.cpp:60`. A handler that wakes after `Close` and after the end
  of `writeLoop` pushes a response that is never sent (`OpenPushIsSent` and
  `DrainedOnExit` are about what was pushed before).

- `src/protocol.cpp:20`. After a wrong magic number the parser skips one byte "to
  find the next valid header", but returns `nullopt`, upon which the read loop waits
  for more bytes. A whole message behind the stray byte is left lying there until
  they come (`NothingWholeLeft`).
- `examples/multiplex_bench.cpp:151-191`. If the connection breaks while the window is
  full, the receiver ends and the sender yields for ever: its wait does not look at
  `recv_error` (`EndsOrStuckOnFullWindow`).
- `examples/coro_echo.cpp:94-113`. An exception in start-up, after some threads are
  running, destroys their contexts under them (`ThreadHasContext`). A SIGINT before a
  thread has entered `Run` is lost for that thread, because `Run` sets `running_`
  again; one that comes while `main` still fills `g_all_ctxs`, or destroys the
  contexts, is undefined. `SignalWhileServingIsSafe` and `SigintEndsServer` are
  therefore about signals that arrive while `main` waits in `join`.
- `examples/coro_echo.cpp:54`. After a failed write `writeLoop` ends, and the read loop
  goes on queueing responses that nobody will send, until its read ends too
  (`ClosedAfterEitherEnds`).

Comments that the code has outgrown, with no consequence for the properties:

- `src/coro_connection.h:18-20` says that `Write` may return less than `len`, that
  callers need a loop, and names a helper in `coro_utils.h`, which does not exist. The
  comment at the declaration (lines 32-33) and the code say that `Write` loops itself;
  this is what `StreamInOrder` is about.
- `src/response_queue.h:9` calls the queue single-producer. Every handler of the
  connection pushes into it; they share one thread, so that this is harmless.
- `src/coro_tcp_server.h:11-13` says that the connection is destroyed when its handler
  returns. It lives on while `writeLoop` has a write in flight (`NoLeak`).

The repository's README (line 35) calls the header 10 bytes long; the table below
that sentence adds up to 12, as does `sizeof(RpcHeader)`, and 12 is what `Protocol` uses.

## 7. What is not modelled

- `TaskT`'s continuation hand-over, as steps of its own: it happens inside one
  turn of the loop thread, and is part of the action that resumes it.
- Statistics of the multiplexing clients: the same formulas as in the sequential
  ones.
- CPU affinity and the installation of the signal handler, which change no state
  that other steps look at.
- `latency_bench` with a count of 0, which the model's assumptions exclude.
- Protobuf, the logger, build files: generated code, output and configuration.
- Integer widths of lengths in `Write` (it returns its length as an `int`). Those of
  the header are an assumption of the proofs.

## 8. Plan

What is done: event loop with its abstract specification, response path, request
path with buffer and protocol, connections and pools, multiplexing clients, client
and server together, server process, sequential clients and registry, each with
proofs. What would come next:

1. `RequestPath` into `Rpc`: the requests of the client as bytes too, so that the
   composition begins at `EncodeMessage` and not at the socket. That both directions
   are channels is proved, each by itself; the composition would put the two
   refinements side by side.
2. Shutdown: `Stop`, the drain phase and `Connections` in one module, to say which
   resources are back when `Run` returns. `TaskT`'s continuation would become
   explicit there.
