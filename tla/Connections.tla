---------------------------- MODULE Connections ----------------------------
(***************************************************************************)
(* The connections of one server thread and what they own: AcceptLoop        *)
(* (src/coro_tcp_server.cpp) creates a CoroConnection per client, which      *)
(* takes a slot of the fixed file table and two fixed buffers from its       *)
(* IoContext (src/io_context.cpp) if there are any left; the read loop and   *)
(* the write loop of examples/coro_echo.cpp share the connection; the one    *)
(* that ends last drops the last shared_ptr, and ~CoroConnection gives       *)
(* everything back (src/coro_connection.cpp).                                *)
(*                                                                           *)
(* All of it happens on the event-loop thread: an action is what the thread  *)
(* does from the completion of an operation until every coroutine is         *)
(* suspended again.  The kernel's part (external) is the table of open       *)
(* files, the registered file table, and the choice of what completes next   *)
(* and how.  Bytes are left out (see RequestPath and ResponsePath): a read   *)
(* brings a number of requests, and the queue is a number of responses.      *)
(***************************************************************************)
EXTENDS Integers, Sequences, FiniteSets

CONSTANTS
  Conns,      \* CoroConnection objects that may exist at the same time
  BufCount,   \* buf_count: registered buffers
  FileSlots,  \* max_fixed_files_: slots of the fixed file table
  MaxQueue    \* bound on the responses that wait in one queue

None == -1

ASSUME ConnectionsAssumption ==
  /\ IsFiniteSet(Conns) /\ None \notin Conns
  /\ BufCount \in Nat
  /\ FileSlots \in Nat
  /\ MaxQueue \in Nat \ {0}

VARIABLES
  bufs_registered,    \* io_uring_register_buffers succeeded: iovecs_ is not empty
  files_enabled_,     \* io_uring_register_files succeeded
  accepting,          \* AcceptLoop is suspended in accept (else it has ended)
  conn,               \* the CoroConnection objects
  reader,             \* the read loop of each connection
  writer,             \* the write loop of each connection
  queue,              \* its ResponseQueue: how many items, and closed_
  readOp,             \* the read in flight: file it names and buffer it fills
  writeOp,            \* the write in flight, likewise
  free_buf_indices_,  \* IoContext::free_buf_indices_, a stack
  free_file_indices_, \* IoContext::free_file_indices_, a stack
  table,              \* kernel: the registered file table
  openFds             \* kernel: which connection's socket a descriptor is

config == <<bufs_registered, files_enabled_>>
poolVars == <<free_buf_indices_, free_file_indices_, table, openFds>>
loopVars == <<reader, writer, queue, readOp, writeOp>>
vars == <<config, accepting, conn, loopVars, poolVars>>

-----------------------------------------------------------------------------

Fds == 1..Cardinality(Conns)

NoConn == [alive |-> FALSE, fd_ |-> None, fixed_file_idx_ |-> None,
           read_buf_idx_ |-> None, write_buf_idx_ |-> None]

NoOp == [slot |-> None, fd |-> None, buf |-> None]

EmptyQueue == [items |-> 0, closed |-> FALSE]

\* The file an SQE names: the fixed slot if there is one, else the descriptor.
Target(k) ==
  [slot |-> k.fixed_file_idx_,
   fd   |-> IF k.fixed_file_idx_ # None THEN None ELSE k.fd_]

Op(k, idx) == [slot |-> Target(k).slot, fd |-> Target(k).fd, buf |-> idx]

-----------------------------------------------------------------------------
(* AcceptLoop and the constructor of CoroConnection. *)

\* The descriptors that accept may return: any that is not in use.
NewFds == {f \in Fds : openFds[f] = None}

\* The last free index, and what is left without it; None if there is none.
Top(indices) == IF indices = <<>> THEN None ELSE indices[Len(indices)]

Rest(indices) == IF indices = <<>> THEN indices ELSE SubSeq(indices, 1, Len(indices) - 1)

\* RegisterFile takes the last free slot, unless the table is disabled, empty
\* or refused by the kernel (ok is FALSE), in which case it gives it back.
RegisterFile(fd, ok) ==
  \/ /\ ok /\ free_file_indices_ # <<>>
     /\ free_file_indices_' = Rest(free_file_indices_)
     /\ table' = [table EXCEPT ![Top(free_file_indices_)] = fd]
  \/ /\ ~ok
     /\ UNCHANGED <<free_file_indices_, table>>

\* The constructor: RegisterFile, and two calls of AllocateBuffer.
NewConnection(fd, ok) ==
  [alive |-> TRUE, fd_ |-> fd,
   fixed_file_idx_ |-> IF ok THEN Top(free_file_indices_) ELSE None,
   read_buf_idx_   |-> Top(free_buf_indices_),
   write_buf_idx_  |-> Top(Rest(free_buf_indices_))]

\* A client connects: AcceptLoop constructs the connection and calls the
\* handler, whose writeLoop suspends in Pop and whose read loop suspends in
\* Read, and then accepts again.
Accept(c) ==
  /\ accepting
  /\ ~conn[c].alive
  /\ \E fd \in NewFds, ok \in BOOLEAN :
       LET k == NewConnection(fd, ok)
       IN  /\ RegisterFile(fd, ok)
           /\ conn' = [conn EXCEPT ![c] = k]
           /\ readOp' = [readOp EXCEPT ![c] = Op(k, k.read_buf_idx_)]
           /\ openFds' = [openFds EXCEPT ![fd] = c]
  /\ free_buf_indices_' = Rest(Rest(free_buf_indices_))
  /\ reader' = [reader EXCEPT ![c] = "reading"]
  /\ writer' = [writer EXCEPT ![c] = "pop"]
  /\ queue' = [queue EXCEPT ![c] = EmptyQueue]
  /\ UNCHANGED <<config, accepting, writeOp>>

\* accept fails for whatever reason, or is cancelled: AcceptLoop ends.
AcceptFails ==
  /\ accepting
  /\ accepting' = FALSE
  /\ UNCHANGED <<config, conn, loopVars, poolVars>>

-----------------------------------------------------------------------------
(* The end of a connection. *)

Returned(idx) == IF idx = None THEN <<>> ELSE <<idx>>

\* Mutant: a slot whose update the kernel refuses is not given back.
UnregisterOrLose(idx) ==
  \/ /\ table' = [s \in DOMAIN table |-> IF s = idx THEN None ELSE table[s]]
     /\ free_file_indices_' = free_file_indices_ \o Returned(idx)
  \/ UNCHANGED <<table, free_file_indices_>>

\* UnregisterFile asks the kernel to empty the slot.  It does not look at the
\* result: when the kernel refuses (ok is FALSE) the slot goes back to the free
\* list with the old file in it.
UnregisterFile(idx) ==
  /\ \E ok \in BOOLEAN :
       table' = [s \in DOMAIN table |-> IF ok /\ s = idx THEN None ELSE table[s]]
  /\ free_file_indices_' = free_file_indices_ \o Returned(idx)

\* Mutant: the write buffer is not given back.
CloseLosesWriteBuffer(c) ==
  LET k == conn[c]
  IN  /\ UnregisterFile(k.fixed_file_idx_)
      /\ free_buf_indices_' = free_buf_indices_ \o Returned(k.read_buf_idx_)
      /\ openFds' = [openFds EXCEPT ![k.fd_] = None]
      /\ conn' = [conn EXCEPT ![c] = NoConn]

\* CoroConnection::Close: UnregisterFile, FreeBuffer twice, ::close.
CloseConnection(c) ==
  LET k == conn[c]
  IN  /\ UnregisterFile(k.fixed_file_idx_)
      /\ free_buf_indices_' = free_buf_indices_ \o Returned(k.read_buf_idx_)
                                                \o Returned(k.write_buf_idx_)
      /\ openFds' = [openFds EXCEPT ![k.fd_] = None]
      /\ conn' = [conn EXCEPT ![c] = NoConn]

\* Mutant: whichever loop ends first closes the connection.
ReleaseAtOnce(c, other) == CloseConnection(c)

\* A coroutine frame that holds a shared_ptr to c is freed; other is the state
\* in which the other loop's frame is left.
ReleaseConnection(c, other) ==
  \/ /\ other = "done"
     /\ CloseConnection(c)
  \/ /\ other # "done"
     /\ UNCHANGED <<conn, poolVars>>

-----------------------------------------------------------------------------
(* The write loop. *)

\* Write posts its next chunk.
BeginWrite(c) ==
  /\ writer' = [writer EXCEPT ![c] = "write"]
  /\ writeOp' = [writeOp EXCEPT ![c] = Op(conn[c], conn[c].write_buf_idx_)]

EndWriter(c) ==
  /\ writer' = [writer EXCEPT ![c] = "done"]
  /\ writeOp' = [writeOp EXCEPT ![c] = NoOp]

\* The kernel took a part of the response: Write posts the rest.
WritePartly(c) ==
  /\ writer[c] = "write"
  /\ BeginWrite(c)
  /\ UNCHANGED <<config, accepting, conn, reader, queue, readOp, poolVars>>

\* A response is sent: writeLoop takes the next one, suspends in Pop, or ends.
WriteCompletes(c) ==
  /\ writer[c] = "write"
  /\ \/ /\ queue[c].items > 0
        /\ BeginWrite(c)
        /\ queue' = [queue EXCEPT ![c].items = @ - 1]
        /\ UNCHANGED <<conn, poolVars>>
     \/ /\ queue[c].items = 0 /\ ~queue[c].closed
        /\ writer' = [writer EXCEPT ![c] = "pop"]
        /\ writeOp' = [writeOp EXCEPT ![c] = NoOp]
        /\ UNCHANGED <<queue, conn, poolVars>>
     \/ /\ queue[c].items = 0 /\ queue[c].closed
        /\ EndWriter(c)
        /\ ReleaseConnection(c, reader[c])
        /\ UNCHANGED queue
  /\ UNCHANGED <<config, accepting, reader, readOp>>

\* The write fails or is cancelled.
WriteFails(c) ==
  /\ writer[c] = "write"
  /\ EndWriter(c)
  /\ ReleaseConnection(c, reader[c])
  /\ UNCHANGED <<config, accepting, reader, readOp, queue>>

-----------------------------------------------------------------------------
(* The read loop. *)

\* A read brings n requests.  Each response is pushed; the first one resumes a
\* writeLoop that waits in Pop.  Then the loop reads again.
ReadCompletes(c, n) ==
  /\ reader[c] = "reading"
  /\ readOp' = [readOp EXCEPT ![c] = Op(conn[c], conn[c].read_buf_idx_)]
  /\ \/ /\ n > 0 /\ writer[c] = "pop"
        /\ BeginWrite(c)
        /\ queue' = [queue EXCEPT ![c].items = n - 1]
     \/ /\ n = 0 \/ writer[c] # "pop"
        /\ queue[c].items + n <= MaxQueue
        /\ queue' = [queue EXCEPT ![c].items = @ + n]
        /\ UNCHANGED <<writer, writeOp>>
  /\ UNCHANGED <<config, accepting, conn, reader, poolVars>>

\* Mutant: the read loop does not close the queue.
ReadEndsNoClose(c) ==
  /\ reader[c] = "reading"
  /\ reader' = [reader EXCEPT ![c] = "done"]
  /\ readOp' = [readOp EXCEPT ![c] = NoOp]
  /\ ReleaseConnection(c, writer[c])
  /\ UNCHANGED <<config, accepting, writer, writeOp, queue>>

\* EOF, an error or a cancellation ends the read loop.  It closes the queue,
\* which ends a writeLoop that waits in Pop, and its frame is freed.
ReadEnds(c) ==
  /\ reader[c] = "reading"
  /\ reader' = [reader EXCEPT ![c] = "done"]
  /\ readOp' = [readOp EXCEPT ![c] = NoOp]
  /\ queue' = [queue EXCEPT ![c].closed = TRUE]
  /\ \/ /\ writer[c] = "pop"
        /\ EndWriter(c)
        /\ ReleaseConnection(c, "done")
     \/ /\ writer[c] # "pop"
        /\ ReleaseConnection(c, writer[c])
        /\ UNCHANGED <<writer, writeOp>>
  /\ UNCHANGED <<config, accepting>>

-----------------------------------------------------------------------------

\* The IoContext is constructed, either registration may have failed, and
\* CoroTcpServer::Start has posted an accept.
Init ==
  /\ bufs_registered \in BOOLEAN
  /\ files_enabled_ \in BOOLEAN
  /\ accepting = TRUE
  /\ conn = [c \in Conns |-> NoConn]
  /\ reader = [c \in Conns |-> "done"]
  /\ writer = [c \in Conns |-> "done"]
  /\ queue = [c \in Conns |-> EmptyQueue]
  /\ readOp = [c \in Conns |-> NoOp]
  /\ writeOp = [c \in Conns |-> NoOp]
  /\ free_buf_indices_ = IF bufs_registered THEN [i \in 1..BufCount |-> i - 1] ELSE <<>>
  /\ free_file_indices_ = IF files_enabled_ THEN [i \in 1..FileSlots |-> i - 1] ELSE <<>>
  /\ table = [s \in 0..(FileSlots - 1) |-> None]
  /\ openFds = [f \in Fds |-> None]

\* Bound on the requests that one read brings.
MaxBatch == 2

ReaderStep(c) == (\E n \in 0..MaxBatch : ReadCompletes(c, n)) \/ ReadEnds(c)

WriterStep(c) == WritePartly(c) \/ WriteCompletes(c) \/ WriteFails(c)

Next ==
  \/ \E c \in Conns : Accept(c) \/ ReaderStep(c) \/ WriterStep(c)
  \/ AcceptFails

Spec == Init /\ [][Next]_vars

-----------------------------------------------------------------------------
(* Properties. *)

Idx(n) == (0..(n - 1)) \cup {None}

OpType == [slot : Idx(FileSlots), fd : Fds \cup {None}, buf : Idx(BufCount)]

TypeOK ==
  /\ bufs_registered \in BOOLEAN
  /\ files_enabled_ \in BOOLEAN
  /\ accepting \in BOOLEAN
  /\ conn \in [Conns -> [alive : BOOLEAN, fd_ : Fds \cup {None},
                         fixed_file_idx_ : Idx(FileSlots),
                         read_buf_idx_ : Idx(BufCount), write_buf_idx_ : Idx(BufCount)]]
  /\ reader \in [Conns -> {"reading", "done"}]
  /\ writer \in [Conns -> {"pop", "write", "done"}]
  /\ queue \in [Conns -> [items : 0..MaxQueue, closed : BOOLEAN]]
  /\ readOp \in [Conns -> OpType]
  /\ writeOp \in [Conns -> OpType]
  /\ free_buf_indices_ \in Seq(0..(BufCount - 1))
  /\ free_file_indices_ \in Seq(0..(FileSlots - 1))
  /\ table \in [0..(FileSlots - 1) -> Fds \cup {None}]
  /\ openFds \in [Fds -> Conns \cup {None}]

\* The places where buffer b is: positions of the free list, and the roles in
\* which connections hold it.
BufferPlaces(b) ==
  {<<"free", i>> : i \in {j \in DOMAIN free_buf_indices_ : free_buf_indices_[j] = b}}
    \cup {<<"read", c>> : c \in {d \in Conns : conn[d].read_buf_idx_ = b}}
    \cup {<<"write", c>> : c \in {d \in Conns : conn[d].write_buf_idx_ = b}}

\* Every registered buffer is free or belongs to one connection in one role:
\* it is never handed out twice, freed twice or lost, over any number of
\* connections.
BufferOwnership ==
  \A b \in 0..(BufCount - 1) :
    Cardinality(BufferPlaces(b)) = IF bufs_registered THEN 1 ELSE 0

SlotPlaces(s) ==
  {<<"free", i>> : i \in {j \in DOMAIN free_file_indices_ : free_file_indices_[j] = s}}
    \cup {<<"conn", c>> : c \in {d \in Conns : conn[d].fixed_file_idx_ = s}}

\* So is every slot of the file table, even when the kernel refuses to fill or
\* to empty one (io_context.cpp:95, 104), and a slot in use holds the file of
\* the connection that has it, not what a former owner left there.
SlotOwnership ==
  \A s \in 0..(FileSlots - 1) :
    /\ Cardinality(SlotPlaces(s)) = IF files_enabled_ THEN 1 ELSE 0
    /\ \A c \in Conns : conn[c].fixed_file_idx_ = s => table[s] = conn[c].fd_

\* The connection whose socket an operation reaches.
Reaches(op) ==
  LET fd == IF op.slot # None THEN table[op.slot] ELSE op.fd
  IN  IF fd = None THEN None ELSE openFds[fd]

\* Whatever is closed and reused around it, an operation in flight works on
\* the socket of its own connection and on the buffer that connection owns.
OpsStayHome ==
  \A c \in Conns :
    /\ reader[c] = "reading" =>
         /\ conn[c].alive
         /\ Reaches(readOp[c]) = c
         /\ readOp[c].buf = conn[c].read_buf_idx_
    /\ writer[c] = "write" =>
         /\ conn[c].alive
         /\ Reaches(writeOp[c]) = c
         /\ writeOp[c].buf = conn[c].write_buf_idx_

\* No connection is kept by coroutines that nothing will resume: as long as it
\* exists, the kernel owes it a completion.  So once every operation has
\* completed or has been cancelled, every buffer, slot and descriptor is back.
NoLeak ==
  \A c \in Conns : conn[c].alive => reader[c] = "reading" \/ writer[c] = "write"

\* The peer goes on reading or the connection is lost, so every write completes
\* or fails in the end, and a response is made of finitely many partial writes.
\* A write fails only when the connection is lost, and then the read that is in
\* flight ends too.
Fairness ==
  \A c \in Conns :
    /\ SF_vars(WriteCompletes(c) \/ WriteFails(c))
    /\ WF_vars(writer[c] = "done" /\ ReadEnds(c))

FairSpec == Spec /\ Fairness

\* When either loop has ended the connection is closed in the end: after EOF
\* the responses still queued are sent or fail, after a failed write the read
\* loop finds out by itself, though until then it goes on reading and queueing
\* responses that nobody will send (coro_echo.cpp:54), and everything the
\* connection owns is given back.
ClosedAfterEitherEnds ==
  \A c \in Conns :
    (conn[c].alive /\ (reader[c] = "done" \/ writer[c] = "done")) ~> ~conn[c].alive
=============================================================================
