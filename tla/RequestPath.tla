---------------------------- MODULE RequestPath ----------------------------
(***************************************************************************)
(* How requests enter a connection: the peer's bytes arrive in arbitrary     *)
(* pieces, CoroConnection::Read (src/coro_connection.cpp) has the kernel put *)
(* them behind the unread bytes of the read buffer (src/buffer.h), and the   *)
(* read loop of handleConnection (examples/coro_echo.cpp) cuts messages off  *)
(* the front with Protocol::ParseMessage (src/protocol.cpp) and dispatches   *)
(* the requests among them.                                                  *)
(*                                                                           *)
(* The socket is the external part: a reliable byte stream, of which a read  *)
(* may return any non-empty piece that fits into the room it was given.      *)
(***************************************************************************)
EXTENDS Protocol, FiniteSets

CONSTANTS
  Messages,      \* the messages a peer may send
  MaxMessages,   \* bound on how many it sends
  Noise,         \* bytes that are not part of a message (empty: a clean peer)
  BufSize,       \* IoContext::BufSize(), the capacity of a fixed buffer
  DynamicSize,   \* the initial capacity of a dynamic buffer
  DynamicRoom    \* the 4096 that a dynamic buffer makes room for

\* n fits into a uint32_t.
IsWord(n) == n \div 16777216 < 256

ASSUME RequestPathAssumption ==
  /\ Messages \subseteq [version : Byte, msg_type : Byte, seq_id : Nat, payload : Seq(Byte)]
  /\ \A m \in Messages : IsWord(m.seq_id) /\ IsWord(Len(m.payload))
  /\ MaxMessages \in Nat
  /\ Noise \subseteq Byte
  /\ BufSize \in Nat \ {0}
  /\ DynamicSize \in Nat
  /\ DynamicRoom \in Nat \ {0}

VARIABLES
  pc,           \* where handleConnection is
  read_buffer_, \* CoroConnection::read_buffer_
  at,           \* the read in flight: index of its WriteBegin() ...
  room,         \* ... and its WritableBytes()
  stream,       \* every byte the peer has sent
  arrived,      \* how many of them the kernel has handed over
  peerClosed,   \* the peer has closed its side
  sentMessages, \* history: the messages the peer has sent
  noisy,        \* history: the peer has sent a byte of Noise
  consumed,     \* history: bytes taken from the front of the buffer
  parsed,       \* history: messages ParseMessage has returned
  dispatched    \* history: the requests passed to handleRequest

peerVars == <<stream, peerClosed, sentMessages, noisy>>
readVars == <<pc, at, room>>
vars == <<readVars, read_buffer_, arrived, peerVars, consumed, parsed, dispatched>>

-----------------------------------------------------------------------------
(* The peer. *)

\* The bytes a client puts on the wire for message m (EncodeMessage into an
\* empty Buffer).
WireBytes(m) == Readable(EncodeMessage(NewBuffer(0, FALSE), m, m.payload))

SendMessage(m) ==
  /\ ~peerClosed
  /\ Len(sentMessages) < MaxMessages
  /\ sentMessages' = Append(sentMessages, m)
  /\ stream' = stream \o WireBytes(m)
  /\ UNCHANGED <<readVars, read_buffer_, arrived, peerClosed, noisy, consumed, parsed, dispatched>>

\* At most one such byte.
SendNoise(b) ==
  /\ ~peerClosed /\ ~noisy
  /\ noisy' = TRUE
  /\ stream' = Append(stream, b)
  /\ UNCHANGED <<readVars, read_buffer_, arrived, peerClosed, sentMessages, consumed, parsed, dispatched>>

PeerClose ==
  /\ ~peerClosed
  /\ peerClosed' = TRUE
  /\ UNCHANGED <<readVars, read_buffer_, arrived, stream, sentMessages, noisy, consumed, parsed, dispatched>>

-----------------------------------------------------------------------------
(* CoroConnection::Read and ReadAwaitable. *)

\* What Read() asks EnsureWritable for.
Room(b) == IF b.is_fixed_ THEN 1 ELSE DynamicRoom

\* Mutant: the SQE is prepared before room is made.
ReadBeforeRoom(b) ==
  /\ read_buffer_' = EnsureWritable(b, Room(b))
  /\ at' = b.write_idx_
  /\ room' = WritableBytes(b)
  /\ pc' = "reading"

\* Read() on buffer b: make room and submit a read of all the room there is.
Read(b) ==
  LET ready == EnsureWritable(b, Room(b))
  IN  /\ read_buffer_' = ready
      /\ at' = ready.write_idx_
      /\ room' = WritableBytes(ready)
      /\ pc' = "reading"

\* The kernel stores the next n bytes at the place the SQE names; await_resume
\* calls HasWritten(n).
ReadCompletes(n) ==
  /\ pc = "reading"
  /\ arrived' = arrived + n
  /\ read_buffer_' =
       HasWritten(Store(read_buffer_, at, SubSeq(stream, arrived + 1, arrived + n)), n)
  /\ pc' = "parsing"
  /\ UNCHANGED <<at, room, peerVars, consumed, parsed, dispatched>>

\* A read returns 0 at the end of the stream, and when it has no room.
ReadReturnsZero ==
  /\ pc = "reading"
  /\ \/ peerClosed /\ arrived = Len(stream)
     \/ room = 0
  /\ pc' = "eof"
  /\ UNCHANGED <<at, room, read_buffer_, arrived, peerVars, consumed, parsed, dispatched>>

\* The connection is reset, or the read is cancelled at shutdown.
ReadFails ==
  /\ pc = "reading"
  /\ pc' = "error"
  /\ UNCHANGED <<at, room, read_buffer_, arrived, peerVars, consumed, parsed, dispatched>>

-----------------------------------------------------------------------------
(* handleConnection: the loop around ParseMessage. *)

\* Mutant: only one message is parsed per read.
ParseMessageOnce ==
  /\ pc = "parsing"
  /\ ParseOutcome(read_buffer_) = "message"
  /\ LET m == ParsedMessage(read_buffer_)
     IN  /\ parsed' = Append(parsed, m)
         /\ dispatched' = IF m.msg_type = 0 THEN Append(dispatched, m) ELSE dispatched
  /\ Read(HasRead(read_buffer_, ParseConsumes(read_buffer_)))
  /\ consumed' = consumed + ParseConsumes(read_buffer_)
  /\ UNCHANGED <<arrived, peerVars>>

\* A message is cut off; requests are dispatched; the loop goes on.
ParseMessage ==
  /\ pc = "parsing"
  /\ ParseOutcome(read_buffer_) = "message"
  /\ LET m == ParsedMessage(read_buffer_)
     IN  /\ parsed' = Append(parsed, m)
         /\ dispatched' = IF m.msg_type = 0 THEN Append(dispatched, m) ELSE dispatched
  /\ read_buffer_' = HasRead(read_buffer_, ParseConsumes(read_buffer_))
  /\ consumed' = consumed + ParseConsumes(read_buffer_)
  /\ UNCHANGED <<readVars, arrived, peerVars>>

\* Less than a header is left, or ParseMessage returned nullopt: the inner loop
\* ends and the outer one reads again.
ParseBreaks ==
  /\ pc = "parsing"
  /\ ParseOutcome(read_buffer_) # "message"
  /\ Read(HasRead(read_buffer_, ParseConsumes(read_buffer_)))
  /\ consumed' = consumed + ParseConsumes(read_buffer_)
  /\ UNCHANGED <<arrived, peerVars, parsed, dispatched>>

-----------------------------------------------------------------------------

\* The connection has been accepted and handleConnection is in its first Read.
Init ==
  /\ \E b \in {NewBuffer(BufSize, TRUE), NewBuffer(DynamicSize, FALSE)} :
       LET ready == EnsureWritable(b, Room(b))
       IN  /\ read_buffer_ = ready
           /\ at = ready.write_idx_
           /\ room = WritableBytes(ready)
  /\ pc = "reading"
  /\ stream = <<>> /\ arrived = 0 /\ peerClosed = FALSE
  /\ sentMessages = <<>> /\ noisy = FALSE
  /\ consumed = 0 /\ parsed = <<>> /\ dispatched = <<>>

PeerStep ==
  \/ \E m \in Messages : SendMessage(m)
  \/ \E b \in Noise : SendNoise(b)
  \/ PeerClose

\* A read returns some of the bytes that are there, as many as it has room for.
DataArrives ==
  \E n \in 1..(Len(stream) - arrived) : n <= room /\ ReadCompletes(n)

Next ==
  \/ PeerStep
  \/ DataArrives \/ ReadReturnsZero \/ ReadFails
  \/ ParseMessage \/ ParseBreaks

Spec == Init /\ [][Next]_vars

-----------------------------------------------------------------------------
(* Properties. *)

TypeOK ==
  /\ pc \in {"reading", "parsing", "eof", "error"}
  /\ IsBuffer(read_buffer_)
  /\ at \in Nat /\ room \in Nat
  /\ stream \in Seq(Byte)
  /\ arrived \in 0..Len(stream)
  /\ peerClosed \in BOOLEAN
  /\ sentMessages \in Seq(Messages)
  /\ noisy \in BOOLEAN
  /\ consumed \in 0..arrived
  /\ parsed \in Seq([version : Byte, msg_type : Byte, seq_id : Nat, payload : Seq(Byte)])
  /\ dispatched \in Seq([version : Byte, msg_type : Byte, seq_id : Nat, payload : Seq(Byte)])

\* What can be read from the buffer is exactly the part of the peer's stream
\* that has arrived and has not been taken: neither the kernel's writes, nor
\* Compact, nor a resize loses, repeats or overwrites an unread byte.
BufferHoldsStream ==
  Readable(read_buffer_) = SubSeq(stream, consumed + 1, arrived)

\* The memory the kernel may write to while a read is in flight starts behind
\* the unread bytes and ends with the buffer's storage.
ReadTargetsFreeSpace ==
  pc = "reading" =>
    /\ at = read_buffer_.write_idx_
    /\ at + room = capacity_(read_buffer_)

\* The messages cut off the stream are those the peer sent, in their order,
\* whatever the fragmentation, and also after a byte of noise between two of
\* them.
ParsedAsSent ==
  /\ Len(parsed) <= Len(sentMessages)
  /\ parsed = SubSeq(sentMessages, 1, Len(parsed))

\* f picks the requests out of the messages ms, in their order, and ds is what
\* it picks.
PicksRequests(f, ms, ds) ==
  /\ f \in [1..Len(ds) -> 1..Len(ms)]
  /\ \A j, k \in 1..Len(ds) : j < k => f[j] < f[k]
  /\ {f[k] : k \in 1..Len(ds)} = {i \in 1..Len(ms) : ms[i].msg_type = 0}
  /\ \A k \in 1..Len(ds) : ds[k] = ms[f[k]]

\* handleConnection (coro_echo.cpp) calls handleRequest for exactly the requests
\* among the messages the peer sent, in their order.
DispatchedAsSent ==
  /\ ParsedAsSent
  /\ \E f \in [1..Len(dispatched) -> 1..Len(parsed)] : PicksRequests(f, parsed, dispatched)

\* coro_echo.cpp:74-81: the read loop never waits for more bytes while a whole
\* message lies in the buffer.  The exception is a message right behind a byte
\* of noise: ParseMessage skips the byte and returns nullopt, on which the loop
\* reads again before it looks at what follows.
NothingWholeLeft ==
  pc = "reading" =>
    \/ ParseOutcome(read_buffer_) \in {"short", "fragment"}
    \/ consumed > 0 /\ stream[consumed] \in Noise

\* What a peer and handleConnection may rely on, whatever pieces the bytes come
\* in: the connection is a channel of messages.  A message enters it whole when
\* the peer sends it and leaves it in the step in which ParseMessage returns it.
Channel == INSTANCE MessageChannel WITH sent <- sentMessages, received <- parsed

ImplementsChannel == Channel!Spec

AllMessagesFit == \A m \in Messages : Len(WireBytes(m)) <= BufSize

\* When every message fits into the fixed buffer, a read always has room for at
\* least one byte, so that a result of 0 means the end of the stream.
ReadHasRoom == (read_buffer_.is_fixed_ => AllMessagesFit) /\ ~noisy /\ pc = "reading" => room > 0

\* The kernel hands over bytes that are there, the loop thread runs.
Fairness ==
  /\ WF_vars(DataArrives)
  /\ WF_vars(ParseMessage)
  /\ WF_vars(ParseBreaks)

FairSpec == Spec /\ Fairness

\* Every message of a clean stream is parsed in the end, unless the connection
\* fails: the loop never waits for bytes it already has.
EveryMessageParsed ==
  \A i \in 1..MaxMessages :
    Len(sentMessages) >= i ~> (Len(parsed) >= i \/ pc = "error" \/ noisy)

\* coro.h:58 logs "Connection closed by peer" when a read returns 0, and
\* protocol.cpp:26 says of an incomplete message "wait for full payload".
EofMeansPeerClosed == pc = "eof" => peerClosed
=============================================================================
