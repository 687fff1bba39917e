---------------------------- MODULE ResponsePath ----------------------------
(***************************************************************************)
(* How responses leave a connection: the handler coroutines push encoded    *)
(* responses into the connection's ResponseQueue (src/response_queue.h),    *)
(* writeLoop (examples/coro_echo.cpp, coro_echo_async.cpp) pops them and    *)
(* sends each with CoroConnection::Write, which loops over WriteOnce until  *)
(* the kernel has taken every byte (src/coro_connection.cpp).               *)
(*                                                                          *)
(* Everything runs on one event-loop thread, so an action is what that      *)
(* thread does from the moment a coroutine is entered until every coroutine *)
(* it entered is suspended again.  Push resumes writeLoop inside its own    *)
(* call, so the pop and the first WriteOnce belong to the action that       *)
(* pushes.                                                                  *)
(*                                                                          *)
(* A response is abstracted to its length.  Byte k of the n-th pushed       *)
(* response is <<n, k>>.                                                    *)
(***************************************************************************)
EXTENDS Integers, Sequences, FiniteSets

CONSTANTS
  Requests,   \* the requests that arrive on this connection
  Size,       \* Size[r] is the length of the encoded response to r
  BufSize     \* IoContext::BufSize()

ASSUME ResponsePathAssumption ==
  /\ Size \in [Requests -> Nat \ {0}]
  /\ BufSize \in Nat \ {0}

VARIABLES
  setup,      \* sleeps: handlers co_await AsyncSleep (coro_echo_async.cpp);
              \* fixed: the connection got a fixed write buffer
  handler,    \* the handleRequest coroutine of each request
  items_,     \* ResponseQueue::items_, by position in pushed
  waiter_,    \* TRUE iff ResponseQueue::waiter_ holds writeLoop's handle
  closed_,    \* ResponseQueue::closed_
  writer,     \* what writeLoop is suspended on
  item,       \* the response Write is sending, 0 for none
  ptr,        \* bytes of it that the kernel has taken (ptr and remaining)
  staging,    \* the bytes of write_buffer_ that the SQE in flight names
  pushed,     \* history: the requests in the order their responses were pushed
  sent,       \* history: the bytes the kernel took, in order
  atClose     \* history: Len(pushed) when Close() was called, -1 before

queueVars  == <<items_, waiter_, closed_>>
writerVars == <<writer, item, ptr, staging>>
vars == <<setup, handler, queueVars, writerVars, pushed, sent, atClose>>

-----------------------------------------------------------------------------
(* CoroConnection::Write. *)

Length(n) == Size[pushed[n]]

\* WriteOnce(data + from, len): how many bytes go into one SQE.
ToWrite(len) ==
  IF setup.fixed /\ len > BufSize THEN BufSize ELSE len

\* The memcpy into the staging buffer.
WriteOnce(n, from, len) ==
  staging' = [k \in 1..ToWrite(len) |-> <<n, from + k>>]

-----------------------------------------------------------------------------
(* writeLoop and ResponseQueue::PopAwaitable. *)

\* writeLoop breaks out of its loop and its frame is freed.
EndWriteLoop(how) ==
  /\ writer' = how
  /\ item' = 0
  /\ ptr' = 0
  /\ staging' = <<>>

\* await_resume when items_ is q: nullopt ends writeLoop, an item is handed to
\* Write, which starts on its first chunk.
AwaitResume(q) ==
  \/ /\ q = <<>>
     /\ EndWriteLoop("done")
     /\ items_' = q
  \/ /\ q # <<>>
     /\ items_' = Tail(q)
     /\ writer' = "write"
     /\ item' = Head(q)
     /\ ptr' = 0
     /\ WriteOnce(Head(q), 0, Size[pushed'[Head(q)]])

\* Mutant: a closed queue ends writeLoop even if it holds items.
PopForgetsItems ==
  \/ /\ closed_
     /\ EndWriteLoop("done")
     /\ UNCHANGED <<items_, waiter_>>
  \/ /\ items_ # <<>> /\ ~closed_
     /\ AwaitResume(items_)
     /\ UNCHANGED waiter_
  \/ /\ items_ = <<>> /\ ~closed_
     /\ waiter_' = TRUE
     /\ writer' = "pop"
     /\ item' = 0 /\ ptr' = 0 /\ staging' = <<>>
     /\ UNCHANGED items_

\* Mutant: await_ready is always false.
PopAlwaysSuspends ==
  /\ waiter_' = TRUE
  /\ writer' = "pop"
  /\ item' = 0 /\ ptr' = 0 /\ staging' = <<>>
  /\ UNCHANGED items_

\* co_await queue->Pop(): await_ready, or suspension with the handle in waiter_.
Pop ==
  \/ /\ items_ # <<>> \/ closed_
     /\ AwaitResume(items_)
     /\ UNCHANGED waiter_
  \/ /\ items_ = <<>> /\ ~closed_
     /\ waiter_' = TRUE
     /\ writer' = "pop"
     /\ item' = 0
     /\ ptr' = 0
     /\ staging' = <<>>
     /\ UNCHANGED items_

\* Mutant: a waiting writeLoop is not resumed.
WakeNobody(q) ==
  /\ items_' = q
  /\ UNCHANGED <<waiter_, writerVars>>

\* if (waiter_) std::exchange(waiter_, {}).resume(), when items_ has become q.
WakeWaiter(q) ==
  \/ /\ waiter_
     /\ waiter_' = FALSE
     /\ AwaitResume(q)
  \/ /\ ~waiter_
     /\ items_' = q
     /\ UNCHANGED <<waiter_, writerVars>>

-----------------------------------------------------------------------------
(* The handler coroutines and the read loop. *)

\* ResponseQueue::Push of the response to r.
PushResponse(r) ==
  /\ pushed' = Append(pushed, r)
  /\ WakeWaiter(Append(items_, Len(pushed) + 1))

\* The read loop calls handleRequest for r.  The handler ends at once when the
\* payload does not parse, suspends in AsyncSleep in the asynchronous server,
\* and otherwise answers before it returns to the read loop.
Dispatch(r) ==
  /\ ~closed_
  /\ handler[r] = "none"
  /\ \/ /\ handler' = [handler EXCEPT ![r] = "done"]
        /\ UNCHANGED <<queueVars, writerVars, pushed>>
     \/ /\ setup.sleeps
        /\ handler' = [handler EXCEPT ![r] = "asleep"]
        /\ UNCHANGED <<queueVars, writerVars, pushed>>
     \/ /\ ~setup.sleeps
        /\ handler' = [handler EXCEPT ![r] = "done"]
        /\ PushResponse(r)
        /\ UNCHANGED closed_
  /\ UNCHANGED <<setup, sent, atClose>>

\* The timer of a sleeping handler fires and the handler answers.  This may
\* come after Close(): the read loop does not wait for its handlers.
Wake(r) ==
  /\ handler[r] = "asleep"
  /\ handler' = [handler EXCEPT ![r] = "done"]
  /\ PushResponse(r)
  /\ UNCHANGED <<setup, closed_, sent, atClose>>

\* The read loop ends and calls ResponseQueue::Close.
Close ==
  /\ ~closed_
  /\ closed_' = TRUE
  /\ atClose' = Len(pushed)
  /\ UNCHANGED <<setup, handler, pushed, sent>>
  /\ WakeWaiter(items_)

-----------------------------------------------------------------------------
(* Completions of the write in flight. *)

\* Mutant: after a partial write ptr stays where it is.
WriteCompletesStalePtr(w) ==
  /\ writer = "write"
  /\ sent' = sent \o SubSeq(staging, 1, w)
  /\ UNCHANGED <<setup, handler, closed_, pushed, atClose>>
  /\ \/ /\ ptr + w < Length(item)
        /\ ptr' = ptr + w
        /\ WriteOnce(item, ptr, Length(item) - (ptr + w))
        /\ UNCHANGED <<writer, item, items_, waiter_>>
     \/ /\ ptr + w >= Length(item)
        /\ Pop

\* The kernel took w bytes.  Write sends the rest, or returns and writeLoop
\* goes back to Pop.
WriteCompletes(w) ==
  /\ writer = "write"
  /\ sent' = sent \o SubSeq(staging, 1, w)
  /\ UNCHANGED <<setup, handler, closed_, pushed, atClose>>
  /\ \/ /\ ptr + w < Length(item)
        /\ ptr' = ptr + w
        /\ WriteOnce(item, ptr + w, Length(item) - (ptr + w))
        /\ UNCHANGED <<writer, item, items_, waiter_>>
     \/ /\ ptr + w >= Length(item)
        /\ Pop

\* The write fails or the connection is gone: w <= 0 ends writeLoop.
WriteFails ==
  /\ writer = "write"
  /\ EndWriteLoop("failed")
  /\ UNCHANGED <<setup, handler, queueVars, pushed, sent, atClose>>

-----------------------------------------------------------------------------

\* handleConnection of either server has called writeLoop, which suspended in
\* its first Pop; AllocateBuffer may have found the pool empty.
Init ==
  /\ setup \in [sleeps : BOOLEAN, fixed : BOOLEAN]
  /\ handler = [r \in Requests |-> "none"]
  /\ items_ = <<>>
  /\ waiter_ = TRUE
  /\ closed_ = FALSE
  /\ writer = "pop"
  /\ item = 0
  /\ ptr = 0
  /\ staging = <<>>
  /\ pushed = <<>>
  /\ sent = <<>>
  /\ atClose = -1

HandlerStep(r) == Dispatch(r) \/ Wake(r)

KernelStep == \E w \in 1..Len(staging) : WriteCompletes(w)

Next ==
  \/ \E r \in Requests : HandlerStep(r)
  \/ Close
  \/ KernelStep
  \/ WriteFails

Spec == Init /\ [][Next]_vars

-----------------------------------------------------------------------------
(* Properties. *)

Positions == 1..Len(pushed)

TypeOK ==
  /\ setup \in [sleeps : BOOLEAN, fixed : BOOLEAN]
  /\ handler \in [Requests -> {"none", "asleep", "done"}]
  /\ pushed \in Seq(Requests)
  /\ items_ \in Seq(Positions)
  /\ waiter_ \in BOOLEAN
  /\ closed_ \in BOOLEAN
  /\ writer \in {"pop", "write", "done", "failed"}
  /\ item \in 0..Len(pushed)
  /\ ptr \in Nat
  /\ staging \in Seq(Positions \X (Nat \ {0}))
  /\ sent \in Seq(Positions \X (Nat \ {0}))
  /\ atClose \in -1..Len(pushed)

\* No lost wake-up: the handle is in waiter_ exactly while writeLoop is
\* suspended in Pop, and then there is nothing it should have woken up for.
NoLostWakeup ==
  /\ waiter_ <=> writer = "pop"
  /\ waiter_ => items_ = <<>> /\ ~closed_

\* The byte that must follow byte b on the wire.
Following(b) ==
  IF b[2] < Length(b[1]) THEN <<b[1], b[2] + 1>> ELSE <<b[1] + 1, 1>>

\* The peer receives the pushed responses in push order, each one whole and
\* contiguous: no byte is lost, repeated or interleaved by partial writes, by
\* the staging buffer or by concurrent handlers.  While Write is suspended,
\* the SQE in flight holds exactly the bytes that come next.
StreamInOrder ==
  LET wire == sent \o staging
  IN  /\ wire # <<>> => wire[1] = <<1, 1>>
      /\ \A i \in 1..(Len(wire) - 1) : wire[i + 1] = Following(wire[i])

\* The last byte of the n-th response has left.
SentWhole(n) == \E i \in 1..Len(sent) : sent[i][1] = n /\ sent[i][2] = Length(n)

\* response_queue.h and CoroConnection::Write together are a channel of responses:
\* one enters it when a handler pushes it, and leaves it in the step in which the
\* kernel takes its last byte.
Left == Cardinality({n \in Positions : SentWhole(n)})

Channel == INSTANCE MessageChannel WITH
  Messages <- Requests, sent <- pushed, received <- SubSeq(pushed, 1, Left)

ImplementsChannel == Channel!Spec

\* When writeLoop returns without a write error the read loop has closed the
\* queue, and every response pushed before that has been sent to its last byte.
DrainedOnExit ==
  writer = "done" =>
    /\ closed_
    /\ atClose > 0 => SentWhole(atClose)

\* The timers of sleeping handlers fire, and every write completes: the peer
\* goes on reading, or the connection is lost and the write fails.
Fairness ==
  /\ \A r \in Requests : WF_vars(Wake(r))
  /\ WF_vars(KernelStep \/ WriteFails)

FairSpec == Spec /\ Fairness

\* A response pushed while the queue is open is sent to its last byte, or a
\* write fails.
OpenPushIsSent ==
  \A n \in 1..Cardinality(Requests) :
    (n \in Positions /\ ~closed_)
      ~> (writer = "failed" \/ SentWhole(n))

\* After Close() writeLoop ends.
CloseEndsWriter == closed_ ~> writer \in {"done", "failed"}
=============================================================================
