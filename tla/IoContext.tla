------------------------------ MODULE IoContext ------------------------------
(***************************************************************************)
(* The event loop of cRPC (src/io_context.cpp) together with the awaitables *)
(* that feed it (src/coro.h).                                               *)
(*                                                                          *)
(* One thread runs IoContext::Run.  Everything a coroutine does between two *)
(* co_awaits happens on that thread, inside handle.resume(), so the loop    *)
(* only moves on when the call stack of coroutines is empty.  Three other   *)
(* parties interleave with it: the kernel, which completes operations in    *)
(* any order; whoever calls Stop() (a signal handler on the main thread in  *)
(* the examples); and the code that starts coroutines before Run().         *)
(*                                                                          *)
(* A coroutine is abstracted to what the loop can see of it.  On its turn   *)
(* it awaits an I/O operation, awaits something that is not I/O (Park, the  *)
(* ResponseQueue), starts or resumes another coroutine, or finishes.  The   *)
(* result of an operation is "ok" for whatever the operation returned by    *)
(* itself (data, EOF, an error) and "canceled" for -ECANCELED.              *)
(***************************************************************************)
EXTENDS Integers, Sequences, FiniteSets

CONSTANTS
  Coros,      \* coroutine frames (addresses may be reused once a frame is freed)
  Acceptors,  \* the coroutines that test io_uring_get_sqe for NULL (AcceptLoop)
  Heedless,   \* the coroutines that go on after -ECANCELED, as a handler that
              \* ignores what Write returned does
  Entries,    \* submission queue entries, IoContext(entries = 1024)
  Null        \* the null handle

ASSUME IoContextAssumption ==
  /\ IsFiniteSet(Coros)
  /\ Acceptors \subseteq Coros
  /\ Heedless \subseteq Coros
  /\ Entries \in Nat \ {0}
  /\ Null \notin Coros

VARIABLES
  running_,   \* IoContext::running_
  pc,         \* where the loop thread is inside Run()
  draining,   \* TRUE once Run() has entered its drain phase
  in_flight_, \* IoContext::in_flight_
  reqs,       \* every RequestData ever allocated, by address 1..Len(reqs)
  pool,       \* the free list behind req_pool_head_, head first
  submitted,  \* TRUE iff the wait in progress has submitted SQEs
  sq,         \* user_data of the SQEs prepared and not yet submitted
  kern,       \* user_data of the operations the kernel is working on
  cancelled,  \* the part of kern that the drain phase asked to cancel
  cq,         \* completion queue, oldest first
  count,      \* CQEs of cq already handled but not yet released
  stack,      \* coroutines on the loop thread's call stack, innermost first
  coro,       \* state of each coroutine frame
  result      \* what *req->result points at: the awaitable's result field

loopVars == <<running_, pc, draining>>
reqVars  == <<in_flight_, reqs, pool>>
kernVars == <<submitted, kern, cancelled, cq, count>>
coroVars == <<stack, coro, result>>
vars     == <<loopVars, reqVars, sq, kernVars, coroVars>>

-----------------------------------------------------------------------------

\* user_data of the SQE that io_uring_sqe_set_data(sqe, nullptr) prepares.
NoData == 0

PCs == {"start", "loop", "wait", "reap", "advance", "exit", "stopped", "crashed"}

Addresses == 1..Len(reqs)

Request == [handle : Coros \cup {Null}, result : Coros \cup {Null}]

CoroStates == {"none", "running", "suspended", "parked"}

Answers == {"ok", "canceled"}

Results == Answers \cup {"none"}

\* The loop thread is inside a coroutine, and c is the innermost one.
Running(c) == stack # <<>> /\ c = Head(stack) /\ pc # "crashed"

\* It may go on awaiting and calling.  The coroutines of the library and of
\* the examples end when an operation came back -ECANCELED.
Proceeds(c) == Running(c) /\ (result[c] = "canceled" => c \in Heedless)

\* A coroutine leaves the call stack: it suspends ...
Leave(c, state) ==
  /\ stack' = Tail(stack)
  /\ coro' = [coro EXCEPT ![c] = state]

\* ... or its frame is freed, with the awaitables in it.
Free(c) ==
  /\ Leave(c, "none")
  /\ result' = [result EXCEPT ![c] = "none"]

\* A coroutine is entered through a call or through handle.resume().
Enter(c) ==
  /\ stack' = <<c>> \o stack
  /\ coro' = [coro EXCEPT ![c] = "running"]

-----------------------------------------------------------------------------
(* The pool of RequestData. *)

AllocatedRequest == IF pool # <<>> THEN Head(pool) ELSE Len(reqs) + 1

\* Mutant: a recycled RequestData keeps its old result pointer.
AllocKeepsResult(c) ==
  \/ /\ pool # <<>>
     /\ pool' = Tail(pool)
     /\ reqs' = [reqs EXCEPT ![Head(pool)].handle = c]
  \/ /\ pool = <<>>
     /\ reqs' = Append(reqs, [handle |-> c, result |-> c])
     /\ UNCHANGED pool

AllocRequestData(c) ==
  LET data == [handle |-> c, result |-> c]
  IN  \/ /\ pool # <<>>
         /\ pool' = Tail(pool)
         /\ reqs' = [reqs EXCEPT ![Head(pool)] = data]
      \/ /\ pool = <<>>
         /\ reqs' = Append(reqs, data)
         /\ UNCHANGED pool

FreeRequestData(r) ==
  /\ reqs' = [reqs EXCEPT ![r] = [handle |-> Null, result |-> Null]]
  /\ pool' = <<r>> \o pool

\* Mutant: in_flight_ is not incremented.
SubmitUncounted(c) ==
  /\ AllocRequestData(c)
  /\ sq' = sq \cup {AllocatedRequest}
  /\ UNCHANGED in_flight_

\* Mutant: the free list is never used.
SubmitFromHeap(c) ==
  /\ reqs' = Append(reqs, [handle |-> c, result |-> c])
  /\ sq' = sq \cup {Len(reqs) + 1}
  /\ in_flight_' = in_flight_ + 1
  /\ UNCHANGED pool

Submit(c) ==
  /\ AllocRequestData(c)
  /\ sq' = sq \cup {AllocatedRequest}
  /\ in_flight_' = in_flight_ + 1

-----------------------------------------------------------------------------
(* What a coroutine may do on its turn. *)

\* io_uring_get_sqe found room, the operation was prepared and co_awaited:
\* await_suspend hands the frame to Submit.
AwaitIo(c) ==
  /\ Proceeds(c)
  /\ Cardinality(sq) < Entries
  /\ Submit(c)
  /\ Leave(c, "suspended")
  /\ UNCHANGED <<loopVars, kernVars, result>>

\* io_uring_get_sqe returns NULL.  AcceptLoop logs and breaks out of its loop;
\* Read, WriteOnce and SleepAwaitable prepare the operation through the NULL
\* pointer, which ends the process.
SqFull(c) ==
  /\ Proceeds(c)
  /\ Cardinality(sq) = Entries
  /\ \/ /\ c \in Acceptors
        /\ Free(c)
        /\ UNCHANGED loopVars
     \/ /\ c \notin Acceptors
        /\ pc' = "crashed"
        /\ UNCHANGED <<running_, draining, coroVars>>
  /\ UNCHANGED <<reqVars, sq, kernVars>>

\* The coroutine suspends on something other than I/O (ResponseQueue::Pop).
Park(c) ==
  /\ Proceeds(c)
  /\ Leave(c, "parked")
  /\ UNCHANGED <<loopVars, reqVars, sq, kernVars, result>>

\* The running coroutine resumes a parked one from inside its own turn
\* (ResponseQueue::Push and Close).
Unpark(c) ==
  /\ stack # <<>> /\ pc # "crashed"
  /\ coro[c] = "parked"
  /\ Enter(c)
  /\ UNCHANGED <<loopVars, reqVars, sq, kernVars, result>>

\* A coroutine is called for the first time, from another coroutine or, before
\* Run(), from CoroTcpServer::Start.  initial_suspend is suspend_never, so it
\* runs at once.
Spawn(c) ==
  /\ \/ stack # <<>> /\ Proceeds(Head(stack))
     \/ stack = <<>> /\ pc = "start"
  /\ coro[c] = "none"
  /\ Enter(c)
  /\ UNCHANGED <<loopVars, reqVars, sq, kernVars, result>>

\* The coroutine runs to its end; final_suspend is suspend_never, so its frame
\* is freed on the spot.
Finish(c) ==
  /\ Running(c)
  /\ Free(c)
  /\ UNCHANGED <<loopVars, reqVars, sq, kernVars>>

-----------------------------------------------------------------------------
(* IoContext::Run and Stop. *)

Stop ==
  /\ running_' = FALSE
  /\ UNCHANGED <<pc, draining, reqVars, sq, kernVars, coroVars>>

\* Run() is entered; it overwrites whatever Stop() may have left in running_.
RunStart ==
  /\ pc = "start" /\ stack = <<>>
  /\ running_' = TRUE
  /\ pc' = "loop"
  /\ UNCHANGED <<draining, reqVars, sq, kernVars, coroVars>>

\* Mutant: the main loop does not look at running_.
LoopForEver == IF draining THEN in_flight_ > 0 ELSE TRUE

\* while (running_), and while (in_flight_ > 0) in the drain phase.
LoopCondition == IF draining THEN in_flight_ > 0 ELSE running_

\* Where a break out of the current while loop leads.
AfterBreak == IF draining THEN "stopped" ELSE "exit"

LeaveLoop ==
  /\ pc = "loop" /\ ~LoopCondition
  /\ pc' = AfterBreak
  /\ UNCHANGED <<running_, draining, reqVars, sq, kernVars, coroVars>>

\* io_uring_submit_and_wait_timeout passes every prepared SQE to the kernel
\* and then blocks.  Where a cancellation is still among them, it is the last.
EnterWait ==
  /\ pc = "loop" /\ LoopCondition
  /\ pc' = "wait"
  /\ submitted' = (sq # {})
  /\ kern' = kern \cup sq
  /\ cancelled' = IF NoData \in sq THEN (kern \cup sq) \ {NoData} ELSE cancelled
  /\ sq' = {}
  /\ UNCHANGED <<running_, draining, reqVars, cq, count, coroVars>>

\* The submission itself is refused: an error other than EINTR and ETIME.
SubmitError ==
  /\ pc = "loop" /\ LoopCondition
  /\ pc' = AfterBreak
  /\ UNCHANGED <<running_, draining, reqVars, sq, kernVars, coroVars>>

\* Mutant: the call waits for two completions.
WaitForTwo ==
  /\ pc = "wait" /\ Len(cq) > 1
  /\ pc' = "reap"
  /\ submitted' = FALSE
  /\ UNCHANGED <<running_, draining, reqVars, sq, kern, cancelled, cq, count, coroVars>>

\* The call returns a number that is not negative: there are completions, or
\* the time is over and it returns how many SQEs it had submitted.
WaitReturns ==
  /\ pc = "wait" /\ (cq # <<>> \/ submitted)
  /\ pc' = "reap"
  /\ submitted' = FALSE
  /\ UNCHANGED <<running_, draining, reqVars, sq, kern, cancelled, cq, count, coroVars>>

\* Mutant: the drain loop goes on after a timeout, too.
WaitTimeoutContinues ==
  /\ pc = "wait" /\ cq = <<>> /\ ~submitted
  /\ pc' = "loop"
  /\ UNCHANGED <<running_, draining, reqVars, sq, kernVars, coroVars>>

\* -ETIME or -EINTR: the main loop continues, the drain loop gives up.
WaitTimeout ==
  /\ pc = "wait" /\ cq = <<>> /\ ~submitted
  /\ pc' = IF draining THEN "stopped" ELSE "loop"
  /\ UNCHANGED <<running_, draining, reqVars, sq, kernVars, coroVars>>

\* Mutant: the result is not the one of the CQE.
DeliverOk(cqe) ==
  LET req == reqs[cqe.user_data]
  IN  /\ result' = [result EXCEPT ![req.result] = "ok"]
      /\ FreeRequestData(cqe.user_data)
      /\ in_flight_' = in_flight_ - 1
      /\ Enter(req.handle)

\* One turn of io_uring_for_each_cqe whose CQE carries a RequestData: store
\* the result, take the handle out, recycle the request, resume.
Deliver(cqe) ==
  LET req == reqs[cqe.user_data]
  IN  /\ result' = [result EXCEPT ![req.result] = cqe.res]
      /\ FreeRequestData(cqe.user_data)
      /\ in_flight_' = in_flight_ - 1
      /\ Enter(req.handle)

Reap ==
  /\ pc = "reap" /\ stack = <<>>
  /\ count < Len(cq)
  /\ LET cqe == cq[count + 1]
     IN  \/ cqe.user_data # NoData /\ Deliver(cqe)
         \/ cqe.user_data = NoData /\ UNCHANGED <<reqVars, coroVars>>
  /\ count' = count + 1
  /\ UNCHANGED <<loopVars, submitted, sq, kern, cancelled, cq>>

\* The iteration reads the tail once more and finds nothing new.
ReapDone ==
  /\ pc = "reap" /\ stack = <<>>
  /\ count = Len(cq)
  /\ pc' = "advance"
  /\ UNCHANGED <<running_, draining, reqVars, sq, kernVars, coroVars>>

\* io_uring_cq_advance(count): completions that arrived since stay queued.
Advance ==
  /\ pc = "advance"
  /\ cq' = SubSeq(cq, count + 1, Len(cq))
  /\ count' = 0
  /\ pc' = "loop"
  /\ UNCHANGED <<running_, draining, reqVars, submitted, sq, kern, cancelled, coroVars>>

\* After the main loop.  With operations in flight, an SQE that cancels all of
\* them is prepared when the ring has room for it; it is not counted.  Whether
\* io_uring_submit takes it is not looked at: if not, it stays in the ring.
BeginDrain ==
  /\ pc = "exit"
  /\ \/ /\ in_flight_ > 0 /\ Cardinality(sq) < Entries
        /\ draining' = TRUE
        /\ pc' = "loop"
        /\ \/ /\ cancelled' = kern \cup sq
              /\ kern' = kern \cup sq \cup {NoData}
              /\ sq' = {}
           \/ /\ sq' = sq \cup {NoData}
              /\ UNCHANGED <<kern, cancelled>>
     \/ /\ in_flight_ > 0 /\ Cardinality(sq) = Entries
        /\ draining' = TRUE
        /\ pc' = "loop"
        /\ UNCHANGED <<sq, kern, cancelled>>
     \/ /\ in_flight_ = 0
        /\ pc' = "stopped"
        /\ UNCHANGED <<draining, sq, kern, cancelled>>
  /\ UNCHANGED <<running_, reqVars, submitted, cq, count, coroVars>>

-----------------------------------------------------------------------------
(* The kernel (external).  An operation completes by itself, or with         *)
(* -ECANCELED when the drain phase asked for it; an operation that was        *)
(* already executing may still complete by itself after the cancellation.     *)

Complete(r, res) ==
  /\ r \in kern
  /\ res = "canceled" => r \in cancelled
  /\ kern' = kern \ {r}
  /\ cancelled' = cancelled \ {r}
  /\ cq' = Append(cq, [user_data |-> r, res |-> res])
  /\ UNCHANGED <<loopVars, reqVars, submitted, sq, count, coroVars>>

-----------------------------------------------------------------------------

Init ==
  /\ running_ = FALSE
  /\ pc = "start"
  /\ draining = FALSE
  /\ in_flight_ = 0
  /\ reqs = <<>>
  /\ pool = <<>>
  /\ submitted = FALSE
  /\ sq = {}
  /\ kern = {}
  /\ cancelled = {}
  /\ cq = <<>>
  /\ count = 0
  /\ stack = <<>>
  /\ coro = [c \in Coros |-> "none"]
  /\ result = [c \in Coros |-> "none"]

CoroStep(c) ==
  AwaitIo(c) \/ SqFull(c) \/ Park(c) \/ Unpark(c) \/ Spawn(c) \/ Finish(c)

LoopStep ==
  \/ LeaveLoop \/ EnterWait \/ SubmitError \/ WaitReturns \/ WaitTimeout
  \/ Reap \/ ReapDone \/ Advance \/ BeginDrain

KernelStep == \E r \in kern, res \in Answers : Complete(r, res)

Next ==
  \/ \E c \in Coros : CoroStep(c)
  \/ RunStart
  \/ LoopStep
  \/ Stop
  \/ KernelStep

Spec == Init /\ [][Next]_vars

\* The behaviours in which the kernel accepts every submission.
AcceptingSpec == Init /\ [][Next /\ ~SubmitError /\ NoData \notin sq']_vars

-----------------------------------------------------------------------------
(* Properties. *)

\* The completions the loop has not handled yet.
Unhandled == (count + 1)..Len(cq)

Completed == {cq[i].user_data : i \in Unhandled} \ {NoData}

\* The requests on their way through the ring: prepared, submitted, completed.
Live == ((sq \cup kern) \ {NoData}) \cup Completed

TypeOK ==
  /\ running_ \in BOOLEAN
  /\ pc \in PCs
  /\ draining \in BOOLEAN
  /\ in_flight_ \in Int
  /\ reqs \in Seq(Request)
  /\ pool \in Seq(Addresses)
  /\ submitted \in BOOLEAN
  /\ sq \subseteq Addresses \cup {NoData}
  /\ kern \subseteq Addresses \cup {NoData}
  /\ cancelled \subseteq kern
  /\ cq \in Seq([user_data : Addresses \cup {NoData}, res : Answers])
  /\ count \in 0..Len(cq)
  /\ stack \in Seq(Coros)
  /\ coro \in [Coros -> CoroStates]
  /\ result \in [Coros -> Results]

\* Every RequestData is in exactly one place: on the free list, in a prepared
\* SQE, in the kernel or in an unhandled completion, and in_flight_ counts
\* those that are not on the free list.  (AllocRequestData, FreeRequestData
\* and the manual ++ and -- of in_flight_ are what can break it.)
RequestAccounting ==
  /\ sq \cap kern = {}
  /\ (sq \cup kern) \cap Completed = {}
  /\ \A i, j \in Unhandled :
       cq[i].user_data # NoData /\ cq[i].user_data = cq[j].user_data => i = j
  /\ \A i, j \in DOMAIN pool : pool[i] = pool[j] => i = j
  /\ \A r \in Addresses : r \in Live <=> \A i \in DOMAIN pool : pool[i] # r
  /\ in_flight_ = Cardinality(Live)

\* The call stack holds running coroutines, each once.
StackOk ==
  /\ \A k \in 1..Len(stack) : coro[stack[k]] = "running"
  /\ \A k, l \in 1..Len(stack) : stack[k] = stack[l] => k = l

\* handle.resume() and *req->result always reach a frame that exists and is
\* suspended on that very request: a live request belongs to one suspended
\* coroutine, and every coroutine suspended on I/O has a live request, so it
\* is neither resumed twice nor forgotten.  Nor is a coroutine entered while it
\* is already on the call stack.
NoStrayResume ==
  /\ \A r \in Live :
       /\ reqs[r].handle \in Coros
       /\ reqs[r].result = reqs[r].handle
       /\ coro[reqs[r].handle] = "suspended"
  /\ \A r, s \in Live : reqs[r].handle = reqs[s].handle => r = s
  /\ \A c \in Coros : coro[c] = "suspended" => \E r \in Live : reqs[r].handle = c
  /\ StackOk

\* README: "Object pool for I/O request metadata - zero hot-path heap
\* allocation".  Submit allocates from the heap only when every RequestData
\* that exists is in flight.
AllocOnlyWhenAllInFlight ==
  [][Len(reqs') > Len(reqs) => in_flight_ = Len(reqs)]_vars

\* io_context.cpp:162-164: the drain phase cancels "all in-flight SQEs so
\* suspended coroutines are resumed with -ECANCELED, their frames freed, and
\* held resources [...] properly released".  Stated for a drain in which the
\* kernel answered the cancellation of everything that was in flight and every
\* answer was handled.
DrainReleasesAll ==
  (pc = "stopped" /\ cancelled = {} /\ NoData \notin kern /\ sq = {} /\ Completed = {})
    => \A c \in Coros : coro[c] # "suspended"

-----------------------------------------------------------------------------
(* Refinement: to its coroutines, all of this is AsyncIo. *)

\* The answer to the operation c awaits lies at position i of the queue.
AnsweredAt(c, i) == cq[i].user_data # NoData /\ reqs[cq[i].user_data].handle = c

AwaitedOp(c) ==
  IF coro[c] # "suspended" THEN "idle"
  ELSE IF \E i \in Unhandled : AnsweredAt(c, i)
       THEN cq[CHOOSE i \in Unhandled : AnsweredAt(c, i)].res
       ELSE "pending"

Async == INSTANCE AsyncIo
           WITH op <- [c \in Coros |-> AwaitedOp(c)]

\* However requests are recycled and completions batched, each coroutine is
\* resumed once per operation, with the answer to that operation.
ImplementsAsyncIo == Async!Spec

-----------------------------------------------------------------------------
(* Liveness.  The loop thread keeps running; a coroutine's turn is finite,   *)
(* because its code between two co_awaits is.  The kernel owes a completion   *)
(* only to what was cancelled, to the cancellation itself and to a bounded    *)
(* wait: a read may stay pending for ever.                                    *)

Over == pc \in {"stopped", "crashed"}

Fairness ==
  /\ WF_vars(LoopStep)
  /\ \A c \in Coros : SF_vars(AwaitIo(c) \/ SqFull(c) \/ Finish(c))
  /\ \A r \in 0..Cardinality(Coros) : WF_vars(r \in cancelled \cup {NoData} /\ \E res \in Answers : Complete(r, res))

FairSpec == Spec /\ Fairness

\* A completion the kernel posted reaches its coroutine, unless Run() ends.
CompletionIsDelivered ==
  \A c \in Coros :
    (coro[c] = "suspended" /\ \E r \in Completed : reqs[r].handle = c)
      ~> (coro[c] # "suspended" \/ Over)

\* Once Run() has started, Stop() makes it leave the main loop.
StopLeavesMainLoop == (~running_ /\ pc # "start") ~> (draining \/ Over)

\* The drain phase ends unless coroutines keep awaiting new operations.
DrainEndsUnlessFed ==
  \/ []<><<\E c \in Coros : AwaitIo(c)>>_vars
  \/ draining ~> Over
=============================================================================
