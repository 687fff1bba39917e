---------------------------- MODULE ServerProcess ----------------------------
(***************************************************************************)
(* The process of examples/coro_echo.cpp and coro_echo_async.cpp: main builds *)
(* one IoContext per thread, enters it in g_all_ctxs for the SIGINT handler,  *)
(* starts the thread, and joins them all; a thread builds its CoroTcpServer   *)
(* and runs the loop.  The contexts belong to main and are destroyed when it  *)
(* leaves the try block, normally or by an exception.                         *)
(*                                                                            *)
(* HandleSigInt runs on any thread of the process and suspends that thread    *)
(* while it walks g_all_ctxs.  To touch a destroyed context, or the vector    *)
(* while or after push_back has moved it, is undefined: the process dies, or  *)
(* carries on.  What a context does while its loop runs is in IoContext.      *)
(***************************************************************************)
EXTENDS Integers, FiniteSets

CONSTANTS
  NThreads,   \* hardware_concurrency()
  MaxSignals  \* bound: how often SIGINT is raised

ASSUME ServerProcessAssumption ==
  /\ NThreads \in Nat \ {0}
  /\ MaxSignals \in Nat

VARIABLES
  process,     \* "up", "exited" (main has returned) or "died"
  main,        \* where main is
  i,           \* its loop variable
  ctxs,        \* context -> "none", "live" or "destroyed"
  registered,  \* g_all_ctxs.size(); element k is context k, for good
  capacity,    \* g_all_ctxs.capacity(): a new one means a new storage
  worker,      \* thread -> where it is
  running_,    \* context -> IoContext::running_
  walk,        \* thread -> its run of HandleSigInt
  signals      \* SIGINTs so far

mainVars == <<main, i, ctxs, registered, capacity>>
vars == <<process, mainVars, worker, running_, walk, signals>>

Workers == 1..NThreads

Main == 0

Idle == [on |-> FALSE, begin |-> 0, pos |-> 0, end |-> 0, serving |-> FALSE]

\* The process is up and thread h is not inside the signal handler.
Runs(h) == process = "up" /\ ~walk[h].on

-----------------------------------------------------------------------------
(* main *)

\* Mutant: the thread is started before its context is in g_all_ctxs.
MakeContextSpawns ==
  /\ Runs(Main) /\ main = "make"
  /\ ctxs' = [ctxs EXCEPT ![i] = "live"]
  /\ worker' = [worker EXCEPT ![i] = "ctor"]
  /\ main' = "push"
  /\ UNCHANGED <<process, i, registered, capacity, running_, walk, signals>>

MakeContext ==
  /\ Runs(Main) /\ main = "make"
  /\ ctxs' = [ctxs EXCEPT ![i] = "live"]
  /\ main' = "push"
  /\ UNCHANGED <<process, i, registered, capacity, worker, running_, walk, signals>>

PushBack ==
  /\ Runs(Main) /\ main = "push"
  /\ registered' = registered + 1
  /\ capacity' = CASE registered < capacity -> capacity
                   [] capacity = 0          -> 1
                   [] OTHER                 -> 2 * capacity
  /\ main' = "spawn"
  /\ UNCHANGED <<process, i, ctxs, worker, running_, walk, signals>>

Spawn ==
  /\ Runs(Main) /\ main = "spawn"
  /\ worker' = [worker EXCEPT ![i] = "ctor"]
  /\ i' = i + 1
  /\ main' = IF i = NThreads THEN "join" ELSE "make"
  /\ UNCHANGED <<process, ctxs, registered, capacity, running_, walk, signals>>

\* IoContext's constructor (io_uring_queue_init fails) or std::thread's throws.
Throw ==
  /\ Runs(Main) /\ main \in {"make", "spawn"}
  /\ main' = "unwind"
  /\ UNCHANGED <<process, i, ctxs, registered, capacity, worker, running_, walk, signals>>

\* Mutant: only the last thread is joined.
JoinLast ==
  /\ Runs(Main) /\ main = "join"
  /\ worker[NThreads] = "done"
  /\ main' = "destroy"
  /\ UNCHANGED <<process, i, ctxs, registered, capacity, worker, running_, walk, signals>>

Join ==
  /\ Runs(Main) /\ main = "join"
  /\ \A k \in Workers : worker[k] = "done"
  /\ main' = "destroy"
  /\ UNCHANGED <<process, i, ctxs, registered, capacity, worker, running_, walk, signals>>

\* ctxs goes first, one context after the other.  ~IoContext calls Stop and
\* takes the ring and the memory down.
DestroyContext ==
  /\ Runs(Main) /\ main \in {"destroy", "unwind"}
  /\ \E k \in Workers :
       /\ ctxs[k] = "live" /\ \A j \in 1..(k - 1) : ctxs[j] # "live"
       /\ ctxs' = [ctxs EXCEPT ![k] = "destroyed"]
       /\ running_' = [running_ EXCEPT ![k] = FALSE]
  /\ UNCHANGED <<process, main, i, registered, capacity, worker, walk, signals>>

\* Then threads: a std::thread that was not joined calls std::terminate.
LeaveTry ==
  /\ Runs(Main) /\ main \in {"destroy", "unwind"}
  /\ \A k \in Workers : ctxs[k] # "live"
  /\ process' = IF main = "unwind" /\ \E k \in Workers : worker[k] # "none"
                THEN "died" ELSE "exited"
  /\ UNCHANGED <<mainVars, worker, running_, walk, signals>>

MainStep == MakeContext \/ PushBack \/ Spawn \/ Throw \/ Join \/ DestroyContext \/ LeaveTry

-----------------------------------------------------------------------------
(* The threads. *)

\* CoroTcpServer's constructor: socket, bind and listen.  An exception leaves
\* the thread's function, so the process dies.
BuildServer(k) ==
  /\ Runs(k) /\ worker[k] = "ctor"
  /\ \/ worker' = [worker EXCEPT ![k] = "start"] /\ UNCHANGED process
     \/ process' = "died" /\ UNCHANGED worker
  /\ UNCHANGED <<mainVars, running_, walk, signals>>

\* Start posts the first accept; Run sets running_ whatever it was before.
EnterRun(k) ==
  /\ Runs(k) /\ worker[k] = "start" /\ ctxs[k] = "live"
  /\ worker' = [worker EXCEPT ![k] = "loop"]
  /\ running_' = [running_ EXCEPT ![k] = TRUE]
  /\ UNCHANGED <<process, mainVars, walk, signals>>

\* The main loop of Run sees that it was stopped and goes on to the drain.
LeaveLoop(k) ==
  /\ Runs(k) /\ worker[k] = "loop" /\ ctxs[k] = "live"
  /\ ~running_[k]
  /\ worker' = [worker EXCEPT ![k] = "drain"]
  /\ UNCHANGED <<process, mainVars, running_, walk, signals>>

\* The ring reports an error other than EINTR and ETIME: so it does then.
RunFails(k) ==
  /\ Runs(k) /\ worker[k] = "loop" /\ ctxs[k] = "live"
  /\ worker' = [worker EXCEPT ![k] = "drain"]
  /\ UNCHANGED <<process, mainVars, running_, walk, signals>>

\* The drain is over and Run returns; ~CoroTcpServer closes the listening
\* socket; the thread ends.
LeaveRun(k) ==
  /\ Runs(k) /\ worker[k] = "drain" /\ ctxs[k] = "live"
  /\ worker' = [worker EXCEPT ![k] = "done"]
  /\ UNCHANGED <<process, mainVars, running_, walk, signals>>

\* The thread uses its context after it was destroyed.
UseDestroyed(k) ==
  /\ Runs(k) /\ worker[k] \in {"start", "loop", "drain"} /\ ctxs[k] = "destroyed"
  /\ process' = "died"
  /\ UNCHANGED <<mainVars, worker, running_, walk, signals>>

WorkerStep(k) == BuildServer(k) \/ EnterRun(k) \/ LeaveLoop(k) \/ UseDestroyed(k)

-----------------------------------------------------------------------------
(* HandleSigInt *)

\* The kernel picks a thread; the loop fixes begin and end of the vector.
Signal(h) ==
  /\ Runs(h) /\ signals < MaxSignals
  /\ h # Main => worker[h] \notin {"none", "done"}
  /\ signals' = signals + 1
  /\ walk' = [walk EXCEPT ![h] = [on |-> TRUE, begin |-> capacity, pos |-> 1,
                                  end |-> registered, serving |-> main = "join"]]
  /\ UNCHANGED <<process, mainVars, worker, running_>>

\* What the handler is about to read or write is gone or being moved.
Wild(h) ==
  \/ main = "push" \/ capacity # walk[h].begin
  \/ ctxs[walk[h].pos] = "destroyed"

\* Mutant: the last context is not stopped.
StopOneEarly(h) ==
  /\ process = "up" /\ walk[h].on /\ walk[h].pos < walk[h].end
  /\ running_' = [running_ EXCEPT ![walk[h].pos] = FALSE]
  /\ walk' = [walk EXCEPT ![h].pos = @ + 1]
  /\ UNCHANGED <<process, mainVars, worker, signals>>

\* ctx->Stop() for one element.
StopOne(h) ==
  /\ process = "up" /\ walk[h].on /\ walk[h].pos <= walk[h].end
  /\ running_' = [running_ EXCEPT ![walk[h].pos] = FALSE]
  /\ walk' = [walk EXCEPT ![h].pos = @ + 1]
  /\ UNCHANGED <<process, mainVars, worker, signals>>

HandlerDies(h) ==
  /\ process = "up" /\ walk[h].on /\ walk[h].pos <= walk[h].end /\ Wild(h)
  /\ process' = "died"
  /\ UNCHANGED <<mainVars, worker, running_, walk, signals>>

HandlerReturns(h) ==
  /\ process = "up" /\ walk[h].on /\ walk[h].pos > walk[h].end
  /\ walk' = [walk EXCEPT ![h] = Idle]
  /\ UNCHANGED <<process, mainVars, worker, running_, signals>>

HandlerStep(h) == StopOne(h) \/ HandlerDies(h) \/ HandlerReturns(h)

-----------------------------------------------------------------------------

Init ==
  /\ process = "up" /\ main = "make" /\ i = 1
  /\ ctxs = [k \in Workers |-> "none"]
  /\ registered = 0 /\ capacity = 0
  /\ worker = [k \in Workers |-> "none"]
  /\ running_ = [k \in Workers |-> FALSE]
  /\ walk = [h \in {Main} \cup Workers |-> Idle]
  /\ signals = 0

Next ==
  \/ MainStep
  \/ \E k \in Workers : WorkerStep(k) \/ RunFails(k) \/ LeaveRun(k)
  \/ \E h \in {Main} \cup Workers : Signal(h) \/ HandlerStep(h)

Spec == Init /\ [][Next]_vars

\* Every thread is scheduled, and a main loop that was stopped is left, because
\* it wakes every 200 ms (IoContext!StopLeavesMainLoop).  Nothing is assumed of
\* the drain: the connections that are open, and new ones, can feed it for ever
\* (IoContext!DrainEndsUnlessFed).
FairSpec ==
  /\ Spec
  /\ WF_vars(MainStep)
  /\ \A k \in Workers : WF_vars(WorkerStep(k))
  /\ \A h \in {Main} \cup Workers : WF_vars(HandlerStep(h))

-----------------------------------------------------------------------------
(* Properties. *)

\* coro_echo.cpp:94-113: a thread that has been started is registered for
\* SIGINT, and its context lives as long as it does.  The exception is an
\* error in start-up: unwinding destroys the contexts under the threads that
\* are already running.
ThreadHasContext ==
  process = "up" =>
    \A k \in Workers : worker[k] \notin {"none", "done"} =>
      /\ k <= registered
      /\ ctxs[k] = "live" \/ main = "unwind"

\* coro_echo.cpp:16-18: HandleSigInt is safe once main waits in join, on
\* whatever thread it runs, with other runs beside it, and although the threads
\* end under it: the walk sees a vector that no longer moves, and no context is
\* destroyed before the walk is over.
SignalWhileServingIsSafe ==
  \A h \in {Main} \cup Workers :
    process = "up" /\ walk[h].on /\ walk[h].serving =>
      /\ walk[h].begin = capacity /\ walk[h].end = NThreads
      /\ \A k \in Workers : ctxs[k] = "live"

\* A SIGINT that arrives when every thread is in its loop ends the server, and
\* in order, unless the drain of some thread never ends; a second one may still
\* find main taking the contexts down.  (One that arrives earlier can be lost:
\* Run sets running_ again.)
SigintEndsServer ==
  \/ \E k \in Workers : <>[](process = "up" /\ worker[k] = "drain")
  \/ (/\ \A k \in Workers : worker[k] = "loop"
      /\ signals = 1
      /\ \E h \in {Main} \cup Workers : walk[h].serving /\ walk[h].pos = 1)
     ~> (process = "exited" \/ signals > 1)
=============================================================================
