----------------------------- MODULE SeqClient -----------------------------
(***************************************************************************)
(* The two ping-pong clients: examples/latency_bench.cpp, one connection     *)
(* driven by main, and examples/latency_bench_mt.cpp, one thread and one     *)
(* connection per result.  Each thread sends request i, reads the header and *)
(* the payload of the response, and records the round trip; main releases    *)
(* the threads, joins them and reports.  The seq_id of a response is decoded *)
(* but never compared with i: what keeps them in step is the subject here.   *)
(*                                                                           *)
(* The server is external: it answers each request once, with its seq_id.    *)
(* A connection may be refused, or break at any time and lose what is still  *)
(* on the way.  Byte k of response s is <<s, k>>; a header is recognised by  *)
(* its first byte, which holds the magic number.                             *)
(***************************************************************************)
EXTENDS Integers, Sequences, FiniteSets

CONSTANTS
  NThreads,    \* nthreads (latency_bench_mt)
  Count,       \* count: requests per thread
  HeaderSize,  \* Protocol::HEADER_SIZE
  PayloadLen,  \* payload_len of a request and of its response
  Micros       \* the round-trip times that can be measured

\* count = 0 makes latency_bench read the front of an empty vector.
ASSUME SeqClientAssumption ==
  /\ {NThreads, Count, HeaderSize, PayloadLen} \subseteq Nat \ {0}
  /\ Micros \subseteq Nat

VARIABLES
  program,     \* which of the two clients this is
  main,        \* where main is
  start_flag,  \* the atomic start signal
  worker,      \* thread -> its locals: at, i, unsent, recv_staging, seq_id
  results,     \* thread -> ThreadResult: latencies_us, error
  socket,      \* thread -> asked (requests at the server), incoming, broken
  report       \* what main has printed

vars == <<program, main, start_flag, worker, results, socket, report>>

Threads == 1..NThreads

MessageLen == HeaderSize + PayloadLen

Response(s) == [k \in 1..MessageLen |-> <<s, k>>]

NewWorker == [at |-> "none", i |-> 0, unsent |-> 0, recv_staging |-> <<>>, seq_id |-> 0]

NoReport == [sorted |-> <<>>, errors |-> {}, stats |-> <<>>, p99 |-> <<>>]

Workers == IF program = "latency_bench" THEN {1} ELSE Threads

-----------------------------------------------------------------------------
(* A connection's thread: WorkerThread, and the loop in main of latency_bench. *)

\* ConnectTcp; latency_bench has no start signal to wait for.
Connect(t) ==
  /\ worker[t].at = "connect" /\ ~socket[t].broken
  /\ worker' = [worker EXCEPT ![t].at = IF program = "latency_bench" THEN "loop" ELSE "wait"]
  /\ UNCHANGED <<program, main, start_flag, results, socket, report>>

SeeStart(t) ==
  /\ worker[t].at = "wait" /\ start_flag
  /\ worker' = [worker EXCEPT ![t].at = "loop"]
  /\ UNCHANGED <<program, main, start_flag, results, socket, report>>

\* The head of the loop: encode request i, or close the socket.
Loop(t) ==
  /\ worker[t].at = "loop"
  /\ worker' = IF worker[t].i < Count
               THEN [worker EXCEPT ![t].at = "send", ![t].unsent = MessageLen]
               ELSE [worker EXCEPT ![t].at = "done"]
  /\ UNCHANGED <<program, main, start_flag, results, socket, report>>

\* Mutant: one send() is taken to be enough.
SendOnce(t) ==
  /\ worker[t].at = "send"
  /\ \E n \in 1..worker[t].unsent :
       /\ worker' = [worker EXCEPT ![t].unsent = @ - n, ![t].at = "header"]
       /\ socket' = [socket EXCEPT ![t].asked =
                     IF n = worker[t].unsent /\ ~socket[t].broken
                     THEN @ \cup {worker[t].i} ELSE @]
  /\ UNCHANGED <<program, main, start_flag, results, report>>

\* One send() of SendAll.  The kernel takes bytes for a connection that is
\* already lost; they get nowhere.
Send(t) ==
  /\ worker[t].at = "send"
  /\ \E n \in 1..worker[t].unsent :
       LET last == n = worker[t].unsent IN
       /\ worker' = [worker EXCEPT ![t].unsent = @ - n,
                                   ![t].at = IF last THEN "header" ELSE @]
       /\ socket' = [socket EXCEPT ![t].asked =
                     IF last /\ ~socket[t].broken THEN @ \cup {worker[t].i} ELSE @]
  /\ UNCHANGED <<program, main, start_flag, results, report>>

\* What RecvExact has been called for.
Need(t) == IF worker[t].at = "header" THEN HeaderSize ELSE PayloadLen

Receiving(t) == worker[t].at \in {"header", "payload"} /\ Len(worker[t].recv_staging) < Need(t)

\* Mutant: one recv() is taken to be enough.
ReceivedSome(t) == worker[t].recv_staging # <<>>

Received(t) == Len(worker[t].recv_staging) >= Need(t)

\* One recv() of RecvExact: any part of what has arrived.
RecvExact(t) ==
  /\ Receiving(t)
  /\ \E n \in 1..Len(socket[t].incoming) :
       /\ worker' = [worker EXCEPT ![t].recv_staging = @ \o SubSeq(socket[t].incoming, 1, n)]
       /\ socket' = [socket EXCEPT ![t].incoming = SubSeq(@, n + 1, Len(@))]
  /\ UNCHANGED <<program, main, start_flag, results, report>>

\* Mutant: the staging buffer is cleared, not just the header erased.
TakeHeaderClears(t) ==
  /\ worker[t].at = "header" /\ Received(t)
  /\ LET buf == worker[t].recv_staging
         ok  == buf[1][2] = 1
     IN  /\ worker' = [worker EXCEPT ![t].at = IF ok THEN "payload" ELSE "done",
                                     ![t].seq_id = buf[1][1],
                                     ![t].recv_staging = <<>>]
         /\ results' = [results EXCEPT ![t].error = ~ok]
  /\ UNCHANGED <<program, main, start_flag, socket, report>>

\* Copy the header out of the staging buffer, erase it, check the magic.
TakeHeader(t) ==
  /\ worker[t].at = "header" /\ Received(t)
  /\ LET buf == worker[t].recv_staging
         ok  == buf[1][2] = 1
     IN  /\ worker' = [worker EXCEPT ![t].at = IF ok THEN "payload" ELSE "done",
                                     ![t].seq_id = buf[1][1],
                                     ![t].recv_staging = SubSeq(buf, HeaderSize + 1, Len(buf))]
         /\ results' = [results EXCEPT ![t].error = ~ok]
  /\ UNCHANGED <<program, main, start_flag, socket, report>>

\* Erase the payload and record the round trip.
TakePayload(t) ==
  /\ worker[t].at = "payload" /\ Received(t)
  /\ worker' = [worker EXCEPT ![t].at = "loop", ![t].i = @ + 1,
                              ![t].recv_staging = SubSeq(@, PayloadLen + 1, Len(@))]
  /\ \E us \in Micros : results' = [results EXCEPT ![t].latencies_us = Append(@, us)]
  /\ UNCHANGED <<program, main, start_flag, socket, report>>

\* ConnectTcp, SendAll or RecvExact throws, and the thread ends.
Fail(t) ==
  /\ socket[t].broken
  /\ \/ worker[t].at \in {"connect", "send"}
     \/ Receiving(t) /\ socket[t].incoming = <<>>
  /\ worker' = [worker EXCEPT ![t].at = "done"]
  /\ results' = [results EXCEPT ![t].error = TRUE]
  /\ UNCHANGED <<program, main, start_flag, socket, report>>

WorkerStep(t) ==
  \/ Connect(t) \/ SeeStart(t) \/ Loop(t) \/ Send(t)
  \/ RecvExact(t) \/ TakeHeader(t) \/ TakePayload(t) \/ Fail(t)

-----------------------------------------------------------------------------
(* main *)

Spawn(t) ==
  /\ main = "spawn" /\ worker[t].at = "none"
  /\ worker' = [worker EXCEPT ![t].at = "connect"]
  /\ main' = IF \E u \in Threads \ {t} : worker[u].at = "none" THEN "spawn" ELSE "sleep"
  /\ UNCHANGED <<program, start_flag, results, socket, report>>

\* After 100 ms, which are no guarantee that every thread is connected.
Start ==
  /\ main = "sleep"
  /\ main' = "join"
  /\ start_flag' = TRUE
  /\ UNCHANGED <<program, worker, results, socket, report>>

\* Mutant: rounded up.
PercentileUp(sorted, permille) ==
  LET idx == (permille * Len(sorted)) \div 1000 + 1
  IN  sorted[1 + IF idx >= Len(sorted) THEN Len(sorted) - 1 ELSE idx]

\* sorted[idx] with idx = p / 100 * n rounded down, at most n - 1.
Percentile(sorted, permille) ==
  LET idx == (permille * Len(sorted)) \div 1000
  IN  sorted[1 + IF idx >= Len(sorted) THEN Len(sorted) - 1 ELSE idx]

Permilles == {500, 900, 990, 999}

\* min, max and the percentiles; nothing when there is no sample.
PrintStats(sorted) ==
  IF sorted = <<>> THEN <<>>
  ELSE [min |-> Head(sorted), max |-> sorted[Len(sorted)],
        pct |-> [p \in Permilles |-> Percentile(sorted, p)]]

\* std::sort: some order of the positions that brings the samples into line.
Sorted(s) ==
  LET n     == Len(s)
      order == CHOOSE p \in [1..n -> 1..n] :
                 /\ \A a, b \in 1..n : p[a] = p[b] => a = b
                 /\ \A a, b \in 1..n : a <= b => s[p[a]] <= s[p[b]]
  IN  [k \in 1..n |-> s[order[k]]]

\* The samples of all threads, one thread's behind the other's.
Merge(seqs) ==
  LET upTo[k \in 0..Len(seqs)] == IF k = 0 THEN <<>> ELSE upTo[k - 1] \o seqs[k]
  IN  upTo[Len(seqs)]

\* Mutant: only the first thread is joined.
JoinedFirst == worker[1].at = "done"

Joined == \A t \in Workers : worker[t].at = "done"

\* List the errors, merge and sort all samples, print the statistics.
Report ==
  /\ main = "join" /\ Joined
  /\ program = "latency_bench" => ~results[1].error
  /\ LET all == Sorted(Merge([t \in Threads |-> results[t].latencies_us]))
     IN  report' = [sorted |-> all,
                    errors |-> {t \in Workers : results[t].error},
                    stats  |-> PrintStats(all),
                    p99    |-> [t \in {u \in Workers : results[u].latencies_us # <<>>} |->
                                  Percentile(Sorted(results[t].latencies_us), 990)]]
  /\ main' = "reported"
  /\ UNCHANGED <<program, start_flag, worker, results, socket>>

\* latency_bench catches nothing: an exception ends the process.
Abort ==
  /\ main = "join" /\ program = "latency_bench" /\ results[1].error
  /\ main' = "aborted"
  /\ UNCHANGED <<program, start_flag, worker, results, socket, report>>

-----------------------------------------------------------------------------
(* The server and the network (external). *)

Respond(t) ==
  /\ ~socket[t].broken
  /\ \E s \in socket[t].asked :
       socket' = [socket EXCEPT ![t].asked = @ \ {s}, ![t].incoming = @ \o Response(s)]
  /\ UNCHANGED <<program, main, start_flag, worker, results, report>>

Break(t) ==
  /\ worker[t].at \notin {"none", "done"} /\ ~socket[t].broken
  /\ \E n \in 0..Len(socket[t].incoming) :
       socket' = [socket EXCEPT ![t].broken = TRUE, ![t].incoming = SubSeq(@, 1, n)]
  /\ UNCHANGED <<program, main, start_flag, worker, results, report>>

-----------------------------------------------------------------------------

Init ==
  /\ \/ /\ program = "latency_bench" /\ main = "join"
        /\ worker = [t \in Threads |-> [NewWorker EXCEPT !.at = IF t = 1 THEN "connect" ELSE "none"]]
     \/ /\ program = "latency_bench_mt" /\ main = "spawn"
        /\ worker = [t \in Threads |-> NewWorker]
  /\ start_flag = FALSE
  /\ results = [t \in Threads |-> [latencies_us |-> <<>>, error |-> FALSE]]
  /\ socket = [t \in Threads |-> [asked |-> {}, incoming |-> <<>>, broken |-> FALSE]]
  /\ report = NoReport

Next ==
  \/ \E t \in Threads : WorkerStep(t) \/ Spawn(t) \/ Respond(t) \/ Break(t)
  \/ Start \/ Report \/ Abort

Spec == Init /\ [][Next]_vars

\* Every thread is scheduled and the server answers.
FairSpec ==
  /\ Spec
  /\ WF_vars(Start \/ Report \/ Abort \/ \E t \in Threads : Spawn(t))
  /\ \A t \in Threads : WF_vars(WorkerStep(t)) /\ WF_vars(Respond(t))

-----------------------------------------------------------------------------
(* Properties. *)

\* latency_bench.cpp:113-134: the loop never looks at seq_id, yet the response
\* it reads in iteration i is the answer to request i, and "bad magic in
\* response" is never thrown, however send() and recv() split the messages: a
\* thread fails only because its connection did.
InStep ==
  \A t \in Threads :
    /\ worker[t].at = "payload" => worker[t].seq_id = worker[t].i
    /\ results[t].error => socket[t].broken

\* A thread that blocks in recv() on a connection that stands is owed an
\* answer: its request of this iteration is at the server, whole and not yet
\* answered (latency_bench.cpp:113-134).  Nothing of an answer gets lost
\* between the two RecvExact of an iteration.
AnswerIsDue ==
  \A t \in Threads :
    Receiving(t) /\ socket[t].incoming = <<>> /\ ~socket[t].broken
      => socket[t].asked = {worker[t].i}

\* latency_bench_mt.cpp:204-219: what main reports is final.  Every thread that
\* is not listed with an error contributed all its samples, one that is listed
\* contributed fewer, and no sample is counted twice.
ReportIsComplete ==
  main = "reported" =>
    /\ \A t \in Workers : t \in report.errors <=> Len(results[t].latencies_us) < Count
    /\ Len(report.sorted) = Cardinality({s \in Workers \X (1..Count) :
                                           s[2] <= Len(results[s[1]].latencies_us)})
    /\ DOMAIN report.p99 = {t \in Workers : results[t].latencies_us # <<>>}

\* latency_bench_mt.cpp:153-157: the value printed for p % is a sample with at
\* most p % of the samples below it and more than p % not above it.
PercentilesAreRanks ==
  report.stats # <<>> =>
    LET n == Len(report.sorted)
        Below(v)    == Cardinality({k \in 1..n : report.sorted[k] < v})
        NotAbove(v) == Cardinality({k \in 1..n : report.sorted[k] <= v})
    IN  \A p \in Permilles :
          LET v == report.stats.pct[p] IN
          /\ report.stats.min <= v /\ v <= report.stats.max
          /\ 1000 * Below(v) <= p * n /\ p * n < 1000 * NotAbove(v)

\* Every client run ends: no thread waits for ever for the start signal, for an
\* answer or for room to send, so join returns.
MainEnds == <>(main \in {"reported", "aborted"})
=============================================================================
