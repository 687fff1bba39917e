--------------------------- MODULE SeqClientProofs ---------------------------
(***************************************************************************)
(* Proofs about SeqClient, for any number of threads and requests and any    *)
(* sizes of header and payload.                                              *)
(*                                                                           *)
(* What keeps a thread in step with its responses is that there is never     *)
(* more than one on the way: while it waits for response i, everything that  *)
(* is still to be read from its connection is a piece of that response, at   *)
(* the place the thread expects (Stream), and when it sends, nothing is.     *)
(* What makes the report final is that main reads the results of threads     *)
(* that can change them no more (MainPart).                                  *)
(***************************************************************************)
EXTENDS SeqClient, SequenceTheorems, FiniteSetTheorems, WellFoundedInduction, TLAPS

WireByte == Nat \X Nat

WorkerType == [at : {"none", "connect", "wait", "loop", "send", "header", "payload", "done"},
               i : 0..Count, unsent : 0..MessageLen,
               recv_staging : Seq(WireByte), seq_id : Nat]

SocketType == [asked : SUBSET Nat, incoming : Seq(WireByte), broken : BOOLEAN]

ResultType == [latencies_us : Seq(Micros), error : BOOLEAN]

\* q holds the bytes of response s behind the first off.
Piece(q, s, off) == \A k \in 1..Len(q) : q[k] = <<s, off + k>>

\* What a thread has still to read is the rest of response i behind byte off.
Stream(w, s, off) ==
  /\ Piece(w.recv_staging, w.i, off)
  /\ Piece(s.incoming, w.i, off + Len(w.recv_staging))
  /\ off + Len(w.recv_staging) + Len(s.incoming) <= MessageLen

\* Nothing is on the way.
Silent(w, s) == s.asked = {} /\ s.incoming = <<>> /\ w.recv_staging = <<>>

ThreadOK(w, s, r) ==
  /\ Len(r.latencies_us) = w.i
  /\ r.error => s.broken /\ w.at = "done"
  /\ w.at = "done" => (w.i < Count => r.error)
  /\ r.error => w.i < Count
  /\ w.at \in {"send", "header", "payload"} => w.i < Count
  /\ w.at \in {"none", "connect", "wait"} => w.i = 0
  /\ w.at \in {"none", "connect", "wait", "loop", "send"} => Silent(w, s)
  /\ w.at = "header" =>
       /\ s.asked \subseteq {w.i}
       /\ s.asked # {} => s.incoming = <<>> /\ w.recv_staging = <<>>
       /\ Stream(w, s, 0)
  /\ w.at = "payload" => w.seq_id = w.i /\ s.asked = {} /\ Stream(w, s, HeaderSize)

ThreadPart ==
  /\ worker \in [Threads -> WorkerType]
  /\ socket \in [Threads -> SocketType]
  /\ results \in [Threads -> ResultType]
  /\ \A t \in Threads : ThreadOK(worker[t], socket[t], results[t])

\* What main prints when it reads the results.
FinalReport ==
  LET all == Sorted(Merge([t \in Threads |-> results[t].latencies_us]))
  IN  [sorted |-> all,
       errors |-> {t \in Workers : results[t].error},
       stats  |-> PrintStats(all),
       p99    |-> [t \in {u \in Workers : results[u].latencies_us # <<>>} |->
                     Percentile(Sorted(results[t].latencies_us), 990)]]

MainPart ==
  /\ program \in {"latency_bench", "latency_bench_mt"}
  /\ main \in {"spawn", "sleep", "join", "reported", "aborted"}
  /\ program = "latency_bench" =>
       main # "spawn" /\ \A t \in Threads \ {1} : worker[t].at = "none"
  /\ main = "reported" => Joined /\ report = FinalReport
  /\ main # "reported" => report = NoReport

Inv == ThreadPart /\ MainPart

-----------------------------------------------------------------------------
(* A thread's loop. *)

LEMMA OneThread ==
  ASSUME ThreadPart, NEW t \in Threads
  PROVE  /\ worker[t] \in WorkerType /\ socket[t] \in SocketType /\ results[t] \in ResultType
         /\ ThreadOK(worker[t], socket[t], results[t])
  BY DEF ThreadPart

\* A step of thread t, or of its connection, concerns that thread only.
LEMMA ThreadChanges ==
  ASSUME ThreadPart, NEW t \in Threads,
         NEW w \in WorkerType, NEW s \in SocketType, NEW r \in ResultType,
         worker' = [worker EXCEPT ![t] = w],
         socket' = [socket EXCEPT ![t] = s],
         results' = [results EXCEPT ![t] = r],
         ThreadOK(w, s, r)
  PROVE  ThreadPart'
  <1>1. /\ worker' \in [Threads -> WorkerType]
        /\ socket' \in [Threads -> SocketType]
        /\ results' \in [Threads -> ResultType]
    BY DEF ThreadPart
  <1>2. ASSUME NEW u \in Threads PROVE ThreadOK(worker'[u], socket'[u], results'[u])
    <2>1. CASE u = t
      <3>1. worker'[u] = w /\ socket'[u] = s /\ results'[u] = r
        BY <2>1 DEF ThreadPart
      <3> QED
        BY <3>1
    <2>2. CASE u # t
      <3>1. worker'[u] = worker[u] /\ socket'[u] = socket[u] /\ results'[u] = results[u]
        BY <2>2 DEF ThreadPart
      <3> QED
        BY <3>1 DEF ThreadPart
    <2> QED
      BY <2>1, <2>2
  <1> QED
    BY <1>1, <1>2 DEF ThreadPart

\* What is not assigned is assigned its own value.
LEMMA Unassigned ==
  ASSUME ThreadPart, NEW t \in Threads
  PROVE  /\ worker = [worker EXCEPT ![t] = worker[t]]
         /\ socket = [socket EXCEPT ![t] = socket[t]]
         /\ results = [results EXCEPT ![t] = results[t]]
  BY DEF ThreadPart

LEMMA Sizes ==
  /\ Count \in Nat \ {0} /\ HeaderSize \in Nat \ {0} /\ PayloadLen \in Nat \ {0}
  /\ MessageLen \in Nat \ {0} /\ MessageLen = HeaderSize + PayloadLen
  /\ 1 \in Threads /\ Threads \subseteq Nat
  <1>1. /\ Count \in Nat \ {0} /\ HeaderSize \in Nat \ {0} /\ PayloadLen \in Nat \ {0}
        /\ NThreads \in Nat \ {0}
    BY SeqClientAssumption
  <1> QED
    BY <1>1 DEF MessageLen, Threads

\* Moves between which only at changes.
Move(a, b) ==
  <<a, b>> \in {<<"none", "connect">>, <<"connect", "wait">>, <<"connect", "loop">>, <<"wait", "loop">>}

LEMMA OnlyAt ==
  ASSUME ThreadPart, NEW t \in Threads, NEW a,
         Move(worker[t].at, a),
         worker' = [worker EXCEPT ![t].at = a], socket' = socket, results' = results
  PROVE  ThreadPart'
  <1> DEFINE w == [worker[t] EXCEPT !.at = a]
  <1>1. /\ worker[t] \in WorkerType /\ socket[t] \in SocketType /\ results[t] \in ResultType
        /\ ThreadOK(worker[t], socket[t], results[t])
    BY OneThread
  <1>2. w \in WorkerType /\ w.at = a /\ w.i = worker[t].i /\ w.recv_staging = worker[t].recv_staging
    BY <1>1 DEF WorkerType, Move
  <1>3. worker' = [worker EXCEPT ![t] = w]
    OBVIOUS
  <1> HIDE DEF w
  <1>4. ThreadOK(w, socket[t], results[t])
    BY <1>1, <1>2 DEF ThreadOK, Silent, Move
  <1> QED
    BY <1>1, <1>2, <1>3, <1>4, ThreadChanges, Unassigned

LEMMA ConnectThread ==
  ASSUME ThreadPart, NEW t \in Threads, Connect(t)
  PROVE  ThreadPart'
  <1>1. PICK a \in {"loop", "wait"} : worker' = [worker EXCEPT ![t].at = a]
    BY DEF Connect
  <1>2. worker[t].at = "connect" /\ socket' = socket /\ results' = results
    BY DEF Connect
  <1>3. Move(worker[t].at, a)
    BY <1>2 DEF Move
  <1> QED
    BY <1>1, <1>2, <1>3, OnlyAt

LEMMA SeeStartThread ==
  ASSUME ThreadPart, NEW t \in Threads, SeeStart(t)
  PROVE  ThreadPart'
  <1>1. /\ worker[t].at = "wait" /\ worker' = [worker EXCEPT ![t].at = "loop"]
        /\ socket' = socket /\ results' = results
    BY DEF SeeStart
  <1>2. Move(worker[t].at, "loop")
    BY <1>1 DEF Move
  <1> QED
    BY <1>1, <1>2, OnlyAt

LEMMA SpawnThread ==
  ASSUME ThreadPart, NEW t \in Threads, Spawn(t)
  PROVE  ThreadPart'
  <1>1. /\ worker[t].at = "none" /\ worker' = [worker EXCEPT ![t].at = "connect"]
        /\ socket' = socket /\ results' = results
    BY DEF Spawn
  <1>2. Move(worker[t].at, "connect")
    BY <1>1 DEF Move
  <1> QED
    BY <1>1, <1>2, OnlyAt

LEMMA LoopThread ==
  ASSUME ThreadPart, NEW t \in Threads, Loop(t)
  PROVE  ThreadPart'
  <1>1. /\ worker[t] \in WorkerType /\ socket[t] \in SocketType /\ results[t] \in ResultType
        /\ ThreadOK(worker[t], socket[t], results[t])
    BY OneThread
  <1>2. worker[t].at = "loop" /\ socket' = socket /\ results' = results
    BY DEF Loop
  <1>3. CASE worker[t].i < Count
    <2> DEFINE w == [worker[t] EXCEPT !.at = "send", !.unsent = MessageLen]
    <2>0. MessageLen \in 0..MessageLen
      BY Sizes
    <2>1. /\ w \in WorkerType /\ w.at = "send" /\ w.i = worker[t].i
          /\ w.recv_staging = worker[t].recv_staging
      BY <1>1, <2>0 DEF WorkerType
    <2>2. worker' = [worker EXCEPT ![t] = w]
      BY <1>3 DEF Loop
    <2> HIDE DEF w
    <2>3. ThreadOK(w, socket[t], results[t])
      BY <1>1, <1>2, <1>3, <2>1 DEF ThreadOK, Silent
    <2> QED
      BY <1>1, <1>2, <2>1, <2>2, <2>3, ThreadChanges, Unassigned
  <1>4. CASE ~(worker[t].i < Count)
    <2> DEFINE w == [worker[t] EXCEPT !.at = "done"]
    <2>1. w \in WorkerType /\ w.at = "done" /\ w.i = worker[t].i
      BY <1>1 DEF WorkerType
    <2>2. worker' = [worker EXCEPT ![t] = w]
      BY <1>4 DEF Loop
    <2> HIDE DEF w
    <2>3. ThreadOK(w, socket[t], results[t])
      BY <1>1, <1>2, <1>4, <2>1 DEF ThreadOK
    <2> QED
      BY <1>1, <1>2, <2>1, <2>2, <2>3, ThreadChanges, Unassigned
  <1> QED
    BY <1>3, <1>4

-----------------------------------------------------------------------------
(* Pieces of a response. *)

LEMMA EmptyIffNoLength ==
  ASSUME NEW q \in Seq(WireByte)
  PROVE  Len(q) \in Nat /\ (q = <<>> <=> Len(q) = 0)
  BY EmptySeq, LenProperties

LEMMA FrontPiece ==
  ASSUME NEW q \in Seq(WireByte), NEW n \in 0..Len(q), NEW i, NEW off, Piece(q, i, off)
  PROVE  /\ SubSeq(q, 1, n) \in Seq(WireByte) /\ Len(SubSeq(q, 1, n)) = n
         /\ Piece(SubSeq(q, 1, n), i, off)
  <1>1. \A k \in 1..n : q[k] \in WireByte
    BY ElementOfSeq
  <1>2. Len(q) \in Nat /\ n \in Int /\ 1 \in Int
    OBVIOUS
  <1>3. /\ SubSeq(q, 1, n) \in Seq(WireByte)
        /\ Len(SubSeq(q, 1, n)) = IF 1 <= n THEN n - 1 + 1 ELSE 0
        /\ \A k \in 1..(n - 1 + 1) : SubSeq(q, 1, n)[k] = q[1 + k - 1]
    BY <1>1, <1>2, SubSeqProperties
  <1>4. Len(SubSeq(q, 1, n)) = n
    BY <1>2, <1>3
  <1>5. ASSUME NEW k \in 1..n PROVE SubSeq(q, 1, n)[k] = q[k] /\ k \in 1..Len(q)
    BY <1>2, <1>3
  <1> QED
    BY <1>3, <1>4, <1>5 DEF Piece

LEMMA BackPiece ==
  ASSUME NEW q \in Seq(WireByte), NEW n \in 0..Len(q), NEW i, NEW off \in Nat, Piece(q, i, off)
  PROVE  /\ SubSeq(q, n + 1, Len(q)) \in Seq(WireByte)
         /\ Len(SubSeq(q, n + 1, Len(q))) = Len(q) - n
         /\ Piece(SubSeq(q, n + 1, Len(q)), i, off + n)
  <1> DEFINE r == SubSeq(q, n + 1, Len(q))
  <1>1. \A k \in (n + 1)..Len(q) : q[k] \in WireByte
    BY ElementOfSeq
  <1>2. Len(q) \in Nat /\ n \in Nat /\ n + 1 \in Int /\ n <= Len(q)
    OBVIOUS
  <1>3. /\ r \in Seq(WireByte)
        /\ Len(r) = IF n + 1 <= Len(q) THEN Len(q) - (n + 1) + 1 ELSE 0
        /\ \A k \in 1..(Len(q) - (n + 1) + 1) : r[k] = q[(n + 1) + k - 1]
    BY <1>1, <1>2, SubSeqProperties
  <1> HIDE DEF r
  <1>4. Len(r) = Len(q) - n
    BY <1>2, <1>3
  <1>5. ASSUME NEW k \in 1..Len(r) PROVE r[k] = <<i, (off + n) + k>>
    <2>1. /\ k \in 1..(Len(q) - (n + 1) + 1) /\ (n + 1) + k - 1 = n + k
          /\ n + k \in 1..Len(q) /\ off + (n + k) = (off + n) + k
      BY <1>2, <1>4
    <2>2. r[k] = q[n + k]
      BY <1>3, <2>1
    <2>3. q[n + k] = <<i, off + (n + k)>>
      BY <2>1 DEF Piece
    <2> QED
      BY <2>1, <2>2, <2>3
  <1>6. Piece(r, i, off + n)
    BY <1>5 DEF Piece
  <1> QED
    BY <1>3, <1>4, <1>6 DEF r

LEMMA JoinPieces ==
  ASSUME NEW p \in Seq(WireByte), NEW q \in Seq(WireByte), NEW i, NEW off \in Nat,
         Piece(p, i, off), Piece(q, i, off + Len(p))
  PROVE  /\ p \o q \in Seq(WireByte) /\ Len(p \o q) = Len(p) + Len(q)
         /\ Piece(p \o q, i, off)
  <1> DEFINE z == p \o q
  <1>1. /\ z \in Seq(WireByte) /\ Len(z) = Len(p) + Len(q)
        /\ \A k \in 1..(Len(p) + Len(q)) : z[k] = IF k <= Len(p) THEN p[k] ELSE q[k - Len(p)]
    BY ConcatProperties
  <1>2. Len(p) \in Nat /\ Len(q) \in Nat
    OBVIOUS
  <1> HIDE DEF z
  <1>3. ASSUME NEW k \in 1..(Len(p) + Len(q)) PROVE z[k] = <<i, off + k>>
    <2>1. CASE k <= Len(p)
      <3>1. k \in 1..Len(p)
        BY <2>1
      <3> QED
        BY <1>1, <2>1, <3>1 DEF Piece
    <2>2. CASE ~(k <= Len(p))
      <3> DEFINE j == k - Len(p)
      <3>1. j \in 1..Len(q) /\ (off + Len(p)) + j = off + k
        BY <1>2, <2>2
      <3> HIDE DEF j
      <3>2. z[k] = q[j]
        BY <1>1, <2>2 DEF j
      <3> QED
        BY <3>1, <3>2 DEF Piece
    <2> QED
      BY <2>1, <2>2
  <1>4. Piece(z, i, off)
    BY <1>1, <1>3 DEF Piece
  <1> QED
    BY <1>1, <1>4 DEF z

LEMMA ResponsePiece ==
  ASSUME NEW i \in Nat
  PROVE  /\ Response(i) \in Seq(WireByte) /\ Len(Response(i)) = MessageLen
         /\ Piece(Response(i), i, 0)
  <1> DEFINE M == MessageLen
             r == [k \in 1..M |-> <<i, k>>]
  <1>1. M \in Nat
    BY Sizes
  <1> HIDE DEF M
  <1>2. r \in [1..M -> WireByte]
    BY DEF WireByte
  <1>3. r \in Seq(WireByte)
    BY <1>1, <1>2, SeqDef
  <1>4. Len(r) = M
    BY <1>1
  <1>5. \A k \in 1..M : r[k] = <<i, 0 + k>>
    BY <1>1
  <1> QED
    BY <1>3, <1>4, <1>5 DEF Response, Piece, M

-----------------------------------------------------------------------------
(* Sending, receiving, and what the connection does. *)

LEMMA SendThread ==
  ASSUME ThreadPart, NEW t \in Threads, Send(t)
  PROVE  ThreadPart'
  <1>1. /\ worker[t] \in WorkerType /\ socket[t] \in SocketType /\ results[t] \in ResultType
        /\ ThreadOK(worker[t], socket[t], results[t])
    BY OneThread
  <1>2. worker[t].at = "send" /\ results' = results
    BY DEF Send
  <1>3. PICK n \in 1..worker[t].unsent :
          /\ worker' = [worker EXCEPT ![t].unsent = @ - n,
                          ![t].at = IF n = worker[t].unsent THEN "header" ELSE @]
          /\ socket' = [socket EXCEPT ![t].asked =
                          IF n = worker[t].unsent /\ ~socket[t].broken
                          THEN @ \cup {worker[t].i} ELSE @]
    BY DEF Send
  <1> DEFINE w == [worker[t] EXCEPT !.unsent = @ - n,
                                    !.at = IF n = worker[t].unsent THEN "header" ELSE @]
             s == [socket[t] EXCEPT !.asked = IF n = worker[t].unsent /\ ~socket[t].broken
                                              THEN @ \cup {worker[t].i} ELSE @]
  <1>4. worker' = [worker EXCEPT ![t] = w] /\ socket' = [socket EXCEPT ![t] = s]
    BY <1>3
  <1>5. worker[t].unsent \in 0..MessageLen /\ worker[t].unsent - n \in 0..MessageLen
    BY <1>1, Sizes DEF WorkerType
  <1>6. /\ w \in WorkerType /\ w.at \in {"send", "header"} /\ w.i = worker[t].i
        /\ w.recv_staging = worker[t].recv_staging
        /\ w.at = "send" => n # worker[t].unsent
    BY <1>1, <1>2, <1>5 DEF WorkerType
  <1>7. /\ s \in SocketType /\ s.incoming = socket[t].incoming /\ s.broken = socket[t].broken
        /\ s.asked \subseteq socket[t].asked \cup {worker[t].i}
        /\ n # worker[t].unsent => s.asked = socket[t].asked
    BY <1>1, SMTT(30) DEF SocketType, WorkerType
  <1> HIDE DEF w, s
  <1>8. socket[t].asked = {} /\ s.incoming = <<>> /\ w.recv_staging = <<>> /\ w.i < Count
    BY <1>1, <1>2, <1>6, <1>7 DEF ThreadOK, Silent
  <1>9. Stream(w, s, 0)
    <2>1. Len(w.recv_staging) = 0 /\ Len(s.incoming) = 0
      BY <1>8
    <2> QED
      BY <2>1, Sizes DEF Stream, Piece
  <1>10. ThreadOK(w, s, results[t])
    BY <1>1, <1>2, <1>6, <1>7, <1>8, <1>9 DEF ThreadOK, Silent
  <1> QED
    BY <1>1, <1>2, <1>4, <1>6, <1>7, <1>10, ThreadChanges, Unassigned

\* What a thread that waits for a response knows about the rest of it.
LEMMA Awaiting ==
  ASSUME ThreadPart, NEW t \in Threads, worker[t].at \in {"header", "payload"}
  PROVE  LET off == IF worker[t].at = "header" THEN 0 ELSE HeaderSize IN
         /\ off \in Nat /\ worker[t].i \in Nat
         /\ worker[t].recv_staging \in Seq(WireByte) /\ socket[t].incoming \in Seq(WireByte)
         /\ Stream(worker[t], socket[t], off)
  <1>1. /\ worker[t] \in WorkerType /\ socket[t] \in SocketType
        /\ ThreadOK(worker[t], socket[t], results[t])
    BY OneThread
  <1>2. worker[t].i \in Nat /\ worker[t].recv_staging \in Seq(WireByte)
    BY <1>1, Sizes DEF WorkerType
  <1>3. socket[t].incoming \in Seq(WireByte)
    BY <1>1 DEF SocketType
  <1> QED
    BY <1>1, <1>2, <1>3, Sizes DEF ThreadOK

LEMMA RecvExactThread ==
  ASSUME ThreadPart, NEW t \in Threads, RecvExact(t)
  PROVE  ThreadPart'
  <1> DEFINE off == IF worker[t].at = "header" THEN 0 ELSE HeaderSize
             buf == worker[t].recv_staging
             in  == socket[t].incoming
  <1>1. /\ worker[t] \in WorkerType /\ socket[t] \in SocketType /\ results[t] \in ResultType
        /\ ThreadOK(worker[t], socket[t], results[t])
    BY OneThread
  <1>2. worker[t].at \in {"header", "payload"} /\ results' = results
    BY DEF RecvExact, Receiving
  <1>3. PICK n \in 1..Len(in) :
          /\ worker' = [worker EXCEPT ![t].recv_staging = @ \o SubSeq(in, 1, n)]
          /\ socket' = [socket EXCEPT ![t].incoming = SubSeq(@, n + 1, Len(@))]
    BY DEF RecvExact
  <1>4. /\ off \in Nat /\ worker[t].i \in Nat
        /\ buf \in Seq(WireByte) /\ in \in Seq(WireByte)
        /\ Stream(worker[t], socket[t], off)
    BY <1>2, Awaiting
  <1>5. /\ Piece(buf, worker[t].i, off) /\ Piece(in, worker[t].i, off + Len(buf))
        /\ off + Len(buf) + Len(in) <= MessageLen
    BY <1>4 DEF Stream
  <1> DEFINE w == [worker[t] EXCEPT !.recv_staging = buf \o SubSeq(in, 1, n)]
             s == [socket[t] EXCEPT !.incoming = SubSeq(in, n + 1, Len(in))]
  <1>6. worker' = [worker EXCEPT ![t] = w] /\ socket' = [socket EXCEPT ![t] = s]
    BY <1>3
  <1>7. /\ w.recv_staging = buf \o SubSeq(in, 1, n) /\ w.at = worker[t].at /\ w.i = worker[t].i
        /\ w.seq_id = worker[t].seq_id
        /\ s.incoming = SubSeq(in, n + 1, Len(in)) /\ s.asked = socket[t].asked
        /\ s.broken = socket[t].broken
    BY <1>1 DEF WorkerType, SocketType
  <1>8. buf \o SubSeq(in, 1, n) \in Seq(WireByte) => w \in WorkerType
    BY <1>1 DEF WorkerType
  <1>9. SubSeq(in, n + 1, Len(in)) \in Seq(WireByte) => s \in SocketType
    BY <1>1 DEF SocketType
  <1> HIDE DEF off, buf, in, w, s
  <1>10. Len(in) \in Nat /\ Len(buf) \in Nat /\ n \in 0..Len(in) /\ n \in Nat /\ off + Len(buf) \in Nat
    BY <1>4
  <1>11. /\ SubSeq(in, 1, n) \in Seq(WireByte) /\ Len(SubSeq(in, 1, n)) = n
         /\ Piece(SubSeq(in, 1, n), worker[t].i, off + Len(buf))
    BY <1>4, <1>5, <1>10, FrontPiece
  <1>12. /\ SubSeq(in, n + 1, Len(in)) \in Seq(WireByte)
         /\ Len(SubSeq(in, n + 1, Len(in))) = Len(in) - n
         /\ Piece(SubSeq(in, n + 1, Len(in)), worker[t].i, (off + Len(buf)) + n)
    BY <1>4, <1>5, <1>10, BackPiece
  <1>13. /\ w.recv_staging \in Seq(WireByte) /\ Len(w.recv_staging) = Len(buf) + n
         /\ Piece(w.recv_staging, worker[t].i, off)
    <2> DEFINE q == SubSeq(in, 1, n)
    <2>1. q \in Seq(WireByte) /\ Len(q) = n /\ Piece(q, worker[t].i, off + Len(buf))
      BY <1>11
    <2> HIDE DEF q
    <2>2. buf \o q \in Seq(WireByte) /\ Len(buf \o q) = Len(buf) + Len(q)
          /\ Piece(buf \o q, worker[t].i, off)
      BY <1>4, <1>5, <2>1, JoinPieces
    <2>3. w.recv_staging = buf \o q
      BY <1>7 DEF q
    <2> QED
      BY <2>1, <2>2, <2>3
  <1>14. /\ (off + Len(buf)) + n = off + (Len(buf) + n)
         /\ off + (Len(buf) + n) + (Len(in) - n) <= MessageLen
    BY <1>4, <1>5, <1>10, Sizes
  <1>15. Stream(w, s, off)
    BY <1>7, <1>12, <1>13, <1>14 DEF Stream
  <1>16. socket[t].asked # {} => in = <<>> \/ worker[t].at = "payload"
    BY <1>1, <1>2 DEF ThreadOK, in
  <1>17. socket[t].asked = {}
    <2>1. in # <<>>
      BY <1>4, <1>10, EmptyIffNoLength
    <2> QED
      BY <1>1, <1>2, <1>16, <2>1 DEF ThreadOK
  <1>18. ThreadOK(w, s, results[t])
    BY <1>1, <1>2, <1>7, <1>15, <1>17 DEF ThreadOK, off
  <1> QED
    BY <1>1, <1>2, <1>6, <1>7, <1>8, <1>9, <1>12, <1>13, <1>18, ThreadChanges, Unassigned

LEMMA TakeHeaderThread ==
  ASSUME ThreadPart, NEW t \in Threads, TakeHeader(t)
  PROVE  ThreadPart'
  <1> DEFINE buf == worker[t].recv_staging
             in  == socket[t].incoming
  <1>1. /\ worker[t] \in WorkerType /\ socket[t] \in SocketType /\ results[t] \in ResultType
        /\ ThreadOK(worker[t], socket[t], results[t])
    BY OneThread
  <1>2. worker[t].at = "header" /\ Len(buf) >= HeaderSize /\ socket' = socket
    BY DEF TakeHeader, Received, Need
  <1>3. /\ worker[t].i \in Nat /\ buf \in Seq(WireByte) /\ in \in Seq(WireByte)
        /\ Stream(worker[t], socket[t], 0)
    BY <1>2, Awaiting
  <1>4. /\ Piece(buf, worker[t].i, 0) /\ Piece(in, worker[t].i, 0 + Len(buf))
        /\ 0 + Len(buf) + Len(in) <= MessageLen
    BY <1>3 DEF Stream
  <1>5. /\ Len(buf) \in Nat /\ Len(in) \in Nat /\ 1 \in 1..Len(buf)
        /\ HeaderSize \in Nat /\ HeaderSize \in 0..Len(buf)
    BY <1>2, <1>3, Sizes
  <1>6. buf[1] = <<worker[t].i, 1>>
    <2>1. buf[1] = <<worker[t].i, 0 + 1>>
      BY <1>4, <1>5 DEF Piece
    <2> QED
      BY <2>1
  <1>7. buf[1][1] = worker[t].i /\ buf[1][2] = 1
    BY <1>6
  <1> DEFINE rest == SubSeq(buf, HeaderSize + 1, Len(buf))
             w == [worker[t] EXCEPT !.at = "payload", !.seq_id = worker[t].i, !.recv_staging = rest]
             r == [results[t] EXCEPT !.error = FALSE]
  <1>8. worker' = [worker EXCEPT ![t] = w] /\ results' = [results EXCEPT ![t] = r]
    BY <1>7 DEF TakeHeader
  <1>9. /\ rest \in Seq(WireByte) /\ Len(rest) = Len(buf) - HeaderSize
        /\ Piece(rest, worker[t].i, 0 + HeaderSize)
    BY <1>3, <1>4, <1>5, BackPiece
  <1> HIDE DEF buf, in, rest
  <1>10. /\ w \in WorkerType /\ w.recv_staging = rest /\ w.at = "payload"
         /\ w.i = worker[t].i /\ w.seq_id = worker[t].i
    BY <1>1, <1>3, <1>9 DEF WorkerType
  <1>11. r \in ResultType /\ ~r.error /\ r.latencies_us = results[t].latencies_us
    BY <1>1 DEF ResultType
  <1> HIDE DEF w, r
  <1>12. Stream(w, socket[t], HeaderSize)
    <2>1. /\ HeaderSize + (Len(buf) - HeaderSize) = 0 + Len(buf)
          /\ HeaderSize + (Len(buf) - HeaderSize) + Len(in) <= MessageLen
          /\ 0 + HeaderSize = HeaderSize
      BY <1>4, <1>5, Sizes
    <2> QED
      BY <1>4, <1>9, <1>10, <2>1 DEF Stream, in
  <1>13. socket[t].asked = {}
    <2>1. buf # <<>>
      BY <1>3, <1>5, EmptyIffNoLength
    <2> QED
      BY <1>1, <1>2, <2>1 DEF ThreadOK, buf
  <1>14. ThreadOK(w, socket[t], r)
    BY <1>1, <1>2, <1>10, <1>11, <1>12, <1>13 DEF ThreadOK
  <1> QED
    BY <1>1, <1>2, <1>8, <1>10, <1>11, <1>14, ThreadChanges, Unassigned

LEMMA TakePayloadThread ==
  ASSUME ThreadPart, NEW t \in Threads, TakePayload(t)
  PROVE  ThreadPart'
  <1> DEFINE buf == worker[t].recv_staging
             in  == socket[t].incoming
  <1>1. /\ worker[t] \in WorkerType /\ socket[t] \in SocketType /\ results[t] \in ResultType
        /\ ThreadOK(worker[t], socket[t], results[t])
    BY OneThread
  <1>2. worker[t].at = "payload" /\ Len(buf) >= PayloadLen /\ socket' = socket
    BY DEF TakePayload, Received, Need
  <1>3. PICK us \in Micros :
          /\ worker' = [worker EXCEPT ![t].at = "loop", ![t].i = @ + 1,
                          ![t].recv_staging = SubSeq(@, PayloadLen + 1, Len(@))]
          /\ results' = [results EXCEPT ![t].latencies_us = Append(@, us)]
    BY DEF TakePayload
  <1>4. /\ worker[t].i \in Nat /\ buf \in Seq(WireByte) /\ in \in Seq(WireByte)
        /\ Stream(worker[t], socket[t], HeaderSize)
    BY <1>2, Awaiting
  <1>5. HeaderSize + Len(buf) + Len(in) <= MessageLen
    BY <1>4 DEF Stream
  <1>6. Len(buf) = PayloadLen /\ Len(in) = 0 /\ PayloadLen \in Nat
    <2>1. Len(buf) \in Nat /\ Len(in) \in Nat
      BY <1>4
    <2>2. HeaderSize \in Nat /\ PayloadLen \in Nat /\ MessageLen = HeaderSize + PayloadLen
      BY Sizes
    <2>3. HeaderSize + Len(buf) + Len(in) <= HeaderSize + PayloadLen /\ Len(buf) >= PayloadLen
      BY <1>2, <1>5, <2>2
    <2> HIDE DEF buf, in
    <2>4. Len(buf) = PayloadLen /\ Len(in) = 0
      BY ONLY <2>1, <2>2, <2>3
    <2> QED
      BY <2>2, <2>4
  <1> DEFINE rest == SubSeq(buf, PayloadLen + 1, Len(buf))
             samples == Append(results[t].latencies_us, us)
             w == [worker[t] EXCEPT !.at = "loop", !.i = @ + 1, !.recv_staging = rest]
             r == [results[t] EXCEPT !.latencies_us = samples]
  <1>7. worker' = [worker EXCEPT ![t] = w] /\ results' = [results EXCEPT ![t] = r]
    BY <1>3
  <1>8. rest = <<>> /\ in = <<>>
    <2>1. rest = <<>>
      BY <1>6, SubSeqEmpty
    <2> QED
      BY <1>4, <1>6, <2>1, EmptyIffNoLength
  <1>9. results[t].latencies_us \in Seq(Micros)
    BY <1>1 DEF ResultType
  <1>10. samples \in Seq(Micros) /\ Len(samples) = Len(results[t].latencies_us) + 1
    BY <1>9, AppendProperties
  <1> HIDE DEF rest, samples
  <1>11. worker[t].i < Count /\ worker[t].i + 1 \in 0..Count
    BY <1>1, <1>2, <1>4, Sizes DEF ThreadOK
  <1>12. w \in WorkerType /\ w.at = "loop" /\ w.i = worker[t].i + 1 /\ w.recv_staging = <<>>
    <2>1. rest \in Seq(WireByte)
      BY <1>8, EmptySeq
    <2>2. w \in WorkerType /\ w.at = "loop" /\ w.i = worker[t].i + 1 /\ w.recv_staging = rest
      BY <1>1, <1>11, <2>1 DEF WorkerType
    <2> QED
      BY <1>8, <2>2
  <1>13. r \in ResultType /\ r.latencies_us = samples /\ r.error = results[t].error
    BY <1>1, <1>10 DEF ResultType
  <1> HIDE DEF w, r
  <1>14. /\ socket[t].asked = {} /\ socket[t].incoming = <<>> /\ ~results[t].error
         /\ Len(results[t].latencies_us) = worker[t].i
    BY <1>1, <1>2, <1>8 DEF ThreadOK, in
  <1>15. ThreadOK(w, socket[t], r)
    BY <1>10, <1>12, <1>13, <1>14 DEF ThreadOK, Silent
  <1> QED
    BY <1>1, <1>2, <1>7, <1>12, <1>13, <1>15, ThreadChanges, Unassigned

LEMMA FailThread ==
  ASSUME ThreadPart, NEW t \in Threads, Fail(t)
  PROVE  ThreadPart'
  <1>1. /\ worker[t] \in WorkerType /\ socket[t] \in SocketType /\ results[t] \in ResultType
        /\ ThreadOK(worker[t], socket[t], results[t])
    BY OneThread
  <1>2. /\ worker[t].at \in {"connect", "send", "header", "payload"} /\ socket[t].broken
        /\ socket' = socket
    BY DEF Fail, Receiving
  <1> DEFINE w == [worker[t] EXCEPT !.at = "done"]
             r == [results[t] EXCEPT !.error = TRUE]
  <1>3. worker' = [worker EXCEPT ![t] = w] /\ results' = [results EXCEPT ![t] = r]
    BY DEF Fail
  <1>4. w \in WorkerType /\ w.at = "done" /\ w.i = worker[t].i
    BY <1>1 DEF WorkerType
  <1>5. r \in ResultType /\ r.error /\ r.latencies_us = results[t].latencies_us
    BY <1>1 DEF ResultType
  <1> HIDE DEF w, r
  <1>6. worker[t].i < Count
    <2>1. 0 < Count
      BY Sizes
    <2> QED
      BY <1>1, <1>2, <2>1 DEF ThreadOK
  <1>7. ThreadOK(w, socket[t], r)
    BY <1>1, <1>2, <1>4, <1>5, <1>6 DEF ThreadOK
  <1> QED
    BY <1>1, <1>2, <1>3, <1>4, <1>5, <1>7, ThreadChanges, Unassigned

LEMMA RespondThread ==
  ASSUME ThreadPart, NEW t \in Threads, Respond(t)
  PROVE  ThreadPart'
  <1>1. /\ worker[t] \in WorkerType /\ socket[t] \in SocketType /\ results[t] \in ResultType
        /\ ThreadOK(worker[t], socket[t], results[t])
    BY OneThread
  <1>2. ~socket[t].broken /\ worker' = worker /\ results' = results
    BY DEF Respond
  <1>3. PICK q \in socket[t].asked :
          socket' = [socket EXCEPT ![t].asked = @ \ {q}, ![t].incoming = @ \o Response(q)]
    BY DEF Respond
  <1> DEFINE in == socket[t].incoming \o Response(q)
             s == [socket[t] EXCEPT !.asked = @ \ {q}, !.incoming = in]
  <1>4. socket' = [socket EXCEPT ![t] = s]
    BY <1>3
  <1>5. q \in Nat /\ socket[t].incoming \in Seq(WireByte)
    BY <1>1 DEF SocketType
  <1>6. /\ Response(q) \in Seq(WireByte) /\ Len(Response(q)) = MessageLen
        /\ Piece(Response(q), q, 0)
    BY <1>5, ResponsePiece
  <1>7. in \in Seq(WireByte)
    BY <1>5, <1>6, ConcatProperties
  <1>8. /\ s \in SocketType /\ s.asked = socket[t].asked \ {q} /\ s.incoming = in
        /\ s.broken = socket[t].broken
    BY <1>1, <1>7 DEF SocketType
  <1>9. CASE worker[t].at = "header"
    <2>1. q = worker[t].i /\ s.asked = {}
      BY <1>1, <1>8, <1>9 DEF ThreadOK
    <2>2. socket[t].incoming = <<>> /\ worker[t].recv_staging = <<>>
      BY <1>1, <1>9 DEF ThreadOK
    <2>3. in = Response(q)
      BY <1>6, <2>2, ConcatEmptySeq
    <2>4. Len(worker[t].recv_staging) = 0 /\ Len(s.incoming) = MessageLen
      BY <1>6, <1>8, <2>2, <2>3
    <2>5. Piece(worker[t].recv_staging, worker[t].i, 0) /\ Piece(s.incoming, worker[t].i, 0)
      <3>1. Piece(worker[t].recv_staging, worker[t].i, 0)
        BY <2>4 DEF Piece
      <3> QED
        BY <1>6, <1>8, <2>1, <2>3, <3>1
    <2> HIDE DEF in, s
    <2>6. Stream(worker[t], s, 0)
      BY <2>4, <2>5, Sizes DEF Stream
    <2>7. ThreadOK(worker[t], s, results[t])
      BY <1>1, <1>8, <1>9, <2>1, <2>6 DEF ThreadOK
    <2> QED
      BY <1>1, <1>2, <1>4, <1>8, <2>7, ThreadChanges, Unassigned
  <1>10. CASE worker[t].at # "header"
    <2> HIDE DEF in, s
    <2>1. worker[t].at = "done"
      <3>1. worker[t].at \in {"none", "connect", "wait", "loop", "send", "header", "payload", "done"}
        BY <1>1 DEF WorkerType
      <3>2. socket[t].asked # {}
        OBVIOUS
      <3> QED
        BY <1>1, <1>10, <3>1, <3>2 DEF ThreadOK, Silent
    <2>2. ThreadOK(worker[t], s, results[t])
      BY <1>1, <1>8, <2>1 DEF ThreadOK
    <2> QED
      BY <1>1, <1>2, <1>4, <1>8, <2>2, ThreadChanges, Unassigned
  <1> QED
    BY <1>9, <1>10

LEMMA BreakThread ==
  ASSUME ThreadPart, NEW t \in Threads, Break(t)
  PROVE  ThreadPart'
  <1> DEFINE in == socket[t].incoming
  <1>1. /\ worker[t] \in WorkerType /\ socket[t] \in SocketType /\ results[t] \in ResultType
        /\ ThreadOK(worker[t], socket[t], results[t])
    BY OneThread
  <1>2. worker[t].at \notin {"none", "done"} /\ worker' = worker /\ results' = results
    BY DEF Break
  <1>3. PICK n \in 0..Len(in) :
          socket' = [socket EXCEPT ![t].broken = TRUE, ![t].incoming = SubSeq(@, 1, n)]
    BY DEF Break
  <1> DEFINE kept == SubSeq(in, 1, n)
             s == [socket[t] EXCEPT !.broken = TRUE, !.incoming = kept]
  <1>4. socket' = [socket EXCEPT ![t] = s]
    BY <1>3
  <1>5. in \in Seq(WireByte)
    BY <1>1 DEF SocketType
  <1>6. kept \in Seq(WireByte) /\ Len(kept) = n
    <2>1. \A k \in 1..n : in[k] \in WireByte
      BY <1>5, ElementOfSeq
    <2>2. n \in Int /\ 1 \in Int /\ n >= 0
      BY <1>5
    <2>3. kept \in Seq(WireByte) /\ Len(kept) = IF 1 <= n THEN n - 1 + 1 ELSE 0
      BY <2>1, <2>2, SubSeqProperties
    <2> QED
      BY <2>2, <2>3
  <1>7. in = <<>> => kept = <<>>
    BY <1>5, <1>6, EmptyIffNoLength
  <1>8. s \in SocketType /\ s.asked = socket[t].asked /\ s.incoming = kept /\ s.broken
    BY <1>1, <1>6 DEF SocketType
  <1> HIDE DEF s
  <1>9. ASSUME NEW off \in Nat, Stream(worker[t], socket[t], off) PROVE Stream(worker[t], s, off)
    <2>1. /\ Piece(in, worker[t].i, off + Len(worker[t].recv_staging))
          /\ off + Len(worker[t].recv_staging) + Len(in) <= MessageLen
      BY <1>9 DEF Stream
    <2>2. Piece(kept, worker[t].i, off + Len(worker[t].recv_staging))
      BY <1>5, <2>1, FrontPiece
    <2>3. worker[t].recv_staging \in Seq(WireByte)
      BY <1>1 DEF WorkerType
    <2>4. Len(worker[t].recv_staging) \in Nat /\ Len(in) \in Nat /\ n <= Len(in) /\ n \in Nat
      BY <1>5, <2>3
    <2> HIDE DEF kept, in
    <2>5. off + Len(worker[t].recv_staging) + n <= MessageLen
      <3>1. MessageLen \in Nat
        BY Sizes
      <3> QED
        BY ONLY off \in Nat, <2>1, <2>4, <3>1
    <2> QED
      BY <1>6, <1>8, <1>9, <2>2, <2>5 DEF Stream
  <1>10. HeaderSize \in Nat /\ 0 \in Nat
    BY Sizes
  <1> HIDE DEF kept
  <1>11. ThreadOK(worker[t], s, results[t])
    BY <1>1, <1>2, <1>7, <1>8, <1>9, <1>10 DEF ThreadOK, Silent
  <1> QED
    BY <1>1, <1>2, <1>4, <1>8, <1>11, ThreadChanges, Unassigned

-----------------------------------------------------------------------------
(* main. *)

\* A thread that takes a step is one of Workers and has not ended.
LEMMA StepsWhileRunning ==
  ASSUME Inv, NEW t \in Threads, WorkerStep(t)
  PROVE  main # "reported" /\ worker[t].at \notin {"none", "done"}
  <1>1. worker[t].at \notin {"none", "done"}
    BY DEF WorkerStep, Connect, SeeStart, Loop, Send, RecvExact, Receiving, TakeHeader, TakePayload, Fail
  <1>2. t \in Workers
    BY <1>1 DEF Inv, MainPart, Workers
  <1> QED
    BY <1>1, <1>2 DEF Inv, MainPart, Joined

\* The report stays true as long as nobody touches what it was made from.
LEMMA ReportStays ==
  ASSUME MainPart, UNCHANGED <<program, main, results, report>>,
         \A t \in Threads : worker[t].at \in {"none", "done"} => worker'[t].at = worker[t].at
  PROVE  MainPart'
  <1>1. Workers' = Workers /\ Workers \subseteq Threads
    BY Sizes DEF Workers
  <1>2. FinalReport' = FinalReport
    BY <1>1 DEF FinalReport
  <1>3. Joined => Joined'
    BY <1>1 DEF Joined
  <1>4. \A t \in Threads \ {1} : worker[t].at = "none" => worker'[t].at = "none"
    OBVIOUS
  <1> QED
    BY <1>2, <1>3, <1>4 DEF MainPart

LEMMA WorkerStepMain ==
  ASSUME Inv, NEW t \in Threads, WorkerStep(t)
  PROVE  MainPart'
  <1>1. main # "reported" /\ worker[t].at \notin {"none", "done"}
    BY StepsWhileRunning
  <1>2. UNCHANGED <<program, main, report>>
    BY DEF WorkerStep, Connect, SeeStart, Loop, Send, RecvExact, TakeHeader, TakePayload, Fail
  <1>3. \A u \in Threads \ {t} : worker'[u] = worker[u]
    <2>1. worker \in [Threads -> WorkerType]
      BY DEF Inv, ThreadPart
    <2>2. PICK w : worker' = [worker EXCEPT ![t] = w]
      BY DEF WorkerStep, Connect, SeeStart, Loop, Send, RecvExact, TakeHeader, TakePayload, Fail
    <2> QED
      BY <2>1, <2>2
  <1>4. \A u \in Threads \ {1} : program = "latency_bench" => worker'[u].at = "none"
    BY <1>1, <1>3 DEF Inv, MainPart
  <1> QED
    BY <1>1, <1>2, <1>4 DEF Inv, MainPart

LEMMA ReportMain ==
  ASSUME Inv, Report
  PROVE  MainPart'
  <1>1. /\ main' = "reported" /\ Joined /\ report' = FinalReport
        /\ UNCHANGED <<program, worker, results>>
    BY DEF Report, FinalReport
  <1>2. Joined' /\ FinalReport' = FinalReport
    BY <1>1 DEF Joined, FinalReport, Workers
  <1>3. program = "latency_bench" => \A t \in Threads \ {1} : worker'[t].at = "none"
    BY <1>1 DEF Inv, MainPart
  <1>4. program' \in {"latency_bench", "latency_bench_mt"}
    BY <1>1 DEF Inv, MainPart
  <1> QED
    BY <1>1, <1>2, <1>3, <1>4 DEF MainPart

LEMMA SameThreads ==
  ASSUME ThreadPart, UNCHANGED <<worker, socket, results>>
  PROVE  ThreadPart'
  BY DEF ThreadPart

LEMMA InitInv == Init => Inv
  <1> SUFFICES ASSUME Init PROVE Inv
    OBVIOUS
  <1>1. PICK a \in [Threads -> {"none", "connect"}] :
          /\ worker = [t \in Threads |-> [NewWorker EXCEPT !.at = a[t]]]
          /\ program = "latency_bench" => main # "spawn" /\ \A t \in Threads \ {1} : a[t] = "none"
    <2>1. CASE program = "latency_bench" /\ main = "join"
               /\ worker = [t \in Threads |-> [NewWorker EXCEPT !.at = IF t = 1 THEN "connect" ELSE "none"]]
      <3> DEFINE a == [t \in Threads |-> IF t = 1 THEN "connect" ELSE "none"]
      <3>1. a \in [Threads -> {"none", "connect"}] /\ \A t \in Threads \ {1} : a[t] = "none"
        OBVIOUS
      <3>2. worker = [t \in Threads |-> [NewWorker EXCEPT !.at = a[t]]]
        BY <2>1
      <3> QED
        BY <2>1, <3>1, <3>2
    <2>2. CASE program = "latency_bench_mt" /\ worker = [t \in Threads |-> NewWorker]
      <3> DEFINE a == [t \in Threads |-> "none"]
      <3>1. a \in [Threads -> {"none", "connect"}]
        OBVIOUS
      <3>2. [NewWorker EXCEPT !.at = "none"] = NewWorker
        BY DEF NewWorker
      <3>3. worker = [t \in Threads |-> [NewWorker EXCEPT !.at = a[t]]]
        BY <2>2, <3>2
      <3> QED
        BY <2>2, <3>1, <3>3
    <2> QED
      BY <2>1, <2>2 DEF Init
  <1>2. /\ results = [t \in Threads |-> [latencies_us |-> <<>>, error |-> FALSE]]
        /\ socket = [t \in Threads |-> [asked |-> {}, incoming |-> <<>>, broken |-> FALSE]]
        /\ report = NoReport /\ main \in {"join", "spawn"}
        /\ program \in {"latency_bench", "latency_bench_mt"}
    BY DEF Init
  <1>3. <<>> \in Seq(WireByte) /\ <<>> \in Seq(Micros) /\ Len(<<>>) = 0
    BY EmptySeq
  <1>4. 0 \in 0..Count /\ 0 \in 0..MessageLen /\ 0 \in Nat
    BY Sizes
  <1>5. ASSUME NEW t \in Threads
        PROVE  /\ worker[t] \in WorkerType /\ worker[t].at = a[t] /\ a[t] \in {"none", "connect"}
               /\ worker[t].i = 0 /\ worker[t].recv_staging = <<>>
    <2> DEFINE w == [NewWorker EXCEPT !.at = a[t]]
    <2>1. w = [at |-> a[t], i |-> 0, unsent |-> 0, recv_staging |-> <<>>, seq_id |-> 0]
      BY DEF NewWorker
    <2>2. a[t] \in {"none", "connect"}
      OBVIOUS
    <2>3. w \in WorkerType /\ w.at = a[t] /\ w.i = 0 /\ w.recv_staging = <<>>
      BY <1>3, <1>4, <2>1, <2>2 DEF WorkerType
    <2>4. worker[t] = w
      BY <1>1
    <2> QED
      BY <2>2, <2>3, <2>4
  <1>6. ASSUME NEW t \in Threads
        PROVE  /\ socket[t] \in SocketType /\ socket[t].asked = {} /\ socket[t].incoming = <<>>
               /\ results[t] \in ResultType /\ results[t].latencies_us = <<>> /\ ~results[t].error
    BY <1>2, <1>3 DEF SocketType, ResultType
  <1>7. ASSUME NEW t \in Threads PROVE ThreadOK(worker[t], socket[t], results[t])
    BY <1>3, <1>5, <1>6 DEF ThreadOK, Silent
  <1>8. ThreadPart
    <2>1. worker \in [Threads -> WorkerType]
      BY <1>1, <1>5
    <2>2. socket \in [Threads -> SocketType]
      BY <1>2, <1>6
    <2>3. results \in [Threads -> ResultType]
      BY <1>2, <1>6
    <2> QED
      BY <1>7, <2>1, <2>2, <2>3 DEF ThreadPart
  <1>9. MainPart
    BY <1>1, <1>2, <1>5 DEF MainPart
  <1> QED
    BY <1>8, <1>9 DEF Inv

LEMMA NextInv == Inv /\ [Next]_vars => Inv'
  <1> SUFFICES ASSUME Inv, [Next]_vars PROVE Inv'
    OBVIOUS
  <1>0. ThreadPart /\ MainPart
    BY DEF Inv
  <1>1. ASSUME NEW t \in Threads, WorkerStep(t) PROVE Inv'
    <2>1. ThreadPart'
      BY <1>0, <1>1, ConnectThread, SeeStartThread, LoopThread, SendThread, RecvExactThread,
         TakeHeaderThread, TakePayloadThread, FailThread DEF WorkerStep
    <2> QED
      BY <1>1, <2>1, WorkerStepMain DEF Inv
  <1>2. ASSUME NEW t \in Threads, Spawn(t) PROVE Inv'
    <2>1. main = "spawn" /\ main' \in {"spawn", "sleep"} /\ UNCHANGED <<program, report>>
      BY <1>2 DEF Spawn
    <2>2. MainPart'
      BY <1>0, <2>1 DEF MainPart
    <2> QED
      BY <1>0, <1>2, <2>2, SpawnThread DEF Inv
  <1>3. ASSUME NEW t \in Threads, Respond(t) PROVE Inv'
    <2>1. UNCHANGED <<program, main, worker, results, report>>
      BY <1>3 DEF Respond
    <2> QED
      BY <1>0, <1>3, <2>1, RespondThread, ReportStays DEF Inv
  <1>4. ASSUME NEW t \in Threads, Break(t) PROVE Inv'
    <2>1. UNCHANGED <<program, main, worker, results, report>>
      BY <1>4 DEF Break
    <2> QED
      BY <1>0, <1>4, <2>1, BreakThread, ReportStays DEF Inv
  <1>5. CASE Start \/ Abort
    <2>1. /\ main' \in {"join", "aborted"} /\ main # "reported"
          /\ UNCHANGED <<program, worker, results, socket, report>>
      BY <1>5 DEF Start, Abort
    <2>2. MainPart'
      BY <1>0, <2>1 DEF MainPart
    <2> QED
      BY <1>0, <2>1, <2>2, SameThreads DEF Inv
  <1>6. CASE Report
    <2>1. UNCHANGED <<worker, socket, results>>
      BY <1>6 DEF Report
    <2> QED
      BY <1>0, <1>6, <2>1, ReportMain, SameThreads DEF Inv
  <1>7. CASE UNCHANGED vars
    <2>1. UNCHANGED <<program, main, worker, results, socket, report>>
      BY <1>7 DEF vars
    <2> QED
      BY <1>0, <2>1, SameThreads, ReportStays DEF Inv
  <1> QED
    BY <1>1, <1>2, <1>3, <1>4, <1>5, <1>6, <1>7 DEF Next

THEOREM Invariance == Spec => []Inv
  BY InitInv, NextInv, PTL DEF Spec

\* A thread reads in iteration i the answer to request i, and fails only when
\* its connection does (latency_bench.cpp:113-134), for any split of the
\* messages and any number of threads and requests.
THEOREM ThreadsStayInStep == Spec => []InStep
  <1>1. Inv => InStep
    BY DEF Inv, ThreadPart, ThreadOK, InStep
  <1> QED
    BY <1>1, Invariance, PTL

-----------------------------------------------------------------------------
(* What a thread waits for. *)

\* Stream bounds what is on the way to a thread; on a connection that stands
\* it is all of the answer, unless the server still has the request.
Whole(w, s) ==
  ~s.broken =>
    /\ w.at = "header" => \/ s.asked = {w.i}
                          \/ Len(w.recv_staging) + Len(s.incoming) = MessageLen
    /\ w.at = "payload" => HeaderSize + Len(w.recv_staging) + Len(s.incoming) = MessageLen

AllWhole == \A t \in Threads : Whole(worker[t], socket[t])

LEMMA WholeChanges ==
  ASSUME ThreadPart, AllWhole, NEW t \in Threads, NEW w, NEW s,
         worker' = [worker EXCEPT ![t] = w],
         socket' = [socket EXCEPT ![t] = s],
         Whole(w, s)
  PROVE  AllWhole'
  <1>1. ASSUME NEW u \in Threads PROVE Whole(worker'[u], socket'[u])
    <2>1. CASE u = t
      <3>1. worker'[u] = w /\ socket'[u] = s
        BY <2>1 DEF ThreadPart
      <3> QED
        BY <3>1
    <2>2. CASE u # t
      <3>1. worker'[u] = worker[u] /\ socket'[u] = socket[u]
        BY <2>2 DEF ThreadPart
      <3> QED
        BY <3>1 DEF AllWhole
    <2> QED
      BY <2>1, <2>2
  <1> QED
    BY <1>1 DEF AllWhole

\* The steps after which the thread does not receive.
LEMMA IdleWhole ==
  ASSUME ThreadPart, AllWhole, NEW t \in Threads,
         Connect(t) \/ SeeStart(t) \/ Loop(t) \/ TakePayload(t) \/ Fail(t) \/ Spawn(t)
  PROVE  AllWhole'
  <1>1. worker[t] \in WorkerType /\ socket' = socket
    BY OneThread DEF Connect, SeeStart, Loop, TakePayload, Fail, Spawn
  <1>2. \E w : worker' = [worker EXCEPT ![t] = w] /\ w.at \notin {"header", "payload"}
    <2>1. CASE Connect(t) \/ SeeStart(t) \/ Fail(t) \/ Spawn(t)
      <3>1. PICK a \in {"wait", "loop", "done", "connect"} : worker' = [worker EXCEPT ![t].at = a]
        BY <2>1 DEF Connect, SeeStart, Fail, Spawn
      <3> WITNESS [worker[t] EXCEPT !.at = a]
      <3> QED
        BY <1>1, <3>1 DEF WorkerType
    <2>2. CASE Loop(t)
      <3>1. CASE worker[t].i < Count
        <4> WITNESS [worker[t] EXCEPT !.at = "send", !.unsent = MessageLen]
        <4> QED
          BY <1>1, <2>2, <3>1 DEF WorkerType, Loop
      <3>2. CASE ~(worker[t].i < Count)
        <4> WITNESS [worker[t] EXCEPT !.at = "done"]
        <4> QED
          BY <1>1, <2>2, <3>2 DEF WorkerType, Loop
      <3> QED
        BY <3>1, <3>2
    <2>3. CASE TakePayload(t)
      <3> WITNESS [worker[t] EXCEPT !.at = "loop", !.i = @ + 1,
                     !.recv_staging = SubSeq(@, PayloadLen + 1, Len(@))]
      <3> QED
        BY <1>1, <2>3 DEF WorkerType, TakePayload
    <2> QED
      BY <2>1, <2>2, <2>3
  <1>3. PICK w : worker' = [worker EXCEPT ![t] = w] /\ w.at \notin {"header", "payload"}
    BY <1>2
  <1>4. Whole(w, socket[t])
    BY <1>3 DEF Whole
  <1>5. socket' = [socket EXCEPT ![t] = socket[t]]
    BY <1>1, Unassigned
  <1> QED
    BY <1>3, <1>4, <1>5, WholeChanges

LEMMA SendWhole ==
  ASSUME ThreadPart, AllWhole, NEW t \in Threads, Send(t)
  PROVE  AllWhole'
  <1>1. /\ worker[t] \in WorkerType /\ socket[t] \in SocketType
        /\ ThreadOK(worker[t], socket[t], results[t]) /\ worker[t].at = "send"
    BY OneThread DEF Send
  <1>2. socket[t].asked = {}
    BY <1>1 DEF ThreadOK, Silent
  <1>3. PICK n \in 1..worker[t].unsent :
          /\ worker' = [worker EXCEPT ![t].unsent = @ - n,
                          ![t].at = IF n = worker[t].unsent THEN "header" ELSE @]
          /\ socket' = [socket EXCEPT ![t].asked =
                          IF n = worker[t].unsent /\ ~socket[t].broken
                          THEN @ \cup {worker[t].i} ELSE @]
    BY DEF Send
  <1> DEFINE w == [worker[t] EXCEPT !.unsent = @ - n,
                                    !.at = IF n = worker[t].unsent THEN "header" ELSE @]
             s == [socket[t] EXCEPT !.asked = IF n = worker[t].unsent /\ ~socket[t].broken
                                              THEN @ \cup {worker[t].i} ELSE @]
  <1>4. worker' = [worker EXCEPT ![t] = w] /\ socket' = [socket EXCEPT ![t] = s]
    BY <1>3
  <1>5. /\ w.at = (IF n = worker[t].unsent THEN "header" ELSE "send") /\ w.i = worker[t].i
        /\ s.broken = socket[t].broken
        /\ n = worker[t].unsent /\ ~socket[t].broken => s.asked = socket[t].asked \cup {worker[t].i}
    BY <1>1 DEF WorkerType, SocketType
  <1> HIDE DEF w, s
  <1>6. Whole(w, s)
    BY <1>2, <1>5 DEF Whole
  <1> QED
    BY <1>4, <1>6, WholeChanges

LEMMA RecvExactWhole ==
  ASSUME ThreadPart, AllWhole, NEW t \in Threads, RecvExact(t)
  PROVE  AllWhole'
  <1> DEFINE buf == worker[t].recv_staging
             in  == socket[t].incoming
  <1>1. /\ worker[t] \in WorkerType /\ socket[t] \in SocketType
        /\ worker[t].at \in {"header", "payload"}
        /\ buf \in Seq(WireByte) /\ in \in Seq(WireByte) /\ Whole(worker[t], socket[t])
    BY OneThread, Awaiting DEF RecvExact, Receiving, AllWhole
  <1>2. PICK n \in 1..Len(in) :
          /\ worker' = [worker EXCEPT ![t].recv_staging = @ \o SubSeq(in, 1, n)]
          /\ socket' = [socket EXCEPT ![t].incoming = SubSeq(@, n + 1, Len(@))]
    BY DEF RecvExact
  <1> DEFINE w == [worker[t] EXCEPT !.recv_staging = buf \o SubSeq(in, 1, n)]
             s == [socket[t] EXCEPT !.incoming = SubSeq(in, n + 1, Len(in))]
  <1>3. worker' = [worker EXCEPT ![t] = w] /\ socket' = [socket EXCEPT ![t] = s]
    BY <1>2
  <1>4. /\ w.recv_staging = buf \o SubSeq(in, 1, n) /\ w.at = worker[t].at /\ w.i = worker[t].i
        /\ s.incoming = SubSeq(in, n + 1, Len(in)) /\ s.asked = socket[t].asked
        /\ s.broken = socket[t].broken
    BY <1>1 DEF WorkerType, SocketType
  <1>5. Len(worker[t].recv_staging) = Len(buf) /\ Len(socket[t].incoming) = Len(in)
    OBVIOUS
  <1> HIDE DEF buf, in, w, s
  <1>6. Len(in) \in Nat /\ Len(buf) \in Nat /\ n \in 0..Len(in)
    BY <1>1
  <1>7. /\ SubSeq(in, 1, n) \in Seq(WireByte) /\ Len(SubSeq(in, 1, n)) = n
        /\ Len(SubSeq(in, n + 1, Len(in))) = Len(in) - n
    BY <1>1, <1>6
  <1>8. Len(buf \o SubSeq(in, 1, n)) = Len(buf) + n
    BY <1>1, <1>7, ConcatProperties
  <1>9. /\ Len(w.recv_staging) + Len(s.incoming) = Len(buf) + Len(in)
        /\ HeaderSize + Len(w.recv_staging) + Len(s.incoming) = HeaderSize + Len(buf) + Len(in)
    <2>1. Len(w.recv_staging) = Len(buf) + n
      BY <1>4, <1>8
    <2>2. Len(s.incoming) = Len(in) - n
      BY <1>4, <1>7
    <2>3. /\ (Len(buf) + n) + (Len(in) - n) = Len(buf) + Len(in)
          /\ HeaderSize + (Len(buf) + n) + (Len(in) - n) = HeaderSize + Len(buf) + Len(in)
      BY <1>6, Sizes
    <2> QED
      BY <2>1, <2>2, <2>3
  <1>10. Whole(w, s)
    BY <1>1, <1>4, <1>5, <1>9 DEF Whole
  <1> QED
    BY <1>3, <1>10, WholeChanges

LEMMA TakeHeaderWhole ==
  ASSUME ThreadPart, AllWhole, NEW t \in Threads, TakeHeader(t)
  PROVE  AllWhole'
  <1> DEFINE buf == worker[t].recv_staging
             in  == socket[t].incoming
             rest == SubSeq(buf, HeaderSize + 1, Len(buf))
             ok == buf[1][2] = 1
             w == [worker[t] EXCEPT !.at = IF ok THEN "payload" ELSE "done",
                                    !.seq_id = buf[1][1], !.recv_staging = rest]
  <1>1. /\ worker[t] \in WorkerType /\ ThreadOK(worker[t], socket[t], results[t])
        /\ worker[t].at = "header" /\ Len(buf) >= HeaderSize /\ socket' = socket
        /\ Whole(worker[t], socket[t])
    BY OneThread DEF TakeHeader, Received, Need, AllWhole
  <1>2. buf \in Seq(WireByte) /\ in \in Seq(WireByte)
    BY <1>1, Awaiting
  <1>3. worker' = [worker EXCEPT ![t] = w]
    BY DEF TakeHeader
  <1>4. w.at \in {"payload", "done"} /\ w.recv_staging = rest
    BY <1>1 DEF WorkerType
  <1>5. /\ Len(buf) \in Nat /\ Len(in) \in Nat /\ HeaderSize \in Nat /\ Len(buf) > 0
        /\ Len(rest) = Len(buf) - HeaderSize
    <2> HIDE DEF buf, in, w
    <2>1. /\ Len(buf) \in Nat /\ Len(in) \in Nat /\ HeaderSize \in Nat /\ Len(buf) > 0
          /\ HeaderSize + 1 \in 1..(Len(buf) + 1)
      BY <1>1, <1>2, Sizes
    <2>2. Len(rest) = Len(buf) - (HeaderSize + 1) + 1
      BY <1>2, <2>1
    <2> QED
      BY <2>1, <2>2
  <1>6. socket[t].asked = {}
    <2>1. buf # <<>>
      BY <1>2, <1>5, EmptyIffNoLength
    <2> QED
      BY <1>1, <2>1 DEF ThreadOK
  <1>7. ~socket[t].broken => Len(buf) + Len(in) = MessageLen
    BY <1>1, <1>6 DEF Whole
  <1> HIDE DEF buf, in, rest, w
  <1>8. ~socket[t].broken => HeaderSize + Len(rest) + Len(in) = MessageLen
    BY <1>5, <1>7, Sizes
  <1>9. Whole(w, socket[t])
    BY <1>4, <1>8 DEF Whole, in
  <1> QED
    BY <1>1, <1>3, <1>9, Unassigned, WholeChanges

LEMMA ServerWhole ==
  ASSUME ThreadPart, AllWhole, NEW t \in Threads, Respond(t) \/ Break(t)
  PROVE  AllWhole'
  <1>1. /\ worker[t] \in WorkerType /\ socket[t] \in SocketType
        /\ ThreadOK(worker[t], socket[t], results[t]) /\ worker' = worker
    BY OneThread DEF Respond, Break
  <1>2. worker' = [worker EXCEPT ![t] = worker[t]]
    BY <1>1, Unassigned
  <1>3. CASE Respond(t)
    <2>1. PICK q \in socket[t].asked :
            socket' = [socket EXCEPT ![t].asked = @ \ {q}, ![t].incoming = @ \o Response(q)]
      BY <1>3 DEF Respond
    <2> DEFINE in == socket[t].incoming \o Response(q)
               s == [socket[t] EXCEPT !.asked = @ \ {q}, !.incoming = in]
    <2>2. socket' = [socket EXCEPT ![t] = s]
      BY <2>1
    <2>3. s.incoming = in
      BY <1>1 DEF SocketType
    <2>4. q \in Nat
      BY <1>1 DEF SocketType
    <2>5. Response(q) \in Seq(WireByte) /\ Len(Response(q)) = MessageLen
      BY <2>4, ResponsePiece
    <2> HIDE DEF s
    <2>6. worker[t].at # "payload"
      BY <1>1 DEF ThreadOK
    <2>7. ASSUME worker[t].at = "header"
          PROVE  Len(worker[t].recv_staging) + Len(s.incoming) = MessageLen
      <3>1. socket[t].incoming = <<>> /\ worker[t].recv_staging = <<>>
        BY <1>1, <2>7 DEF ThreadOK
      <3>2. in = Response(q)
        BY <2>5, <3>1, ConcatEmptySeq
      <3> QED
        BY <2>3, <2>5, <3>1, <3>2, Sizes
    <2>8. Whole(worker[t], s)
      BY <2>6, <2>7 DEF Whole
    <2> QED
      BY <1>2, <2>2, <2>8, WholeChanges
  <1>4. CASE Break(t)
    <2>0. PICK n \in 0..Len(socket[t].incoming) :
            socket' = [socket EXCEPT ![t].broken = TRUE,
                                     ![t].incoming = SubSeq(socket[t].incoming, 1, n)]
      BY <1>4 DEF Break
    <2> DEFINE s == [socket[t] EXCEPT !.broken = TRUE,
                                      !.incoming = SubSeq(socket[t].incoming, 1, n)]
    <2>1. socket' = [socket EXCEPT ![t] = s] /\ s.broken
      BY <1>1, <2>0 DEF SocketType
    <2> HIDE DEF s
    <2>2. Whole(worker[t], s)
      BY <2>1 DEF Whole
    <2> QED
      BY <1>2, <2>1, <2>2, WholeChanges
  <1> QED
    BY <1>3, <1>4

LEMMA NextWhole == Inv /\ AllWhole /\ [Next]_vars => AllWhole'
  <1> SUFFICES ASSUME Inv, AllWhole, [Next]_vars PROVE AllWhole'
    OBVIOUS
  <1>0. ThreadPart
    BY DEF Inv
  <1>1. ASSUME NEW t \in Threads, WorkerStep(t) PROVE AllWhole'
    BY <1>0, <1>1, IdleWhole, SendWhole, RecvExactWhole, TakeHeaderWhole DEF WorkerStep
  <1>2. ASSUME NEW t \in Threads, Spawn(t) PROVE AllWhole'
    BY <1>0, <1>2, IdleWhole
  <1>3. ASSUME NEW t \in Threads, Respond(t) \/ Break(t) PROVE AllWhole'
    BY <1>0, <1>3, ServerWhole
  <1>4. CASE Start \/ Abort \/ Report \/ UNCHANGED vars
    <2>1. UNCHANGED <<worker, socket>>
      BY <1>4 DEF Start, Abort, Report, vars
    <2> QED
      BY <2>1 DEF AllWhole
  <1> QED
    BY <1>1, <1>2, <1>3, <1>4 DEF Next

\* A thread of latency_bench blocks in recv() on a connection that stands only
\* while the server has its request (latency_bench.cpp:113-134): however the
\* bytes are split, the two RecvExact of an iteration never ask for more than
\* the answer holds.  What is left to liveness is that the server answers.
THEOREM WaitsOnlyForAnAnswer == Spec => []AnswerIsDue
  <1>1. Init => AllWhole
    <2> SUFFICES ASSUME Init, NEW t \in Threads PROVE Whole(worker[t], socket[t])
      BY DEF AllWhole
    <2>1. worker[t].at \notin {"header", "payload"}
      BY DEF Init, NewWorker
    <2> QED
      BY <2>1 DEF Whole
  <1>2. Inv /\ AllWhole => AnswerIsDue
    <2> SUFFICES ASSUME Inv, AllWhole, NEW t \in Threads, Receiving(t),
                        socket[t].incoming = <<>>, ~socket[t].broken
                 PROVE  socket[t].asked = {worker[t].i}
      BY DEF AnswerIsDue
    <2>1. Whole(worker[t], socket[t]) /\ Len(socket[t].incoming) = 0
      BY DEF AllWhole
    <2>2. worker[t].at \in {"header", "payload"} /\ Len(worker[t].recv_staging) < Need(t)
      BY DEF Receiving
    <2>3. worker[t].recv_staging \in Seq(WireByte)
      BY <2>2, Awaiting DEF Inv
    <2>4. Len(worker[t].recv_staging) \in Nat
      BY <2>3
    <2>5. CASE worker[t].at = "header"
      <3>1. Len(worker[t].recv_staging) < HeaderSize
        BY <2>2, <2>5 DEF Need
      <3> QED
        BY <2>1, <2>4, <2>5, <3>1, Sizes DEF Whole
    <2>6. CASE worker[t].at = "payload"
      <3>1. Len(worker[t].recv_staging) < PayloadLen
        BY <2>2, <2>6 DEF Need
      <3> QED
        BY <2>1, <2>4, <2>6, <3>1, Sizes DEF Whole
    <2> QED
      BY <2>2, <2>5, <2>6
  <1> QED
    BY <1>1, <1>2, NextWhole, Invariance, PTL DEF Spec

-----------------------------------------------------------------------------
(* Induction over the naturals, stated with a set of numbers. *)

LEMMA LeastNat ==
  ASSUME NEW S, S \subseteq Nat, S # {}
  PROVE  \E m \in S : \A k \in S : m <= k
  <1> DEFINE R == OpToRel(<, Nat)
  <1>1. IsWellFoundedOn(R, Nat)
    BY NatLessThanWellFounded
  <1>2. \A a, b \in Nat : a < b => <<a, b>> \in R
    BY DEF OpToRel
  <1> HIDE DEF R
  <1>3. PICK m \in S : \A k \in S : ~(<<k, m>> \in R)
    BY <1>1, WFMin
  <1>4. \A k \in S : m \in Nat /\ k \in Nat /\ ~(k < m)
    BY <1>2, <1>3
  <1>5. \A k \in S : m <= k
    BY <1>4
  <1> QED
    BY <1>5

LEMMA Induction ==
  ASSUME NEW S, 0 \in S, \A n \in Nat : n \in S => n + 1 \in S
  PROVE  \A n \in Nat : n \in S
  <1> SUFFICES ASSUME NEW x \in Nat, x \notin S PROVE FALSE
    OBVIOUS
  <1> DEFINE B == {n \in Nat : n \notin S}
  <1>1. B # {} /\ B \subseteq Nat
    OBVIOUS
  <1>2. PICK m \in B : \A k \in B : m <= k
    <2> HIDE DEF B
    <2> QED
      BY <1>1, LeastNat
  <1>3. m \in Nat /\ m # 0 /\ m - 1 \in Nat
    OBVIOUS
  <1>4. m - 1 \in S
    BY <1>2, <1>3
  <1>5. (m - 1) + 1 = m
    BY <1>3
  <1> QED
    BY <1>3, <1>4, <1>5

-----------------------------------------------------------------------------
(* The merged samples. *)

\* A solution of the recursion in Merge, up to m.
MergesTo(g, seqs, m) ==
  \A k \in 0..m : g[k] = IF k = 0 THEN <<>> ELSE g[k - 1] \o seqs[k]

IsFcn(g, m) == g = [k \in 0..m |-> g[k]]

LEMMA MergeExists ==
  ASSUME NEW n \in Nat, NEW seqs
  PROVE  \E g : IsFcn(g, n) /\ MergesTo(g, seqs, n)
  <1> DEFINE S == {m \in Nat : \E g : IsFcn(g, m) /\ MergesTo(g, seqs, m)}
  <1>1. 0 \in S
    <2> DEFINE g == [k \in 0..0 |-> <<>>]
    <2>1. IsFcn(g, 0)
      BY DEF IsFcn
    <2>2. MergesTo(g, seqs, 0)
      BY DEF MergesTo
    <2> HIDE DEF g
    <2> QED
      BY <2>1, <2>2
  <1>2. ASSUME NEW m \in Nat, m \in S PROVE m + 1 \in S
    <2>1. PICK g : IsFcn(g, m) /\ MergesTo(g, seqs, m)
      BY <1>2
    <2> DEFINE h == [k \in 0..(m + 1) |-> IF k = m + 1 THEN g[m] \o seqs[m + 1] ELSE g[k]]
    <2>2. IsFcn(h, m + 1)
      BY DEF IsFcn
    <2>3. \A k \in 0..m : h[k] = g[k]
      OBVIOUS
    <2>4. h[m + 1] = g[m] \o seqs[m + 1]
      OBVIOUS
    <2> HIDE DEF h
    <2>5. ASSUME NEW k \in 0..(m + 1)
          PROVE  h[k] = IF k = 0 THEN <<>> ELSE h[k - 1] \o seqs[k]
      <3>1. CASE k = m + 1
        <4>1. m \in 0..m /\ k - 1 = m /\ k # 0
          BY <3>1
        <4> QED
          BY <2>3, <2>4, <3>1, <4>1
      <3>2. CASE k # m + 1
        <4>1. k \in 0..m /\ (k # 0 => k - 1 \in 0..m)
          BY <3>2
        <4>2. g[k] = IF k = 0 THEN <<>> ELSE g[k - 1] \o seqs[k]
          BY <2>1, <4>1 DEF MergesTo
        <4> QED
          BY <2>3, <4>1, <4>2
      <3> QED
        BY <3>1, <3>2
    <2>6. MergesTo(h, seqs, m + 1)
      BY <2>5 DEF MergesTo
    <2> QED
      BY <2>2, <2>6
  <1> HIDE DEF S
  <1>3. n \in S
    BY <1>1, <1>2, Induction
  <1> QED
    BY <1>3 DEF S

Solves(f, seqs) ==
  f = [k \in 0..Len(seqs) |-> IF k = 0 THEN <<>> ELSE f[k - 1] \o seqs[k]]

\* Merge(seqs), of n sequences, is the last of its partial results.
LEMMA MergeParts ==
  ASSUME NEW n \in Nat, NEW seqs, Len(seqs) = n
  PROVE  \E f : MergesTo(f, seqs, n) /\ Merge(seqs) = f[n]
  <1>1. PICK g : IsFcn(g, n) /\ MergesTo(g, seqs, n)
    BY MergeExists
  <1>2. Solves(g, seqs)
    <2>1. [k \in 0..n |-> g[k]] = [k \in 0..n |-> IF k = 0 THEN <<>> ELSE g[k - 1] \o seqs[k]]
      BY <1>1 DEF MergesTo
    <2> QED
      BY <1>1, <2>1 DEF Solves, IsFcn
  <1> DEFINE f == CHOOSE f : Solves(f, seqs)
  <1>3. Solves(f, seqs)
    BY <1>2, Zenon
  <1>4. Merge(seqs) = f[n]
    BY Zenon DEF Merge, Solves
  <1> HIDE DEF f
  <1>5. MergesTo(f, seqs, n)
    <2> SUFFICES ASSUME NEW k \in 0..n
                 PROVE  f[k] = IF k = 0 THEN <<>> ELSE f[k - 1] \o seqs[k]
      BY DEF MergesTo
    <2>1. f = [j \in 0..n |-> IF j = 0 THEN <<>> ELSE f[j - 1] \o seqs[j]]
      BY <1>3 DEF Solves
    <2> QED
      BY <2>1
  <1> QED
    BY <1>4, <1>5

\* The samples of the first m threads, by thread and position.
Counted(seqs, m) == {x \in (1..m) \X (1..Count) : x[2] <= Len(seqs[x[1]])}

LEMMA CountedNext ==
  ASSUME NEW m \in Nat, NEW seqs, NEW l \in 0..Count, l = Len(seqs[m + 1]),
         IsFiniteSet(Counted(seqs, m))
  PROVE  /\ IsFiniteSet(Counted(seqs, m + 1))
         /\ Cardinality(Counted(seqs, m + 1)) = Cardinality(Counted(seqs, m)) + l
  <1> DEFINE old == Counted(seqs, m)
             own == {m + 1} \X (1..l)
  <1>1. IsFiniteSet(own) /\ Cardinality(own) = l
    <2>0. 1 \in Int /\ l \in Int
      BY Sizes
    <2>1. IsFiniteSet(1..l) /\ Cardinality(1..l) = IF 1 > l THEN 0 ELSE l - 1 + 1
      BY <2>0, FS_Interval, Zenon
    <2>2. IsFiniteSet({m + 1}) /\ Cardinality({m + 1}) = 1
      BY FS_Singleton
    <2>3. IsFiniteSet(own) /\ Cardinality(own) = Cardinality({m + 1}) * Cardinality(1..l)
      BY <2>1, <2>2, FS_Product
    <2>4. l \in Nat
      BY Sizes
    <2>5. Cardinality(1..l) = l
      BY <2>1, <2>4
    <2> HIDE DEF own
    <2> QED
      BY <2>2, <2>3, <2>4, <2>5
  <1>2. Counted(seqs, m + 1) = old \cup own
    <2>1. ASSUME NEW a \in 1..(m + 1), NEW b \in 1..Count, b <= Len(seqs[a])
          PROVE  a \in 1..m \/ (a = m + 1 /\ b \in 1..l)
      BY <2>1, Sizes
    <2>2. Counted(seqs, m + 1) \subseteq old \cup own
      <3> SUFFICES ASSUME NEW a \in 1..(m + 1), NEW b \in 1..Count, b <= Len(seqs[a])
                   PROVE  <<a, b>> \in old \cup own
        BY DEF Counted
      <3>1. CASE a \in 1..m
        BY <3>1 DEF Counted
      <3>2. CASE a = m + 1 /\ b \in 1..l
        BY <3>2
      <3> QED
        BY <2>1, <3>1, <3>2
    <2>3. ASSUME NEW b \in 1..l PROVE b \in 1..Count /\ m + 1 \in 1..(m + 1) /\ b <= Len(seqs[m + 1])
      BY Sizes
    <2>4. own \subseteq Counted(seqs, m + 1)
      <3> SUFFICES ASSUME NEW b \in 1..l PROVE <<m + 1, b>> \in Counted(seqs, m + 1)
        OBVIOUS
      <3>1. b \in 1..Count /\ m + 1 \in 1..(m + 1) /\ b <= Len(seqs[m + 1])
        BY <2>3
      <3> QED
        BY <3>1 DEF Counted
    <2>5. 1..m \subseteq 1..(m + 1)
      OBVIOUS
    <2>6. old \subseteq Counted(seqs, m + 1)
      BY <2>5 DEF Counted
    <2> QED
      BY <2>2, <2>4, <2>6
  <1>3. old \cap own = {}
    <2>1. m + 1 \notin 1..m
      OBVIOUS
    <2> QED
      BY <2>1 DEF Counted
  <1> HIDE DEF old, own
  <1>4. IsFiniteSet(old)
    BY DEF old
  <1>5. /\ IsFiniteSet(old \cup own)
        /\ Cardinality(old \cup own) = Cardinality(old) + Cardinality(own) - Cardinality(old \cap own)
    BY <1>1, <1>4, FS_Union
  <1>6. Cardinality(old \cap own) = 0
    BY <1>3, FS_EmptySet
  <1>7. Cardinality(old) \in Nat /\ l \in Nat
    BY <1>4, FS_CardinalityType, Sizes
  <1>8. Cardinality(old \cup own) = Cardinality(old) + l
    BY <1>1, <1>5, <1>6, <1>7
  <1> QED
    BY <1>2, <1>5, <1>8 DEF old

LEMMA MergeCounts ==
  ASSUME NEW n \in Nat, NEW seqs, Len(seqs) = n,
         \A k \in 1..n : seqs[k] \in Seq(Micros) /\ Len(seqs[k]) \in 0..Count
  PROVE  /\ Merge(seqs) \in Seq(Micros)
         /\ Len(Merge(seqs)) = Cardinality(Counted(seqs, n))
  <1>1. PICK f : MergesTo(f, seqs, n) /\ Merge(seqs) = f[n]
    BY MergeParts
  <1> DEFINE Good(m) == /\ IsFiniteSet(Counted(seqs, m))
                        /\ f[m] \in Seq(Micros)
                        /\ Len(f[m]) = Cardinality(Counted(seqs, m))
             S == {m \in Nat : m <= n => Good(m)}
  <1>2. Good(0)
    <2>1. 1..0 = {}
      OBVIOUS
    <2>2. Counted(seqs, 0) = {}
      BY <2>1 DEF Counted
    <2>3. IsFiniteSet(Counted(seqs, 0)) /\ Cardinality(Counted(seqs, 0)) = 0
      BY <2>2, FS_EmptySet
    <2>4. f[0] = <<>>
      BY <1>1 DEF MergesTo
    <2> QED
      BY <2>3, <2>4
  <1>3. 0 \in S
    BY <1>2
  <1>4. ASSUME NEW m \in Nat, m \in S, m + 1 <= n PROVE Good(m + 1)
    <2> DEFINE l == Len(seqs[m + 1])
    <2>1. m + 1 \in 1..n /\ m <= n /\ m + 1 \in 0..n /\ m + 1 # 0 /\ (m + 1) - 1 = m
      BY <1>4
    <2>2. seqs[m + 1] \in Seq(Micros) /\ l \in 0..Count
      BY <2>1
    <2>3. Good(m)
      BY <1>4, <2>1
    <2> HIDE DEF S
    <2>4. /\ IsFiniteSet(Counted(seqs, m + 1))
          /\ Cardinality(Counted(seqs, m + 1)) = Cardinality(Counted(seqs, m)) + l
      BY <2>2, <2>3, CountedNext
    <2>5. f[m + 1] = f[m] \o seqs[m + 1]
      BY <1>1, <2>1 DEF MergesTo
    <2>6. /\ f[m] \o seqs[m + 1] \in Seq(Micros)
          /\ Len(f[m] \o seqs[m + 1]) = Len(f[m]) + Len(seqs[m + 1])
      BY <2>2, <2>3, ConcatProperties
    <2> QED
      BY <2>3, <2>4, <2>5, <2>6
  <1>5. ASSUME NEW m \in Nat, m \in S PROVE m + 1 \in S
    <2> HIDE DEF Good
    <2> QED
      BY <1>4, <1>5
  <1> HIDE DEF S
  <1>6. n \in S
    BY <1>3, <1>5, Induction
  <1>7. Good(n)
    <2> HIDE DEF Good
    <2> QED
      BY <1>6 DEF S
  <1> QED
    BY <1>1, <1>7

-----------------------------------------------------------------------------
(* The sorted samples. *)

\* The order of std::sort brings the n samples of s into line.
InLine(p, s, n) ==
  /\ p \in [1..n -> 1..n]
  /\ \A a, b \in 1..n : p[a] = p[b] => a = b
  /\ \A a, b \in 1..n : a <= b => s[p[a]] <= s[p[b]]

\* Where a further sample belongs in the order p of the first n.
LEMMA InsertionPoint ==
  ASSUME NEW n \in Nat, NEW s \in [1..(n + 1) -> Nat], NEW p, InLine(p, s, n)
  PROVE  \E c \in 1..(n + 1) :
           /\ \A k \in 1..n : k < c => s[p[k]] <= s[n + 1]
           /\ \A k \in 1..n : k >= c => s[n + 1] <= s[p[k]]
  <1> DEFINE Later == {k \in 1..(n + 1) : k = n + 1 \/ s[p[k]] > s[n + 1]}
  <1>1. n + 1 \in Later /\ Later \subseteq Nat
    OBVIOUS
  <1>2. PICK c \in Later : \A k \in Later : c <= k
    <2> HIDE DEF Later
    <2> QED
      BY <1>1, LeastNat
  <1>3. c \in 1..(n + 1) /\ (c = n + 1 \/ s[p[c]] > s[n + 1])
    OBVIOUS
  <1>4. \A k \in 1..n : s[p[k]] \in Nat /\ k \in 1..(n + 1) /\ k # n + 1
    <2>1. \A k \in 1..n : p[k] \in 1..n
      BY DEF InLine
    <2>2. \A k \in 1..n : k \in 1..(n + 1) /\ k # n + 1
      OBVIOUS
    <2> QED
      BY <2>1, <2>2
  <1>5. s[n + 1] \in Nat
    OBVIOUS
  <1>6. ASSUME NEW k \in 1..n, k < c PROVE s[p[k]] <= s[n + 1]
    <2>1. k \notin Later
      BY <1>2, <1>3, <1>6
    <2>2. ~(s[p[k]] > s[n + 1])
      BY <1>4, <2>1
    <2> HIDE DEF Later
    <2> QED
      BY <1>4, <1>5, <2>2
  <1>7. ASSUME NEW k \in 1..n, k >= c PROVE s[n + 1] <= s[p[k]]
    <2>1. c \in 1..n /\ c <= k
      BY <1>3, <1>7
    <2>2. s[p[c]] > s[n + 1]
      BY <1>3, <2>1
    <2>3. s[p[c]] <= s[p[k]]
      BY <2>1 DEF InLine
    <2> HIDE DEF Later
    <2> QED
      BY <1>4, <1>5, <2>1, <2>2, <2>3
  <1> QED
    BY <1>3, <1>6, <1>7

LEMMA Insert ==
  ASSUME NEW n \in Nat, NEW s \in [1..(n + 1) -> Nat], NEW p, InLine(p, s, n)
  PROVE  \E q : InLine(q, s, n + 1)
  <1>1. PICK c \in 1..(n + 1) :
           /\ \A k \in 1..n : k < c => s[p[k]] <= s[n + 1]
           /\ \A k \in 1..n : k >= c => s[n + 1] <= s[p[k]]
    BY InsertionPoint
  <1> DEFINE q == [k \in 1..(n + 1) |-> IF k < c THEN p[k] ELSE IF k = c THEN n + 1 ELSE p[k - 1]]
  <1>2. /\ \A k \in 1..n : p[k] \in 1..n
        /\ \A a, b \in 1..n : p[a] = p[b] => a = b
        /\ \A a, b \in 1..n : a <= b => s[p[a]] <= s[p[b]]
    BY DEF InLine
  <1>3. \A k \in 1..(n + 1) : (k < c => k \in 1..n) /\ (k > c => k - 1 \in 1..n /\ k - 1 >= c)
    OBVIOUS
  <1>4. \A k \in 1..(n + 1) : /\ k < c => q[k] = p[k]
                              /\ k = c => q[k] = n + 1
                              /\ k > c => q[k] = p[k - 1]
    OBVIOUS
  <1>5. q \in [1..(n + 1) -> 1..(n + 1)]
    BY <1>2, <1>3
  <1>6. DOMAIN q = 1..(n + 1)
    OBVIOUS
  <1> HIDE DEF q
  <1>7. ASSUME NEW a \in 1..(n + 1), NEW b \in 1..(n + 1), a < b
        PROVE  q[a] # q[b] /\ s[q[a]] <= s[q[b]]
    <2>1. CASE b < c
      <3>1. a \in 1..n /\ b \in 1..n /\ a < c /\ a <= b /\ a # b
        BY <1>3, <1>7, <2>1
      <3> QED
        BY <1>2, <1>4, <2>1, <3>1
    <2>2. CASE b = c
      <3>1. a \in 1..n /\ a < c
        BY <1>3, <1>7, <2>2
      <3>2. q[a] = p[a] /\ q[b] = n + 1 /\ p[a] \in 1..n
        BY <1>2, <1>4, <2>2, <3>1
      <3>3. p[a] # n + 1
        BY <3>2
      <3> QED
        BY <1>1, <3>1, <3>2, <3>3
    <2>3. CASE a = c
      <3>1. b - 1 \in 1..n /\ b - 1 >= c /\ b > c
        BY <1>3, <1>7, <2>3
      <3>2. q[b] = p[b - 1] /\ q[a] = n + 1 /\ p[b - 1] \in 1..n
        BY <1>2, <1>4, <2>3, <3>1
      <3>3. p[b - 1] # n + 1
        BY <3>2
      <3> QED
        BY <1>1, <3>1, <3>2, <3>3
    <2>4. CASE a < c /\ b > c
      <3>1. a \in 1..n /\ b - 1 \in 1..n /\ a <= b - 1 /\ a # b - 1
        BY <1>3, <2>4
      <3>2. q[a] = p[a] /\ q[b] = p[b - 1]
        BY <1>4, <2>4
      <3>3. p[a] # p[b - 1] /\ s[p[a]] <= s[p[b - 1]]
        BY <1>2, <3>1
      <3> QED
        BY <3>2, <3>3
    <2>5. CASE a > c
      <3>1. a - 1 \in 1..n /\ b - 1 \in 1..n /\ a - 1 <= b - 1 /\ a - 1 # b - 1 /\ b > c
        BY <1>3, <1>7, <2>5
      <3>2. q[a] = p[a - 1] /\ q[b] = p[b - 1]
        BY <1>4, <2>5, <3>1
      <3>3. p[a - 1] # p[b - 1] /\ s[p[a - 1]] <= s[p[b - 1]]
        BY <1>2, <3>1
      <3> QED
        BY <3>2, <3>3
    <2> QED
      BY <1>7, <2>1, <2>2, <2>3, <2>4, <2>5
  <1>8. ASSUME NEW a \in 1..(n + 1), NEW b \in 1..(n + 1), q[a] = q[b] PROVE a = b
    BY <1>7, <1>8
  <1>9. ASSUME NEW a \in 1..(n + 1), NEW b \in 1..(n + 1), a <= b PROVE s[q[a]] <= s[q[b]]
    <2>1. CASE a = b
      <3>1. s[q[a]] \in Nat
        BY <1>5
      <3> QED
        BY <2>1, <3>1
    <2>2. CASE a < b
      BY <1>7, <2>2
    <2> QED
      BY <1>9, <2>1, <2>2
  <1>10. InLine(q, s, n + 1)
    BY <1>5, <1>8, <1>9 DEF InLine
  <1> QED
    BY <1>10

LEMMA OrderExists ==
  ASSUME NEW n \in Nat, NEW s \in [1..n -> Nat]
  PROVE  \E p : InLine(p, s, n)
  <1> DEFINE S == {m \in Nat : \A r \in [1..m -> Nat] : \E p : InLine(p, r, m)}
  <1>1. 0 \in S
    <2> SUFFICES ASSUME NEW r \in [1..0 -> Nat] PROVE \E p : InLine(p, r, 0)
      OBVIOUS
    <2> DEFINE e == [k \in 1..0 |-> 0]
    <2>1. 1..0 = {}
      OBVIOUS
    <2>2. e \in [1..0 -> 1..0] /\ DOMAIN e = {}
      BY <2>1
    <2> HIDE DEF e
    <2>3. InLine(e, r, 0)
      BY <2>1, <2>2 DEF InLine
    <2> QED
      BY <2>3
  <1>2. ASSUME NEW m \in Nat, m \in S PROVE m + 1 \in S
    <2> SUFFICES ASSUME NEW r \in [1..(m + 1) -> Nat] PROVE \E p : InLine(p, r, m + 1)
      OBVIOUS
    <2> DEFINE t == [k \in 1..m |-> r[k]]
    <2>1. \A k \in 1..m : k \in 1..(m + 1)
      OBVIOUS
    <2>2. t \in [1..m -> Nat]
      BY <2>1
    <2>3. \A k \in 1..m : t[k] = r[k]
      OBVIOUS
    <2>4. PICK p : InLine(p, t, m)
      BY <1>2, <2>2
    <2> HIDE DEF t
    <2>5. InLine(p, r, m)
      <3>1. \A k \in 1..m : p[k] \in 1..m
        BY <2>4 DEF InLine
      <3>2. \A k \in 1..m : t[p[k]] = r[p[k]]
        BY <2>3, <3>1
      <3> QED
        BY <2>4, <3>2 DEF InLine
    <2> QED
      BY <2>5, Insert
  <1> HIDE DEF S
  <1>3. n \in S
    BY <1>1, <1>2, Induction
  <1> QED
    BY <1>3 DEF S

\* std::sort as modelled sorts: neighbours, and so all samples, are in order.
LEMMA SortedInOrder ==
  ASSUME NEW s \in Seq(Micros)
  PROVE  /\ Sorted(s) \in Seq(Micros)
         /\ Len(Sorted(s)) = Len(s)
         /\ \A a, b \in 1..Len(s) : a <= b => Sorted(s)[a] <= Sorted(s)[b]
  <1> DEFINE n == Len(s)
             order == CHOOSE p \in [1..n -> 1..n] :
                        /\ \A a, b \in 1..n : p[a] = p[b] => a = b
                        /\ \A a, b \in 1..n : a <= b => s[p[a]] <= s[p[b]]
  <1>1. n \in Nat /\ s \in [1..n -> Micros]
    OBVIOUS
  <1>2. s \in [1..n -> Nat]
    BY <1>1, SeqClientAssumption
  <1>3. \E p : InLine(p, s, n)
    <2> HIDE DEF n, order
    <2> QED
      BY <1>1, <1>2, OrderExists
  <1>4. InLine(order, s, n)
    <2>1. \E p \in [1..n -> 1..n] :
             /\ \A a, b \in 1..n : p[a] = p[b] => a = b
             /\ \A a, b \in 1..n : a <= b => s[p[a]] <= s[p[b]]
      BY <1>3 DEF InLine
    <2> QED
      BY <2>1, Zenon DEF InLine
  <1>5. Sorted(s) = [k \in 1..n |-> s[order[k]]]
    BY Zenon DEF Sorted
  <1> HIDE DEF n, order
  <1>6. \A k \in 1..n : order[k] \in 1..n
    BY <1>4 DEF InLine
  <1>7. Sorted(s) \in [1..n -> Micros]
    BY <1>1, <1>5, <1>6
  <1>8. Sorted(s) \in Seq(Micros) /\ Len(Sorted(s)) = n
    BY <1>1, <1>7
  <1>9. \A a, b \in 1..n : a <= b => Sorted(s)[a] <= Sorted(s)[b]
    <2>1. \A k \in 1..n : Sorted(s)[k] = s[order[k]]
      BY <1>5
    <2> QED
      BY <1>4, <2>1 DEF InLine
  <1> QED
    BY <1>8, <1>9 DEF n

-----------------------------------------------------------------------------
(* The report. *)

LEMMA Merged ==
  ASSUME Inv
  PROVE  LET seqs == [t \in Threads |-> results[t].latencies_us] IN
         /\ Merge(seqs) \in Seq(Micros)
         /\ Len(Merge(seqs)) = Cardinality({s \in Workers \X (1..Count) :
                                                   s[2] <= Len(results[s[1]].latencies_us)})
  <1> DEFINE seqs == [t \in Threads |-> results[t].latencies_us]
             own == {s \in Workers \X (1..Count) : s[2] <= Len(results[s[1]].latencies_us)}
  <1>1. NThreads \in Nat \ {0} /\ Threads = 1..NThreads
    BY SeqClientAssumption DEF Threads
  <1>2. ASSUME NEW t \in Threads
        PROVE  /\ seqs[t] = results[t].latencies_us
               /\ seqs[t] \in Seq(Micros) /\ Len(seqs[t]) \in 0..Count
               /\ t \notin Workers => Len(seqs[t]) = 0
    <2>1. /\ worker[t] \in WorkerType /\ results[t] \in ResultType
          /\ ThreadOK(worker[t], socket[t], results[t])
      BY OneThread DEF Inv
    <2>2. Len(seqs[t]) = worker[t].i /\ worker[t].i \in 0..Count /\ seqs[t] \in Seq(Micros)
      BY <2>1 DEF ThreadOK, WorkerType, ResultType
    <2>3. t \notin Workers => worker[t].at = "none"
      BY DEF Inv, MainPart, Workers
    <2>4. t \notin Workers => worker[t].i = 0
      BY <2>1, <2>3 DEF ThreadOK
    <2> QED
      BY <2>2, <2>4
  <1>3. Len(seqs) = NThreads
    BY <1>1
  <1>4. Counted(seqs, NThreads) = own
    <2>1. Workers \subseteq Threads
      BY Sizes DEF Workers
    <2>2. own \subseteq Counted(seqs, NThreads)
      BY <1>1, <1>2, <2>1 DEF Counted
    <2>3. ASSUME NEW a \in Threads, NEW b \in 1..Count, b <= Len(seqs[a])
          PROVE  a \in Workers /\ b <= Len(results[a].latencies_us)
      <3>1. Len(seqs[a]) # 0
        BY <2>3, Sizes
      <3> QED
        BY <1>2, <2>3, <3>1
    <2>4. Counted(seqs, NThreads) \subseteq own
      BY <1>1, <2>3 DEF Counted
    <2> QED
      BY <2>2, <2>4
  <1> HIDE DEF seqs, own
  <1>5. /\ Merge(seqs) \in Seq(Micros)
        /\ Len(Merge(seqs)) = Cardinality(Counted(seqs, NThreads))
    BY <1>1, <1>2, <1>3, MergeCounts
  <1> QED
    BY <1>4, <1>5 DEF seqs, own

\* The report of latency_bench_mt.cpp:204-219 (and of latency_bench) is final:
\* exactly the threads without an error contributed all their samples, and every
\* sample is counted once, for any number of threads and requests.
THEOREM ReportsAreComplete == Spec => []ReportIsComplete
  <1>1. ASSUME Inv PROVE ReportIsComplete
    <2> SUFFICES ASSUME main = "reported" PROVE ReportIsComplete!2
      BY DEF ReportIsComplete
    <2> DEFINE seqs == [t \in Threads |-> results[t].latencies_us]
    <2>1. Joined /\ report = FinalReport
      BY <1>1 DEF Inv, MainPart
    <2>2. /\ report.sorted = Sorted(Merge(seqs))
          /\ report.errors = {t \in Workers : results[t].error}
          /\ DOMAIN report.p99 = {t \in Workers : results[t].latencies_us # <<>>}
      BY <2>1 DEF FinalReport
    <2>3. ASSUME NEW t \in Workers PROVE t \in report.errors <=> Len(results[t].latencies_us) < Count
      <3>1. t \in Threads /\ worker[t].at = "done"
        BY <2>1, Sizes DEF Joined, Workers
      <3>2. ThreadOK(worker[t], socket[t], results[t])
        BY <1>1, <3>1, OneThread DEF Inv
      <3> QED
        BY <2>2, <3>1, <3>2 DEF ThreadOK
    <2>4. /\ Merge(seqs) \in Seq(Micros)
          /\ Len(Merge(seqs)) = Cardinality({s \in Workers \X (1..Count) :
                                                    s[2] <= Len(results[s[1]].latencies_us)})
      BY <1>1, Merged
    <2>5. Len(report.sorted) = Cardinality({s \in Workers \X (1..Count) :
                                              s[2] <= Len(results[s[1]].latencies_us)})
      BY <2>2, <2>4, SortedInOrder
    <2> QED
      BY <2>2, <2>3, <2>5
  <1> QED
    BY <1>1, Invariance, PTL

\* i is x / 1000 rounded down, and an index of n samples.
RoundsDown(x, i, n) ==
  x \in Nat /\ i \in 0..(n - 1) /\ 1000 * i <= x /\ x < 1000 * (i + 1)

LEMMA Rounding ==
  ASSUME NEW p \in Permilles, NEW n \in Nat \ {0}
  PROVE  RoundsDown(p * n, (p * n) \div 1000, n)
  <1>1. ASSUME NEW x \in Nat, x < 1000 * n
        PROVE  RoundsDown(x, x \div 1000, n)
    BY <1>1 DEF RoundsDown
  <1>2. p * n \in Nat /\ p * n < 1000 * n
    BY DEF Permilles
  <1> QED
    BY <1>1, <1>2

\* A subset of 1..m has at most m elements, a superset at least m.
LEMMA InitialSegment ==
  ASSUME NEW m \in Nat, NEW n \in Nat, NEW T, T \subseteq 1..n
  PROVE  /\ Cardinality(T) \in Nat
         /\ T \subseteq 1..m => Cardinality(T) <= m
         /\ 1..m \subseteq T => m <= Cardinality(T)
  <1>0. 1 \in Int /\ m \in Int /\ n \in Int
    OBVIOUS
  <1>1. IsFiniteSet(1..m) /\ Cardinality(1..m) = IF 1 > m THEN 0 ELSE m - 1 + 1
    BY <1>0, FS_Interval, Zenon
  <1>2. Cardinality(1..m) = m
    BY <1>1
  <1>3. IsFiniteSet(1..n)
    BY <1>0, FS_Interval, Zenon
  <1>4. IsFiniteSet(T)
    BY <1>3, FS_Subset
  <1>5. Cardinality(T) \in Nat
    BY <1>4, FS_CardinalityType
  <1>6. T \subseteq 1..m => Cardinality(T) <= Cardinality(1..m)
    BY <1>1, FS_Subset
  <1>7. 1..m \subseteq T => Cardinality(1..m) <= Cardinality(T)
    BY <1>4, FS_Subset
  <1> QED
    BY <1>2, <1>5, <1>6, <1>7

\* What stats says about p is true of the samples.
Ranked(sorted, stats, p) ==
  LET n == Len(sorted)
      v == stats.pct[p]
      below    == {k \in 1..n : sorted[k] < v}
      notAbove == {k \in 1..n : sorted[k] <= v}
  IN  /\ stats.min <= v /\ v <= stats.max
      /\ 1000 * Cardinality(below) <= p * n /\ p * n < 1000 * Cardinality(notAbove)

\* PrintStats of samples in order: the ranks of what it prints.
LEMMA StatsAreRanks ==
  ASSUME NEW sorted \in Seq(Micros), sorted # <<>>, NEW p \in Permilles,
         \A a, b \in 1..Len(sorted) : a <= b => sorted[a] <= sorted[b]
  PROVE  Ranked(sorted, PrintStats(sorted), p)
  <1> DEFINE n == Len(sorted)
             idx == (p * n) \div 1000
             v == PrintStats(sorted).pct[p]
             below == {k \in 1..n : sorted[k] < v}
             notAbove == {k \in 1..n : sorted[k] <= v}
  <1>1. n \in Nat \ {0} /\ \A k \in 1..n : sorted[k] \in Nat
    <2>1. n \in Nat /\ (sorted = <<>> <=> n = 0)
      BY EmptySeq, LenProperties
    <2>2. \A k \in 1..n : sorted[k] \in Micros
      OBVIOUS
    <2> HIDE DEF n
    <2> QED
      BY <2>1, <2>2, SeqClientAssumption
  <1>2. /\ PrintStats(sorted).min = sorted[1] /\ PrintStats(sorted).max = sorted[n]
        /\ v = Percentile(sorted, p)
    BY DEF PrintStats
  <1>3. /\ p * n \in Nat /\ idx \in 0..(n - 1)
        /\ 1000 * idx <= p * n /\ p * n < 1000 * (idx + 1)
    <2>1. n \in Nat \ {0}
      BY <1>1
    <2> HIDE DEF n, idx, v
    <2>2. RoundsDown(p * n, (p * n) \div 1000, n)
      BY <2>1, Rounding
    <2>3. RoundsDown(p * n, idx, n)
      BY <2>2 DEF idx
    <2> QED
      BY <2>3 DEF RoundsDown
  <1>4. v = sorted[idx + 1]
    <2>1. Percentile(sorted, p) = sorted[1 + IF idx >= n THEN n - 1 ELSE idx]
      BY DEF Percentile
    <2> HIDE DEF n, idx, v
    <2>2. 1 + (IF idx >= n THEN n - 1 ELSE idx) = idx + 1
      BY <1>1, <1>3
    <2> QED
      BY <1>2, <2>1, <2>2
  <1>5. \A a, b \in 1..n : a <= b => sorted[a] <= sorted[b]
    OBVIOUS
  <1> HIDE DEF n, idx, v
  <1>6. 1 \in 1..n /\ n \in 1..n /\ idx + 1 \in 1..n /\ 1 <= idx + 1 /\ idx + 1 <= n /\ idx \in Nat
    BY <1>1, <1>3
  <1>7. sorted[1] <= v /\ v <= sorted[n]
    BY <1>4, <1>5, <1>6
  <1>8. below \subseteq 1..idx
    <2> SUFFICES ASSUME NEW k \in 1..n, sorted[k] < v, k > idx PROVE FALSE
      BY <1>6
    <2>1. idx + 1 <= k
      BY <1>6
    <2>2. v <= sorted[k]
      BY <1>4, <1>5, <1>6, <2>1
    <2>3. v \in Nat /\ sorted[k] \in Nat
      BY <1>1, <1>4, <1>6
    <2> QED
      BY <2>2, <2>3
  <1>9. 1..(idx + 1) \subseteq notAbove
    <2> SUFFICES ASSUME NEW k \in 1..(idx + 1) PROVE k \in 1..n /\ sorted[k] <= v
      OBVIOUS
    <2>1. k \in 1..n /\ k <= idx + 1
      BY <1>1, <1>6
    <2> QED
      BY <1>4, <1>5, <1>6, <2>1
  <1>10. below \subseteq 1..n /\ notAbove \subseteq 1..n /\ n \in Nat /\ idx + 1 \in Nat
    BY <1>1, <1>6
  <1>11. /\ Cardinality(below) \in Nat /\ Cardinality(below) <= idx
         /\ Cardinality(notAbove) \in Nat /\ idx + 1 <= Cardinality(notAbove)
    <2> HIDE DEF below, notAbove
    <2>1. Cardinality(below) \in Nat /\ Cardinality(below) <= idx
      BY <1>6, <1>8, <1>10, InitialSegment
    <2>2. Cardinality(notAbove) \in Nat /\ idx + 1 <= Cardinality(notAbove)
      BY <1>9, <1>10, InitialSegment
    <2> QED
      BY <2>1, <2>2
  <1>12. ASSUME NEW x \in Nat, NEW b \in Nat, NEW a \in Nat, b <= idx, idx + 1 <= a,
                1000 * idx <= x, x < 1000 * (idx + 1)
         PROVE  1000 * b <= x /\ x < 1000 * a
    BY ONLY <1>6, <1>12
  <1>13. 1000 * Cardinality(below) <= p * n /\ p * n < 1000 * Cardinality(notAbove)
    <2> HIDE DEF below, notAbove
    <2> QED
      BY <1>3, <1>11, <1>12
  <1> QED
    BY <1>2, <1>7, <1>13 DEF n, v, Ranked

\* PrintStats (latency_bench_mt.cpp:147-172): whatever was measured, the value
\* printed for p % is a sample of rank p, between the printed min and max.
THEOREM PercentilesRank == Spec => []PercentilesAreRanks
  <1>1. ASSUME Inv PROVE PercentilesAreRanks
    <2> SUFFICES ASSUME report.stats # <<>>, NEW p \in Permilles
                 PROVE  Ranked(report.sorted, report.stats, p)
      BY DEF PercentilesAreRanks, Ranked
    <2> DEFINE all == Merge([t \in Threads |-> results[t].latencies_us])
    <2>1. main = "reported"
      BY <1>1 DEF Inv, MainPart, NoReport
    <2>2. report.sorted = Sorted(all) /\ report.stats = PrintStats(Sorted(all))
      <3>1. report = FinalReport
        BY <1>1, <2>1 DEF Inv, MainPart
      <3>2. FinalReport.sorted = Sorted(all) /\ FinalReport.stats = PrintStats(Sorted(all))
        BY DEF FinalReport
      <3> QED
        BY <3>1, <3>2
    <2>3. all \in Seq(Micros)
      BY <1>1, Merged
    <2> HIDE DEF all
    <2> DEFINE sorted == Sorted(all)
    <2>4. /\ sorted \in Seq(Micros)
          /\ \A a, b \in 1..Len(sorted) : a <= b => sorted[a] <= sorted[b]
      BY <2>3, SortedInOrder
    <2> HIDE DEF sorted
    <2>5. report.sorted = sorted /\ report.stats = PrintStats(sorted)
      BY <2>2 DEF sorted
    <2>6. sorted # <<>>
      BY <2>5 DEF PrintStats
    <2> QED
      BY <2>4, <2>5, <2>6, StatsAreRanks
  <1> QED
    BY <1>1, Invariance, PTL

=============================================================================
