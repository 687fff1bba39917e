----------------------------- MODULE RpcProofs -----------------------------
(***************************************************************************)
(* The server of the repository is the server that MuxClient assumes: a      *)
(* proof that Rpc implements MuxClient under the mapping Unanswered, for any *)
(* number of requests, any window, any response lengths and buffer size.     *)
(*                                                                           *)
(* The inductive invariants of both halves are used as they are (C!Inv of    *)
(* MuxClientProofs under the mapping, P!Inv of ResponsePathProofs); what the *)
(* steps need of them is ClientKnows and ServerKnows, and only the end of    *)
(* this module looks behind these two.  What is new is Link, which follows a *)
(* request from one half through the other: in the socket nothing has        *)
(* happened to it, every response belongs to one request, and a response     *)
(* that has not left the queue has not been read.                            *)
(***************************************************************************)
EXTENDS Rpc, TLAPS

-----------------------------------------------------------------------------
(* What a step relies on. *)

\* The requests whose response has reached the client's socket.
Answered == responses \cup latencies \cup (IF receiver = "match" THEN {seq} ELSE {})

\* The responses that have been taken from the queue.
Popped == Len(pushed) - Len(items_)

\* The responses up to this one have left, or were lost.
Written == IF writer = "write" THEN Popped - 1 ELSE Popped

Link ==
  /\ requests \subseteq 0..(i - 1)
  /\ \A r \in requests : handler[r] = "none"
  /\ \A r \in SeqIds : r >= i => handler[r] = "none"
  /\ \A r \in Answered : handler[r] = "done"
  /\ \A n \in 1..Len(pushed) : handler[pushed[n]] = "done"
  /\ \A m, n \in 1..Len(pushed) : pushed[m] = pushed[n] => m = n
  /\ \A n \in 1..Len(pushed) : n > Written => pushed[n] \notin Answered

\* What the invariant of the client's half says.
ClientKnows ==
  /\ i \in 0..Count /\ Count \in Nat /\ Window \in Nat
  /\ Answered \subseteq 0..(i - 1)
  /\ receiver = "match" => seq \in pending
  /\ sender = "send" => i < Count
  /\ Unanswered \subseteq pending
  /\ pending \subseteq SeqIds

\* What the invariant of the server's half says.
ServerKnows ==
  /\ pushed \in Seq(SeqIds) /\ Len(pushed) \in Nat
  /\ items_ \in Seq(1..Len(pushed)) /\ Len(items_) \in Nat
  /\ handler \in [SeqIds -> {"none", "asleep", "done"}]
  /\ Popped = Len(pushed) - Len(items_) /\ Popped \in Nat
  /\ \A k \in 1..Len(items_) : items_[k] = Popped + k
  /\ writer = "write" => item = Popped /\ item \in 1..Len(pushed)
  /\ waiter_ => writer = "pop" /\ items_ = <<>>
  /\ \A n \in 1..Len(pushed) : pushed[n] \in SeqIds
  /\ \A n \in 1..Len(pushed) : Size[pushed[n]] \in Nat \ {0}
  /\ ptr \in Nat /\ Len(staging) \in Nat

Known == ClientKnows /\ ServerKnows /\ Link

LEMMA InitLink ==
  ASSUME RpcInit
  PROVE  Link /\ Client!Init /\ Server!Init
  <1>1. /\ requests = {} /\ responses = {} /\ latencies = {} /\ i = 0 /\ receiver = "recv"
        /\ pushed = <<>> /\ items_ = <<>> /\ writer = "pop"
        /\ handler = [r \in SeqIds |-> "none"]
    BY DEF RpcInit, Init, Server!Init
  <1>2. Unanswered = {} /\ Answered = {}
    <2>1. 0..(0 - 1) = {}
      OBVIOUS
    <2> QED
      BY <1>1, <2>1 DEF Unanswered, Answered
  <1>3. Client!Init /\ Server!Init
    BY <1>2 DEF RpcInit, Init, Client!Init
  <1>4. Len(pushed) = 0
    BY <1>1
  <1>5. Link
    BY <1>1, <1>2, <1>4 DEF Link
  <1> QED
    BY <1>3, <1>5


-----------------------------------------------------------------------------
(* Steps of the client. *)

\* A step of the client's threads is the same step under the mapping.
LEMMA ClientStepMaps ==
  ASSUME Known, ClientStep \/ ConnectionBreaks
  PROVE  /\ Client!Next
         /\ \/ i' = i /\ requests' = requests
            \/ i' = i + 1 /\ requests' = requests \cup {i} /\ i < Count
         /\ Answered' = Answered
         /\ UNCHANGED serverVars
  <1> USE DEF Client!senderVars, Client!receiverVars, Client!netVars, senderVars, receiverVars, netVars
  <1>1. /\ i \in Nat /\ Answered \subseteq 0..(i - 1)
        /\ Unanswered = (0..(i - 1)) \ Answered
    BY DEF ClientKnows, Known, Unanswered, Answered
  <1>2. UNCHANGED serverVars
    BY DEF ClientStep, ConnectionBreaks
  <1>3. ASSUME i' = i, Answered' = Answered
        PROVE  Unanswered' = Unanswered
    BY <1>3 DEF Unanswered, Answered
  <1>4. CASE Start \/ SeeStart \/ Check \/ Spin \/ Record \/ CountUp \/ Break
    <2>1. i' = i /\ requests' = requests /\ Answered' = Answered
      BY <1>4 DEF Start, SeeStart, Check, Spin, Record, CountUp, Break, Answered
    <2>2. Unanswered' = Unanswered
      BY <1>3, <2>1
    <2>3. Client!Next
      BY <1>4, <2>2
         DEF Start, SeeStart, Check, Spin, Record, CountUp, Break, Client!Start, Client!SeeStart,
             Client!Check, Client!Spin, Client!Record, Client!CountUp, Client!Break, Client!Next, Client!SenderStep
    <2> QED
      BY <1>2, <2>1, <2>3
  <1>5. CASE CountDown \/ RecvDone
    <2>1. i' = i /\ requests' = requests /\ Answered' = Answered
      BY <1>5 DEF CountDown, RecvDone, Answered
    <2>2. Unanswered' = Unanswered
      BY <1>3, <2>1
    <2>3. Client!Next
      BY <1>5, <2>2
         DEF CountDown, RecvDone, Client!CountDown, Client!RecvDone, Client!Next, Client!ReceiverStep
    <2> QED
      BY <1>2, <2>1, <2>3
  <1>6. CASE Send
    <2>1. Answered' = Answered /\ sender = "send"
      BY <1>6 DEF Send, Answered
    <2>2. CASE requests' = requests \cup {i} /\ i' = i + 1 /\ sender' = "check"
      <3>1. i' = i + 1 /\ requests' = requests \cup {i} /\ i < Count
        BY <2>1, <2>2 DEF ClientKnows, Known
      <3>2. Unanswered' = (0..i) \ Answered
        <4>1. Unanswered' = (0..(i' - 1)) \ Answered'
          BY DEF Unanswered, Answered
        <4>2. i' - 1 = i
          BY <1>1, <3>1
        <4> QED
          BY <2>1, <4>1, <4>2
      <3>3. Unanswered' = Unanswered \cup {i}
        <4>1. 0..i = (0..(i - 1)) \cup {i} /\ i \notin 0..(i - 1)
          BY <1>1
        <4> QED
          BY <1>1, <3>2, <4>1
      <3>4. Client!Next
        BY <1>6, <2>2, <3>1, <3>3 DEF Send, Client!Send, Client!Next, Client!SenderStep
      <3> QED
        BY <1>2, <2>1, <3>1, <3>4
    <2>3. CASE broken /\ sender' = "done" /\ UNCHANGED <<i, requests>>
      <3>1. i' = i /\ requests' = requests
        BY <2>3
      <3>2. Unanswered' = Unanswered
        BY <1>3, <2>1, <3>1
      <3>3. Client!Next
        BY <1>6, <2>3, <3>2 DEF Send, Client!Send, Client!Next, Client!SenderStep
      <3> QED
        BY <1>2, <2>1, <3>1, <3>3
    <2> QED
      BY <1>6, <2>2, <2>3 DEF Send
  <1>7. CASE Recv
    <2>1. i' = i /\ requests' = requests /\ latencies' = latencies /\ receiver = "recv"
      BY <1>7 DEF Recv
    <2>2. Answered' = Answered
      <3>1. CASE receiver' = "match" /\ \E r \in responses : seq' = r /\ responses' = responses \ {r}
        BY <2>1, <3>1 DEF Answered
      <3>2. CASE receiver' = "done" /\ responses' = responses
        BY <2>1, <3>2 DEF Answered
      <3> QED
        BY <1>7, <3>1, <3>2 DEF Recv
    <2>3. Unanswered' = Unanswered
      BY <1>3, <2>1, <2>2
    <2>4. Client!Next
      BY <1>7, <2>3 DEF Recv, Client!Recv, Client!Next, Client!ReceiverStep
    <2> QED
      BY <1>2, <2>1, <2>2, <2>4
  <1>8. CASE Match
    <2>1. /\ i' = i /\ requests' = requests /\ responses' = responses
          /\ receiver = "match" /\ receiver' = "count"
          /\ latencies' = latencies \cup ({seq} \cap pending)
      BY <1>8 DEF Match
    <2>2. seq \in pending
      BY <2>1 DEF ClientKnows, Known
    <2>3. Answered' = Answered
      BY <2>1, <2>2 DEF Answered
    <2>4. Unanswered' = Unanswered
      BY <1>3, <2>1, <2>3
    <2>5. Client!Next
      BY <1>8, <2>4 DEF Match, Client!Match, Client!Next, Client!ReceiverStep
    <2> QED
      BY <1>2, <2>1, <2>3, <2>5
  <1> QED
    BY <1>4, <1>5, <1>6, <1>7, <1>8 DEF ClientStep, ConnectionBreaks, SenderStep, ReceiverStep

LEMMA ClientLink ==
  ASSUME Known, ClientStep \/ ConnectionBreaks
  PROVE  Link'
  <1>1. /\ \/ i' = i /\ requests' = requests
           \/ i' = i + 1 /\ requests' = requests \cup {i} /\ i < Count
        /\ Answered' \subseteq Answered
        /\ UNCHANGED serverVars
    BY ClientStepMaps
  <1>2. handler' = handler /\ pushed' = pushed /\ items_' = items_ /\ writer' = writer
    BY <1>1 DEF serverVars
  <1>3. Written' = Written
    BY <1>2 DEF Written, Popped
  <1>4. i \in Nat /\ Link /\ (i < Count => i \in SeqIds)
    BY DEF ClientKnows, Known, SeqIds
  <1>5. /\ requests' \subseteq 0..(i' - 1)
        /\ \A r \in requests' : handler'[r] = "none"
        /\ \A r \in SeqIds : r >= i' => handler'[r] = "none"
    <2>1. CASE i' = i /\ requests' = requests
      BY <1>2, <1>4, <2>1 DEF Link
    <2>2. CASE i' = i + 1 /\ requests' = requests \cup {i} /\ i < Count
      <3>1. handler[i] = "none"
        BY <1>4, <2>2 DEF Link
      <3>2. \A r \in SeqIds : r >= i + 1 => r >= i
        BY <1>4 DEF SeqIds
      <3>3. \A r \in 0..(i - 1) : r \in 0..(i' - 1)
        BY <1>4, <2>2
      <3>4. i \in 0..(i' - 1)
        BY <1>4, <2>2
      <3>5. requests' \subseteq 0..(i' - 1)
        BY <1>4, <2>2, <3>3, <3>4 DEF Link
      <3>6. \A r \in requests' : handler'[r] = "none"
        BY <1>2, <1>4, <2>2, <3>1 DEF Link
      <3>7. \A r \in SeqIds : r >= i' => handler'[r] = "none"
        BY <1>2, <1>4, <2>2, <3>2 DEF Link
      <3> QED
        BY <3>5, <3>6, <3>7
    <2> QED
      BY <1>1, <2>1, <2>2
  <1>6. \A r \in Answered' : handler'[r] = "done"
    BY <1>1, <1>2, <1>4 DEF Link
  <1>7. /\ \A n \in 1..Len(pushed') : handler'[pushed'[n]] = "done"
        /\ \A m, n \in 1..Len(pushed') : pushed'[m] = pushed'[n] => m = n
        /\ \A n \in 1..Len(pushed') : n > Written' => pushed'[n] \notin Answered'
    BY <1>1, <1>2, <1>3, <1>4 DEF Link
  <1> QED
    BY <1>5, <1>6, <1>7 DEF Link

-----------------------------------------------------------------------------
(* Steps of the server. *)

\* A response is pushed: nothing counts as written that did not before.
LEMMA PushWritten ==
  ASSUME ServerKnows, NEW r \in SeqIds, Server!PushResponse(r)
  PROVE  pushed' = Append(pushed, r) /\ Written' = Written
  <1>1. pushed' = Append(pushed, r) /\ Server!WakeWaiter(Append(items_, Len(pushed) + 1))
    BY DEF Server!PushResponse
  <1>2. Len(pushed') = Len(pushed) + 1 /\ Len(pushed) \in Nat /\ Len(items_) \in Nat
    BY <1>1 DEF ServerKnows
  <1>3. CASE waiter_
    <2>1. items_ = <<>> /\ writer = "pop" /\ Len(items_) = 0
      BY <1>3 DEF ServerKnows 
    <2>2. Server!AwaitResume(<<Len(pushed) + 1>>)
      BY <1>1, <1>3, <2>1 DEF Server!WakeWaiter
    <2>3. items_' = Tail(<<Len(pushed) + 1>>) /\ writer' = "write"
      BY <2>2 DEF Server!AwaitResume
    <2>4. Len(items_') = 0
      BY <2>3
    <2> QED
      BY <1>1, <1>2, <2>1, <2>3, <2>4 DEF Written, Popped
  <1>4. CASE ~waiter_
    <2>1. items_' = Append(items_, Len(pushed) + 1) /\ writer' = writer
      BY <1>1, <1>4 DEF Server!WakeWaiter, Server!writerVars
    <2>2. Len(items_') = Len(items_) + 1
      BY <2>1 DEF ServerKnows
    <2> QED
      BY <1>1, <1>2, <2>1, <2>2 DEF Written, Popped
  <1> QED
    BY <1>3, <1>4

\* The handler of r answers.
LEMMA PushLink ==
  ASSUME Known, NEW r \in SeqIds, r < i, handler[r] # "done",
         handler' = [handler EXCEPT ![r] = "done"], Server!PushResponse(r),
         requests' = requests \ {r}, i' = i, Answered' = Answered
  PROVE  Link'
  <1>1. pushed' = Append(pushed, r) /\ Written' = Written
    BY PushWritten DEF Known
  <1>2. /\ pushed \in Seq(SeqIds) /\ Len(pushed) \in Nat
        /\ handler \in [SeqIds -> {"none", "asleep", "done"}]
        /\ \A n \in 1..Len(pushed) : pushed[n] \in SeqIds
        /\ Link /\ i \in Nat /\ Answered \subseteq 0..(i - 1)
        /\ i <= Count
    BY DEF ClientKnows, ServerKnows, Known
  <1>3. /\ Len(pushed') = Len(pushed) + 1
        /\ \A n \in 1..Len(pushed) : pushed'[n] = pushed[n]
        /\ pushed'[Len(pushed) + 1] = r
    BY <1>1, <1>2
  <1>4. \A n \in 1..Len(pushed') : n \in 1..Len(pushed) \/ n = Len(pushed) + 1
    BY <1>2, <1>3
  <1>5. /\ handler'[r] = "done"
        /\ \A s \in SeqIds : s # r => handler'[s] = handler[s]
    BY <1>2
  <1>6. 0..(i - 1) \subseteq SeqIds
    BY <1>2, MuxClientAssumption DEF SeqIds
  <1>7. /\ requests' \subseteq 0..(i' - 1)
        /\ \A s \in requests' : handler'[s] = "none"
    BY <1>2, <1>5, <1>6 DEF Link
  <1>8. \A s \in SeqIds : s >= i' => handler'[s] = "none"
    <2>1. \A s \in SeqIds : s >= i => s # r
      BY <1>2 DEF SeqIds
    <2> QED
      BY <1>2, <1>5, <2>1 DEF Link
  <1>9. \A s \in Answered' : handler'[s] = "done"
    BY <1>2, <1>5, <1>6 DEF Link
  <1>10. \A n \in 1..Len(pushed) : pushed[n] # r /\ handler'[pushed[n]] = "done"
    BY <1>2, <1>5 DEF Link
  <1>11. r \notin Answered
    BY <1>2 DEF Link
  <1>12. \A n \in 1..Len(pushed') : handler'[pushed'[n]] = "done"
    BY <1>3, <1>4, <1>5, <1>10
  <1>13. \A m, n \in 1..Len(pushed') : pushed'[m] = pushed'[n] => m = n
    <2> SUFFICES ASSUME NEW m \in 1..Len(pushed'), NEW n \in 1..Len(pushed'),
                        pushed'[m] = pushed'[n]
                 PROVE  m = n
      OBVIOUS
    <2>1. CASE m \in 1..Len(pushed) /\ n \in 1..Len(pushed)
      BY <1>2, <1>3, <2>1 DEF Link
    <2>2. CASE m = Len(pushed) + 1 /\ n \in 1..Len(pushed)
      BY <1>3, <1>10, <2>2
    <2>3. CASE m \in 1..Len(pushed) /\ n = Len(pushed) + 1
      BY <1>3, <1>10, <2>3
    <2> QED
      BY <1>4, <2>1, <2>2, <2>3
  <1>14. \A n \in 1..Len(pushed') : n > Written' => pushed'[n] \notin Answered'
    BY <1>1, <1>2, <1>3, <1>4, <1>11 DEF Link
  <1> QED
    BY <1>7, <1>8, <1>9, <1>12, <1>13, <1>14 DEF Link

\* The read loop dispatches a request, which the client does not notice.
LEMMA ArriveMaps ==
  ASSUME Known, Arrive
  PROVE  Link' /\ Server!Next /\ UNCHANGED Client!vars
  <1>1. PICK r \in requests :
          /\ requests' = requests \ {r}
          /\ Server!Dispatch(r)
          /\ handler'[r] = "asleep" \/ pushed' # pushed
    BY DEF Arrive
  <1>2. /\ i' = i /\ receiver' = receiver /\ seq' = seq /\ latencies' = latencies
        /\ responses' = responses
        /\ UNCHANGED <<clientVars, responses, broken>>
    BY DEF Arrive, clientVars, senderVars, receiverVars
  <1>3. Answered' = Answered /\ Unanswered' = Unanswered
    BY <1>2 DEF Answered, Unanswered
  <1>4. UNCHANGED Client!vars
    BY <1>2, <1>3
       DEF Client!vars, Client!senderVars, Client!receiverVars, Client!netVars, clientVars, senderVars, receiverVars
  <1>5. /\ r \in SeqIds /\ r < i /\ handler[r] = "none" /\ Link /\ i \in Nat /\ i <= Count
        /\ handler \in [SeqIds -> {"none", "asleep", "done"}]
        /\ 0..(i - 1) \subseteq SeqIds
    <2>1. i \in 0..Count /\ Count \in Nat
      BY DEF ClientKnows, Known
    <2>2. 0..(i - 1) \subseteq SeqIds /\ r \in 0..(i - 1)
      BY <1>1, <2>1 DEF SeqIds, Known, Link
    <2> QED
      BY <1>1, <2>1, <2>2 DEF ServerKnows, Known, Link
  <1>6. Server!Next
    BY <1>1, <1>5 DEF Server!Next, Server!HandlerStep
  <1>7. CASE Server!PushResponse(r) /\ handler' = [handler EXCEPT ![r] = "done"]
    BY <1>1, <1>2, <1>3, <1>4, <1>5, <1>6, <1>7, PushLink
  <1>8. CASE /\ handler' = [handler EXCEPT ![r] = "asleep"]
             /\ UNCHANGED <<Server!queueVars, Server!writerVars, pushed>>
    <2>1. pushed' = pushed /\ items_' = items_ /\ writer' = writer
      BY <1>8 DEF Server!queueVars, Server!writerVars
    <2>2. Written' = Written
      BY <2>1 DEF Written, Popped
    <2>3. \A s \in SeqIds : s # r => handler'[s] = handler[s]
      BY <1>5, <1>8
    <2>4. /\ requests' \subseteq 0..(i' - 1)
          /\ \A s \in requests' : handler'[s] = "none"
      BY <1>1, <1>2, <1>5, <2>3 DEF Link
    <2>5. \A s \in SeqIds : s >= i' => handler'[s] = "none"
      <3>1. \A s \in SeqIds : s >= i => s # r
        BY <1>5 DEF SeqIds
      <3> QED
        BY <1>2, <1>5, <2>3, <3>1 DEF Link
    <2>6. \A s \in Answered' : handler'[s] = "done"
      <3>1. Answered \subseteq 0..(i - 1)
        BY DEF ClientKnows, Known
      <3>2. \A s \in Answered : s \in SeqIds /\ s # r
        BY <1>5, <3>1 DEF Link
      <3> QED
        BY <1>3, <1>5, <2>3, <3>2 DEF Link
    <2>7. \A n \in 1..Len(pushed') : handler'[pushed'[n]] = "done"
      <3>1. \A n \in 1..Len(pushed) : pushed[n] \in SeqIds /\ pushed[n] # r
        BY <1>5 DEF ServerKnows, Known, Link
      <3> QED
        BY <1>5, <2>1, <2>3, <3>1 DEF Link
    <2>8. /\ \A m, n \in 1..Len(pushed') : pushed'[m] = pushed'[n] => m = n
          /\ \A n \in 1..Len(pushed') : n > Written' => pushed'[n] \notin Answered'
      BY <1>3, <1>5, <2>1, <2>2 DEF Link
    <2>9. Link'
      BY <2>4, <2>5, <2>6, <2>7, <2>8 DEF Link
    <2> QED
      BY <1>4, <1>6, <2>9
  <1>9. Server!Dispatch(r) /\ ~(handler' = [handler EXCEPT ![r] = "done"] /\ pushed' = pushed)
    BY <1>1, <1>5
  <1> QED
    BY <1>7, <1>8, <1>9 DEF Server!Dispatch

\* A sleeping handler answers.
LEMMA WakesMaps ==
  ASSUME Known, HandlerWakes
  PROVE  Link' /\ Server!Next /\ UNCHANGED Client!vars
  <1>1. PICK r \in SeqIds : Server!Wake(r)
    BY DEF HandlerWakes
  <1>2. /\ i' = i /\ receiver' = receiver /\ seq' = seq /\ latencies' = latencies
        /\ responses' = responses /\ requests' = requests
        /\ UNCHANGED vars
    BY DEF HandlerWakes, vars, senderVars, receiverVars, netVars
  <1>3. Answered' = Answered /\ Unanswered' = Unanswered
    BY <1>2 DEF Answered, Unanswered
  <1>4. UNCHANGED Client!vars
    BY <1>2, <1>3
       DEF Client!vars, Client!senderVars, Client!receiverVars, Client!netVars, vars, senderVars, receiverVars, netVars
  <1>5. /\ handler[r] = "asleep" /\ handler' = [handler EXCEPT ![r] = "done"]
        /\ Server!PushResponse(r)
    BY <1>1 DEF Server!Wake
  <1>6. r < i /\ r \notin requests /\ requests' = requests \ {r}
    <2>1. i \in Nat /\ r \in Int
      BY DEF ClientKnows, Known, SeqIds
    <2>2. ~(r >= i) /\ r \notin requests
      BY <1>5 DEF Known, Link
    <2> QED
      BY <1>2, <2>1, <2>2
  <1>7. Server!Next
    BY <1>1 DEF Server!Next, Server!HandlerStep
  <1>8. Link'
    BY <1>2, <1>3, <1>5, <1>6, PushLink
  <1> QED
    BY <1>4, <1>7, <1>8

\* The server's own bookkeeping moves on and nothing else does.
LEMMA SteadyLink ==
  ASSUME Known, handler' = handler, pushed' = pushed, requests' = requests, i' = i,
         Written' >= Written, Written \in Int, Written' \in Int,
         \A r \in Answered' : r \in Answered \/ handler[r] = "done",
         \A n \in 1..Len(pushed) : n > Written' /\ pushed[n] \in Answered' => pushed[n] \in Answered
  PROVE  Link'
  <1>1. Link /\ Len(pushed) \in Nat
    BY DEF ServerKnows, Known
  <1>2. \A n \in 1..Len(pushed') : n > Written' => pushed'[n] \notin Answered'
    <2>1. \A n \in 1..Len(pushed) : n > Written' => n > Written
      BY <1>1
    <2> QED
      BY <1>1, <2>1 DEF Link
  <1> QED
    BY <1>1, <1>2 DEF Link

\* The kernel takes bytes.  If they complete a response, this is MuxClient's
\* Respond, unless the connection is lost.
LEMMA WriteMaps ==
  ASSUME Known, WriteCompletes
  PROVE  /\ Link' /\ Server!Next /\ [Client!Next]_Client!vars
         /\ Answered \subseteq Answered'
         /\ ~broken => \A n \in 1..Len(pushed) : n <= Written' => n <= Written \/ pushed[n] \in Answered'
  <1>1. PICK w \in 1..Len(staging) :
          responses' = responses \cup Delivered(w) /\ Server!WriteCompletes(w)
    BY DEF WriteCompletes
  <1>2. /\ i' = i /\ receiver' = receiver /\ seq' = seq /\ latencies' = latencies
        /\ requests' = requests /\ broken' = broken
        /\ UNCHANGED <<clientVars, requests, broken>>
    BY DEF WriteCompletes, clientVars, senderVars, receiverVars
  <1>3. Server!Next
    BY <1>1 DEF Server!Next, Server!KernelStep
  <1>4. /\ handler' = handler /\ pushed' = pushed /\ writer = "write"
    BY <1>1 DEF Server!WriteCompletes
  <1>5. /\ Len(pushed) \in Nat /\ Len(items_) \in Nat
        /\ items_ \in Seq(1..Len(pushed))
        /\ Popped = Len(pushed) - Len(items_) /\ Popped \in Nat
        /\ item = Popped /\ item \in 1..Len(pushed)
        /\ pushed[item] \in SeqIds
        /\ Link
    BY <1>4 DEF ServerKnows, Known
  <1>6. Written = item - 1
    BY <1>4, <1>5 DEF Written
  <1>7. ptr + w \in Nat /\ Server!Length(item) \in Nat
    <2>1. ptr \in Nat /\ \A n \in 1..Len(pushed) : Size[pushed[n]] \in Nat \ {0}
      BY DEF ServerKnows, Known
    <2>2. Len(staging) \in Nat
      BY DEF ServerKnows, Known
    <2>3. Size[pushed[item]] \in Nat
      BY <1>5, <2>1
    <2>4. Server!Length(item) = Size[pushed[item]]
      BY DEF Server!Length
    <2>5. ptr + w \in Nat
      BY <1>1, <2>1, <2>2
    <2> QED
      BY <2>3, <2>4, <2>5
  <1>8. CASE ptr + w < Server!Length(item)
    <2>1. items_' = items_ /\ writer' = writer
      BY <1>1, <1>7, <1>8 DEF Server!WriteCompletes
    <2>2. Delivered(w) = {}
      BY <1>7, <1>8 DEF Delivered
    <2>3. /\ responses' = responses /\ Answered' = Answered /\ Unanswered' = Unanswered
          /\ Written' = Written
      BY <1>1, <1>2, <1>4, <2>1, <2>2 DEF Answered, Unanswered, Written, Popped
    <2>4. UNCHANGED Client!vars
      BY <1>2, <2>3
         DEF Client!vars, Client!senderVars, Client!receiverVars, Client!netVars, clientVars, senderVars, receiverVars
    <2>5. Link'
      BY <1>2, <1>4, <1>5, <1>6, <2>3, SteadyLink
    <2> QED
      BY <1>3, <2>3, <2>4, <2>5
  <1>9. CASE ptr + w >= Server!Length(item)
    <2>1. Server!Pop
      BY <1>1, <1>7, <1>9 DEF Server!WriteCompletes
    <2>2. Written' = item
      <3>1. CASE items_ # <<>>
        <4>1. items_' = Tail(items_) /\ writer' = "write"
          BY <2>1, <3>1 DEF Server!Pop, Server!AwaitResume
        <4>2. Len(items_') = Len(items_) - 1
          BY <1>5, <3>1, <4>1
        <4>3. Written' = (Len(pushed') - Len(items_')) - 1
          BY <4>1 DEF Written, Popped
        <4> QED
          BY <1>4, <1>5, <4>2, <4>3
      <3>2. CASE items_ = <<>>
        <4>1. items_' = items_ /\ writer' # "write"
          BY <2>1, <3>2 DEF Server!Pop, Server!AwaitResume, Server!EndWriteLoop
        <4> QED
          BY <1>4, <1>5, <4>1 DEF Written, Popped
      <3> QED
        BY <3>1, <3>2
    <2>3. Answered' = Answered \cup Delivered(w)
      BY <1>1, <1>2 DEF Answered
    <2>4. /\ handler[pushed[item]] = "done"
          /\ \A n \in 1..Len(pushed) : n > item => pushed[n] # pushed[item]
          /\ pushed[item] \notin Answered
          /\ pushed[item] \in 0..(i - 1)
      <3>1. handler[pushed[item]] = "done" /\ item > Written
        BY <1>5, <1>6 DEF Link
      <3>2. pushed[item] \notin Answered
        BY <1>5, <3>1 DEF Link
      <3>3. ~(pushed[item] >= i) /\ pushed[item] \in Nat /\ i \in Nat
        BY <1>5, <3>1 DEF ClientKnows, Link, SeqIds, Known
      <3>4. \A n \in 1..Len(pushed) : n > item => n # item
        BY <1>5
      <3>5. \A n \in 1..Len(pushed) : n > item => pushed[n] # pushed[item]
        BY <1>5, <3>4 DEF Link
      <3>6. pushed[item] \in 0..(i - 1)
        BY <3>3
      <3> QED
        BY <3>1, <3>2, <3>5, <3>6
    <2>5. Delivered(w) \subseteq {pushed[item]}
      BY DEF Delivered
    <2>6. Link'
      <3>1. Written' >= Written /\ Written \in Int /\ Written' \in Int
        BY <1>5, <1>6, <2>2
      <3>2. \A r \in Answered' : r \in Answered \/ handler[r] = "done"
        BY <2>3, <2>4, <2>5
      <3>3. \A n \in 1..Len(pushed) :
              n > Written' /\ pushed[n] \in Answered' => pushed[n] \in Answered
        BY <2>2, <2>3, <2>4, <2>5
      <3> QED
        BY <1>2, <1>4, <3>1, <3>2, <3>3, SteadyLink
    <2>7. [Client!Next]_Client!vars
      <3>1. Unanswered = (0..(i - 1)) \ Answered /\ Unanswered' = (0..(i - 1)) \ Answered'
        BY <1>2 DEF Unanswered, Answered
      <3>2. CASE broken
        <4>1. Delivered(w) = {}
          BY <3>2 DEF Delivered
        <4>2. responses' = responses /\ Unanswered' = Unanswered
          BY <1>1, <2>3, <3>1, <4>1
        <4> QED
          BY <1>2, <4>2
             DEF Client!vars, Client!senderVars, Client!receiverVars, Client!netVars, clientVars, senderVars, receiverVars
      <3>3. CASE ~broken
        <4>1. Delivered(w) = {pushed[item]}
          BY <1>7, <1>9, <3>3 DEF Delivered
        <4>2. /\ pushed[item] \in Unanswered
              /\ Unanswered' = Unanswered \ {pushed[item]}
              /\ responses' = responses \cup {pushed[item]}
          BY <1>1, <2>3, <2>4, <3>1, <4>1
        <4>3. Client!Respond(pushed[item])
          BY <1>2, <3>3, <4>2
             DEF Client!Respond, Client!senderVars, Client!receiverVars, clientVars, senderVars, receiverVars
        <4> QED
          BY <4>2, <4>3 DEF Client!Next, Client!ServerStep
      <3> QED
        BY <3>2, <3>3
    <2>8. ~broken => \A n \in 1..Len(pushed) : n <= Written' => n <= Written \/ pushed[n] \in Answered'
      <3> SUFFICES ASSUME ~broken, NEW n \in 1..Len(pushed), n <= Written', ~(n <= Written)
                   PROVE  pushed[n] \in Answered'
        OBVIOUS
      <3>1. Delivered(w) = {pushed[item]}
        BY <1>7, <1>9 DEF Delivered
      <3>2. n = item
        <4>1. item \in Int /\ Written = item - 1 /\ n \in Int
          BY <1>5, <1>6
        <4> QED
          BY <2>2, <4>1
      <3> QED
        BY <2>3, <3>1, <3>2
    <2> QED
      BY <1>3, <2>3, <2>6, <2>7, <2>8
  <1> QED
    BY <1>7, <1>8, <1>9

\* A write fails, or the read loop ends: neither is seen by the client.
LEMMA EndsMaps ==
  ASSUME Known, WriteFails \/ ReadEnds
  PROVE  Link' /\ Server!Next /\ UNCHANGED Client!vars
  <1>1. /\ i' = i /\ receiver' = receiver /\ seq' = seq /\ latencies' = latencies
        /\ responses' = responses /\ requests' = requests
        /\ UNCHANGED vars
    BY DEF WriteFails, ReadEnds, vars, senderVars, receiverVars, netVars
  <1>2. Answered' = Answered /\ Unanswered' = Unanswered
    BY <1>1 DEF Answered, Unanswered
  <1>3. UNCHANGED Client!vars
    BY <1>1, <1>2
       DEF Client!vars, Client!senderVars, Client!receiverVars, Client!netVars, vars, senderVars, receiverVars, netVars
  <1>4. Server!WriteFails \/ Server!Close
    BY DEF WriteFails, ReadEnds
  <1>5. Server!Next
    BY <1>4 DEF Server!Next
  <1>6. handler' = handler /\ pushed' = pushed
    BY <1>4 DEF Server!WriteFails, Server!Close
  <1>7. /\ Len(pushed) \in Nat /\ Len(items_) \in Nat
        /\ Popped = Len(pushed) - Len(items_) /\ Popped \in Nat
        /\ waiter_ => writer = "pop" /\ items_ = <<>>
    BY DEF ServerKnows, Known
  <1>8. Written \in Int /\ Written' \in Int /\ Written' >= Written
    <2>1. CASE Server!WriteFails
      <3>1. writer = "write" /\ writer' = "failed" /\ items_' = items_
        BY <2>1 DEF Server!WriteFails, Server!EndWriteLoop, Server!queueVars
      <3> QED
        BY <1>6, <1>7, <3>1 DEF Written, Popped
    <2>2. CASE Server!Close
      <3>1. Server!WakeWaiter(items_)
        BY <2>2 DEF Server!Close
      <3>2. CASE waiter_
        <4>1. writer = "pop" /\ writer' = "done" /\ items_' = items_
          BY <1>7, <3>1, <3>2 DEF Server!WakeWaiter, Server!AwaitResume, Server!EndWriteLoop
        <4> QED
          BY <1>6, <1>7, <4>1 DEF Written, Popped
      <3>3. CASE ~waiter_
        <4>1. writer' = writer /\ items_' = items_
          BY <3>1, <3>3 DEF Server!WakeWaiter, Server!writerVars
        <4> QED
          BY <1>6, <1>7, <4>1 DEF Written, Popped
      <3> QED
        BY <3>2, <3>3
    <2> QED
      BY <1>4, <2>1, <2>2
  <1>9. Link'
    BY <1>1, <1>2, <1>6, <1>8, SteadyLink
  <1> QED
    BY <1>3, <1>5, <1>9

-----------------------------------------------------------------------------
(* Every step. *)

LEMMA StepMaps ==
  ASSUME Known, [RpcNext]_rpcVars
  PROVE  Link' /\ [Client!Next]_Client!vars /\ [Server!Next]_Server!vars
  <1>1. CASE ClientStep \/ ConnectionBreaks
    <2>1. Link' /\ Client!Next /\ UNCHANGED serverVars
      BY <1>1, ClientStepMaps, ClientLink
    <2>2. UNCHANGED Server!vars
      BY <2>1 DEF serverVars, Server!vars, Server!queueVars, Server!writerVars
    <2> QED
      BY <2>1, <2>2
  <1>2. CASE LoopStep
    BY <1>2, ArriveMaps, WakesMaps, WriteMaps, EndsMaps DEF LoopStep
  <1>3. CASE UNCHANGED rpcVars
    <2>1. /\ UNCHANGED <<vars, serverVars>>
          /\ i' = i /\ requests' = requests /\ responses' = responses
          /\ latencies' = latencies /\ receiver' = receiver /\ seq' = seq
          /\ handler' = handler /\ pushed' = pushed /\ items_' = items_ /\ writer' = writer
      BY <1>3 DEF rpcVars, vars, serverVars, senderVars, receiverVars, netVars
    <2>2. Answered' = Answered /\ Unanswered' = Unanswered /\ Written' = Written
      BY <2>1 DEF Answered, Unanswered, Written, Popped
    <2>3. UNCHANGED Client!vars /\ UNCHANGED Server!vars
      BY <2>1, <2>2
         DEF Client!vars, Client!senderVars, Client!receiverVars, Client!netVars, vars, senderVars,
             receiverVars, netVars, serverVars, Server!vars, Server!queueVars, Server!writerVars
    <2>4. Link'
      BY <2>1, <2>2 DEF Known, Link
    <2> QED
      BY <2>3, <2>4
  <1> QED
    BY <1>1, <1>2, <1>3 DEF RpcNext

-----------------------------------------------------------------------------
(* Where a request is that has not been answered. *)

\* Every request that was sent is in the socket, with a handler or in the queue's
\* history; what was written has arrived, unless the connection is lost; the read
\* loop has not ended before its time.
Custody ==
  /\ \A r \in 0..(i - 1) :
       r \in requests \/ handler[r] = "asleep" \/ \E n \in 1..Len(pushed) : pushed[n] = r
  /\ ~broken => writer # "failed" /\ \A n \in 1..Len(pushed) : n <= Written => pushed[n] \in Answered
  /\ closed_ => broken \/ BothDone

LEMMA InitCustody ==
  ASSUME RpcInit
  PROVE  Custody
  <1>1. pushed = <<>> /\ i = 0 /\ writer = "pop" /\ closed_ = FALSE
    BY DEF RpcInit, Init, Server!Init
  <1>2. 1..Len(pushed) = {} /\ 0..(i - 1) = {}
    BY <1>1
  <1> QED
    BY <1>1, <1>2 DEF Custody

\* The client's threads and the connection touch none of what the server holds.
LEMMA ClientCustody ==
  ASSUME Known, Custody, ClientStep \/ ConnectionBreaks
  PROVE  Custody'
  <1>1. /\ \/ i' = i /\ requests' = requests
           \/ i' = i + 1 /\ requests' = requests \cup {i}
        /\ Answered' = Answered
        /\ handler' = handler /\ pushed' = pushed /\ items_' = items_ /\ writer' = writer
        /\ closed_' = closed_
    BY ClientStepMaps DEF serverVars
  <1>2. Written' = Written
    BY <1>1, Zenon DEF Written, Popped
  <1>3. (broken => broken') /\ (BothDone => BothDone')
    <2>1. broken => broken'
      BY Zenon DEF ClientStep, ConnectionBreaks, Start, SenderStep, SeeStart, Check, Spin, Record, CountUp, Send,
                   ReceiverStep, Recv, Match, CountDown, RecvDone, Break, netVars
    <2>2. BothDone => ~SenderStep /\ ~ReceiverStep
      BY DEF BothDone, SenderStep, SeeStart, Check, Spin, Record, CountUp, Send,
             ReceiverStep, Recv, Match, CountDown, RecvDone
    <2>3. Start \/ Break => sender' = sender /\ receiver' = receiver
      BY Zenon DEF Start, Break, senderVars, receiverVars
    <2> QED
      BY <2>1, <2>2, <2>3 DEF ClientStep, ConnectionBreaks, BothDone
  <1>4. \A r \in 0..(i' - 1) : r \in 0..(i - 1) \/ r \in requests'
    <2>1. i \in Nat
      BY DEF Known, ClientKnows
    <2> QED
      BY <1>1, <2>1
  <1>5. \A r \in 0..(i' - 1) :
          r \in requests' \/ handler'[r] = "asleep" \/ \E n \in 1..Len(pushed') : pushed'[n] = r
    BY <1>1, <1>4 DEF Custody
  <1>6. ~broken' => writer' # "failed" /\ \A n \in 1..Len(pushed') : n <= Written' => pushed'[n] \in Answered'
    BY <1>1, <1>2, <1>3 DEF Custody
  <1> QED
    BY <1>1, <1>3, <1>5, <1>6 DEF Custody

\* A handler answers r: it moves from the socket, or from its sleep, into the
\* queue.
LEMMA PushCustody ==
  ASSUME Known, Custody, NEW r \in SeqIds, handler' = [handler EXCEPT ![r] = "done"],
         Server!PushResponse(r), requests' = requests \ {r}, i' = i, Answered' = Answered,
         broken' = broken, closed_' = closed_, BothDone' = BothDone
  PROVE  Custody'
  <1>1. pushed' = Append(pushed, r) /\ Written' = Written
    BY PushWritten DEF Known
  <1>2. pushed \in Seq(SeqIds) /\ Len(pushed) \in Nat /\ handler \in [SeqIds -> {"none", "asleep", "done"}]
    BY DEF Known, ServerKnows
  <1>3. /\ Len(pushed') = Len(pushed) + 1 /\ pushed'[Len(pushed) + 1] = r
        /\ \A n \in 1..Len(pushed) : pushed'[n] = pushed[n]
    BY <1>1, <1>2
  <1>4. writer' = "failed" => writer = "failed"
    BY DEF Server!PushResponse, Server!WakeWaiter, Server!AwaitResume, Server!EndWriteLoop, Server!writerVars
  <1>5. Written <= Len(pushed)
    BY DEF Known, ServerKnows, Written, Popped
  <1>6. \A n \in 1..Len(pushed') : n <= Written' => n \in 1..Len(pushed)
    <2>1. Written \in Int
      BY DEF Known, ServerKnows, Written, Popped
    <2> QED
      BY <1>1, <1>2, <1>3, <1>5, <2>1
  <1>7. ASSUME NEW s \in 0..(i' - 1)
        PROVE  s \in requests' \/ handler'[s] = "asleep" \/ \E n \in 1..Len(pushed') : pushed'[n] = s
    <2>1. CASE s = r
      <3>1. Len(pushed) + 1 \in 1..Len(pushed')
        BY <1>2, <1>3
      <3> QED
        BY <1>3, <2>1, <3>1
    <2>2. CASE s # r /\ \E n \in 1..Len(pushed) : pushed[n] = s
      <3>1. PICK n \in 1..Len(pushed) : pushed[n] = s
        BY <2>2
      <3>2. n \in 1..Len(pushed')
        BY <1>2, <1>3, <3>1
      <3> QED
        BY <1>3, <3>1, <3>2
    <2>3. CASE s # r /\ (s \in requests \/ handler[s] = "asleep")
      <3>1. s \in SeqIds
        BY <1>7 DEF Known, ClientKnows, SeqIds
      <3> QED
        BY <1>2, <2>3, <3>1
    <2> QED
      BY <2>1, <2>2, <2>3 DEF Custody
  <1>8. ~broken' => \A n \in 1..Len(pushed') : n <= Written' => pushed'[n] \in Answered'
    BY <1>1, <1>3, <1>6 DEF Custody
  <1> QED
    BY <1>4, <1>7, <1>8 DEF Custody

\* The server's steps hand a request on, from the socket to a handler, from it to
\* the queue, and from there to the client.
LEMMA LoopCustody ==
  ASSUME Known, Custody, LoopStep
  PROVE  Custody'
  <1>1. /\ i' = i /\ broken' = broken /\ BothDone' = BothDone
        /\ requests' = requests \/ Arrive
    BY Zenon DEF LoopStep, Arrive, HandlerWakes, WriteCompletes, WriteFails, ReadEnds,
                 clientVars, vars, senderVars, receiverVars, netVars, BothDone
  <1>2. Arrive \/ HandlerWakes \/ WriteFails \/ ReadEnds => Answered' = Answered
    BY Zenon DEF Arrive, HandlerWakes, WriteFails, ReadEnds,
                 clientVars, vars, senderVars, receiverVars, netVars, Answered
  <1>3. handler \in [SeqIds -> {"none", "asleep", "done"}] /\ requests \subseteq SeqIds
    BY DEF Known, ClientKnows, ServerKnows, Link, SeqIds
  <1>4. CASE Arrive
    <2>1. PICK r \in requests :
            /\ requests' = requests \ {r}
            /\ Server!Dispatch(r)
            /\ handler'[r] = "asleep" \/ pushed' # pushed
      BY <1>4 DEF Arrive
    <2>2. CASE Server!PushResponse(r) /\ handler' = [handler EXCEPT ![r] = "done"] /\ closed_' = closed_
      BY <1>1, <1>2, <1>3, <1>4, <2>1, <2>2, PushCustody
    <2>3. CASE /\ handler' = [handler EXCEPT ![r] = "asleep"]
               /\ UNCHANGED <<Server!queueVars, Server!writerVars, pushed>>
      <3>1. pushed' = pushed /\ items_' = items_ /\ writer' = writer /\ closed_' = closed_
        BY <2>3 DEF Server!queueVars, Server!writerVars
      <3>2. Written' = Written
        BY <3>1, Zenon DEF Written, Popped
      <3>3. \A s : s \in requests \/ handler[s] = "asleep" => s \in requests' \/ handler'[s] = "asleep"
        BY <1>3, <2>1, <2>3
      <3> QED
        BY <1>1, <1>2, <1>4, <3>1, <3>2, <3>3, Zenon DEF Custody
    <2> QED
      BY <1>3, <2>1, <2>2, <2>3 DEF Server!Dispatch
  <1>5. CASE HandlerWakes
    <2>1. PICK r \in SeqIds : Server!Wake(r)
      BY <1>5 DEF HandlerWakes
    <2>2. /\ handler[r] = "asleep" /\ handler' = [handler EXCEPT ![r] = "done"]
          /\ Server!PushResponse(r) /\ closed_' = closed_
      BY <2>1 DEF Server!Wake
    <2>3. r \notin requests /\ requests' = requests
      BY <1>5, <2>2 DEF Known, Link, HandlerWakes, vars, netVars
    <2> QED
      BY <1>1, <1>2, <1>5, <2>2, <2>3, PushCustody
  <1>6. CASE WriteCompletes
    <2>1. PICK w \in 1..Len(staging) : Server!WriteCompletes(w)
      BY <1>6 DEF WriteCompletes
    <2>2. handler' = handler /\ pushed' = pushed /\ closed_' = closed_ /\ writer = "write"
      BY <2>1 DEF Server!WriteCompletes
    <2>3. writer' # "failed"
      BY <2>1 DEF Server!WriteCompletes, Server!Pop, Server!AwaitResume, Server!EndWriteLoop
    <2>4. requests' = requests
      BY <1>6 DEF WriteCompletes
    <2>5. /\ Answered \subseteq Answered'
          /\ ~broken => \A n \in 1..Len(pushed) : n <= Written' => n <= Written \/ pushed[n] \in Answered'
      BY <1>6, WriteMaps
    <2>6. ~broken' => \A n \in 1..Len(pushed') : n <= Written' => pushed'[n] \in Answered'
      BY <1>1, <2>2, <2>5 DEF Custody
    <2> QED
      BY <1>1, <2>2, <2>3, <2>4, <2>6 DEF Custody
  <1>7. CASE WriteFails
    <2>1. broken /\ handler' = handler /\ pushed' = pushed /\ closed_' = closed_ /\ requests' = requests
      BY <1>7 DEF WriteFails, Server!WriteFails, Server!queueVars, vars, netVars
    <2> QED
      BY <1>1, <2>1 DEF Custody
  <1>8. CASE ReadEnds
    <2>1. /\ broken \/ BothDone
          /\ handler' = handler /\ pushed' = pushed /\ requests' = requests
          /\ Server!WakeWaiter(items_)
      BY <1>8 DEF ReadEnds, Server!Close, vars, netVars
    <2>2. waiter_ => writer = "pop" /\ items_ = <<>>
      BY DEF ServerKnows, Known
    <2>3. CASE waiter_
      <3>1. writer = "pop" /\ writer' = "done" /\ items_' = items_
        BY <2>1, <2>2, <2>3 DEF Server!WakeWaiter, Server!AwaitResume, Server!EndWriteLoop
      <3>2. Written' = Written
        BY <2>1, <3>1 DEF Written, Popped
      <3> QED
        BY <1>1, <1>2, <1>8, <2>1, <3>1, <3>2 DEF Custody
    <2>4. CASE ~waiter_
      <3>1. writer' = writer /\ items_' = items_
        BY <2>1, <2>4 DEF Server!WakeWaiter, Server!writerVars
      <3>2. Written' = Written
        BY <2>1, <3>1, Zenon DEF Written, Popped
      <3> QED
        BY <1>1, <1>2, <1>8, <2>1, <3>1, <3>2 DEF Custody
    <2> QED
      BY <2>3, <2>4
  <1> QED
    BY <1>4, <1>5, <1>6, <1>7, <1>8 DEF LoopStep

LEMMA NextCustody ==
  ASSUME Known, Custody, [RpcNext]_rpcVars
  PROVE  Custody'
  <1>1. CASE UNCHANGED rpcVars
    <2>1. /\ i' = i /\ requests' = requests /\ responses' = responses /\ broken' = broken
          /\ latencies' = latencies /\ receiver' = receiver /\ sender' = sender /\ seq' = seq
          /\ handler' = handler /\ pushed' = pushed /\ items_' = items_ /\ writer' = writer
          /\ closed_' = closed_
      BY <1>1 DEF rpcVars, vars, serverVars, senderVars, receiverVars, netVars
    <2>2. Answered' = Answered /\ Written' = Written /\ BothDone' = BothDone
      BY <2>1, Zenon DEF Answered, Written, Popped, BothDone
    <2> QED
      BY <2>1, <2>2 DEF Custody
  <1> QED
    BY <1>1, ClientCustody, LoopCustody DEF RpcNext

\* When the writer is in Pop the queue is empty, and it ends only when the
\* queue is closed.
WriterWaits ==
  /\ writer \in {"pop", "write", "done", "failed"}
  /\ writer = "pop" => items_ = <<>>
  /\ writer = "done" => closed_

\* A request the client waits for is one the server works on.
LEMMA CustodyServes ==
  ASSUME Known, Custody, WriterWaits, Unanswered # {}, ~BothDone, ~broken
  PROVE  ServerHasWork
  <1>1. PICK r \in 0..(i - 1) : r \notin Answered
    BY DEF Unanswered, Answered
  <1>2. r \in requests \/ handler[r] = "asleep" \/ \E n \in 1..Len(pushed) : pushed[n] = r
    BY DEF Custody
  <1>3. ~closed_
    BY DEF Custody
  <1>4. r \in SeqIds
    BY DEF Known, ClientKnows, SeqIds
  <1>5. CASE \E n \in 1..Len(pushed) : pushed[n] = r
    <2>1. PICK n \in 1..Len(pushed) : pushed[n] = r
      BY <1>5
    <2>2. ~(n <= Written) /\ writer # "failed"
      BY <1>1, <2>1 DEF Custody
    <2>3. writer = "write" \/ items_ # <<>>
      BY <2>1, <2>2 DEF Known, ServerKnows, Written, Popped
    <2> QED
      BY <1>3, <2>2, <2>3 DEF WriterWaits, ServerHasWork
  <1> QED
    BY <1>2, <1>3, <1>4, <1>5 DEF ServerHasWork

-----------------------------------------------------------------------------
(* What the server holds, counted. *)

INSTANCE FiniteSetTheorems

LEMMA IntervalSize ==
  ASSUME NEW n \in Nat
  PROVE  IsFiniteSet(1..n) /\ Cardinality(1..n) = n
  <1>1. n \in Int /\ 1 \in Int
    OBVIOUS
  <1>2. /\ IsFiniteSet(1..n)
        /\ Cardinality(1..n) = IF 1 > n THEN 0 ELSE n - 1 + 1
    BY <1>1, FS_Interval
  <1> QED
    BY <1>2

\* The accounts of disjoint parts of a finite set.
LEMMA ThreeParts ==
  ASSUME NEW S, IsFiniteSet(S), NEW R, NEW A, NEW n \in Nat, NEW f,
         R \subseteq S, A \subseteq S, R \cap A = {},
         f \in Injection(1..n, S \ (R \cup A))
  PROVE  Cardinality(R) + Cardinality(A) + n <= Cardinality(S)
  <1>1. /\ R \in SUBSET S /\ A \in SUBSET S
    OBVIOUS
  <1>2. IsFiniteSet(R) /\ IsFiniteSet(A)
    BY <1>1, FS_Subset
  <1>3. /\ IsFiniteSet(R \cup A)
        /\ Cardinality(R \cup A) = Cardinality(R) + Cardinality(A) - Cardinality(R \cap A)
    BY <1>2, FS_Union
  <1>4. Cardinality(R \cap A) = 0
    BY FS_EmptySet
  <1>5. /\ IsFiniteSet(S \ (R \cup A))
        /\ Cardinality(S \ (R \cup A)) = Cardinality(S) - Cardinality(S \cap (R \cup A))
    BY FS_Difference
  <1>6. S \cap (R \cup A) = R \cup A
    OBVIOUS
  <1>7. Cardinality(1..n) <= Cardinality(S \ (R \cup A))
    BY <1>5, FS_Injection
  <1>8. Cardinality(1..n) = n
    BY IntervalSize
  <1>9. Cardinality(R) \in Nat /\ Cardinality(A) \in Nat /\ Cardinality(S) \in Nat
    BY <1>2, FS_CardinalityType
  <1>10. Cardinality(S \cap (R \cup A)) = Cardinality(R) + Cardinality(A)
    <2>1. Cardinality(S \cap (R \cup A)) = Cardinality(R \cup A)
      BY <1>6
    <2> QED
      BY <2>1, <1>3, <1>4, <1>9
  <1>11. n <= Cardinality(S \ (R \cup A))
    BY <1>7, <1>8
  <1>12. n <= Cardinality(S) - (Cardinality(R) + Cardinality(A))
    BY <1>5, <1>10, <1>11
  <1> QED
    BY <1>9, <1>12

\* What is in the socket, with a handler or in the queue is pending at the client.
LEMMA QueueBound ==
  ASSUME Known, WindowHolds
  PROVE  QueueWithinWindow
  <1> DEFINE A == {r \in SeqIds : handler[r] = "asleep"}
             f == [k \in 1..Len(items_) |-> pushed[items_[k]]]
  <1>1. /\ i \in 0..Count /\ Count \in Nat /\ Window \in Nat
        /\ Unanswered \subseteq pending /\ pending \subseteq SeqIds
    BY DEF ClientKnows, Known
  <1>2. /\ Len(pushed) \in Nat /\ Len(items_) \in Nat
        /\ Popped = Len(pushed) - Len(items_) /\ Popped \in Nat
        /\ \A k \in 1..Len(items_) : items_[k] = Popped + k
        /\ \A n \in 1..Len(pushed) : pushed[n] \in SeqIds
        /\ Link
    BY DEF ServerKnows, Known
  <1>3. \A r \in SeqIds : handler[r] # "none" => r \in 0..(i - 1)
    BY <1>1, <1>2 DEF Link, SeqIds
  <1>4. Unanswered = (0..(i - 1)) \ Answered
    BY DEF Unanswered, Answered
  <1>5. requests \subseteq Unanswered
    BY <1>2, <1>4 DEF Link
  <1>6. A \subseteq Unanswered
    BY <1>2, <1>3, <1>4 DEF Link
  <1>7. requests \cap A = {}
    BY <1>2 DEF Link
  <1>8. \A k \in 1..Len(items_) : /\ items_[k] \in 1..Len(pushed)
                                  /\ items_[k] = Popped + k
                                  /\ items_[k] > Written
    BY <1>2 DEF Written
  <1>9. \A k \in 1..Len(items_) : pushed[items_[k]] \in Unanswered \ (requests \cup A)
    <2> SUFFICES ASSUME NEW k \in 1..Len(items_)
                 PROVE  pushed[items_[k]] \in Unanswered \ (requests \cup A)
      OBVIOUS
    <2>1. handler[pushed[items_[k]]] = "done" /\ pushed[items_[k]] \in SeqIds
      BY <1>2, <1>8 DEF Link
    <2>2. pushed[items_[k]] \notin Answered
      BY <1>2, <1>8 DEF Link
    <2> QED
      BY <1>2, <1>3, <1>4, <2>1, <2>2 DEF Link
  <1>10. f \in Injection(1..Len(items_), pending \ (requests \cup A))
    <2>1. f \in [1..Len(items_) -> pending \ (requests \cup A)]
      BY <1>1, <1>9
    <2>2. ASSUME NEW a \in 1..Len(items_), NEW b \in 1..Len(items_), f[a] = f[b]
          PROVE  a = b
      <3>1. items_[a] = items_[b]
        BY <1>2, <1>8, <2>2 DEF Link
      <3> QED
        BY <1>2, <3>1
    <2>3. IsInjective(f)
      BY <2>1, <2>2 DEF IsInjective
    <2> QED
      BY <2>1, <2>3 DEF Injection
  <1>11. IsFiniteSet(pending)
    <2>1. IsFiniteSet(SeqIds)
      <3>1. SeqIds \in SUBSET Nat /\ \A s \in SeqIds : s <= Count
        BY <1>1 DEF SeqIds
      <3> QED
        BY <1>1, <3>1, FS_BoundedSetOfNaturals
    <2> QED
      BY <1>1, <2>1, FS_Subset
  <1> HIDE DEF A, f
  <1>12. Cardinality(requests) + Cardinality(A) + Len(items_) <= Cardinality(pending)
    BY <1>1, <1>2, <1>5, <1>6, <1>7, <1>10, <1>11, ThreeParts
  <1>13. /\ Cardinality(requests) \in Nat /\ Cardinality(A) \in Nat
         /\ Cardinality(pending) \in Nat
    <2>1. IsFiniteSet(requests) /\ IsFiniteSet(A)
      <3>1. requests \in SUBSET pending /\ A \in SUBSET pending
        BY <1>1, <1>5, <1>6
      <3> QED
        BY <1>11, <3>1, FS_Subset
    <2> QED
      BY <1>11, <2>1, FS_CardinalityType
  <1>14. Cardinality(pending) <= Window
    BY DEF WindowHolds
  <1>15. Cardinality(requests) + Cardinality(A) + Len(items_) <= Window
    BY <1>1, <1>2, <1>12, <1>13, <1>14
  <1> QED
    BY <1>15 DEF QueueWithinWindow, A

-----------------------------------------------------------------------------
(* The client's half has the invariants its own proofs establish. *)

C == INSTANCE MuxClientProofs WITH requests <- Unanswered

LEMMA ClientInvKnows == C!Inv => ClientKnows
  <1> SUFFICES ASSUME C!Inv PROVE ClientKnows
    OBVIOUS
  <1>1. C!TypeOK /\ C!Wire /\ C!Latencies
    BY DEF C!Inv
  <1> QED
    BY <1>1, MuxClientAssumption
       DEF C!TypeOK, C!Wire, C!Latencies, C!OnTheWire, Answered, ClientKnows, C!SeqIds, SeqIds

\* The two names of MuxClient under the mapping mean the same.
LEMMA SameClient ==
  /\ Client!Init => C!Init
  /\ [Client!Next]_Client!vars => [C!Next]_C!vars
  BY DEF C!Init, Client!Init, C!Next, Client!Next, C!Start, Client!Start,
         C!SenderStep, Client!SenderStep, C!SeeStart, Client!SeeStart, C!Check, Client!Check,
         C!Spin, Client!Spin, C!Record, Client!Record, C!CountUp, Client!CountUp,
         C!Send, Client!Send, C!ReceiverStep, Client!ReceiverStep, C!Recv, Client!Recv,
         C!Match, Client!Match, C!CountDown, Client!CountDown, C!RecvDone, Client!RecvDone,
         C!ServerStep, Client!ServerStep, C!Respond, Client!Respond, C!Break, Client!Break,
         C!vars, Client!vars, C!senderVars, Client!senderVars, C!receiverVars,
         Client!receiverVars, C!netVars, Client!netVars


\* What the client's proofs say, in the names of Rpc.
LEMMA ClientSafety ==
  C!Spec => [](ResponseFindsEntry /\ WindowHolds /\ CompleteWhenDone)
  <1>1. C!Spec => []C!ResponseFindsEntry
    BY C!EveryResponseFindsItsEntry, MuxClientAssumption
  <1>2. C!Spec => []C!WindowHolds
    BY C!WindowIsNeverExceeded, MuxClientAssumption
  <1>3. C!Spec => []C!CompleteWhenDone
    BY C!CompletedRunIsComplete, MuxClientAssumption
  <1>4. C!ResponseFindsEntry => ResponseFindsEntry
    BY DEF C!ResponseFindsEntry, ResponseFindsEntry
  <1>5. C!WindowHolds => WindowHolds
    <2>1. C!Cardinality(pending) = Cardinality(pending)
      BY DEF C!Cardinality, Cardinality
    <2> QED
      BY <2>1 DEF C!WindowHolds, WindowHolds
  <1>6. C!CompleteWhenDone => CompleteWhenDone
    <2>1. C!SeqIds = SeqIds
      BY DEF C!SeqIds, SeqIds
    <2> QED
      BY <2>1, Zenon DEF C!CompleteWhenDone, CompleteWhenDone
  <1> QED
    BY <1>1, <1>2, <1>3, <1>4, <1>5, <1>6, PTL

LEMMA ClientSettled ==
  /\ RpcInit => C!Settled
  /\ C!Inv /\ C!Settled /\ [C!Next]_C!vars => C!Settled'
  <1>1. RpcInit => C!Init
    BY InitLink, SameClient
  <1> QED
    BY <1>1, C!InitSettled, C!NextSettled, MuxClientAssumption

\* A client that cannot move has a request at the server.
LEMMA ClientWaits ==
  ASSUME C!Inv, C!Settled, SenderWaits, ReceiverWaits, ~BothDone, ~broken
  PROVE  Unanswered # {}
  <1>1. C!WaitOnlyForServer
    BY C!SettledWaits, MuxClientAssumption
  <1> QED
    BY <1>1 DEF C!WaitOnlyForServer, C!SenderWaits, SenderWaits, C!ReceiverWaits, ReceiverWaits,
                C!BothDone, BothDone

-----------------------------------------------------------------------------
(* So has the server's. *)

P == INSTANCE ResponsePathProofs WITH Requests <- SeqIds

RpcInv == C!Inv /\ P!Inv /\ Link

LEMMA ServerInvKnows == P!Inv => ServerKnows
  <1> SUFFICES ASSUME P!Inv PROVE ServerKnows
    OBVIOUS
  <1>1. P!TypeOK /\ P!NoLostWakeup /\ P!QueueInOrder /\ P!WriterProgress
    BY DEF P!Inv
  <1>2. pushed \in Seq(SeqIds) /\ items_ \in Seq(1..Len(pushed))
    BY <1>1 DEF P!TypeOK, P!Positions
  <1>3. Len(pushed) \in Nat /\ Len(items_) \in Nat
    BY <1>2
  <1>4. \A n \in 1..Len(pushed) : pushed[n] \in SeqIds
    BY <1>2
  <1>5. ptr \in Nat /\ \A n \in 1..Len(pushed) : Size[pushed[n]] \in Nat \ {0}
    BY P!Types, RpcAssumption
  <1>6. Len(staging) \in Nat
    BY P!Types, RpcAssumption
  <1> QED
    BY <1>1, <1>2, <1>3, <1>4, <1>5, <1>6
       DEF P!TypeOK, P!NoLostWakeup, P!QueueInOrder, P!Popped, P!WriterProgress,
           P!WriteInProgress, ServerKnows, Popped

LEMMA WriterInvWaits == P!Inv => WriterWaits
  BY DEF P!Inv, P!TypeOK, P!NoLostWakeup, P!WriterProgress, WriterWaits

\* The two names of ResponsePath mean the same.
LEMMA SameServer ==
  /\ Server!Init => P!Init
  /\ [Server!Next]_Server!vars => [P!Next]_P!vars
  <1>1. ASSUME NEW q, Server!WakeWaiter(q) PROVE P!WakeWaiter(q)
    <2>1. Server!AwaitResume(q) => P!AwaitResume(q)
      BY DEF Server!AwaitResume, P!AwaitResume, Server!EndWriteLoop, P!EndWriteLoop,
             Server!WriteOnce, P!WriteOnce, Server!ToWrite, P!ToWrite
    <2> QED
      BY <1>1, <2>1 DEF Server!WakeWaiter, P!WakeWaiter, Server!writerVars, P!writerVars
  <1>2. ASSUME NEW r, Server!PushResponse(r) PROVE P!PushResponse(r)
    BY <1>1, <1>2 DEF Server!PushResponse, P!PushResponse
  <1>3. ASSUME NEW r, Server!Dispatch(r) \/ Server!Wake(r) PROVE P!Dispatch(r) \/ P!Wake(r)
    BY <1>2, <1>3 DEF Server!Dispatch, P!Dispatch, Server!Wake, P!Wake,
                      Server!queueVars, P!queueVars, Server!writerVars, P!writerVars
  <1>4. ASSUME NEW w, Server!WriteCompletes(w) PROVE P!WriteCompletes(w)
    BY <1>4 DEF Server!WriteCompletes, P!WriteCompletes, Server!Length, P!Length,
                Server!Pop, P!Pop, Server!AwaitResume, P!AwaitResume,
                Server!EndWriteLoop, P!EndWriteLoop, Server!WriteOnce, P!WriteOnce,
                Server!ToWrite, P!ToWrite, Server!writerVars, P!writerVars
  <1>5. Server!WriteFails \/ Server!Close => P!WriteFails \/ P!Close
    BY <1>1 DEF Server!WriteFails, P!WriteFails, Server!Close, P!Close,
                Server!EndWriteLoop, P!EndWriteLoop, Server!queueVars, P!queueVars
  <1>6. ASSUME Server!Init PROVE P!Init
    BY <1>6 DEF Server!Init, P!Init
  <1>7. Server!Next => P!Next
    BY <1>1, <1>2, <1>3, <1>4, <1>5
       DEF Server!Next, P!Next, Server!HandlerStep, P!HandlerStep, Server!KernelStep, P!KernelStep
  <1>8. UNCHANGED Server!vars => UNCHANGED P!vars
    BY DEF Server!vars, P!vars, Server!queueVars, P!queueVars, Server!writerVars, P!writerVars
  <1> QED
    BY <1>6, <1>7, <1>8

LEMMA RpcInvInit == RpcInit => RpcInv
  <1> SUFFICES ASSUME RpcInit PROVE RpcInv
    OBVIOUS
  <1>1. C!Init /\ P!Init /\ Link
    BY InitLink, SameClient, SameServer
  <1>2. C!Inv /\ P!Inv
    BY <1>1, C!InitInv, P!InitInv, MuxClientAssumption, RpcAssumption
  <1> QED
    BY <1>1, <1>2 DEF RpcInv

LEMMA RpcInvNext ==
  ASSUME RpcInv, [RpcNext]_rpcVars
  PROVE  RpcInv' /\ [Client!Next]_Client!vars /\ [C!Next]_C!vars
  <1>1. Known
    BY ClientInvKnows, ServerInvKnows DEF RpcInv, Known
  <1>2. Link' /\ [Client!Next]_Client!vars /\ [Server!Next]_Server!vars
    BY <1>1, StepMaps
  <1>3. [C!Next]_C!vars /\ [P!Next]_P!vars
    BY <1>2, SameClient, SameServer
  <1>4. C!Inv' /\ P!Inv'
    BY <1>3, C!NextInv, P!NextInv, MuxClientAssumption, RpcAssumption DEF RpcInv
  <1> QED
    BY <1>2, <1>3, <1>4 DEF RpcInv

LEMMA RpcInvHolds == RpcSpec => []RpcInv
  BY RpcInvInit, RpcInvNext, PTL DEF RpcSpec

LEMMA CustodyHolds == RpcSpec => [](Custody /\ C!Settled)
  <1>1. ASSUME RpcInv, Custody, C!Settled, [RpcNext]_rpcVars
        PROVE  Custody' /\ C!Settled'
    <2>1. Custody'
      BY <1>1, ClientInvKnows, ServerInvKnows, NextCustody DEF RpcInv, Known
    <2> QED
      BY <1>1, <2>1, RpcInvNext, ClientSettled DEF RpcInv
  <1> QED
    BY <1>1, InitCustody, ClientSettled, RpcInvHolds, PTL DEF RpcSpec

-----------------------------------------------------------------------------
(* The theorems. *)

\* The server of the repository is the server that MuxClient takes for granted:
\* every behaviour of client and server together is one of MuxClient.
THEOREM ServerIsAsTheClientAssumes == RpcSpec => ImplementsMuxClient
  <1>1. RpcInit => Client!Init
    BY InitLink
  <1> QED
    BY <1>1, RpcInvHolds, RpcInvNext, PTL DEF RpcSpec, ImplementsMuxClient, Client!Spec

\* So the client's guarantees hold against that server, not only against the
\* assumed one.
THEOREM ClientIsServedCorrectly ==
  RpcSpec => [](ResponseFindsEntry /\ WindowHolds /\ CompleteWhenDone)
  <1>1. RpcInit => C!Init
    BY InitLink, SameClient
  <1> QED
    BY <1>1, ClientSafety, RpcInvHolds, RpcInvNext, PTL DEF RpcSpec, C!Spec

\* Nothing in the server bounds its queue; the client's window does.
THEOREM QueueStaysWithinWindow == RpcSpec => []QueueWithinWindow
  <1>1. ASSUME RpcInv, WindowHolds PROVE QueueWithinWindow
    BY <1>1, ClientInvKnows, ServerInvKnows, QueueBound DEF RpcInv, Known
  <1> QED
    BY <1>1, RpcInvHolds, ClientIsServedCorrectly, PTL

\* multiplex_bench.cpp and the server of examples/: on a connection that stands,
\* the client's threads and the server's coroutines never all wait for one
\* another.
THEOREM NobodyWaitsInVainEver == RpcSpec => []NobodyWaitsInVain
  <1>1. ASSUME RpcInv, Custody, C!Settled PROVE NobodyWaitsInVain
    BY <1>1, ClientInvKnows, ServerInvKnows, WriterInvWaits, ClientWaits, CustodyServes
       DEF RpcInv, Known, NobodyWaitsInVain
  <1> QED
    BY <1>1, RpcInvHolds, CustodyHolds, PTL
=============================================================================
