--------------------------- MODULE MuxClientProofs ---------------------------
(***************************************************************************)
(* Proofs about MuxClient, for any number of requests and any window.        *)
(*                                                                           *)
(* The two threads keep three accounts of the same requests: the map         *)
(* pending, the counter in_flight and what is on the wire.  The invariant    *)
(* says by how much they may differ at each point of the two threads: the    *)
(* counter lags behind the map while the sender stands between its two       *)
(* updates and runs ahead of it while the receiver does; an entry that is    *)
(* not on the wire is the sender's current one.                              *)
(***************************************************************************)
EXTENDS MuxClient, FiniteSetTheorems, TLAPS

-----------------------------------------------------------------------------
(* The inductive invariant. *)

Up == IF sender = "count" THEN 1 ELSE 0
Down == IF receiver = "count" THEN 1 ELSE 0

\* The counter against the map, and what the sender knows of the window.
Counting ==
  /\ in_flight = Cardinality(pending) + Down - Up
  /\ in_flight <= Window
  /\ sender \in {"record", "count"} => in_flight < Window

\* The requests whose answer the receiver has not matched yet.
OnTheWire == requests \cup responses \cup (IF receiver = "match" THEN {seq} ELSE {})

\* The wire against the map.
Wire ==
  /\ requests \cap responses = {}
  /\ receiver = "match" => seq \notin requests \cup responses
  /\ OnTheWire \subseteq 0..(i - 1)
  /\ OnTheWire \subseteq pending
  /\ pending \subseteq OnTheWire \cup {i}
  /\ sender \in {"count", "send"} => i \in pending
  /\ sender \in {"wait", "check", "spin", "record"} => i \notin pending
  /\ sender \in {"spin", "record", "count", "send"} => i < Count

\* The receiver's loop variable counts the latencies recorded.
Latencies ==
  /\ Cardinality(latencies) = handled + Down
  /\ latencies \subseteq 0..(i - 1)
  /\ latencies \cap pending = {}
  /\ receiver \in {"match", "count"} => handled < Count
  /\ receiver = "done" /\ ~recv_error => handled = Count

Inv == TypeOK /\ Counting /\ Wire /\ Latencies

-----------------------------------------------------------------------------

\* There are as many sequence numbers as requests.
LEMMA SeqIdsFinite == IsFiniteSet(SeqIds) /\ Cardinality(SeqIds) = Count
  <1>1. Count \in Nat /\ 0 \in Int /\ Count - 1 \in Int
    BY MuxClientAssumption
  <1>2. /\ IsFiniteSet(0..(Count - 1))
        /\ Cardinality(0..(Count - 1)) = IF 0 > Count - 1 THEN 0 ELSE (Count - 1) - 0 + 1
    BY <1>1, FS_Interval
  <1> QED
    BY <1>1, <1>2 DEF SeqIds

LEMMA Finite ==
  ASSUME TypeOK
  PROVE  /\ IsFiniteSet(pending) /\ Cardinality(pending) \in Nat
         /\ IsFiniteSet(latencies) /\ Cardinality(latencies) \in Nat
         /\ i \in Nat /\ handled \in Nat /\ in_flight \in Int /\ seq \in Nat
         /\ Count \in Nat /\ Window \in Nat
  <1>1. pending \in SUBSET SeqIds /\ latencies \in SUBSET SeqIds
    BY DEF TypeOK
  <1>2. IsFiniteSet(pending) /\ IsFiniteSet(latencies)
    BY <1>1, SeqIdsFinite, FS_Subset
  <1>3. Cardinality(pending) \in Nat /\ Cardinality(latencies) \in Nat
    BY <1>2, FS_CardinalityType
  <1> QED
    BY <1>2, <1>3, MuxClientAssumption DEF TypeOK

LEMMA InitInv ==
  ASSUME Init
  PROVE  Inv
  <1>1. TypeOK
    <2>1. i \in 0..Count /\ handled \in 0..Count /\ seq \in 0..Count /\ in_flight \in Int
      BY MuxClientAssumption DEF Init
    <2>2. start_flag \in BOOLEAN /\ recv_error \in BOOLEAN /\ broken \in BOOLEAN
      BY DEF Init
    <2> QED
      BY <2>1, <2>2 DEF Init, TypeOK
  <1>2. Counting
    BY FS_EmptySet, MuxClientAssumption DEF Init, Counting, Up, Down
  <1>3. Wire
    BY DEF Init, Wire, OnTheWire
  <1>4. Latencies
    BY FS_EmptySet DEF Init, Latencies, Down
  <1> QED
    BY <1>1, <1>2, <1>3, <1>4 DEF Inv

\* Steps that only move the sender on, the start signal, a break, stuttering.
LEMMA SenderMovesInv ==
  ASSUME Inv, Start \/ SeeStart \/ Check \/ Spin \/ Break \/ UNCHANGED vars
  PROVE  Inv'
  <1>1. /\ i' = i /\ receiver' = receiver /\ handled' = handled /\ seq' = seq
        /\ recv_error' = recv_error /\ latencies' = latencies /\ pending' = pending
        /\ in_flight' = in_flight /\ requests' = requests /\ responses' = responses
    BY DEF Start, SeeStart, Check, Spin, Break, vars, senderVars, receiverVars, netVars
  <1>2. \/ sender' = sender
        \/ sender \in {"wait", "check", "spin"} /\ sender' \in {"check", "done"}
        \/ sender = "check" /\ sender' = "spin" /\ i < Count
        \/ sender = "spin" /\ sender' = "record" /\ in_flight < Window
    BY DEF Start, SeeStart, Check, Spin, Break, vars, senderVars
  <1>3. start_flag' \in BOOLEAN /\ broken' \in BOOLEAN
    BY DEF Start, SeeStart, Check, Spin, Break, vars, senderVars, netVars, Inv, TypeOK
  <1>4. TypeOK'
    BY <1>1, <1>2, <1>3 DEF Inv, TypeOK
  <1>5. Counting'
    BY <1>1, <1>2 DEF Inv, Counting, Up, Down
  <1>6. OnTheWire' = OnTheWire
    BY <1>1 DEF OnTheWire
  <1>7. Wire'
    BY <1>1, <1>2, <1>6 DEF Inv, Wire
  <1>8. Latencies'
    BY <1>1 DEF Inv, Latencies, Down
  <1> QED
    BY <1>4, <1>5, <1>7, <1>8 DEF Inv

\* The sender enters its request in the map.
LEMMA RecordInv ==
  ASSUME Inv, Record
  PROVE  Inv'
  <1>1. /\ sender = "record" /\ sender' = "count" /\ pending' = pending \cup {i}
        /\ i' = i /\ receiver' = receiver /\ handled' = handled /\ seq' = seq
        /\ recv_error' = recv_error /\ latencies' = latencies /\ start_flag' = start_flag
        /\ in_flight' = in_flight /\ requests' = requests /\ responses' = responses
        /\ broken' = broken
    BY DEF Record, receiverVars, netVars
  <1>2. i \notin pending /\ i < Count /\ i \in SeqIds
    BY Finite, <1>1 DEF Inv, Wire, SeqIds
  <1>3. Cardinality(pending') = Cardinality(pending) + 1
    BY Finite, <1>1, <1>2, FS_AddElement DEF Inv
  <1>4. TypeOK'
    BY <1>1, <1>2 DEF Inv, TypeOK
  <1>5. Counting'
    BY Finite, <1>1, <1>3 DEF Inv, Counting, Up, Down
  <1>6. OnTheWire' = OnTheWire
    BY <1>1 DEF OnTheWire
  <1>7. Wire'
    BY <1>1, <1>2, <1>6 DEF Inv, Wire
  <1>8. i \notin latencies
    BY Finite DEF Inv, Latencies
  <1>9. Latencies'
    BY <1>1, <1>8 DEF Inv, Latencies, Down
  <1> QED
    BY <1>4, <1>5, <1>7, <1>9 DEF Inv

\* The sender counts its request.
LEMMA CountUpInv ==
  ASSUME Inv, CountUp
  PROVE  Inv'
  <1>1. /\ sender = "count" /\ sender' = "send" /\ in_flight' = in_flight + 1
        /\ i' = i /\ receiver' = receiver /\ handled' = handled /\ seq' = seq
        /\ recv_error' = recv_error /\ latencies' = latencies /\ start_flag' = start_flag
        /\ pending' = pending /\ requests' = requests /\ responses' = responses
        /\ broken' = broken
    BY DEF CountUp, receiverVars, netVars
  <1>2. TypeOK'
    BY <1>1 DEF Inv, TypeOK
  <1>3. Counting'
    BY Finite, <1>1 DEF Inv, Counting, Up, Down
  <1>4. OnTheWire' = OnTheWire
    BY <1>1 DEF OnTheWire
  <1>5. Wire'
    BY <1>1, <1>4 DEF Inv, Wire
  <1>6. Latencies'
    BY <1>1 DEF Inv, Latencies, Down
  <1> QED
    BY <1>2, <1>3, <1>5, <1>6 DEF Inv

\* The request goes out, or the sender gives up.
LEMMA SendInv ==
  ASSUME Inv, Send
  PROVE  Inv'
  <1>1. /\ sender = "send"
        /\ receiver' = receiver /\ handled' = handled /\ seq' = seq
        /\ recv_error' = recv_error /\ latencies' = latencies /\ start_flag' = start_flag
        /\ pending' = pending /\ in_flight' = in_flight /\ responses' = responses
        /\ broken' = broken
    BY DEF Send, receiverVars
  <1>2. CASE sender' = "done" /\ i' = i /\ requests' = requests
    <2>1. TypeOK'
      BY <1>1, <1>2 DEF Inv, TypeOK
    <2>2. Counting'
      BY <1>1, <1>2 DEF Inv, Counting, Up, Down
    <2>3. OnTheWire' = OnTheWire
      BY <1>1, <1>2 DEF OnTheWire
    <2>4. Wire'
      BY <1>1, <1>2, <2>3 DEF Inv, Wire
    <2>5. Latencies'
      BY <1>1, <1>2 DEF Inv, Latencies, Down
    <2> QED
      BY <2>1, <2>2, <2>4, <2>5 DEF Inv
  <1>3. CASE sender' = "check" /\ i' = i + 1 /\ requests' = requests \cup {i}
    <2>1. i \in pending /\ i < Count /\ i \in SeqIds
      BY Finite, <1>1 DEF Inv, Wire, SeqIds
    <2>2. TypeOK'
      <3>1. i' \in 0..Count
        BY Finite, <1>3, <2>1 DEF Inv
      <3> QED
        BY <1>1, <1>3, <2>1, <3>1 DEF Inv, TypeOK
    <2>3. Counting'
      BY <1>1, <1>3 DEF Inv, Counting, Up, Down
    <2>4. OnTheWire' = OnTheWire \cup {i} /\ i \notin OnTheWire
      BY Finite, <1>1, <1>3 DEF OnTheWire, Inv, Wire
    <2>5. 0..(i' - 1) = 0..(i - 1) \cup {i} /\ i' \notin 0..(i - 1) \cup {i}
      BY Finite, <1>3 DEF Inv
    <2>6. Wire'
      <3>1. requests' \cap responses' = {}
        BY <1>1, <1>3, <2>4 DEF Inv, Wire, OnTheWire
      <3>2. receiver' = "match" => seq' \notin requests' \cup responses'
        BY <1>1, <1>3, <2>4 DEF Inv, Wire, OnTheWire
      <3>3. OnTheWire' \subseteq 0..(i' - 1) /\ OnTheWire' \subseteq pending'
        BY <1>1, <2>1, <2>4, <2>5 DEF Inv, Wire
      <3>4. pending' \subseteq OnTheWire'
        BY <1>1, <2>4 DEF Inv, Wire
      <3>5. i' \notin pending'
        BY <2>5, <3>3, <3>4
      <3> QED
        BY <1>3, <3>1, <3>2, <3>3, <3>4, <3>5 DEF Wire
    <2>7. Latencies'
      BY <1>1, <2>5 DEF Inv, Latencies, Down
    <2> QED
      BY <2>2, <2>3, <2>6, <2>7 DEF Inv
  <1> QED
    BY <1>2, <1>3 DEF Send

\* A response comes in, or the receiver gives up.
LEMMA RecvInv ==
  ASSUME Inv, Recv
  PROVE  Inv'
  <1>1. /\ receiver = "recv" /\ handled < Count
        /\ sender' = sender /\ i' = i /\ handled' = handled
        /\ latencies' = latencies /\ start_flag' = start_flag
        /\ pending' = pending /\ in_flight' = in_flight /\ requests' = requests
        /\ broken' = broken
    BY DEF Recv, senderVars
  <1>2. CASE receiver' = "done" /\ recv_error' = TRUE /\ seq' = seq /\ responses' = responses
    <2>1. TypeOK'
      BY <1>1, <1>2 DEF Inv, TypeOK
    <2>2. Counting'
      BY <1>1, <1>2 DEF Inv, Counting, Up, Down
    <2>3. OnTheWire' = OnTheWire
      BY <1>1, <1>2 DEF OnTheWire
    <2>4. Wire'
      BY <1>1, <1>2, <2>3 DEF Inv, Wire
    <2>5. Latencies'
      BY <1>1, <1>2 DEF Inv, Latencies, Down
    <2> QED
      BY <2>1, <2>2, <2>4, <2>5 DEF Inv
  <1>3. ASSUME NEW r \in responses, seq' = r, responses' = responses \ {r},
               receiver' = "match", recv_error' = recv_error
        PROVE  Inv'
    <2>1. TypeOK'
      <3>1. seq' \in 0..Count
        BY Finite, <1>3 DEF Inv, TypeOK, SeqIds
      <3> QED
        BY <1>1, <1>3, <3>1 DEF Inv, TypeOK
    <2>2. Counting'
      BY <1>1, <1>3 DEF Inv, Counting, Up, Down
    <2>3. OnTheWire' = OnTheWire
      BY <1>1, <1>3 DEF OnTheWire
    <2>4. Wire'
      BY <1>1, <1>3, <2>3 DEF Inv, Wire
    <2>5. Latencies'
      BY <1>1, <1>3 DEF Inv, Latencies, Down
    <2> QED
      BY <2>1, <2>2, <2>4, <2>5 DEF Inv
  <1> QED
    BY <1>2, <1>3 DEF Recv

\* The receiver takes the entry out of the map and records its latency.
LEMMA MatchInv ==
  ASSUME Inv, Match
  PROVE  Inv'
  <1>1. /\ receiver = "match" /\ receiver' = "count"
        /\ pending' = pending \ {seq} /\ latencies' = latencies \cup ({seq} \cap pending)
        /\ sender' = sender /\ i' = i /\ handled' = handled /\ seq' = seq
        /\ recv_error' = recv_error /\ start_flag' = start_flag
        /\ in_flight' = in_flight /\ requests' = requests /\ responses' = responses
        /\ broken' = broken
    BY DEF Match, senderVars, netVars
  <1>2. seq \in pending /\ seq \in 0..(i - 1) /\ seq # i /\ seq \notin latencies
    BY Finite, <1>1 DEF Inv, Wire, Latencies, OnTheWire
  <1>3. latencies' = latencies \cup {seq}
    BY <1>1, <1>2
  <1>4. /\ Cardinality(pending') = Cardinality(pending) - 1
        /\ Cardinality(latencies') = Cardinality(latencies) + 1
    <2>1. Cardinality(pending \ {seq}) = Cardinality(pending) - 1
      BY Finite, <1>2, FS_RemoveElement DEF Inv
    <2>2. Cardinality(latencies \cup {seq}) = Cardinality(latencies) + 1
      BY Finite, <1>2, FS_AddElement DEF Inv
    <2> QED
      BY <1>1, <1>3, <2>1, <2>2
  <1>5. TypeOK'
    BY <1>1, <1>2, <1>3 DEF Inv, TypeOK
  <1>6. Counting'
    BY Finite, <1>1, <1>4 DEF Inv, Counting, Up, Down
  <1>7. OnTheWire' = OnTheWire \ {seq}
    BY <1>1 DEF OnTheWire, Inv, Wire
  <1>8. Wire'
    BY <1>1, <1>2, <1>7 DEF Inv, Wire
  <1>9. Latencies'
    BY Finite, <1>1, <1>2, <1>3, <1>4 DEF Inv, Latencies, Down
  <1> QED
    BY <1>5, <1>6, <1>8, <1>9 DEF Inv

\* The receiver frees the slot.
LEMMA CountDownInv ==
  ASSUME Inv, CountDown
  PROVE  Inv'
  <1>1. /\ receiver = "count" /\ receiver' = "recv"
        /\ in_flight' = in_flight - 1 /\ handled' = handled + 1
        /\ sender' = sender /\ i' = i /\ seq' = seq /\ latencies' = latencies
        /\ recv_error' = recv_error /\ start_flag' = start_flag
        /\ pending' = pending /\ requests' = requests /\ responses' = responses
        /\ broken' = broken
    BY DEF CountDown, senderVars, netVars
  <1>2. handled < Count
    BY <1>1 DEF Inv, Latencies
  <1>3. TypeOK'
    <2>1. handled' \in 0..Count /\ in_flight' \in Int
      BY Finite, <1>1, <1>2 DEF Inv
    <2> QED
      BY <1>1, <2>1 DEF Inv, TypeOK
  <1>4. Counting'
    BY Finite, <1>1 DEF Inv, Counting, Up, Down
  <1>5. OnTheWire' = OnTheWire
    BY <1>1 DEF OnTheWire
  <1>6. Wire'
    BY <1>1, <1>5 DEF Inv, Wire
  <1>7. Latencies'
    BY Finite, <1>1 DEF Inv, Latencies, Down
  <1> QED
    BY <1>3, <1>4, <1>6, <1>7 DEF Inv

\* The receiver has dealt with all responses.
LEMMA RecvDoneInv ==
  ASSUME Inv, RecvDone
  PROVE  Inv'
  <1>1. /\ receiver = "recv" /\ handled = Count /\ receiver' = "done"
        /\ sender' = sender /\ i' = i /\ handled' = handled /\ seq' = seq
        /\ latencies' = latencies /\ recv_error' = recv_error /\ start_flag' = start_flag
        /\ pending' = pending /\ in_flight' = in_flight
        /\ requests' = requests /\ responses' = responses /\ broken' = broken
    BY DEF RecvDone, senderVars, netVars
  <1>2. TypeOK' /\ Counting'
    BY <1>1 DEF Inv, TypeOK, Counting, Up, Down
  <1>3. OnTheWire' = OnTheWire
    BY <1>1 DEF OnTheWire
  <1>4. Wire' /\ Latencies'
    BY <1>1, <1>3 DEF Inv, Wire, Latencies, Down
  <1> QED
    BY <1>2, <1>4 DEF Inv

\* The server answers.
LEMMA RespondInv ==
  ASSUME Inv, NEW r \in requests, Respond(r)
  PROVE  Inv'
  <1>1. /\ requests' = requests \ {r} /\ responses' = responses \cup {r}
        /\ sender' = sender /\ i' = i /\ receiver' = receiver /\ handled' = handled
        /\ seq' = seq /\ latencies' = latencies /\ recv_error' = recv_error
        /\ start_flag' = start_flag /\ pending' = pending /\ in_flight' = in_flight
        /\ broken' = broken
    BY DEF Respond, senderVars, receiverVars
  <1>2. TypeOK'
    BY <1>1 DEF Inv, TypeOK
  <1>3. Counting' /\ Latencies'
    BY <1>1 DEF Inv, Counting, Latencies, Up, Down
  <1>4. OnTheWire' = OnTheWire
    BY <1>1 DEF OnTheWire
  <1>5. Wire'
    BY <1>1, <1>4 DEF Inv, Wire
  <1> QED
    BY <1>2, <1>3, <1>5 DEF Inv

LEMMA NextInv ==
  ASSUME Inv, [Next]_vars
  PROVE  Inv'
  BY SenderMovesInv, RecordInv, CountUpInv, SendInv, RecvInv, MatchInv, CountDownInv,
     RecvDoneInv, RespondInv DEF Next, SenderStep, ReceiverStep, ServerStep

LEMMA InvHolds == Spec => []Inv
  BY InitInv, NextInv, PTL DEF Spec

-----------------------------------------------------------------------------
(* The theorems. *)

\* What the variables hold, TypeOK, for any number of requests and any window.
THEOREM TypeCorrect == Spec => []TypeOK
  <1>1. Inv => TypeOK
    BY DEF Inv
  <1> QED
    BY <1>1, InvHolds, PTL

\* The response the receiver holds always has an entry in the map, because the
\* sender makes the entry before it sends.
THEOREM EveryResponseFindsItsEntry == Spec => []ResponseFindsEntry
  <1>1. Inv => ResponseFindsEntry
    BY DEF Inv, Wire, OnTheWire, ResponseFindsEntry
  <1> QED
    BY <1>1, InvHolds, PTL

\* Neither in_flight nor the map outgrows the window, whatever the order in
\* which the threads update them.
THEOREM WindowIsNeverExceeded == Spec => []WindowHolds
  <1>1. Inv => WindowHolds
    <2> SUFFICES ASSUME Inv PROVE WindowHolds
      OBVIOUS
    <2>1. sender = "count" => Cardinality(pending) > 0
      <3>1. sender = "count" => pending # {}
        BY DEF Inv, Wire
      <3>2. pending # {} => Cardinality(pending) # 0
        BY Finite, FS_EmptySet DEF Inv
      <3> QED
        BY Finite, <3>1, <3>2 DEF Inv
    <2> QED
      BY Finite, <2>1 DEF Inv, Counting, Up, Down, WindowHolds
  <1> QED
    BY <1>1, InvHolds, PTL

\* A receiver that ends its loop has matched every request, and the accounts
\* are empty.
THEOREM CompletedRunIsComplete == Spec => []CompleteWhenDone
  <1>1. Inv => CompleteWhenDone
    <2> SUFFICES ASSUME Inv, receiver = "done", ~recv_error
                 PROVE  latencies = SeqIds /\ pending = {} /\ in_flight = 0
      BY DEF CompleteWhenDone
    <2>1. Cardinality(latencies) = Count /\ latencies \in SUBSET SeqIds
      BY Finite DEF Inv, Latencies, Down, TypeOK
    <2>2. latencies = SeqIds
      BY <2>1, SeqIdsFinite, FS_Subset
    <2>3. pending = {}
      BY <2>2 DEF Inv, Latencies, TypeOK
    <2>4. sender # "count" /\ Cardinality(pending) = 0
      BY <2>3, FS_EmptySet DEF Inv, Wire
    <2> QED
      BY <2>2, <2>3, <2>4 DEF Inv, Counting, Up, Down
  <1> QED
    BY <1>1, InvHolds, PTL

-----------------------------------------------------------------------------
(* Who waits for whom. *)

\* Why a thread ended, and where the requests that were sent have got to.
Settled ==
  /\ recv_error => broken
  /\ sender = "done" => i = Count \/ broken
  /\ 0..(i - 1) \subseteq OnTheWire \cup latencies

LEMMA InitSettled ==
  ASSUME Init
  PROVE  Settled
  BY DEF Init, Settled

LEMMA NextSettled ==
  ASSUME Inv, Settled, [Next]_vars
  PROVE  Settled'
  <1>1. CASE Start \/ SeeStart \/ Check \/ Spin \/ Record \/ CountUp \/ Break \/ UNCHANGED vars
    <2>1. /\ i' = i /\ receiver' = receiver /\ seq' = seq /\ recv_error' = recv_error
          /\ latencies' = latencies /\ requests' = requests /\ responses' = responses
      BY <1>1, Zenon DEF Start, SeeStart, Check, Spin, Record, CountUp, Break,
                         vars, senderVars, receiverVars, netVars
    <2>2. broken => broken'
      BY <1>1, Zenon DEF Start, SeeStart, Check, Spin, Record, CountUp, Break, vars, netVars
    <2>3. sender' = "done" => sender = "done" \/ (sender = "check" /\ ~(i < Count /\ ~recv_error))
      BY <1>1 DEF Start, SeeStart, Check, Spin, Record, CountUp, Break, vars, senderVars
    <2>4. OnTheWire' = OnTheWire
      BY <2>1, Zenon DEF OnTheWire
    <2>5. i \in 0..Count /\ Count \in Nat
      BY MuxClientAssumption DEF Inv, TypeOK
    <2>6. sender' = "done" => i' = Count \/ broken'
      BY <2>1, <2>2, <2>3, <2>5 DEF Settled
    <2> QED
      BY <2>1, <2>2, <2>4, <2>6 DEF Settled
  <1>2. CASE Send
    <2>1. /\ receiver' = receiver /\ seq' = seq /\ recv_error' = recv_error /\ broken' = broken
          /\ latencies' = latencies /\ responses' = responses
          /\ \/ requests' = requests \cup {i} /\ i' = i + 1 /\ sender' = "check"
             \/ requests' = requests /\ i' = i /\ broken
      BY <1>2, Zenon DEF Send, receiverVars
    <2>2. i \in Nat
      BY DEF Inv, TypeOK
    <2>3. CASE requests' = requests \cup {i} /\ i' = i + 1 /\ sender' = "check"
      <3>1. OnTheWire' = OnTheWire \cup {i}
        BY <2>1, <2>3 DEF OnTheWire
      <3>2. 0..(i' - 1) = (0..(i - 1)) \cup {i}
        BY <2>2, <2>3
      <3> QED
        BY <2>1, <2>3, <3>1, <3>2 DEF Settled
    <2>4. CASE requests' = requests /\ i' = i /\ broken
      <3>1. OnTheWire' = OnTheWire
        BY <2>1, <2>4, Zenon DEF OnTheWire
      <3> QED
        BY <2>1, <2>4, <3>1 DEF Settled
    <2> QED
      BY <2>1, <2>3, <2>4
  <1>3. CASE Recv
    <2>1. /\ sender' = sender /\ i' = i /\ latencies' = latencies /\ requests' = requests
          /\ broken' = broken /\ receiver = "recv"
      BY <1>3, Zenon DEF Recv, senderVars
    <2>2. recv_error' => broken
      BY <1>3 DEF Recv, Settled
    <2>3. OnTheWire' = OnTheWire
      <3>1. \/ /\ responses = responses' \cup {seq'} /\ receiver' = "match"
            \/ responses' = responses /\ receiver' = "done"
        BY <1>3 DEF Recv
      <3> QED
        BY <2>1, <3>1 DEF OnTheWire
    <2> QED
      BY <2>1, <2>2, <2>3 DEF Settled
  <1>4. CASE Match
    <2>1. /\ sender' = sender /\ i' = i /\ requests' = requests /\ responses' = responses
          /\ broken' = broken /\ recv_error' = recv_error /\ receiver = "match" /\ receiver' = "count"
          /\ latencies' = latencies \cup ({seq} \cap pending)
      BY <1>4, Zenon DEF Match, senderVars, netVars
    <2>2. seq \in pending
      BY <2>1 DEF Inv, Wire, OnTheWire
    <2>3. OnTheWire \cup latencies = OnTheWire' \cup latencies'
      BY <2>1, <2>2 DEF OnTheWire
    <2> QED
      BY <2>1, <2>3 DEF Settled
  <1>5. CASE CountDown \/ RecvDone
    <2>1. /\ sender' = sender /\ i' = i /\ requests' = requests /\ responses' = responses
          /\ broken' = broken /\ recv_error' = recv_error /\ latencies' = latencies
          /\ receiver # "match" /\ receiver' # "match"
      BY <1>5 DEF CountDown, RecvDone, senderVars, netVars
    <2>2. OnTheWire' = OnTheWire
      BY <2>1 DEF OnTheWire
    <2> QED
      BY <2>1, <2>2 DEF Settled
  <1>6. ASSUME NEW r \in requests, Respond(r) PROVE Settled'
    <2>1. /\ requests' = requests \ {r} /\ responses' = responses \cup {r}
          /\ sender' = sender /\ i' = i /\ receiver' = receiver /\ seq' = seq
          /\ latencies' = latencies /\ recv_error' = recv_error /\ broken' = broken
      BY <1>6, Zenon DEF Respond, senderVars, receiverVars
    <2>2. OnTheWire' = OnTheWire
      BY <2>1 DEF OnTheWire
    <2> QED
      BY <2>1, <2>2 DEF Settled
  <1> QED
    BY <1>1, <1>2, <1>3, <1>4, <1>5, <1>6, Zenon DEF Next, SenderStep, ReceiverStep, ServerStep

\* Counting what the two threads have seen: if neither can move, an answer is due.
LEMMA SettledWaits ==
  ASSUME Inv, Settled
  PROVE  WaitOnlyForServer
  <1> SUFFICES ASSUME SenderWaits, ReceiverWaits, ~BothDone, ~broken, requests = {}
               PROVE  FALSE
    BY DEF WaitOnlyForServer
  <1>1. i \in Nat /\ i <= Count /\ Count \in Nat /\ Window \in Nat \ {0} /\ handled \in Nat
    BY MuxClientAssumption DEF Inv, TypeOK
  <1>2. CASE receiver = "done"
    <2>1. ~recv_error
      BY DEF Settled
    <2>2. Cardinality(latencies) = Count /\ latencies \in SUBSET SeqIds
      BY Finite, <1>2, <2>1 DEF Inv, Latencies, Down, TypeOK
    <2>3. latencies = SeqIds
      BY <2>2, SeqIdsFinite, FS_Subset
    <2>4. pending = {}
      BY <2>3 DEF Inv, Latencies, TypeOK
    <2>5. in_flight <= 0
      BY <1>2, <2>4, FS_EmptySet DEF Inv, Counting, Up, Down
    <2>6. in_flight \in Int
      BY DEF Inv, TypeOK
    <2> QED
      BY <1>1, <1>2, <2>5, <2>6 DEF SenderWaits, BothDone
  <1>3. CASE receiver = "recv" /\ handled < Count /\ responses = {}
    <2>1. OnTheWire = {}
      BY <1>3 DEF OnTheWire
    <2>2. CASE sender = "done"
      <3>1. i = Count
        BY <2>2 DEF Settled
      <3>2. latencies = SeqIds
        BY <2>1, <3>1 DEF Settled, SeqIds, Inv, TypeOK
      <3>3. Cardinality(latencies) = handled
        BY Finite, <1>3 DEF Inv, Latencies, Down
      <3> QED
        BY <1>1, <1>3, <3>2, <3>3, SeqIdsFinite
    <2>3. CASE sender = "spin" /\ in_flight >= Window
      <3>1. pending = {}
        BY <2>1, <2>3 DEF Inv, Wire
      <3>2. in_flight = 0
        BY <1>3, <2>3, <3>1, FS_EmptySet DEF Inv, Counting, Up, Down
      <3> QED
        BY <1>1, <2>3, <3>2
    <2> QED
      BY <2>2, <2>3 DEF SenderWaits
  <1> QED
    BY <1>2, <1>3 DEF ReceiverWaits

\* For any number of requests and any window: when the sender finds the window
\* full or has ended, and the receiver finds nothing to read, the server still
\* owes an answer.  So the only thing that can hold both threads up for ever is
\* a server that does not answer, or a lost connection.
THEOREM ThreadsWaitForServer == Spec => []WaitOnlyForServer
  BY InitInv, NextInv, InitSettled, NextSettled, SettledWaits, PTL DEF Spec
=============================================================================
