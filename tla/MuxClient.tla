----------------------------- MODULE MuxClient -----------------------------
(***************************************************************************)
(* The pipelining client of examples/multiplex_bench.cpp, and of each        *)
(* connection of examples/mt_multiplex_bench.cpp: a sender thread and a      *)
(* receiver thread share one socket, the map pending (under pending_mu), the *)
(* window counter in_flight and the flag recv_error (both atomic).  One      *)
(* action is one access to shared state.                                     *)
(*                                                                           *)
(* The server and the connection are external.  The server answers every     *)
(* request once, in any order (the handlers of coro_echo_async.cpp overlap); *)
(* the connection may break at any time.  A message is its seq_id.           *)
(***************************************************************************)
EXTENDS Integers, FiniteSets

CONSTANTS
  Count,    \* requests to send
  Window    \* the size of the sliding window

ASSUME MuxClientAssumption ==
  /\ Count \in Nat
  /\ Window \in Nat \ {0}

VARIABLES
  sender,      \* where the sender thread is
  i,           \* its loop variable, the next seq_id
  receiver,    \* where the receiver thread is
  handled,     \* the receiver's loop variable: responses dealt with
  seq,         \* the seq_id of the response the receiver holds
  start_flag,  \* start signal (mt_multiplex_bench; set at once in the other)
  pending,     \* keys of the map pending
  in_flight,   \* the atomic counter
  recv_error,  \* the atomic flag
  latencies,   \* the seq_ids whose latency has been recorded
  requests,    \* on their way to the server, being worked on, or lost
  responses,   \* on their way back
  broken       \* the connection is lost

senderVars   == <<sender, i>>
receiverVars == <<receiver, handled, seq, recv_error, latencies>>
netVars      == <<requests, responses, broken>>
vars == <<senderVars, receiverVars, start_flag, pending, in_flight, netVars>>

-----------------------------------------------------------------------------
(* The sender thread. *)

\* main lets all connections begin together.
Start ==
  /\ ~start_flag
  /\ start_flag' = TRUE
  /\ UNCHANGED <<senderVars, receiverVars, pending, in_flight, netVars>>

SeeStart ==
  /\ sender = "wait" /\ start_flag
  /\ sender' = "check"
  /\ UNCHANGED <<i, receiverVars, start_flag, pending, in_flight, netVars>>

\* for (...; i < count && !recv_error.load(); ...)
Check ==
  /\ sender = "check"
  /\ sender' = IF i < Count /\ ~recv_error THEN "spin" ELSE "done"
  /\ UNCHANGED <<i, receiverVars, start_flag, pending, in_flight, netVars>>

\* Mutant: one slot too many.
SpinOffByOne ==
  /\ sender = "spin"
  /\ in_flight <= Window
  /\ sender' = "record"
  /\ UNCHANGED <<i, receiverVars, start_flag, pending, in_flight, netVars>>

\* Mutant: the request leaves before it is recorded.
SpinSendsFirst ==
  /\ sender = "spin"
  /\ in_flight < Window
  /\ requests' = requests \cup {i}
  /\ sender' = "record"
  /\ UNCHANGED <<i, receiverVars, start_flag, pending, in_flight, responses, broken>>

\* The yield loop finds in_flight below the window.
Spin ==
  /\ sender = "spin"
  /\ in_flight < Window
  /\ sender' = "record"
  /\ UNCHANGED <<i, receiverVars, start_flag, pending, in_flight, netVars>>

Record ==
  /\ sender = "record"
  /\ pending' = pending \cup {i}
  /\ sender' = "count"
  /\ UNCHANGED <<i, receiverVars, start_flag, in_flight, netVars>>

CountUp ==
  /\ sender = "count"
  /\ in_flight' = in_flight + 1
  /\ sender' = "send"
  /\ UNCHANGED <<i, receiverVars, start_flag, pending, netVars>>

\* SendAll passes the whole message to the kernel, or throws.  send() may still
\* succeed on a broken connection; nobody will answer the request.
Send ==
  /\ sender = "send"
  /\ \/ /\ requests' = requests \cup {i}
        /\ i' = i + 1
        /\ sender' = "check"
     \/ /\ broken
        /\ sender' = "done"
        /\ UNCHANGED <<i, requests>>
  /\ UNCHANGED <<receiverVars, start_flag, pending, in_flight, responses, broken>>

-----------------------------------------------------------------------------
(* The receiver thread. *)

\* Mutant: a receive error is tried again.
RecvRetries ==
  /\ receiver = "recv" /\ handled < Count
  /\ \E r \in responses :
       /\ seq' = r
       /\ responses' = responses \ {r}
  /\ receiver' = "match"
  /\ UNCHANGED <<senderVars, handled, recv_error, latencies, start_flag, pending, in_flight, requests, broken>>

\* RecvExact for the header and the payload: a response, or an exception.  (The
\* one for a wrong magic number is never thrown: EncodeMessage writes the number
\* the client compares.)
Recv ==
  /\ receiver = "recv" /\ handled < Count
  /\ \/ /\ \E r \in responses :
             /\ seq' = r
             /\ responses' = responses \ {r}
        /\ receiver' = "match"
        /\ UNCHANGED recv_error
     \/ /\ broken
        /\ receiver' = "done"
        /\ recv_error' = TRUE
        /\ UNCHANGED <<seq, responses>>
  /\ UNCHANGED <<senderVars, handled, latencies, start_flag, pending, in_flight, requests, broken>>

\* Look the seq_id up; record the latency and erase the entry if it is there.
Match ==
  /\ receiver = "match"
  /\ pending' = pending \ {seq}
  /\ latencies' = latencies \cup ({seq} \cap pending)
  /\ receiver' = "count"
  /\ UNCHANGED <<senderVars, handled, seq, recv_error, start_flag, in_flight, netVars>>

\* Mutant: the slot is not given back.
CountDownNever ==
  /\ receiver = "count"
  /\ handled' = handled + 1
  /\ receiver' = "recv"
  /\ UNCHANGED <<senderVars, seq, recv_error, latencies, start_flag, pending, in_flight, netVars>>

CountDown ==
  /\ receiver = "count"
  /\ in_flight' = in_flight - 1
  /\ handled' = handled + 1
  /\ receiver' = "recv"
  /\ UNCHANGED <<senderVars, seq, recv_error, latencies, start_flag, pending, netVars>>

\* Mutant: the receiver ends one response early.
RecvDoneEarly ==
  /\ receiver = "recv" /\ handled >= Count - 1
  /\ receiver' = "done"
  /\ UNCHANGED <<senderVars, handled, seq, recv_error, latencies, start_flag, pending, in_flight, netVars>>

RecvDone ==
  /\ receiver = "recv" /\ handled = Count
  /\ receiver' = "done"
  /\ UNCHANGED <<senderVars, handled, seq, recv_error, latencies, start_flag, pending, in_flight, netVars>>

-----------------------------------------------------------------------------
(* The server and the connection (external). *)

Respond(r) ==
  /\ r \in requests /\ ~broken
  /\ requests' = requests \ {r}
  /\ responses' = responses \cup {r}
  /\ UNCHANGED <<senderVars, receiverVars, start_flag, pending, in_flight, broken>>

\* Responses that have arrived can still be read.
Break ==
  /\ ~broken
  /\ broken' = TRUE
  /\ UNCHANGED <<senderVars, receiverVars, start_flag, pending, in_flight, requests, responses>>

-----------------------------------------------------------------------------

Init ==
  /\ sender = "wait" /\ i = 0
  /\ receiver = "recv" /\ handled = 0 /\ seq = 0
  /\ start_flag = FALSE
  /\ pending = {} /\ in_flight = 0 /\ recv_error = FALSE /\ latencies = {}
  /\ requests = {} /\ responses = {} /\ broken = FALSE

SenderStep == SeeStart \/ Check \/ Spin \/ Record \/ CountUp \/ Send

ReceiverStep == Recv \/ Match \/ CountDown \/ RecvDone

ServerStep == \E r \in requests : Respond(r)

Next == Start \/ SenderStep \/ ReceiverStep \/ ServerStep \/ Break

Spec == Init /\ [][Next]_vars

-----------------------------------------------------------------------------
(* Properties. *)

SeqIds == 0..(Count - 1)

TypeOK ==
  /\ sender \in {"wait", "check", "spin", "record", "count", "send", "done"}
  /\ i \in 0..Count
  /\ receiver \in {"recv", "match", "count", "done"}
  /\ handled \in 0..Count
  /\ seq \in 0..Count
  /\ start_flag \in BOOLEAN
  /\ pending \subseteq SeqIds
  /\ in_flight \in Int
  /\ recv_error \in BOOLEAN
  /\ latencies \subseteq SeqIds
  /\ requests \subseteq SeqIds
  /\ responses \subseteq SeqIds
  /\ broken \in BOOLEAN

\* multiplex_bench.cpp:176-177: the time is recorded and the counter incremented
\* "BEFORE sending so the receiver can always find the entry in the pending
\* map".
ResponseFindsEntry == receiver = "match" => seq \in pending

\* The window holds although the two threads count without a common lock: the
\* counter stays within it, and so do the requests that have no answer yet.
WindowHolds ==
  /\ in_flight \in 0..Window
  /\ Cardinality(pending) <= Window

\* A receiver that ends without an error has recorded every request once and
\* left nothing behind.
CompleteWhenDone ==
  receiver = "done" /\ ~recv_error =>
    latencies = SeqIds /\ pending = {} /\ in_flight = 0

\* Both threads have ended; main joins them and closes the socket.
BothDone == sender = "done" /\ receiver = "done"

\* A thread that has no step to take unless another one makes it: the sender's
\* yield loop finds the window full, the receiver's recv() finds nothing.
SenderWaits == sender = "done" \/ (sender = "spin" /\ in_flight >= Window)
ReceiverWaits == receiver = "done" \/ (receiver = "recv" /\ handled < Count /\ responses = {})

\* multiplex_bench.cpp:114-159: the two threads never wait for each other only.
\* When neither can move on a connection that stands, a request is still to be
\* answered.
WaitOnlyForServer == SenderWaits /\ ReceiverWaits /\ ~BothDone /\ ~broken => requests # {}
=============================================================================
