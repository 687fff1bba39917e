-------------------------------- MODULE Rpc --------------------------------
(***************************************************************************)
(* A client and a server together: the pipelining client of                  *)
(* multiplex_bench.cpp (MuxClient) talks over one connection to the handlers, *)
(* the ResponseQueue and the writeLoop of a server thread (ResponsePath).     *)
(* MuxClient takes the server for something that answers every request once,  *)
(* in any order, until the connection breaks; this module puts the server of  *)
(* the repository in its place.                                               *)
(*                                                                            *)
(* requests now holds what is in the socket towards the server and responses  *)
(* what is on its way back; both sides see a broken connection by themselves. *)
(***************************************************************************)
EXTENDS MuxClient, Sequences

CONSTANTS
  Size,     \* Size[s] is the length of the response to request s
  BufSize   \* IoContext::BufSize()

ASSUME RpcAssumption ==
  /\ Size \in [SeqIds -> Nat \ {0}]
  /\ BufSize \in Nat \ {0}

VARIABLES setup, handler, items_, waiter_, closed_, writer, item, ptr, staging, pushed, sent, atClose

Server == INSTANCE ResponsePath WITH Requests <- SeqIds

serverVars == <<setup, handler, items_, waiter_, closed_, writer, item, ptr, staging, pushed, sent, atClose>>
clientVars == <<senderVars, receiverVars, start_flag, pending, in_flight>>
rpcVars == <<vars, serverVars>>

-----------------------------------------------------------------------------

\* The socket hands responses over in the order in which they were sent.
InOrder ==
  responses' # responses =>
    \E n \in 1..Len(pushed) :
      pushed[n] = seq' /\ \A m \in 1..(n - 1) : pushed[m] \notin responses

ClientStep == (Start \/ SenderStep \/ (ReceiverStep /\ InOrder)) /\ UNCHANGED serverVars

\* The read loop gets the oldest request in the socket, also one that was sent
\* before the connection broke.  The client's payload parses, so the handler
\* answers it or goes to sleep.
Arrive ==
  /\ \E r \in requests :
       /\ \A s \in requests : r <= s
       /\ requests' = requests \ {r}
       /\ Server!Dispatch(r)
       /\ handler'[r] = "asleep" \/ pushed' # pushed
  /\ UNCHANGED <<clientVars, responses, broken>>

HandlerWakes == (\E r \in SeqIds : Server!Wake(r)) /\ UNCHANGED vars

\* Mutant: every chunk is taken for a whole response.
DeliveredChunk(w) == IF broken THEN {} ELSE {pushed[item]}

\* The response that w more bytes make whole; lost with the connection.
Delivered(w) ==
  IF ptr + w >= Server!Length(item) /\ ~broken THEN {pushed[item]} ELSE {}

WriteCompletes ==
  /\ \E w \in 1..Len(staging) :
       /\ responses' = responses \cup Delivered(w)
       /\ Server!WriteCompletes(w)
  /\ UNCHANGED <<clientVars, requests, broken>>

WriteFails == broken /\ Server!WriteFails /\ UNCHANGED vars

\* The read loop's read returns 0 or an error: the connection is lost, or the
\* client has closed it after joining its threads.
ReadEnds == (broken \/ BothDone) /\ Server!Close /\ UNCHANGED vars

LoopStep == Arrive \/ HandlerWakes \/ WriteCompletes \/ WriteFails \/ ReadEnds

ConnectionBreaks == Break /\ UNCHANGED serverVars

RpcInit == Init /\ Server!Init

RpcNext == ClientStep \/ LoopStep \/ ConnectionBreaks

RpcSpec == RpcInit /\ [][RpcNext]_rpcVars

\* The client's threads are scheduled; timers fire, the kernel moves bytes and
\* reports a lost connection.
RpcFairSpec ==
  /\ RpcSpec
  /\ WF_rpcVars(Start /\ UNCHANGED serverVars)
  /\ WF_rpcVars(SenderStep /\ UNCHANGED serverVars)
  /\ WF_rpcVars(ReceiverStep /\ InOrder /\ UNCHANGED serverVars)
  /\ WF_rpcVars(Arrive)
  /\ WF_rpcVars(HandlerWakes)
  /\ WF_rpcVars(WriteCompletes \/ WriteFails)
  /\ WF_rpcVars(ReadEnds)

-----------------------------------------------------------------------------
(* Properties. *)

\* Requests that were sent and whose response is neither on its way nor there.
Unanswered ==
  (0..(i - 1)) \ (responses \cup latencies \cup (IF receiver = "match" THEN {seq} ELSE {}))

Client == INSTANCE MuxClient WITH requests <- Unanswered

\* The server of the repository is the server MuxClient assumes: through
\* sleeping handlers, the queue and partial writes every request is answered
\* at most once, under its own seq_id, and nothing else is.
ImplementsMuxClient == Client!Spec

\* response_queue.h:48: nothing in the server bounds the queue, or the number
\* of handlers that sleep.  What bounds them, together with what waits in the
\* socket, is the window of the client.
QueueWithinWindow ==
  Cardinality(requests) + Cardinality({r \in SeqIds : handler[r] = "asleep"}) + Len(items_)
    <= Window

\* A sleeping handler, a write in flight, or a request for an open read loop.
ServerHasWork ==
  \/ requests # {} /\ ~closed_
  \/ \E r \in SeqIds : handler[r] = "asleep"
  \/ writer = "write"

\* Client and server never all wait for one another, whatever the window, the
\* chunks and the handlers that sleep: on a connection that stands, a client
\* whose threads can both not move has a request that the server is working on.
NobodyWaitsInVain ==
  SenderWaits /\ ReceiverWaits /\ ~BothDone /\ ~broken => ServerHasWork

\* multiplex_bench.cpp:151-191: both threads come to their end, whether the
\* connection breaks or not, with one exception: if it breaks while the window
\* is full, the sender stays in its yield loop, which does not look at
\* recv_error.
EndsOrStuckOnFullWindow ==
  <>(BothDone \/ (broken /\ receiver = "done" /\ sender = "spin" /\ in_flight >= Window))
=============================================================================
