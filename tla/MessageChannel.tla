--------------------------- MODULE MessageChannel ---------------------------
(***************************************************************************)
(* What either direction of a connection promises to those who use it: a    *)
(* channel that hands over the messages that were put in, each one whole,   *)
(* once and in order.  No bytes, no fragments, no buffers.  Rpc relies on   *)
(* two of these; RequestPath and ResponsePath are shown to be one each.     *)
(***************************************************************************)
EXTENDS Sequences, Naturals

CONSTANT Messages

VARIABLES
  sent,      \* the messages put in
  received   \* the messages handed over

Init == sent = <<>> /\ received = <<>>

Send(m) == sent' = Append(sent, m) /\ UNCHANGED received

Receive ==
  /\ Len(received) < Len(sent)
  /\ received' = Append(received, sent[Len(received) + 1])
  /\ UNCHANGED sent

Next == (\E m \in Messages : Send(m)) \/ Receive

Spec == Init /\ [][Next]_<<sent, received>>
=============================================================================
