-------------------------------- MODULE MCRpc --------------------------------
(* Model-checking instance of Rpc. *)
EXTENDS Rpc

\* Responses shorter than, as long as and longer than the staging buffer.
MCSize == [s \in SeqIds |-> s + 1]
=============================================================================
