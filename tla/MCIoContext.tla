----------------------------- MODULE MCIoContext -----------------------------
(* Model-checking instances of IoContext. *)
EXTENDS IoContext, TLC

\* Coroutines of the same kind are interchangeable.
Symmetry == Permutations(Coros \ Acceptors)
=============================================================================
