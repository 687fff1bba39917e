---------------------------- MODULE MCResponsePath ----------------------------
(* Model-checking instances of ResponsePath. *)
EXTENDS ResponsePath, TLC
CONSTANTS r1, r2, r3

\* Responses shorter than, as long as and longer than the staging buffer.
MCSize == r1 :> 1 @@ r2 :> 2 @@ r3 :> 5
=============================================================================
