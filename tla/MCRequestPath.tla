--------------------------- MODULE MCRequestPath ---------------------------
(* Model-checking instances of RequestPath. *)
EXTENDS RequestPath

\* Two requests and a response: an empty payload, a payload that looks like the
\* start of a header, and a sequence number that tells its four bytes apart.
MCMessages ==
  { [version |-> 1, msg_type |-> 0, seq_id |-> 16909060, payload |-> <<>>],
    [version |-> 1, msg_type |-> 0, seq_id |-> 2, payload |-> <<84, 82>>],
    [version |-> 1, msg_type |-> 1, seq_id |-> 3, payload |-> <<9>>] }

\* One request, for the runs that need no variety.
MCRequest ==
  { [version |-> 1, msg_type |-> 0, seq_id |-> 1, payload |-> <<84, 82>>] }
=============================================================================
