------------------------------- MODULE AsyncIo -------------------------------
(***************************************************************************)
(* What co_await on an I/O operation promises to a coroutine: the operation *)
(* is answered at most once, the coroutine is resumed once per operation,   *)
(* and what it reads in its awaitable is the answer to its own operation.   *)
(* No request pool, no rings, no loop.                                      *)
(***************************************************************************)
CONSTANTS
  Coros,    \* the coroutines
  Answers   \* what an operation can be answered with

VARIABLES
  op,       \* the operation each coroutine awaits
  result    \* the result field of each coroutine's awaitable

Init ==
  /\ op = [c \in Coros |-> "idle"]
  /\ result = [c \in Coros |-> "none"]

\* The coroutine's frame is freed, and its awaitables with it.
End(c) ==
  /\ op[c] = "idle"
  /\ result' = [result EXCEPT ![c] = "none"]
  /\ UNCHANGED op

Request(c) ==
  /\ op[c] = "idle"
  /\ op' = [op EXCEPT ![c] = "pending"]
  /\ UNCHANGED result

Answer(c, res) ==
  /\ op[c] = "pending"
  /\ op' = [op EXCEPT ![c] = res]
  /\ UNCHANGED result

Resume(c) ==
  /\ op[c] \in Answers
  /\ result' = [result EXCEPT ![c] = op[c]]
  /\ op' = [op EXCEPT ![c] = "idle"]

Next ==
  \E c \in Coros :
    \/ End(c)
    \/ Request(c)
    \/ \E res \in Answers : Answer(c, res)
    \/ Resume(c)

Spec == Init /\ [][Next]_<<op, result>>
=============================================================================
