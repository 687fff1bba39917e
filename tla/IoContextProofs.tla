--------------------------- MODULE IoContextProofs ---------------------------
(***************************************************************************)
(* Proofs about IoContext, for any finite set of coroutines and any size of  *)
(* the ring.  TypeOK, RequestAccounting and NoStrayResume are inductive only *)
(* together: a completion is typed because its request is live, it is live   *)
(* because the free list and the ring never share a request, and the frame   *)
(* it resumes is suspended because each live request has its own coroutine.  *)
(***************************************************************************)
EXTENDS IoContext, FiniteSetTheorems, SequenceTheorems, TLAPS

Inv == TypeOK /\ RequestAccounting /\ NoStrayResume

\* The cancellation, the one SQE without a RequestData, is prepared once, when
\* the drain begins (BeginDrain needs it: sq and kern share nothing).
CancelOnce ==
  /\ pc = "exit" => ~draining
  /\ ~draining => NoData \notin sq /\ NoData \notin kern

-----------------------------------------------------------------------------
(* Facts about the state. *)

\* How many addresses there are.
LEMMA IntervalCardinality ==
  ASSUME NEW n \in Nat
  PROVE  Cardinality(1..n) = n
  BY FS_Interval

\* The live requests are among the finitely many that were allocated.
LEMMA LiveAddresses ==
  ASSUME TypeOK
  PROVE  /\ Live \subseteq Addresses
         /\ IsFiniteSet(Addresses)
         /\ IsFiniteSet(Live)
         /\ NoData \notin Addresses
  <1>1. Len(reqs) \in Nat
    BY DEF TypeOK
  <1>a. \A k \in Unhandled : cq[k].user_data \in Addresses \cup {NoData}
    <2> DEFINE Cqe == [user_data : Addresses \cup {NoData}, res : Answers]
    <2>1. cq \in Seq(Cqe) /\ count \in 0..Len(cq)
      BY DEF TypeOK
    <2>2. Unhandled \subseteq 1..Len(cq)
      BY <2>1 DEF Unhandled
    <2>3. \A k \in Unhandled : cq[k] \in Cqe
      BY <2>1, <2>2, ElementOfSeq
    <2> QED
      BY <2>3
  <1>2. Live \subseteq Addresses
    BY <1>a DEF TypeOK, Live, Completed
  <1>3. IsFiniteSet(Addresses)
    BY <1>1, FS_Interval DEF Addresses
  <1>4. IsFiniteSet(Live)
    BY <1>2, <1>3, FS_Subset
  <1>5. NoData \notin Addresses
    BY <1>1 DEF Addresses, NoData
  <1> QED
    BY <1>2, <1>3, <1>4, <1>5

\* Init: no coroutine runs, nothing is allocated.
LEMMA InitInv == Init => Inv
  <1> SUFFICES ASSUME Init PROVE Inv
    OBVIOUS
  <1>1. TypeOK
    <2>1. cq \in Seq([user_data : Addresses \cup {NoData}, res : Answers])
      BY EmptySeq DEF Init
    <2>2. pool \in Seq(Addresses) /\ reqs \in Seq(Request) /\ stack \in Seq(Coros)
      BY EmptySeq DEF Init
    <2>3. count \in 0..Len(cq)
      BY DEF Init
    <2>4. coro \in [Coros -> CoroStates] /\ result \in [Coros -> Results]
      BY DEF Init, CoroStates, Results
    <2>5. /\ pc \in PCs /\ in_flight_ \in Int
          /\ sq \subseteq Addresses \cup {NoData} /\ kern \subseteq Addresses \cup {NoData}
          /\ cancelled \subseteq kern
      BY DEF Init, PCs
    <2>6. running_ \in BOOLEAN /\ draining \in BOOLEAN /\ submitted \in BOOLEAN
      BY DEF Init
    <2> QED
      BY <2>1, <2>2, <2>3, <2>4, <2>5, <2>6 DEF TypeOK
  <1>2. Unhandled = {} /\ Live = {} /\ Addresses = {}
    BY DEF Init, Unhandled, Live, Completed, Addresses
  <1>3. RequestAccounting
    BY <1>2, FS_EmptySet DEF Init, RequestAccounting, Completed
  <1>4. NoStrayResume
    BY <1>2 DEF Init, NoStrayResume, StackOk
  <1> QED
    BY <1>1, <1>3, <1>4 DEF Inv

\* A step that leaves requests, rings and coroutines alone keeps Inv if it
\* keeps the loop's variables typed.
LEMMA FrameInv ==
  ASSUME Inv,
         UNCHANGED <<reqVars, sq, kern, cancelled, cq, count, coroVars>>,
         running_' \in BOOLEAN, pc' \in PCs, draining' \in BOOLEAN, submitted' \in BOOLEAN
  PROVE  Inv'
  <1>1. TypeOK'
    BY DEF Inv, TypeOK, Addresses, reqVars, coroVars
  <1>2. Unhandled' = Unhandled /\ Completed' = Completed /\ Live' = Live /\ Addresses' = Addresses
    BY DEF Unhandled, Completed, Live, Addresses, reqVars
  <1>3. RequestAccounting'
    BY <1>2 DEF Inv, RequestAccounting, reqVars
  <1>4. NoStrayResume'
    BY <1>2 DEF Inv, NoStrayResume, StackOk, reqVars, coroVars
  <1> QED
    BY <1>1, <1>3, <1>4 DEF Inv

\* The same for a step that moves requests through the rings without adding or
\* removing any.
LEMMA RingInv ==
  ASSUME Inv, TypeOK',
         UNCHANGED <<reqVars, coroVars>>,
         Live' = Live,
         (sq \cap kern = {})',
         ((sq \cup kern) \cap Completed = {})',
         (\A i, j \in Unhandled :
            cq[i].user_data # NoData /\ cq[i].user_data = cq[j].user_data => i = j)'
  PROVE  Inv'
  <1>1. Addresses' = Addresses
    BY DEF Addresses, reqVars
  <1>2. RequestAccounting'
    BY <1>1 DEF Inv, RequestAccounting, reqVars
  <1>3. NoStrayResume'
    BY DEF Inv, NoStrayResume, StackOk, reqVars, coroVars
  <1> QED
    BY <1>2, <1>3 DEF Inv

\* The same for a step of the coroutines in which none is suspended or resumed.
LEMMA CoroInv ==
  ASSUME Inv,
         UNCHANGED <<loopVars, reqVars, sq, kernVars>>,
         stack' \in Seq(Coros),
         coro' \in [Coros -> CoroStates],
         result' \in [Coros -> Results],
         \A c \in Coros : coro'[c] = "suspended" <=> coro[c] = "suspended",
         StackOk'
  PROVE  Inv'
  <1>1. TypeOK'
    BY DEF Inv, TypeOK, Addresses, loopVars, reqVars, kernVars
  <1>2. Unhandled' = Unhandled /\ Completed' = Completed /\ Live' = Live /\ Addresses' = Addresses
    BY DEF Unhandled, Completed, Live, Addresses, reqVars, kernVars
  <1>3. RequestAccounting'
    BY <1>2 DEF Inv, RequestAccounting, reqVars, kernVars
  <1>4. NoStrayResume'
    BY <1>2 DEF Inv, NoStrayResume, reqVars
  <1> QED
    BY <1>1, <1>3, <1>4 DEF Inv

\* What leaving the innermost coroutine does to the call stack.
LEMMA LeaveStack ==
  ASSUME Inv, NEW c \in Coros, NEW state \in CoroStates \ {"running"},
         Running(c), Leave(c, state)
  PROVE  /\ stack' \in Seq(Coros)
         /\ coro' \in [Coros -> CoroStates]
         /\ coro[c] = "running"
         /\ \A d \in Coros : coro'[d] = IF d = c THEN state ELSE coro[d]
         /\ StackOk'
  <1>1. /\ stack \in Seq(Coros) /\ stack # <<>> /\ c = stack[1] /\ Len(stack) \in Nat \ {0}
        /\ coro \in [Coros -> CoroStates]
    BY EmptySeq DEF Inv, TypeOK, Running
  <1>2. StackOk
    BY DEF Inv, NoStrayResume
  <1>3. coro[c] = "running"
    BY <1>1, <1>2 DEF StackOk
  <1>4. /\ stack' \in Seq(Coros) /\ Len(stack') = Len(stack) - 1
        /\ \A k \in 1..Len(stack') : stack'[k] = stack[k + 1]
    BY <1>1, HeadTailProperties DEF Leave
  <1>5. coro' \in [Coros -> CoroStates] /\ \A d \in Coros : coro'[d] = IF d = c THEN state ELSE coro[d]
    BY <1>1 DEF Leave
  <1>6. \A k \in 1..Len(stack') : k + 1 \in 1..Len(stack) /\ stack[k + 1] \in Coros /\ stack[k + 1] # c
    BY <1>1, <1>2, <1>4 DEF StackOk
  <1>7. StackOk'
    <2>1. ASSUME NEW k \in 1..Len(stack')
          PROVE  coro'[stack'[k]] = "running"
      <3>1. stack'[k] = stack[k + 1] /\ k + 1 \in 1..Len(stack) /\ stack[k + 1] \in Coros /\ stack[k + 1] # c
        BY <1>4, <1>6
      <3>2. coro[stack[k + 1]] = "running"
        BY <1>2, <3>1 DEF StackOk
      <3> QED
        BY <1>5, <3>1, <3>2
    <2>2. ASSUME NEW k \in 1..Len(stack'), NEW l \in 1..Len(stack'), stack'[k] = stack'[l]
          PROVE  k = l
      <3>1. stack[k + 1] = stack[l + 1]
        BY <1>4, <2>2
      <3>2. k + 1 = l + 1
        BY <1>2, <1>6, <3>1 DEF StackOk
      <3> QED
        BY <3>2, <1>1, <1>4
    <2> QED
      BY <2>1, <2>2 DEF StackOk
  <1> QED
    BY <1>3, <1>4, <1>5, <1>7

\* What entering a coroutine that is not running does to it.
LEMMA EnterStack ==
  ASSUME Inv, NEW c \in Coros, coro[c] # "running", Enter(c)
  PROVE  /\ stack' \in Seq(Coros)
         /\ coro' \in [Coros -> CoroStates]
         /\ \A d \in Coros : coro'[d] = IF d = c THEN "running" ELSE coro[d]
         /\ StackOk'
  <1>1. /\ stack \in Seq(Coros) /\ Len(stack) \in Nat
        /\ coro \in [Coros -> CoroStates]
    BY DEF Inv, TypeOK
  <1>2. StackOk
    BY DEF Inv, NoStrayResume
  <1>3. /\ stack' \in Seq(Coros) /\ Len(stack') = Len(stack) + 1
        /\ \A k \in 1..Len(stack') : stack'[k] = IF k = 1 THEN c ELSE stack[k - 1]
    <2>1. <<c>> \in Seq(Coros) /\ Len(<<c>>) = 1 /\ <<c>>[1] = c
      OBVIOUS
    <2> QED
      BY <1>1, <2>1, ConcatProperties DEF Enter
  <1>4. coro' \in [Coros -> CoroStates] /\ \A d \in Coros : coro'[d] = IF d = c THEN "running" ELSE coro[d]
    BY <1>1 DEF Enter, CoroStates
  <1>5. \A k \in 1..Len(stack') :
          k # 1 => k - 1 \in 1..Len(stack) /\ stack[k - 1] \in Coros /\ stack[k - 1] # c
    BY <1>1, <1>2, <1>3 DEF StackOk
  <1>6. StackOk'
    <2>1. \A k \in 1..Len(stack') : coro'[stack'[k]] = "running"
      BY <1>2, <1>3, <1>4, <1>5 DEF StackOk
    <2>2. ASSUME NEW k \in 1..Len(stack'), NEW l \in 1..Len(stack'), stack'[k] = stack'[l]
          PROVE  k = l
      <3>1. stack'[k] = (IF k = 1 THEN c ELSE stack[k - 1]) /\ stack'[l] = (IF l = 1 THEN c ELSE stack[l - 1])
        BY <1>3
      <3>2. CASE k = 1 \/ l = 1
        BY <1>5, <2>2, <3>1, <3>2
      <3>3. CASE k # 1 /\ l # 1
        <4>1. k - 1 \in 1..Len(stack) /\ l - 1 \in 1..Len(stack) /\ stack[k - 1] = stack[l - 1]
          BY <1>5, <2>2, <3>1, <3>3
        <4>2. k - 1 = l - 1
          BY <1>2, <4>1 DEF StackOk
        <4> QED
          BY <1>1, <1>3, <4>2
      <3> QED
        BY <3>2, <3>3
    <2> QED
      BY <2>1, <2>2 DEF StackOk
  <1> QED
    BY <1>3, <1>4, <1>6

-----------------------------------------------------------------------------
(* The actions, one by one. *)

\* Steps of the loop thread and of Stop() that only move pc or running_.
LEMMA ControlInv ==
  ASSUME Inv,
         Stop \/ RunStart \/ LeaveLoop \/ SubmitError \/ WaitReturns \/ WaitTimeout \/ ReapDone
  PROVE  Inv'
  <1>1. /\ UNCHANGED <<reqVars, sq, kern, cancelled, cq, count, coroVars>>
        /\ pc' \in PCs
    BY DEF Inv, TypeOK, PCs, AfterBreak, kernVars,
           Stop, RunStart, LeaveLoop, SubmitError, WaitReturns, WaitTimeout, ReapDone
  <1>2. running_' \in BOOLEAN /\ draining' \in BOOLEAN /\ submitted' \in BOOLEAN
    BY DEF Inv, TypeOK, kernVars,
           Stop, RunStart, LeaveLoop, SubmitError, WaitReturns, WaitTimeout, ReapDone
  <1> QED
    BY <1>1, <1>2, FrameInv

\* A frame is freed.
LEMMA FreeInv ==
  ASSUME Inv, NEW c \in Coros, Running(c), Free(c),
         UNCHANGED <<loopVars, reqVars, sq, kernVars>>
  PROVE  Inv'
  <1>1. Leave(c, "none") /\ "none" \in CoroStates \ {"running"}
    BY DEF Free, CoroStates
  <1>2. result' \in [Coros -> Results]
    BY DEF Inv, TypeOK, Free, Results
  <1>3. \A d \in Coros : coro'[d] = "suspended" <=> coro[d] = "suspended"
    BY <1>1, LeaveStack
  <1> QED
    BY <1>1, <1>2, <1>3, LeaveStack, CoroInv

LEMMA SqFullInv ==
  ASSUME Inv, NEW c \in Coros, SqFull(c)
  PROVE  Inv'
  <1>1. CASE c \in Acceptors /\ Free(c) /\ UNCHANGED loopVars
    BY <1>1, FreeInv DEF SqFull, Proceeds
  <1>2. CASE pc' = "crashed" /\ UNCHANGED <<running_, draining, coroVars>>
    BY <1>2, FrameInv DEF SqFull, Inv, TypeOK, PCs, kernVars
  <1> QED
    BY <1>1, <1>2 DEF SqFull

LEMMA ParkInv ==
  ASSUME Inv, NEW c \in Coros, Park(c)
  PROVE  Inv'
  <1>1. Leave(c, "parked") /\ Running(c) /\ "parked" \in CoroStates \ {"running"}
    BY DEF Park, Proceeds, CoroStates
  <1>2. \A d \in Coros : coro'[d] = "suspended" <=> coro[d] = "suspended"
    BY <1>1, LeaveStack
  <1>3. UNCHANGED <<loopVars, reqVars, sq, kernVars>> /\ result' \in [Coros -> Results]
    BY DEF Park, Inv, TypeOK
  <1> QED
    BY <1>1, <1>2, <1>3, LeaveStack, CoroInv

LEMMA EnterInv ==
  ASSUME Inv, NEW c \in Coros, Unpark(c) \/ Spawn(c)
  PROVE  Inv'
  <1>1. Enter(c) /\ coro[c] \in {"parked", "none"}
    BY DEF Unpark, Spawn
  <1>2. \A d \in Coros : coro'[d] = "suspended" <=> coro[d] = "suspended"
    BY <1>1, EnterStack
  <1>3. UNCHANGED <<loopVars, reqVars, sq, kernVars>> /\ result' \in [Coros -> Results]
    BY DEF Unpark, Spawn, Inv, TypeOK
  <1> QED
    BY <1>1, <1>2, <1>3, EnterStack, CoroInv

\* Prepared SQEs go to the kernel.
LEMMA EnterWaitInv ==
  ASSUME Inv, EnterWait
  PROVE  Inv'
  <1>1. /\ UNCHANGED <<reqVars, cq, count, coroVars, running_, draining>>
        /\ sq' = {} /\ kern' = kern \cup sq /\ pc' = "wait" /\ submitted' \in BOOLEAN
    BY DEF EnterWait
  <1>2. cancelled' \subseteq kern'
    BY DEF EnterWait, Inv, TypeOK
  <1>3. TypeOK'
    BY <1>1, <1>2 DEF Inv, TypeOK, PCs, Addresses, reqVars, coroVars
  <1>4. Unhandled' = Unhandled /\ Completed' = Completed
    BY <1>1 DEF Unhandled, Completed
  <1>5. Live' = Live
    BY <1>1, <1>4 DEF Live
  <1> QED
    BY <1>1, <1>3, <1>4, <1>5, RingInv DEF Inv, RequestAccounting

LEMMA BeginDrainInv ==
  ASSUME Inv, CancelOnce, BeginDrain
  PROVE  Inv'
  <1>1. /\ UNCHANGED <<running_, reqVars, submitted, cq, count, coroVars>>
        /\ pc' \in PCs /\ draining' \in BOOLEAN
    <2>1. UNCHANGED <<running_, reqVars, submitted, cq, count, coroVars>> /\ pc' \in PCs
      BY DEF BeginDrain, PCs
    <2>2. draining' \in BOOLEAN
      BY DEF BeginDrain, Inv, TypeOK
    <2> QED
      BY <2>1, <2>2
  <1>2. Unhandled' = Unhandled /\ Completed' = Completed
    BY <1>1 DEF Unhandled, Completed
  <1>3. NoData \notin sq /\ NoData \notin kern /\ NoData \notin Completed
    BY DEF BeginDrain, CancelOnce, Completed
  <1>4. CASE /\ cancelled' = kern \cup sq
             /\ kern' = kern \cup sq \cup {NoData}
             /\ sq' = {}
    <2>1. TypeOK'
      BY <1>1, <1>4 DEF Inv, TypeOK, Addresses, reqVars, coroVars
    <2>2. Live' = Live
      BY <1>2, <1>3, <1>4 DEF Live
    <2> QED
      BY <1>1, <1>2, <1>3, <1>4, <2>1, <2>2, RingInv DEF Inv, RequestAccounting
  <1>5. CASE sq' = sq \cup {NoData} /\ UNCHANGED <<kern, cancelled>>
    <2>1. TypeOK'
      BY <1>1, <1>5 DEF Inv, TypeOK, Addresses, reqVars, coroVars
    <2>2. Live' = Live
      BY <1>2, <1>5 DEF Live
    <2> QED
      BY <1>1, <1>2, <1>3, <1>5, <2>1, <2>2, RingInv DEF Inv, RequestAccounting
  <1>6. CASE UNCHANGED <<sq, kern, cancelled>>
    BY <1>1, <1>6, FrameInv DEF Inv, TypeOK
  <1> QED
    BY <1>4, <1>5, <1>6 DEF BeginDrain

\* A completion is appended to the queue.
LEMMA AppendedQueue ==
  ASSUME Inv, NEW r \in kern, NEW res \in Answers,
         cq' = Append(cq, [user_data |-> r, res |-> res]), count' = count
  PROVE  /\ cq' \in Seq([user_data : Addresses \cup {NoData}, res : Answers])
         /\ count' \in 0..Len(cq')
         /\ Unhandled' = Unhandled \cup {Len(cq) + 1}
         /\ \A k \in Unhandled : k \in 1..Len(cq) /\ cq'[k] = cq[k]
         /\ cq'[Len(cq) + 1].user_data = r
         /\ cq'[Len(cq) + 1].res = res
  <1> DEFINE Cqe == [user_data : Addresses \cup {NoData}, res : Answers]
             new == [user_data |-> r, res |-> res]
  <1>1. cq \in Seq(Cqe) /\ count \in 0..Len(cq) /\ Len(cq) \in Nat
    BY DEF Inv, TypeOK
  <1>2. new \in Cqe
    BY DEF Inv, TypeOK
  <1>3. /\ cq' \in Seq(Cqe) /\ Len(cq') = Len(cq) + 1
        /\ \A k \in 1..Len(cq) : cq'[k] = cq[k]
        /\ cq'[Len(cq) + 1] = new
    BY <1>1, <1>2, AppendProperties
  <1>4. /\ Unhandled' = Unhandled \cup {Len(cq) + 1}
        /\ \A k \in Unhandled : k \in 1..Len(cq) /\ cq'[k] = cq[k]
    BY <1>1, <1>3 DEF Unhandled
  <1>5. count' \in 0..Len(cq')
    BY <1>1, <1>3
  <1> QED
    BY <1>3, <1>4, <1>5

\* The kernel completes an operation.
LEMMA CompleteInv ==
  ASSUME Inv, NEW r \in kern, NEW res \in Answers, Complete(r, res)
  PROVE  Inv'
  <1> DEFINE last == Len(cq) + 1
  <1>1. /\ UNCHANGED <<loopVars, reqVars, submitted, sq, count, coroVars>>
        /\ kern' = kern \ {r} /\ cancelled' = cancelled \ {r}
        /\ cq' = Append(cq, [user_data |-> r, res |-> res])
    BY DEF Complete
  <1>2. /\ cq' \in Seq([user_data : Addresses \cup {NoData}, res : Answers])
        /\ count' \in 0..Len(cq')
        /\ Unhandled' = Unhandled \cup {last}
        /\ \A k \in Unhandled : cq'[k] = cq[k]
        /\ cq'[last].user_data = r
    BY <1>1, AppendedQueue
  <1> HIDE DEF last
  <1>3. TypeOK'
    <2>1. Addresses' = Addresses
      BY <1>1 DEF Addresses, reqVars
    <2> QED
      BY <1>1, <1>2, <2>1 DEF Inv, TypeOK, loopVars, reqVars, coroVars
  <1>4. Completed' = Completed \cup ({r} \ {NoData})
    BY <1>2 DEF Completed, NoData
  <1>5. r \notin sq /\ r \notin Completed
    BY DEF Inv, RequestAccounting
  <1>6. Live' = Live
    BY <1>1, <1>4 DEF Live
  <1>7. (sq \cap kern = {})' /\ ((sq \cup kern) \cap Completed = {})'
    BY <1>1, <1>4, <1>5 DEF Inv, RequestAccounting
  <1>8. ASSUME NEW i \in Unhandled', NEW j \in Unhandled',
               cq'[i].user_data # NoData, cq'[i].user_data = cq'[j].user_data
        PROVE  i = j
    <2>1. \A k \in Unhandled : cq[k].user_data # NoData => cq[k].user_data \in Completed
      BY DEF Completed
    <2>2. CASE i \in Unhandled /\ j \in Unhandled
      BY <1>2, <1>8, <2>2 DEF Inv, RequestAccounting
    <2>3. CASE i = last /\ j \in Unhandled
      BY <1>2, <1>5, <1>8, <2>1, <2>3
    <2>4. CASE i \in Unhandled /\ j = last
      BY <1>2, <1>5, <1>8, <2>1, <2>4
    <2> QED
      BY <1>2, <2>2, <2>3, <2>4
  <1> QED
    BY <1>1, <1>3, <1>6, <1>7, <1>8, RingInv

\* What io_uring_cq_advance leaves of the queue.
LEMMA AdvanceQueue ==
  ASSUME Inv, cq' = SubSeq(cq, count + 1, Len(cq)), count' = 0
  PROVE  /\ cq' \in Seq([user_data : Addresses \cup {NoData}, res : Answers])
         /\ Len(cq') \in Nat
         /\ Unhandled' = 1..Len(cq')
         /\ \A k \in Unhandled' : count + k \in Unhandled /\ cq'[k] = cq[count + k]
         /\ \A k \in Unhandled : k - count \in Unhandled' /\ cq'[k - count] = cq[k]
  <1> DEFINE Cqe == [user_data : Addresses \cup {NoData}, res : Answers]
  <1>1. cq \in Seq(Cqe) /\ count \in 0..Len(cq) /\ Len(cq) \in Nat
    BY DEF Inv, TypeOK
  <1> HIDE DEF Cqe
  <1>2. \A k \in (count + 1)..Len(cq) : cq[k] \in Cqe
    <2>1. (count + 1)..Len(cq) \subseteq 1..Len(cq)
      BY <1>1
    <2> QED
      BY <1>1, <2>1, ElementOfSeq
  <1>3. /\ cq' \in Seq(Cqe) /\ Len(cq') = Len(cq) - count
        /\ \A k \in 1..Len(cq') : cq'[k] = cq[count + k]
    BY <1>1, <1>2, SubSeqProperties
  <1>4. Unhandled' = 1..Len(cq') /\ Unhandled = (count + 1)..Len(cq)
    BY DEF Unhandled
  <1>5. \A k \in 1..Len(cq') : count + k \in (count + 1)..Len(cq)
    BY <1>1, <1>3
  <1>6. ASSUME NEW k \in (count + 1)..Len(cq)
        PROVE  k - count \in 1..Len(cq') /\ cq'[k - count] = cq[k]
    <2>1. k - count \in 1..Len(cq') /\ count + (k - count) = k
      BY <1>1, <1>3
    <2> QED
      BY <1>3, <2>1
  <1>7. Len(cq') \in Nat
    BY <1>1, <1>3
  <1> QED
    BY <1>3, <1>4, <1>5, <1>6, <1>7 DEF Cqe

\* The handled completions are released.
LEMMA AdvanceInv ==
  ASSUME Inv, Advance
  PROVE  Inv'
  <1>1. /\ UNCHANGED <<running_, draining, reqVars, submitted, sq, kern, cancelled, coroVars>>
        /\ cq' = SubSeq(cq, count + 1, Len(cq)) /\ count' = 0 /\ pc' = "loop"
    BY DEF Advance
  <1>2. /\ cq' \in Seq([user_data : Addresses \cup {NoData}, res : Answers]) /\ Len(cq') \in Nat
        /\ Unhandled' = 1..Len(cq')
        /\ \A k \in Unhandled' : count + k \in Unhandled /\ cq'[k] = cq[count + k]
        /\ \A k \in Unhandled : k - count \in Unhandled' /\ cq'[k - count] = cq[k]
    BY <1>1, AdvanceQueue
  <1>3. TypeOK'
    <2>1. Addresses' = Addresses /\ count' \in 0..Len(cq')
      BY <1>1, <1>2 DEF Addresses, reqVars
    <2> QED
      BY <1>1, <1>2, <2>1 DEF Inv, TypeOK, PCs, reqVars, coroVars
  <1>4. Completed' = Completed
    BY <1>2 DEF Completed, NoData
  <1>5. Live' = Live
    BY <1>1, <1>4 DEF Live
  <1>6. ASSUME NEW i \in Unhandled', NEW j \in Unhandled',
               cq'[i].user_data # NoData, cq'[i].user_data = cq'[j].user_data
        PROVE  i = j
    <2>1. count + i = count + j
      BY <1>2, <1>6 DEF Inv, RequestAccounting
    <2>2. count \in Nat /\ i \in Nat /\ j \in Nat
      BY <1>2 DEF Inv, TypeOK
    <2> QED
      BY <2>1, <2>2
  <1> QED
    BY <1>1, <1>3, <1>4, <1>5, <1>6, RingInv DEF Inv, RequestAccounting

\* AllocRequestData hands out a request that is nowhere in the rings.
LEMMA AllocFacts ==
  ASSUME Inv, NEW c \in Coros, AllocRequestData(c)
  PROVE  LET a == AllocatedRequest
         IN  /\ a \notin Live
             /\ a # NoData
             /\ reqs' \in Seq(Request)
             /\ Addresses' = Addresses \cup {a}
             /\ reqs'[a] = [handle |-> c, result |-> c]
             /\ \A r \in Addresses : r # a => reqs'[r] = reqs[r]
             /\ pool' \in Seq(Addresses')
             /\ \A i, j \in DOMAIN pool' : pool'[i] = pool'[j] => i = j
             /\ \A r \in Addresses' :
                  (\A i \in DOMAIN pool' : pool'[i] # r)
                     <=> (r = a \/ \A i \in DOMAIN pool : pool[i] # r)
  <1> DEFINE a == AllocatedRequest
             data == [handle |-> c, result |-> c]
  <1>1. /\ pool \in Seq(Addresses) /\ reqs \in Seq(Request) /\ Len(reqs) \in Nat
        /\ DOMAIN pool = 1..Len(pool) /\ Len(pool) \in Nat
    BY DEF Inv, TypeOK
  <1>2. /\ \A i, j \in DOMAIN pool : pool[i] = pool[j] => i = j
        /\ \A r \in Addresses : r \in Live <=> \A i \in DOMAIN pool : pool[i] # r
    BY DEF Inv, RequestAccounting
  <1>3. Live \subseteq Addresses /\ NoData \notin Addresses
    BY LiveAddresses DEF Inv
  <1>4. data \in Request
    BY DEF Request
  <1>5. CASE pool # <<>> /\ pool' = Tail(pool) /\ reqs' = [reqs EXCEPT ![Head(pool)] = data]
    <2>1. a = pool[1] /\ 1 \in DOMAIN pool /\ a \in Addresses
      BY <1>1, <1>5, EmptySeq DEF AllocatedRequest
    <2>2. a \notin Live /\ a # NoData
      BY <1>2, <1>3, <2>1
    <2>3. /\ reqs' \in Seq(Request) /\ Len(reqs') = Len(reqs)
          /\ \A r \in Addresses : reqs'[r] = IF r = a THEN data ELSE reqs[r]
      BY <1>1, <1>4, <1>5, <2>1, ExceptSeq DEF Addresses, AllocatedRequest
    <2>4. Addresses' = Addresses
      BY <2>3 DEF Addresses
    <2>5. /\ pool' \in Seq(Addresses) /\ Len(pool') = Len(pool) - 1 /\ DOMAIN pool' = 1..Len(pool')
          /\ \A i \in DOMAIN pool' : pool'[i] = pool[i + 1]
      BY <1>1, <1>5, HeadTailProperties, LenProperties
    <2>6. ASSUME NEW i \in DOMAIN pool', NEW j \in DOMAIN pool', pool'[i] = pool'[j]
          PROVE  i = j
      <3>1. i + 1 \in DOMAIN pool /\ j + 1 \in DOMAIN pool /\ pool[i + 1] = pool[j + 1]
        BY <1>1, <2>5, <2>6
      <3>2. i + 1 = j + 1
        BY <1>2, <3>1
      <3> QED
        BY <1>1, <2>5, <3>2
    <2>7. ASSUME NEW r \in Addresses
          PROVE  (\A i \in DOMAIN pool' : pool'[i] # r) <=> (r = a \/ \A i \in DOMAIN pool : pool[i] # r)
      <3>1. \A i \in DOMAIN pool' : i + 1 \in DOMAIN pool /\ i + 1 # 1 /\ pool'[i] = pool[i + 1]
        BY <1>1, <2>5
      <3>2. \A i \in DOMAIN pool : i # 1 => i - 1 \in DOMAIN pool' /\ pool'[i - 1] = pool[i]
        <4>1. \A i \in DOMAIN pool : i # 1 => i - 1 \in DOMAIN pool' /\ (i - 1) + 1 = i
          BY <1>1, <2>5
        <4> QED
          BY <2>5, <4>1
      <3>3. CASE r = a
        BY <1>2, <2>1, <3>1, <3>3
      <3>4. CASE r # a
        BY <2>1, <3>1, <3>2, <3>4
      <3> QED
        BY <3>3, <3>4
    <2> QED
      BY <2>1, <2>2, <2>3, <2>4, <2>5, <2>6, <2>7
  <1>6. CASE pool = <<>> /\ reqs' = Append(reqs, data) /\ UNCHANGED pool
    <2>1. a = Len(reqs) + 1
      BY <1>6 DEF AllocatedRequest
    <2>2. a \notin Addresses /\ a # NoData
      BY <1>1, <2>1 DEF Addresses, NoData
    <2>3. /\ reqs' \in Seq(Request) /\ Len(reqs') = Len(reqs) + 1
          /\ \A r \in 1..Len(reqs) : reqs'[r] = reqs[r]
          /\ reqs'[Len(reqs) + 1] = data
      BY <1>1, <1>4, <1>6, AppendProperties
    <2>4. Addresses' = Addresses \cup {a}
      BY <1>1, <2>1, <2>3 DEF Addresses
    <2>5. pool' = <<>> /\ DOMAIN pool' = {} /\ DOMAIN pool = {} /\ pool' \in Seq(Addresses')
      BY <1>6, EmptySeq
    <2> QED
      BY <1>3, <2>1, <2>2, <2>3, <2>4, <2>5 DEF Addresses
  <1> QED
    BY <1>5, <1>6 DEF AllocRequestData

LEMMA AwaitIoInv ==
  ASSUME Inv, NEW c \in Coros, AwaitIo(c)
  PROVE  Inv'
  <1> DEFINE a == AllocatedRequest
  <1>1. /\ UNCHANGED <<loopVars, kernVars, result>>
        /\ AllocRequestData(c) /\ sq' = sq \cup {a} /\ in_flight_' = in_flight_ + 1
        /\ Running(c) /\ Leave(c, "suspended") /\ "suspended" \in CoroStates \ {"running"}
    BY DEF AwaitIo, Submit, Proceeds, CoroStates
  <1>2. /\ a \notin Live /\ a # NoData
        /\ reqs' \in Seq(Request) /\ Addresses' = Addresses \cup {a}
        /\ reqs'[a] = [handle |-> c, result |-> c]
        /\ \A r \in Addresses : r # a => reqs'[r] = reqs[r]
        /\ pool' \in Seq(Addresses')
        /\ \A i, j \in DOMAIN pool' : pool'[i] = pool'[j] => i = j
        /\ \A r \in Addresses' :
             (\A i \in DOMAIN pool' : pool'[i] # r) <=> (r = a \/ \A i \in DOMAIN pool : pool[i] # r)
    BY <1>1, AllocFacts
  <1>3. /\ stack' \in Seq(Coros) /\ coro' \in [Coros -> CoroStates] /\ coro[c] = "running"
        /\ \A d \in Coros : coro'[d] = IF d = c THEN "suspended" ELSE coro[d]
        /\ StackOk'
    BY <1>1, LeaveStack
  <1> HIDE DEF a
  <1>4. Unhandled' = Unhandled /\ Completed' = Completed /\ Live' = Live \cup {a}
    <2>1. cq' = cq /\ count' = count /\ kern' = kern /\ sq' = sq \cup {a}
      BY <1>1 DEF kernVars
    <2>2. Unhandled' = Unhandled
      BY <2>1 DEF Unhandled
    <2>3. Completed' = Completed
      BY <2>1, <2>2 DEF Completed
    <2>4. Live' = Live \cup {a}
      BY <1>2, <2>1, <2>3 DEF Live
    <2> QED
      BY <2>2, <2>3, <2>4
  <1>5. TypeOK'
    <2>1. cq' \in Seq([user_data : Addresses' \cup {NoData}, res : Answers])
      <3>1. [user_data : Addresses \cup {NoData}, res : Answers]
              \subseteq [user_data : Addresses' \cup {NoData}, res : Answers]
        BY <1>2
      <3> QED
        BY <1>1, <3>1, SeqMonotonic DEF Inv, TypeOK, kernVars
    <2>2. sq' \subseteq Addresses' \cup {NoData} /\ kern' \subseteq Addresses' \cup {NoData}
      BY <1>1, <1>2 DEF Inv, TypeOK, kernVars
    <2>3. in_flight_' \in Int
      BY <1>1 DEF Inv, TypeOK
    <2> QED
      BY <1>1, <1>2, <1>3, <2>1, <2>2, <2>3 DEF Inv, TypeOK, loopVars, kernVars
  <1>6. RequestAccounting'
    <2>1. a \notin sq /\ a \notin kern /\ a \notin Completed
      BY <1>2 DEF Live
    <2>2. /\ (sq \cap kern = {})'
          /\ ((sq \cup kern) \cap Completed = {})'
      BY <1>1, <1>4, <2>1 DEF Inv, RequestAccounting, kernVars
    <2>3. (\A i, j \in Unhandled :
             cq[i].user_data # NoData /\ cq[i].user_data = cq[j].user_data => i = j)'
      BY <1>1, <1>4 DEF Inv, RequestAccounting, kernVars
    <2>4. \A r \in Addresses' : r \in Live' <=> \A i \in DOMAIN pool' : pool'[i] # r
      BY <1>2, <1>4 DEF Inv, RequestAccounting
    <2>5. in_flight_' = Cardinality(Live')
      BY <1>1, <1>2, <1>4, LiveAddresses, FS_AddElement DEF Inv, RequestAccounting
    <2> QED
      BY <1>2, <2>2, <2>3, <2>4, <2>5 DEF RequestAccounting
  <1>7. NoStrayResume'
    <2>1. \A r \in Live : reqs'[r] = reqs[r] /\ reqs[r].handle # c /\ reqs[r].handle \in Coros
      BY <1>2, <1>3, LiveAddresses DEF Inv, NoStrayResume
    <2>2. reqs'[a].handle = c /\ reqs'[a].result = c
      BY <1>2
    <2>3. \A r \in Live' :
            /\ reqs'[r].handle \in Coros
            /\ reqs'[r].result = reqs'[r].handle
            /\ coro'[reqs'[r].handle] = "suspended"
      <3>1. \A r \in Live : reqs[r].result = reqs[r].handle /\ coro[reqs[r].handle] = "suspended"
        BY DEF Inv, NoStrayResume
      <3>2. ASSUME NEW r \in Live
            PROVE  /\ reqs'[r].handle \in Coros
                   /\ reqs'[r].result = reqs'[r].handle
                   /\ coro'[reqs'[r].handle] = "suspended"
        BY <1>3, <2>1, <3>1, <3>2
      <3>3. coro'[c] = "suspended"
        BY <1>3
      <3> QED
        BY <1>4, <2>2, <3>2, <3>3
    <2>4. \A r, s \in Live' : reqs'[r].handle = reqs'[s].handle => r = s
      BY <1>4, <2>1, <2>2 DEF Inv, NoStrayResume
    <2>5. ASSUME NEW d \in Coros, coro'[d] = "suspended"
          PROVE  \E r \in Live' : reqs'[r].handle = d
      <3>1. CASE d = c
        BY <1>4, <2>2, <3>1
      <3>2. CASE d # c
        BY <1>3, <1>4, <2>1, <2>5, <3>2 DEF Inv, NoStrayResume
      <3> QED
        BY <3>1, <3>2
    <2> QED
      BY <1>3, <2>3, <2>4, <2>5 DEF NoStrayResume
  <1> QED
    BY <1>5, <1>6, <1>7 DEF Inv

\* One completion leaves the unhandled part of the queue.
LEMMA HandledFacts ==
  ASSUME Inv, count < Len(cq), count' = count + 1, UNCHANGED <<cq, sq, kern>>
  PROVE  LET r == cq[count + 1].user_data
         IN  /\ count + 1 \in Unhandled
             /\ count' \in 0..Len(cq')
             /\ Unhandled' = Unhandled \ {count + 1}
             /\ Completed' = Completed \ {r}
             /\ r # NoData => r \in Completed
             /\ Live' = Live \ ({r} \ {NoData})
  <1> DEFINE r == cq[count + 1].user_data
  <1>1. count \in Nat /\ Len(cq) \in Nat
    BY DEF Inv, TypeOK
  <1>2. /\ count + 1 \in Unhandled /\ count' \in 0..Len(cq')
        /\ Unhandled' = Unhandled \ {count + 1}
    BY <1>1 DEF Unhandled
  <1>3. \A k \in Unhandled' : cq[k].user_data # NoData => cq[k].user_data # r
    BY <1>2 DEF Inv, RequestAccounting
  <1>4. Completed' = {cq[k].user_data : k \in Unhandled'} \ {NoData}
    BY DEF Completed, NoData
  <1>5. Completed' = Completed \ {r}
    BY <1>2, <1>3, <1>4 DEF Completed
  <1>6. r # NoData => r \in Completed
    BY <1>2 DEF Completed
  <1>7. r # NoData => r \notin sq /\ r \notin kern
    BY <1>6 DEF Inv, RequestAccounting
  <1>8. NoData \notin Completed
    BY DEF Completed
  <1>9. Live' = ((sq \cup kern) \ {NoData}) \cup Completed'
    BY DEF Live, NoData
  <1>10. Live' = Live \ ({r} \ {NoData})
    <2>1. CASE r = NoData
      BY <1>5, <1>8, <1>9, <2>1 DEF Live
    <2>2. CASE r # NoData
      BY <1>5, <1>7, <1>9, <2>2 DEF Live
    <2> QED
      BY <2>1, <2>2
  <1> QED
    BY <1>2, <1>5, <1>6, <1>10

\* FreeRequestData puts a live request on the free list.
LEMMA FreeFacts ==
  ASSUME Inv, NEW r \in Live, FreeRequestData(r)
  PROVE  /\ reqs' \in Seq(Request)
         /\ Len(reqs') = Len(reqs)
         /\ Addresses' = Addresses
         /\ \A s \in Addresses : s # r => reqs'[s] = reqs[s]
         /\ pool' \in Seq(Addresses')
         /\ \A i, j \in DOMAIN pool' : pool'[i] = pool'[j] => i = j
         /\ \A s \in Addresses :
              (\A i \in DOMAIN pool' : pool'[i] # s)
                 <=> (s # r /\ \A i \in DOMAIN pool : pool[i] # s)
  <1>1. /\ pool \in Seq(Addresses) /\ reqs \in Seq(Request)
        /\ DOMAIN pool = 1..Len(pool) /\ Len(pool) \in Nat
    BY DEF Inv, TypeOK
  <1>2. r \in Addresses /\ \A i \in DOMAIN pool : pool[i] # r
    BY LiveAddresses DEF Inv, RequestAccounting
  <1>3. [handle |-> Null, result |-> Null] \in Request
    BY DEF Request
  <1>4. /\ reqs' \in Seq(Request) /\ Len(reqs') = Len(reqs)
        /\ \A s \in 1..Len(reqs) : s # r => reqs'[s] = reqs[s]
    BY <1>1, <1>2, <1>3, ExceptSeq DEF FreeRequestData, Addresses
  <1>5. Addresses' = Addresses
    BY <1>4 DEF Addresses
  <1>6. /\ pool' \in Seq(Addresses) /\ Len(pool') = Len(pool) + 1
        /\ \A i \in 1..Len(pool') : pool'[i] = IF i = 1 THEN r ELSE pool[i - 1]
    <2>1. <<r>> \in Seq(Addresses) /\ Len(<<r>>) = 1 /\ <<r>>[1] = r
      BY <1>2
    <2> QED
      BY <1>1, <2>1, ConcatProperties DEF FreeRequestData
  <1>7. DOMAIN pool' = 1..Len(pool')
    BY <1>6, LenProperties
  <1>8. \A i \in DOMAIN pool' : i # 1 => i - 1 \in DOMAIN pool /\ pool'[i] = pool[i - 1]
    BY <1>1, <1>6, <1>7
  <1>9. 1 \in DOMAIN pool' /\ pool'[1] = r
    BY <1>1, <1>6, <1>7
  <1>10. ASSUME NEW i \in DOMAIN pool', NEW j \in DOMAIN pool', pool'[i] = pool'[j]
         PROVE  i = j
    <2>1. CASE i = 1 \/ j = 1
      BY <1>2, <1>8, <1>9, <1>10, <2>1
    <2>2. CASE i # 1 /\ j # 1
      <3>1. i - 1 = j - 1
        BY <1>8, <1>10, <2>2 DEF Inv, RequestAccounting
      <3> QED
        BY <1>1, <1>6, <1>7, <3>1
    <2> QED
      BY <2>1, <2>2
  <1>11. \A i \in DOMAIN pool : i + 1 \in DOMAIN pool' /\ pool'[i + 1] = pool[i]
    <2>1. \A i \in DOMAIN pool : i + 1 \in DOMAIN pool' /\ i + 1 # 1 /\ (i + 1) - 1 = i
      BY <1>1, <1>6, <1>7
    <2> QED
      BY <1>8, <2>1
  <1>12. ASSUME NEW s \in Addresses
         PROVE  (\A i \in DOMAIN pool' : pool'[i] # s) <=> (s # r /\ \A i \in DOMAIN pool : pool[i] # s)
    BY <1>8, <1>9, <1>11
  <1> QED
    BY <1>4, <1>5, <1>6, <1>10, <1>12 DEF Addresses

LEMMA ReapInv ==
  ASSUME Inv, Reap
  PROVE  Inv'
  <1> DEFINE cqe == cq[count + 1]
             r == cqe.user_data
  <1>1. /\ count < Len(cq) /\ count' = count + 1 /\ stack = <<>>
        /\ UNCHANGED <<loopVars, submitted, sq, kern, cancelled, cq>>
    BY DEF Reap
  <1>2. /\ count + 1 \in Unhandled /\ count' \in 0..Len(cq')
        /\ Unhandled' = Unhandled \ {count + 1}
        /\ Completed' = Completed \ {r}
        /\ r # NoData => r \in Completed
        /\ Live' = Live \ ({r} \ {NoData})
    BY <1>1, HandledFacts
  <1>3. /\ (sq \cap kern = {})'
        /\ ((sq \cup kern) \cap Completed = {})'
        /\ (\A i, j \in Unhandled :
              cq[i].user_data # NoData /\ cq[i].user_data = cq[j].user_data => i = j)'
    BY <1>1, <1>2 DEF Inv, RequestAccounting
  <1>4. CASE r = NoData /\ UNCHANGED <<reqVars, coroVars>>
    <2>1. Addresses' = Addresses
      BY <1>4 DEF Addresses, reqVars
    <2>2. TypeOK'
      BY <1>1, <1>2, <1>4, <2>1 DEF Inv, TypeOK, loopVars, reqVars, coroVars
    <2> QED
      BY <1>1, <1>2, <1>3, <1>4, <2>2, RingInv
  <1>5. CASE r # NoData /\ Deliver(cqe)
    <2> DEFINE h == reqs[r].handle
    <2>1. /\ result' = [result EXCEPT ![reqs[r].result] = cqe.res]
          /\ FreeRequestData(r) /\ in_flight_' = in_flight_ - 1 /\ Enter(h)
      BY <1>5 DEF Deliver
    <2>2. r \in Live /\ Live' = Live \ {r}
      BY <1>2, <1>5 DEF Live
    <2>3. h \in Coros /\ reqs[r].result = h /\ coro[h] = "suspended"
      BY <2>2 DEF Inv, NoStrayResume
    <2>4. /\ reqs' \in Seq(Request) /\ Addresses' = Addresses
          /\ \A s \in Addresses : s # r => reqs'[s] = reqs[s]
          /\ pool' \in Seq(Addresses')
          /\ \A i, j \in DOMAIN pool' : pool'[i] = pool'[j] => i = j
          /\ \A s \in Addresses :
               (\A i \in DOMAIN pool' : pool'[i] # s) <=> (s # r /\ \A i \in DOMAIN pool : pool[i] # s)
      BY <2>1, <2>2, FreeFacts
    <2>5. /\ stack' \in Seq(Coros) /\ coro' \in [Coros -> CoroStates]
          /\ \A d \in Coros : coro'[d] = IF d = h THEN "running" ELSE coro[d]
          /\ StackOk'
      BY <2>1, <2>3, EnterStack
    <2>6. cqe.res \in Results
      <3>1. count + 1 \in 1..Len(cq)
        BY <1>1 DEF Inv, TypeOK
      <3>2. cqe \in [user_data : Addresses \cup {NoData}, res : Answers]
        BY <3>1, ElementOfSeq DEF Inv, TypeOK
      <3> QED
        BY <3>2 DEF Results
    <2> HIDE DEF h, r, cqe
    <2>7. TypeOK'
      <3>1. result' \in [Coros -> Results]
        BY <2>1, <2>3, <2>6 DEF Inv, TypeOK
      <3>2. in_flight_' \in Int
        BY <2>1 DEF Inv, TypeOK
      <3> QED
        BY <1>1, <1>2, <2>4, <2>5, <3>1, <3>2 DEF Inv, TypeOK, loopVars
    <2>8. RequestAccounting'
      <3>1. \A s \in Addresses' : s \in Live' <=> \A i \in DOMAIN pool' : pool'[i] # s
        BY <2>2, <2>4 DEF Inv, RequestAccounting
      <3>2. in_flight_' = Cardinality(Live')
        BY <2>1, <2>2, LiveAddresses, FS_RemoveElement DEF Inv, RequestAccounting
      <3> QED
        BY <1>3, <2>4, <3>1, <3>2 DEF RequestAccounting
    <2>9. NoStrayResume'
      <3>1. \A s \in Live' : s \in Live /\ s # r /\ reqs'[s] = reqs[s] /\ reqs[s].handle # h
        BY <2>2, <2>4, LiveAddresses DEF Inv, NoStrayResume, h
      <3>2. \A s \in Live' :
              /\ reqs'[s].handle \in Coros
              /\ reqs'[s].result = reqs'[s].handle
              /\ coro'[reqs'[s].handle] = "suspended"
        BY <2>5, <3>1 DEF Inv, NoStrayResume
      <3>3. \A s, t \in Live' : reqs'[s].handle = reqs'[t].handle => s = t
        BY <3>1 DEF Inv, NoStrayResume
      <3>4. ASSUME NEW d \in Coros, coro'[d] = "suspended"
            PROVE  \E s \in Live' : reqs'[s].handle = d
        <4>1. d # h /\ coro[d] = "suspended"
          BY <2>5, <3>4
        <4>2. PICK s \in Live : reqs[s].handle = d
          BY <4>1 DEF Inv, NoStrayResume
        <4>3. s # r
          BY <4>1, <4>2 DEF h
        <4> QED
          BY <2>2, <3>1, <4>2, <4>3
      <3> QED
        BY <2>5, <3>2, <3>3, <3>4 DEF NoStrayResume
    <2> QED
      BY <2>7, <2>8, <2>9 DEF Inv
  <1> QED
    BY <1>4, <1>5 DEF Reap

\* Every step of the loop thread, of the coroutines, of the kernel and of
\* whoever calls Stop() preserves the invariant.
LEMMA NextInv == Inv /\ CancelOnce /\ [Next]_vars => Inv'
  <1> SUFFICES ASSUME Inv, CancelOnce, [Next]_vars PROVE Inv'
    OBVIOUS
  <1>1. CASE \E c \in Coros : CoroStep(c)
    <2> PICK c \in Coros : CoroStep(c)
      BY <1>1
    <2>1. CASE AwaitIo(c)
      BY <2>1, AwaitIoInv
    <2>2. CASE SqFull(c)
      BY <2>2, SqFullInv
    <2>3. CASE Park(c)
      BY <2>3, ParkInv
    <2>4. CASE Unpark(c) \/ Spawn(c)
      BY <2>4, EnterInv
    <2>5. CASE Finish(c)
      BY <2>5, FreeInv DEF Finish
    <2> QED
      BY <2>1, <2>2, <2>3, <2>4, <2>5 DEF CoroStep
  <1>2. CASE LoopStep \/ RunStart \/ Stop
    BY <1>2, ControlInv, EnterWaitInv, ReapInv, AdvanceInv, BeginDrainInv DEF LoopStep
  <1>3. CASE KernelStep
    BY <1>3, CompleteInv DEF KernelStep
  <1>4. CASE UNCHANGED vars
    BY <1>4, FrameInv DEF vars, loopVars, kernVars, Inv, TypeOK
  <1> QED
    BY <1>1, <1>2, <1>3, <1>4 DEF Next

LEMMA CancelNext == Inv /\ CancelOnce /\ [Next]_vars => CancelOnce'
  <1> SUFFICES ASSUME Inv, CancelOnce, [Next]_vars PROVE CancelOnce'
    OBVIOUS
  <1>1. ASSUME NEW c \in Coros, CoroStep(c) PROVE CancelOnce'
    <2>1. CASE AwaitIo(c)
      <3>1. /\ UNCHANGED <<pc, draining, kern>> /\ sq' = sq \cup {AllocatedRequest}
            /\ AllocRequestData(c)
        BY <2>1 DEF AwaitIo, Submit, loopVars, kernVars
      <3>2. AllocatedRequest # NoData
        BY <3>1, AllocFacts
      <3> QED
        BY <3>1, <3>2 DEF CancelOnce
    <2>2. CASE SqFull(c)
      BY <2>2 DEF SqFull, CancelOnce, loopVars, kernVars
    <2>3. CASE Park(c) \/ Unpark(c) \/ Spawn(c) \/ Finish(c)
      BY <2>3 DEF Park, Unpark, Spawn, Finish, CancelOnce, loopVars, kernVars
    <2> QED
      BY <1>1, <2>1, <2>2, <2>3 DEF CoroStep
  <1>2. CASE LeaveLoop \/ SubmitError \/ WaitReturns \/ WaitTimeout \/ ReapDone
    BY <1>2 DEF LeaveLoop, SubmitError, WaitReturns, WaitTimeout, ReapDone, AfterBreak,
                CancelOnce, kernVars
  <1>3. CASE EnterWait \/ Reap \/ Advance \/ BeginDrain
    BY <1>3 DEF EnterWait, Reap, Advance, BeginDrain, CancelOnce, loopVars
  <1>4. CASE Stop \/ RunStart \/ UNCHANGED vars
    BY <1>4 DEF Stop, RunStart, vars, CancelOnce, loopVars, kernVars
  <1>5. CASE KernelStep
    BY <1>5 DEF KernelStep, Complete, CancelOnce, loopVars
  <1> QED
    BY <1>1, <1>2, <1>3, <1>4, <1>5 DEF Next, LoopStep

-----------------------------------------------------------------------------
(* The theorems. *)

\* For every number of coroutines and every size of the ring, the invariant
\* holds throughout.
LEMMA InvHolds == Spec => []Inv
  <1>1. Init => CancelOnce
    BY DEF Init, CancelOnce
  <1> QED
    BY <1>1, InitInv, NextInv, CancelNext, PTL DEF Spec

\* The state of the event loop stays typed: in particular Run() never resumes
\* the null handle that FreeRequestData leaves in a recycled request.
THEOREM TypeCorrect == Spec => []TypeOK
  BY InvHolds, PTL DEF Inv

\* Every RequestData is on the free list or in one place of the ring, and
\* in_flight_ counts the latter (io_context.cpp:108-131 and 150-156).
THEOREM RequestsAccounted == Spec => []RequestAccounting
  BY InvHolds, PTL DEF Inv

\* handle.resume() in Run() (io_context.cpp:155, 187) reaches exactly the
\* coroutine that is suspended on the completed request, and none that runs.
THEOREM ResumesAreDue == Spec => []NoStrayResume
  BY InvHolds, PTL DEF Inv

\* Submit takes a RequestData from the heap only when all that exist are in
\* flight: the pool never holds more than the largest number of operations
\* that were in flight at once (io_context.cpp:108-118).
THEOREM AllocOnlyWhenNeeded == Spec => AllocOnlyWhenAllInFlight
  <1>1. Inv /\ [Next]_vars => [Len(reqs') > Len(reqs) => in_flight_ = Len(reqs)]_vars
    <2> SUFFICES ASSUME Inv, Next, Len(reqs') > Len(reqs)
                 PROVE  in_flight_ = Len(reqs)
      OBVIOUS
    <2>1. Len(reqs) \in Nat
      BY DEF Inv, TypeOK
    <2>2. reqs' # reqs
      BY <2>1
    <2>3. ~Reap
      <3> SUFFICES ASSUME Reap PROVE FALSE
        OBVIOUS
      <3> DEFINE r == cq[count + 1].user_data
      <3>1. r # NoData /\ FreeRequestData(r)
        BY <2>2 DEF Reap, Deliver, reqVars
      <3>2. r \in Live
        <4>1. count < Len(cq) /\ count' = count + 1 /\ UNCHANGED <<cq, sq, kern>>
          BY DEF Reap
        <4>2. r \in Completed
          BY <3>1, <4>1, HandledFacts
        <4> QED
          BY <4>2 DEF Live
      <3>3. Len(reqs') = Len(reqs)
        BY <3>1, <3>2, FreeFacts
      <3> QED
        BY <2>1, <3>3
    <2>4. PICK c \in Coros : AwaitIo(c)
      BY <2>2, <2>3 DEF Next, CoroStep, SqFull, Park, Unpark, Spawn, Finish, RunStart, Stop, LoopStep,
           LeaveLoop, EnterWait, SubmitError, WaitReturns, WaitTimeout, ReapDone, Advance, BeginDrain,
           KernelStep, Complete, reqVars
    <2>5. CASE pool # <<>> /\ reqs' = [reqs EXCEPT ![Head(pool)] = [handle |-> c, result |-> c]]
      <3>1. Len(reqs') = Len(reqs)
        BY <2>5 DEF Inv, TypeOK
      <3> QED
        BY <2>1, <3>1
    <2>6. CASE pool = <<>>
      <3>1. DOMAIN pool = {}
        BY <2>6
      <3>2. Live = Addresses
        BY <3>1, LiveAddresses DEF Inv, RequestAccounting
      <3>3. Cardinality(Addresses) = Len(reqs)
        BY <2>1, IntervalCardinality DEF Addresses
      <3> QED
        BY <3>2, <3>3 DEF Inv, RequestAccounting
    <2> QED
      BY <2>4, <2>5, <2>6 DEF AwaitIo, Submit, AllocRequestData
  <1> QED
    BY <1>1, InvHolds, PTL DEF Spec, AllocOnlyWhenAllInFlight

\* io_context.cpp:165-175, where the drain phase is skipped, or its loop ends,
\* because in_flight_ is not positive: then no coroutine waits for I/O and every
\* RequestData is on the free list.
QuietWhenNoneInFlight ==
  ~(in_flight_ > 0) =>
    /\ \A c \in Coros : coro[c] # "suspended"
    /\ \A r \in Addresses : \E i \in DOMAIN pool : pool[i] = r

\* The counter may be trusted: a drain phase that does not give up at a timeout
\* leaves nobody suspended.
THEOREM DrainedMeansQuiet == Spec => []QuietWhenNoneInFlight
  <1>1. ASSUME Inv PROVE QuietWhenNoneInFlight
    <2> SUFFICES ASSUME ~(in_flight_ > 0) PROVE Live = {}
      BY <1>1 DEF QuietWhenNoneInFlight, Inv, RequestAccounting, NoStrayResume
    <2>1. IsFiniteSet(Live)
      BY <1>1, LiveAddresses DEF Inv
    <2>2. in_flight_ = Cardinality(Live) /\ Cardinality(Live) \in Nat
      BY <1>1, <2>1, FS_CardinalityType DEF Inv, RequestAccounting
    <2>3. Cardinality(Live) = 0
      BY <2>2
    <2> QED
      BY <2>1, <2>3, FS_EmptySet
  <1> QED
    BY <1>1, InvHolds, PTL

-----------------------------------------------------------------------------
(* The event loop implements AsyncIo: every step of IoContext is, under the   *)
(* refinement mapping AwaitedOp, a step of AsyncIo or no step at all.  What   *)
(* makes it true is that the completion found for a suspended coroutine is    *)
(* the only one, so that the CHOOSE in AwaitedOp has no choice.               *)

Ops == [c \in Coros |-> AwaitedOp(c)]

\* The answer a suspended coroutine will find is the one its request got.
AnswersFound ==
  \A c \in Coros, i \in Unhandled :
    coro[c] = "suspended" /\ AnsweredAt(c, i) => AwaitedOp(c) = cq[i].res

\* It is, because its request has one completion.
LEMMA AwaitedOpAnswered == Inv => AnswersFound
  <1> SUFFICES ASSUME Inv, NEW c \in Coros, NEW i \in Unhandled,
                      coro[c] = "suspended", AnsweredAt(c, i)
               PROVE  AwaitedOp(c) = cq[i].res
    BY DEF AnswersFound
  <1>1. ASSUME NEW j \in Unhandled, AnsweredAt(c, j)
        PROVE  j = i
    <2>1. cq[i].user_data \in Live /\ cq[j].user_data \in Live
      <3>1. cq[i].user_data \in Completed
        BY DEF AnsweredAt, Completed
      <3>2. cq[j].user_data \in Completed
        BY <1>1 DEF AnsweredAt, Completed
      <3> QED
        BY <3>1, <3>2 DEF Live
    <2>2. cq[i].user_data = cq[j].user_data
      BY <1>1, <2>1 DEF AnsweredAt, Inv, NoStrayResume
    <2> QED
      BY <2>2 DEF AnsweredAt, Inv, RequestAccounting
  <1>2. (CHOOSE j \in Unhandled : AnsweredAt(c, j)) = i
    BY <1>1
  <1> QED
    BY <1>2 DEF AwaitedOp

\* Without a completion it waits, and a coroutine that is not suspended awaits
\* nothing.
LEMMA AwaitedOpOther ==
  ASSUME NEW c \in Coros
  PROVE  /\ coro[c] # "suspended" => AwaitedOp(c) = "idle"
         /\ coro[c] = "suspended" /\ (\A i \in Unhandled : ~AnsweredAt(c, i)) => AwaitedOp(c) = "pending"
  BY DEF AwaitedOp

\* The initial states correspond.
LEMMA RefinesInit == Init => Async!Init
  BY DEF Init, Async!Init, AwaitedOp

\* A step that keeps completions, requests and which coroutines are suspended
\* changes no awaited operation.
LEMMA SameOps ==
  ASSUME UNCHANGED <<reqs, cq, count>>,
         \A c \in Coros : coro'[c] = "suspended" <=> coro[c] = "suspended"
  PROVE  Ops' = Ops
  <1>1. ASSUME NEW c \in Coros PROVE AwaitedOp(c)' = AwaitedOp(c)
    <2>1. Unhandled' = Unhandled /\ \A i : AnsweredAt(c, i)' = AnsweredAt(c, i)
      BY DEF Unhandled, AnsweredAt, NoData
    <2> QED
      BY <2>1 DEF AwaitedOp
  <1> QED
    BY <1>1 DEF Ops

\* AwaitedOpAnswered in the next state.
LEMMA AwaitedOpAnsweredNext == Inv' => AnswersFound'
  BY AwaitedOpAnswered, PTL

\* AwaitedOpAnswered and AwaitedOpOther in the next state.
LEMMA AwaitedOpNext ==
  ASSUME Inv', NEW c \in Coros
  PROVE  /\ \A i \in Unhandled' : coro'[c] = "suspended" /\ AnsweredAt(c, i)' => AwaitedOp(c)' = cq'[i].res
         /\ coro'[c] # "suspended" => AwaitedOp(c)' = "idle"
         /\ coro'[c] = "suspended" /\ (\A i \in Unhandled' : ~AnsweredAt(c, i)') => AwaitedOp(c)' = "pending"
  <1>1. \A i \in Unhandled' : coro'[c] = "suspended" /\ AnsweredAt(c, i)' => AwaitedOp(c)' = cq'[i].res
    BY AwaitedOpAnsweredNext DEF AnswersFound
  <1>2. (coro[c] # "suspended" => AwaitedOp(c) = "idle")'
    BY DEF AwaitedOp
  <1>3. (coro[c] = "suspended" /\ (\A i \in Unhandled : ~AnsweredAt(c, i)) => AwaitedOp(c) = "pending")'
    BY DEF AwaitedOp
  <1> QED
    BY <1>1, <1>2, <1>3

\* Releasing handled completions changes no awaited operation.
LEMMA AdvanceOps ==
  ASSUME Inv, Inv', Advance
  PROVE  Ops' = Ops
  <1>1. /\ UNCHANGED <<reqs, coro>> /\ cq' = SubSeq(cq, count + 1, Len(cq)) /\ count' = 0
    BY DEF Advance, reqVars, coroVars
  <1>2. /\ \A k \in Unhandled' : count + k \in Unhandled /\ cq'[k] = cq[count + k]
        /\ \A k \in Unhandled : k - count \in Unhandled' /\ cq'[k - count] = cq[k]
    BY <1>1, AdvanceQueue
  <1>3. ASSUME NEW c \in Coros PROVE AwaitedOp(c)' = AwaitedOp(c)
    <2>1. CASE coro[c] # "suspended"
      <3>1. AwaitedOp(c) = "idle"
        BY <2>1, AwaitedOpOther
      <3>2. coro'[c] # "suspended"
        BY <1>1, <2>1
      <3>3. AwaitedOp(c)' = "idle"
        BY <3>2, AwaitedOpNext
      <3> QED
        BY <3>1, <3>3
    <2>2. CASE coro[c] = "suspended" /\ \E i \in Unhandled : AnsweredAt(c, i)
      <3>1. PICK i \in Unhandled : AnsweredAt(c, i)
        BY <2>2
      <3>2. PICK k \in Unhandled' : cq'[k] = cq[i]
        BY <1>2
      <3>3. AnsweredAt(c, k)'
        BY <1>1, <3>1, <3>2 DEF AnsweredAt, NoData
      <3>4. AwaitedOp(c) = cq[i].res
        BY <2>2, <3>1, AwaitedOpAnswered DEF AnswersFound
      <3>5. AwaitedOp(c)' = cq'[k].res
        BY <1>1, <2>2, <3>3, AwaitedOpNext
      <3> QED
        BY <3>2, <3>4, <3>5
    <2>3. CASE coro[c] = "suspended" /\ \A i \in Unhandled : ~AnsweredAt(c, i)
      <3>1. ASSUME NEW k \in Unhandled' PROVE ~AnsweredAt(c, k)'
        <4>1. PICK i \in Unhandled : cq'[k] = cq[i]
          BY <1>2
        <4> QED
          BY <1>1, <2>3, <4>1 DEF AnsweredAt, NoData
      <3> QED
        BY <1>1, <2>3, <3>1, AwaitedOpOther, AwaitedOpNext
    <2> QED
      BY <2>1, <2>2, <2>3
  <1> QED
    BY <1>3 DEF Ops

\* Parking, unparking and starting a coroutine changes no awaited operation.
LEMMA Stutters ==
  ASSUME Inv, NEW c \in Coros, Park(c) \/ Unpark(c) \/ Spawn(c)
  PROVE  Ops' = Ops /\ result' = result
  <1>1. UNCHANGED <<reqs, cq, count, result>>
    BY DEF Park, Unpark, Spawn, reqVars, kernVars
  <1>2. CASE Park(c)
    BY <1>1, <1>2, LeaveStack, SameOps DEF Park, Proceeds, CoroStates
  <1>3. CASE Unpark(c) \/ Spawn(c)
    BY <1>1, <1>3, EnterStack, SameOps DEF Unpark, Spawn
  <1> QED
    BY <1>2, <1>3

\* A frame is freed: AsyncIo's End.
LEMMA FreeEnds ==
  ASSUME Inv, NEW c \in Coros, Running(c), Free(c), UNCHANGED <<reqs, cq, count>>
  PROVE  Async!End(c)
  <1>1. Leave(c, "none") /\ "none" \in CoroStates \ {"running"}
    BY DEF Free, CoroStates
  <1>2. coro[c] = "running" /\ \A d \in Coros : coro'[d] = IF d = c THEN "none" ELSE coro[d]
    BY <1>1, LeaveStack
  <1>3. Ops' = Ops
    BY <1>2, SameOps
  <1>4. Ops[c] = "idle"
    BY <1>2, AwaitedOpOther DEF Ops
  <1> QED
    BY <1>3, <1>4 DEF Async!End, Free, Ops

\* Submitting an operation: AsyncIo's Request.
LEMMA AwaitRequests ==
  ASSUME Inv, Inv', NEW c \in Coros, AwaitIo(c)
  PROVE  Async!Request(c)
  <1>1. /\ UNCHANGED <<cq, count, result>>
        /\ AllocRequestData(c) /\ Running(c) /\ Leave(c, "suspended")
        /\ "suspended" \in CoroStates \ {"running"}
    BY DEF AwaitIo, Submit, Proceeds, CoroStates, kernVars
  <1>2. coro[c] = "running" /\ \A d \in Coros : coro'[d] = IF d = c THEN "suspended" ELSE coro[d]
    BY <1>1, LeaveStack
  <1>3. \A r \in Live : reqs'[r] = reqs[r] /\ reqs[r].handle # c
    <2>1. \A r \in Live : reqs[r].handle # c
      BY <1>2 DEF Inv, NoStrayResume
    <2>2. \A r \in Live : reqs'[r] = reqs[r]
      BY <1>1, AllocFacts, LiveAddresses DEF Inv
    <2> QED
      BY <2>1, <2>2
  <1>4. Unhandled' = Unhandled
    BY <1>1 DEF Unhandled
  <1>5. \A i \in Unhandled : cq[i].user_data # NoData => cq[i].user_data \in Live
    BY DEF Live, Completed
  <1>6. AwaitedOp(c) = "idle"
    BY <1>2, AwaitedOpOther
  <1>7. AwaitedOp(c)' = "pending"
    <2>1. \A i \in Unhandled' : ~AnsweredAt(c, i)'
      BY <1>1, <1>3, <1>4, <1>5 DEF AnsweredAt, NoData
    <2> QED
      BY <1>2, <2>1, AwaitedOpNext
  <1>8. ASSUME NEW d \in Coros, d # c PROVE AwaitedOp(d)' = AwaitedOp(d)
    <2>1. \A i \in Unhandled : AnsweredAt(d, i)' = AnsweredAt(d, i)
      BY <1>1, <1>3, <1>5 DEF AnsweredAt, NoData
    <2>2. coro'[d] = coro[d]
      BY <1>2, <1>8
    <2> QED
      BY <1>1, <1>4, <2>1, <2>2 DEF AwaitedOp
  <1> QED
    <2>1. Ops[c] = "idle" /\ Ops' = [Ops EXCEPT ![c] = "pending"]
      BY <1>6, <1>7, <1>8 DEF Ops
    <2> QED
      BY <1>1, <2>1 DEF Async!Request, Ops

\* The kernel completes an operation: AsyncIo's Answer; or the cancellation
\* itself, which belongs to no coroutine.
LEMMA CompleteAnswers ==
  ASSUME Inv, Inv', NEW r \in kern, NEW res \in Answers, Complete(r, res)
  PROVE  \/ Ops' = Ops /\ result' = result
         \/ \E c \in Coros : Async!Answer(c, res)
  <1> DEFINE last == Len(cq) + 1
  <1>1. /\ UNCHANGED <<reqs, count, coro, result>>
        /\ cq' = Append(cq, [user_data |-> r, res |-> res])
    BY DEF Complete, reqVars, coroVars
  <1>2. count \in 0..Len(cq) /\ Len(cq) \in Nat
    BY DEF Inv, TypeOK
  <1>3. /\ Unhandled' = Unhandled \cup {last}
        /\ \A i \in Unhandled : cq'[i] = cq[i]
        /\ cq'[last].user_data = r /\ cq'[last].res = res
    BY <1>1, AppendedQueue
  <1>4. \A c \in Coros : \A i \in Unhandled : AnsweredAt(c, i)' = AnsweredAt(c, i)
    BY <1>1, <1>3 DEF AnsweredAt, NoData
  <1>5. ASSUME NEW c \in Coros, r = NoData \/ reqs[r].handle # c
        PROVE  AwaitedOp(c)' = AwaitedOp(c)
    <2>1. \A i \in Unhandled' : AnsweredAt(c, i)' => i \in Unhandled
      BY <1>1, <1>3, <1>5 DEF AnsweredAt, NoData
    <2>2. CASE coro[c] # "suspended"
      <3>1. AwaitedOp(c) = "idle"
        BY <2>2, AwaitedOpOther
      <3>2. coro'[c] # "suspended"
        BY <1>1, <2>2
      <3>3. AwaitedOp(c)' = "idle"
        BY <3>2, AwaitedOpNext
      <3> QED
        BY <3>1, <3>3
    <2>3. CASE coro[c] = "suspended" /\ \E i \in Unhandled : AnsweredAt(c, i)
      <3>1. PICK i \in Unhandled : AnsweredAt(c, i)
        BY <2>3
      <3>2. AwaitedOp(c) = cq[i].res
        BY <2>3, <3>1, AwaitedOpAnswered DEF AnswersFound
      <3>3. i \in Unhandled' /\ AnsweredAt(c, i)'
        BY <1>3, <1>4, <3>1
      <3>4. AwaitedOp(c)' = cq'[i].res
        BY <1>1, <2>3, <3>3, AwaitedOpNext
      <3> QED
        BY <1>3, <3>2, <3>4
    <2>4. CASE coro[c] = "suspended" /\ \A i \in Unhandled : ~AnsweredAt(c, i)
      <3>1. AwaitedOp(c) = "pending"
        BY <2>4, AwaitedOpOther
      <3>2. coro'[c] = "suspended" /\ \A i \in Unhandled' : ~AnsweredAt(c, i)'
        BY <1>1, <1>4, <2>1, <2>4
      <3>3. AwaitedOp(c)' = "pending"
        BY <3>2, AwaitedOpNext
      <3> QED
        BY <3>1, <3>3
    <2> QED
      BY <2>2, <2>3, <2>4
  <1>6. CASE r = NoData
    BY <1>1, <1>5, <1>6 DEF Ops
  <1>7. CASE r # NoData
    <2> DEFINE h == reqs[r].handle
    <2>1. r \in Live /\ r \notin Completed
      BY <1>7 DEF Live, Inv, RequestAccounting
    <2>2. h \in Coros /\ coro[h] = "suspended"
      BY <2>1 DEF Inv, NoStrayResume
    <2>3. \A i \in Unhandled : ~AnsweredAt(h, i)
      <3> SUFFICES ASSUME NEW i \in Unhandled, AnsweredAt(h, i) PROVE FALSE
        OBVIOUS
      <3>1. cq[i].user_data \in Completed /\ reqs[cq[i].user_data].handle = h
        BY DEF AnsweredAt, Completed
      <3>2. cq[i].user_data = r
        <4>1. cq[i].user_data \in Live
          BY <3>1 DEF Live
        <4>2. \A a, b \in Live : reqs[a].handle = reqs[b].handle => a = b
          BY DEF Inv, NoStrayResume
        <4> QED
          BY <2>1, <3>1, <4>1, <4>2
      <3> QED
        BY <2>1, <3>1, <3>2
    <2>4. AwaitedOp(h) = "pending"
      BY <2>2, <2>3, AwaitedOpOther
    <2>5. PICK c \in Coros : c = h
      BY <2>2
    <2>6. AwaitedOp(c)' = res
      <3>1. PICK i \in Unhandled' : i = last
        BY <1>3
      <3>2. AnsweredAt(c, i)'
        BY <1>1, <1>3, <1>7, <2>5, <3>1 DEF AnsweredAt, NoData
      <3> QED
        BY <1>1, <1>3, <2>2, <2>5, <3>1, <3>2, AwaitedOpNext
    <2>7. \A d \in Coros : d # c => AwaitedOp(d)' = AwaitedOp(d)
      BY <1>5, <2>5
    <2>8. Ops[c] = "pending" /\ Ops' = [Ops EXCEPT ![c] = res]
      BY <2>4, <2>5, <2>6, <2>7 DEF Ops
    <2> QED
      BY <1>1, <2>8 DEF Async!Answer, Ops
  <1> QED
    BY <1>6, <1>7

\* The loop handles a completion: AsyncIo's Resume; or the one of the
\* cancellation, which resumes nobody.
LEMMA ReapResumes ==
  ASSUME Inv, Inv', Reap
  PROVE  \/ Ops' = Ops /\ result' = result
         \/ \E c \in Coros : Async!Resume(c)
  <1> DEFINE cqe == cq[count + 1]
             r == cqe.user_data
  <1>1. /\ count < Len(cq) /\ count' = count + 1 /\ UNCHANGED <<cq, sq, kern>>
    BY DEF Reap
  <1>2. /\ count + 1 \in Unhandled
        /\ Unhandled' = Unhandled \ {count + 1}
        /\ r # NoData => r \in Completed
    BY <1>1, HandledFacts
  <1>3. ASSUME NEW c \in Coros,
               \A i \in Unhandled : cq[i].user_data # NoData /\ i # count + 1
                                      => reqs'[cq[i].user_data] = reqs[cq[i].user_data],
               ~AnsweredAt(c, count + 1), coro'[c] = coro[c]
        PROVE  AwaitedOp(c)' = AwaitedOp(c)
    <2>1. \A i \in Unhandled' : i \in Unhandled /\ (AnsweredAt(c, i)' = AnsweredAt(c, i))
      BY <1>1, <1>2, <1>3 DEF AnsweredAt, NoData
    <2>2. CASE coro[c] # "suspended"
      <3>1. AwaitedOp(c) = "idle"
        BY <2>2, AwaitedOpOther
      <3>2. AwaitedOp(c)' = "idle"
        BY <1>3, <2>2, AwaitedOpNext
      <3> QED
        BY <3>1, <3>2
    <2>3. CASE coro[c] = "suspended" /\ \E i \in Unhandled : AnsweredAt(c, i)
      <3>1. PICK i \in Unhandled : AnsweredAt(c, i)
        BY <2>3
      <3>2. AwaitedOp(c) = cq[i].res
        BY <2>3, <3>1, AwaitedOpAnswered DEF AnswersFound
      <3>3. i \in Unhandled' /\ AnsweredAt(c, i)'
        BY <1>2, <1>3, <2>1, <3>1
      <3>4. AwaitedOp(c)' = cq'[i].res
        BY <1>3, <2>3, <3>3, AwaitedOpNext
      <3> QED
        BY <1>1, <3>2, <3>4
    <2>4. CASE coro[c] = "suspended" /\ \A i \in Unhandled : ~AnsweredAt(c, i)
      BY <1>3, <2>1, <2>4, AwaitedOpOther, AwaitedOpNext
    <2> QED
      BY <2>2, <2>3, <2>4
  <1>4. CASE r = NoData /\ UNCHANGED <<reqVars, coroVars>>
    <2>1. \A c \in Coros : ~AnsweredAt(c, count + 1)
      BY <1>4 DEF AnsweredAt
    <2>2. \A c \in Coros : AwaitedOp(c)' = AwaitedOp(c)
      BY <1>3, <1>4, <2>1 DEF reqVars, coroVars
    <2> QED
      BY <1>4, <2>2 DEF Ops, coroVars
  <1>5. CASE r # NoData /\ Deliver(cqe)
    <2> DEFINE h == reqs[r].handle
    <2>1. /\ result' = [result EXCEPT ![reqs[r].result] = cqe.res]
          /\ FreeRequestData(r) /\ Enter(h)
      BY <1>5 DEF Deliver
    <2>2. r \in Live
      BY <1>2, <1>5 DEF Live
    <2>3. h \in Coros /\ reqs[r].result = h /\ coro[h] = "suspended"
      BY <2>2 DEF Inv, NoStrayResume
    <2>4. \A d \in Coros : coro'[d] = IF d = h THEN "running" ELSE coro[d]
      BY <2>1, <2>3, EnterStack
    <2>5. AnsweredAt(h, count + 1)
      BY <1>5 DEF AnsweredAt
    <2>6. AwaitedOp(h) = cqe.res
      BY <1>2, <2>3, <2>5, AwaitedOpAnswered DEF AnswersFound
    <2>7. cqe.res \in Answers
      <3>1. count + 1 \in 1..Len(cq)
        BY <1>1 DEF Inv, TypeOK
      <3>2. cqe \in [user_data : Addresses \cup {NoData}, res : Answers]
        BY <3>1, ElementOfSeq DEF Inv, TypeOK
      <3> QED
        BY <3>2
    <2>8. PICK c \in Coros : c = h
      BY <2>3
    <2>9. AwaitedOp(c)' = "idle"
      BY <2>4, <2>8, AwaitedOpNext
    <2>10. \A i \in Unhandled : cq[i].user_data # NoData /\ i # count + 1
                                  => reqs'[cq[i].user_data] = reqs[cq[i].user_data]
      <3> SUFFICES ASSUME NEW i \in Unhandled, cq[i].user_data # NoData, i # count + 1
                   PROVE  reqs'[cq[i].user_data] = reqs[cq[i].user_data]
        OBVIOUS
      <3>1. cq[i].user_data # r
        BY <1>2 DEF Inv, RequestAccounting
      <3>2. cq[i].user_data \in Addresses
        BY LiveAddresses DEF Live, Completed, Inv
      <3> QED
        BY <2>1, <2>2, <3>1, <3>2, FreeFacts
    <2>11. ASSUME NEW d \in Coros, d # c PROVE AwaitedOp(d)' = AwaitedOp(d)
      <3>1. ~AnsweredAt(d, count + 1) /\ coro'[d] = coro[d]
        BY <2>4, <2>8, <2>11 DEF AnsweredAt
      <3> QED
        BY <1>3, <2>10, <3>1
    <2>12. Ops[c] = cqe.res /\ Ops' = [Ops EXCEPT ![c] = "idle"]
      BY <2>6, <2>8, <2>9, <2>11 DEF Ops
    <2>13. result' = [result EXCEPT ![c] = Ops[c]]
      BY <2>1, <2>3, <2>8, <2>12
    <2> QED
      BY <2>7, <2>12, <2>13 DEF Async!Resume, Ops
  <1> QED
    BY <1>4, <1>5 DEF Reap

\* Every step of IoContext is a step of AsyncIo or leaves it alone.
LEMMA RefinesNext ==
  Inv /\ Inv' /\ [Next]_vars => [Async!Next]_<<Ops, result>>
  <1> SUFFICES ASSUME Inv, Inv', [Next]_vars
               PROVE  Async!Next \/ (Ops' = Ops /\ result' = result)
    OBVIOUS
  <1>1. CASE \E c \in Coros : CoroStep(c)
    <2> PICK c \in Coros : CoroStep(c)
      BY <1>1
    <2>1. CASE AwaitIo(c)
      BY <2>1, AwaitRequests DEF Async!Next
    <2>2. CASE SqFull(c)
      <3>1. UNCHANGED <<reqs, cq, count>>
        BY <2>2 DEF SqFull, reqVars, kernVars
      <3>2. CASE Free(c)
        BY <2>2, <3>1, <3>2, FreeEnds DEF SqFull, Proceeds, Async!Next
      <3>3. CASE UNCHANGED coroVars
        BY <3>1, <3>3, SameOps DEF coroVars
      <3> QED
        BY <2>2, <3>2, <3>3 DEF SqFull, coroVars
    <2>3. CASE Park(c) \/ Unpark(c) \/ Spawn(c)
      BY <2>3, Stutters
    <2>4. CASE Finish(c)
      BY <2>4, FreeEnds DEF Finish, Async!Next, reqVars, kernVars
    <2> QED
      BY <2>1, <2>2, <2>3, <2>4 DEF CoroStep
  <1>2. CASE Reap
    BY <1>2, ReapResumes DEF Async!Next
  <1>3. CASE KernelStep
    BY <1>3, CompleteAnswers DEF KernelStep, Async!Next
  <1>4. CASE \/ Stop \/ RunStart \/ LeaveLoop \/ SubmitError \/ WaitReturns \/ WaitTimeout
             \/ EnterWait \/ ReapDone \/ Advance \/ BeginDrain
             \/ UNCHANGED vars
    <2>1. CASE Advance
      BY <2>1, AdvanceOps DEF Advance, coroVars
    <2>2. CASE ~Advance
      <3>1. UNCHANGED <<reqs, cq, count, coro, result>>
        BY <1>4, <2>2 DEF Stop, RunStart, LeaveLoop, SubmitError, WaitReturns, WaitTimeout, EnterWait,
           ReapDone, BeginDrain, vars, reqVars, kernVars, coroVars
      <3> QED
        BY <3>1, SameOps
    <2> QED
      BY <2>1, <2>2
  <1> QED
    BY <1>1, <1>2, <1>3, <1>4 DEF Next, LoopStep

\* For every number of coroutines and every size of the ring, what Run(),
\* Submit() and the request pool do is, to each coroutine, AsyncIo: it is
\* resumed once per operation, with the answer to that operation.
THEOREM LoopImplementsAsyncIo == Spec => ImplementsAsyncIo
  <1>1. Inv /\ Inv' /\ [Next]_vars => [Async!Next]_<<[c \in Coros |-> AwaitedOp(c)], result>>
    BY RefinesNext DEF Ops
  <1> QED
    BY RefinesInit, <1>1, InvHolds, PTL DEF Spec, ImplementsAsyncIo, Async!Spec
=============================================================================
