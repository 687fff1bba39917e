------------------------- MODULE ResponsePathProofs -------------------------
(***************************************************************************)
(* Proofs about ResponsePath, for any set of requests, any response lengths  *)
(* and any buffer size.                                                      *)
(*                                                                           *)
(* The invariant follows the responses through the queue: those popped are   *)
(* the first ones pushed, those in items_ the rest, in order; everything     *)
(* popped has left to its last byte, except for the response Write is        *)
(* working on, of which ptr bytes have left; and the SQE in flight holds the *)
(* bytes from ptr on.                                                        *)
(***************************************************************************)
EXTENDS ResponsePath, FiniteSetTheorems, SequenceTheorems, TLAPS

-----------------------------------------------------------------------------
(* The bytes s that have left when the responses p have been pushed. *)

Bytes(p) == (1..Len(p)) \X (Nat \ {0})

Successor(p, b) ==
  IF b[2] < Size[p[b[1]]] THEN <<b[1], b[2] + 1>> ELSE <<b[1] + 1, 1>>

Ordered(p, s) ==
  /\ s # <<>> => s[1] = <<1, 1>>
  /\ \A i \in 1..(Len(s) - 1) : s[i + 1] = Successor(p, s[i])

\* Response n is the last one of which something has left, and it has left whole.
LastSent(p, s, n) ==
  IF n = 0 THEN s = <<>> ELSE s # <<>> /\ s[Len(s)] = <<n, Size[p[n]]>>

AllSent(p, s, n) ==
  \A m \in 1..n : \E i \in 1..Len(s) : s[i][1] = m /\ s[i][2] = Size[p[m]]

\* The next byte to leave is byte k + 1 of response n.
UpTo(p, s, n, k) ==
  IF k = 0 THEN LastSent(p, s, n - 1) ELSE s # <<>> /\ s[Len(s)] = <<n, k>>

\* Nothing of this changes for what has left when another response is pushed.
LEMMA PushKeeps ==
  ASSUME NEW p \in Seq(Requests), NEW r \in Requests, NEW s \in Seq(Bytes(p)),
         NEW n \in 0..Len(p)
  PROVE  /\ Append(p, r) \in Seq(Requests)
         /\ Len(Append(p, r)) = Len(p) + 1
         /\ \A m \in 1..Len(p) : Append(p, r)[m] = p[m]
         /\ s \in Seq(Bytes(Append(p, r)))
         /\ Ordered(p, s) => Ordered(Append(p, r), s)
         /\ LastSent(p, s, n) => LastSent(Append(p, r), s, n)
         /\ AllSent(p, s, n) => AllSent(Append(p, r), s, n)
  <1> DEFINE q == Append(p, r)
  <1>1. /\ q \in Seq(Requests) /\ Len(q) = Len(p) + 1 /\ Len(p) \in Nat
        /\ \A m \in 1..Len(p) : q[m] = p[m]
    BY AppendProperties
  <1> HIDE DEF q
  <1>2. s \in Seq(Bytes(q))
    <2>1. Bytes(p) \subseteq Bytes(q)
      BY <1>1 DEF Bytes
    <2> QED
      BY <2>1, SeqMonotonic
  <1>3. \A i \in 1..Len(s) : s[i][1] \in 1..Len(p)
    <2>1. \A i \in 1..Len(s) : s[i] \in Bytes(p)
      BY ElementOfSeq
    <2> QED
      BY <2>1 DEF Bytes
  <1>4. \A i \in 1..(Len(s) - 1) : Successor(q, s[i]) = Successor(p, s[i])
    <2>1. \A i \in 1..(Len(s) - 1) : q[s[i][1]] = p[s[i][1]]
      BY <1>1, <1>3
    <2> QED
      BY <2>1 DEF Successor
  <1>5. Ordered(p, s) => Ordered(q, s)
    BY <1>4 DEF Ordered
  <1>6. LastSent(p, s, n) => LastSent(q, s, n)
    <2>1. n # 0 => n \in 1..Len(p)
      BY <1>1
    <2>2. n # 0 => q[n] = p[n]
      BY <1>1, <2>1
    <2> QED
      BY <2>2 DEF LastSent
  <1>7. ASSUME AllSent(p, s, n) PROVE AllSent(q, s, n)
    <2> SUFFICES ASSUME NEW m \in 1..n
                 PROVE  \E i \in 1..Len(s) : s[i][1] = m /\ s[i][2] = Size[q[m]]
      BY DEF AllSent
    <2>1. m \in 1..Len(p)
      BY <1>1
    <2>2. q[m] = p[m]
      BY <1>1, <2>1
    <2>3. \E i \in 1..Len(s) : s[i][1] = m /\ s[i][2] = Size[p[m]]
      BY <1>7 DEF AllSent
    <2> QED
      BY ONLY <2>2, <2>3
  <1> QED
    BY <1>1, <1>2, <1>5, <1>6, <1>7 DEF q

\* c holds the bytes k + 1 .. k + w of response n.
Chunk(p, n, k, w, c) ==
  /\ c \in Seq(Bytes(p))
  /\ Len(c) = w
  /\ \A j \in 1..w : c[j] = <<n, k + j>>

\* What has left has grown from s to t, up to byte k of response n.
Extended(p, s, t, n, k) ==
  /\ t \in Seq(Bytes(p))
  /\ Ordered(p, t)
  /\ t # <<>>
  /\ t[Len(t)] = <<n, k>>
  /\ \A m \in Nat : AllSent(p, s, m) => AllSent(p, t, m)
  /\ AllSent(p, s, n - 1) /\ k = Size[p[n]] => AllSent(p, t, n)

\* The bytes k + 1 .. k + w of response n follow what has left.
LEMMA SendKeeps ==
  ASSUME NEW p \in Seq(Requests), NEW s \in Seq(Bytes(p)),
         NEW n \in 1..Len(p), NEW k \in Nat, NEW w \in Nat \ {0},
         Size[p[n]] \in Nat, k + w <= Size[p[n]],
         Ordered(p, s), UpTo(p, s, n, k), NEW c, Chunk(p, n, k, w, c)
  PROVE  Extended(p, s, s \o c, n, k + w)
  <1> DEFINE t == s \o c
  <1>1. c \in Seq(Bytes(p)) /\ Len(c) = w /\ \A j \in 1..w : c[j] = <<n, k + j>>
    BY DEF Chunk
  <1>2. /\ t \in Seq(Bytes(p)) /\ Len(t) = Len(s) + w /\ Len(s) \in Nat /\ Len(p) \in Nat
        /\ \A i \in 1..Len(t) : t[i] = IF i <= Len(s) THEN s[i] ELSE c[i - Len(s)]
    <2>1. Len(s) \in Nat /\ Len(p) \in Nat
      BY LenProperties
    <2>2. /\ t \in Seq(Bytes(p)) /\ Len(t) = Len(s) + Len(c)
          /\ \A i \in 1..(Len(s) + Len(c)) : t[i] = IF i <= Len(s) THEN s[i] ELSE c[i - Len(s)]
      BY <1>1, ConcatProperties
    <2> QED
      BY <1>1, <2>1, <2>2
  <1>3. /\ \A i \in 1..Len(s) : i \in 1..Len(t) /\ t[i] = s[i]
        /\ \A j \in 1..w : Len(s) + j \in 1..Len(t) /\ t[Len(s) + j] = <<n, k + j>>
    <2>1. \A i \in 1..Len(s) : i \in 1..Len(t) /\ t[i] = s[i]
      BY <1>2
    <2>2. ASSUME NEW j \in 1..w
          PROVE  Len(s) + j \in 1..Len(t) /\ t[Len(s) + j] = <<n, k + j>>
      <3>1. Len(s) + j \in 1..Len(t) /\ ~(Len(s) + j <= Len(s)) /\ (Len(s) + j) - Len(s) = j
        BY <1>2
      <3> QED
        BY <1>1, <1>2, <3>1
    <2> QED
      BY <2>1, <2>2
  <1> HIDE DEF t
  <1>4. t # <<>> /\ t[Len(t)] = <<n, k + w>>
    <2>1. w \in 1..w /\ Len(s) + w = Len(t)
      BY <1>2
    <2>2. t # <<>>
      BY <1>2
    <2> QED
      BY <1>3, <2>1, <2>2
  <1>5. t[1] = <<1, 1>>
    <2>1. CASE s # <<>>
      <3>1. 1 \in 1..Len(s)
        BY <1>2, <2>1, EmptySeq
      <3> QED
        BY <1>3, <2>1, <3>1 DEF Ordered
    <2>2. CASE s = <<>>
      <3>1. n = 1 /\ k = 0
        BY <1>2, <2>2 DEF UpTo, LastSent
      <3>2. Len(s) = 0 /\ 1 \in 1..w
        BY <2>2
      <3> QED
        BY <1>3, <3>1, <3>2
    <2> QED
      BY <2>1, <2>2
  <1>6. ASSUME NEW i \in 1..(Len(t) - 1) PROVE t[i + 1] = Successor(p, t[i])
    <2>1. CASE i < Len(s)
      <3>1. i \in 1..Len(s) /\ i + 1 \in 1..Len(s) /\ i \in 1..(Len(s) - 1)
        BY <1>2, <2>1
      <3>2. s[i + 1] = Successor(p, s[i])
        BY <3>1 DEF Ordered
      <3> QED
        BY <1>3, <3>1, <3>2
    <2>2. CASE i = Len(s)
      <3>1. s # <<>> /\ t[i] = s[Len(s)] /\ t[i + 1] = <<n, k + 1>>
        <4>1. 1 \in 1..w /\ i \in 1..Len(s)
          BY <1>2, <2>2
        <4> QED
          BY <1>3, <2>2, <4>1
      <3>2. CASE k = 0
        <4>1. n # 1
          BY <3>1, <3>2 DEF UpTo, LastSent
        <4>2. t[i] = <<n - 1, Size[p[n - 1]]>>
          BY <1>2, <3>1, <3>2, <4>1 DEF UpTo, LastSent
        <4>3. ~(Size[p[n - 1]] < Size[p[n - 1]])
          <5>1. n - 1 \in 1..Len(p)
            BY <1>2, <4>1
          <5>2. Size[p[n - 1]] \in Nat
            BY <5>1, ResponsePathAssumption
          <5> QED
            BY <5>2
        <4>4. Successor(p, t[i]) = <<(n - 1) + 1, 1>>
          BY <4>2, <4>3 DEF Successor
        <4> QED
          BY <1>2, <3>1, <3>2, <4>4
      <3>3. CASE k # 0
        <4>1. t[i] = <<n, k>> /\ k < Size[p[n]]
          BY <3>1, <3>3 DEF UpTo
        <4> QED
          BY <3>1, <4>1 DEF Successor
      <3> QED
        BY <3>2, <3>3
    <2>3. CASE i > Len(s)
      <3>1. PICK j \in 1..w : i = Len(s) + j /\ j + 1 \in 1..w
        <4>1. i - Len(s) \in 1..w /\ i = Len(s) + (i - Len(s)) /\ (i - Len(s)) + 1 \in 1..w
          BY <1>2, <2>3
        <4> QED
          BY <4>1
      <3>2. t[i] = <<n, k + j>> /\ t[i + 1] = <<n, k + (j + 1)>>
        <4>1. i + 1 = Len(s) + (j + 1)
          BY <1>2, <3>1
        <4> QED
          BY <1>3, <3>1, <4>1
      <3>3. k + j < Size[p[n]] /\ (k + j) + 1 = k + (j + 1)
        BY <3>1
      <3> QED
        BY <3>2, <3>3 DEF Successor
    <2> QED
      BY <1>2, <2>1, <2>2, <2>3
  <1>7. Ordered(p, t)
    BY <1>5, <1>6 DEF Ordered
  <1>8. \A m \in Nat : AllSent(p, s, m) => AllSent(p, t, m)
    <2> SUFFICES ASSUME NEW m \in Nat, AllSent(p, s, m), NEW j \in 1..m
                 PROVE  \E i \in 1..Len(t) : t[i][1] = j /\ t[i][2] = Size[p[j]]
      BY DEF AllSent
    <2>1. PICK i \in 1..Len(s) : s[i][1] = j /\ s[i][2] = Size[p[j]]
      BY DEF AllSent
    <2>2. i \in 1..Len(t) /\ t[i] = s[i]
      BY <1>3, <2>1
    <2> QED
      BY <2>1, <2>2
  <1>9. ASSUME AllSent(p, s, n - 1), k + w = Size[p[n]] PROVE AllSent(p, t, n)
    <2>1. Len(t) \in 1..Len(t)
      BY <1>2
    <2>2. \E i \in 1..Len(t) : t[i][1] = n /\ t[i][2] = Size[p[n]]
      <3>1. t[Len(t)][1] = n /\ t[Len(t)][2] = k + w
        BY <1>4
      <3> QED
        BY <1>9, <2>1, <3>1
    <2>3. AllSent(p, t, n - 1)
      BY <1>2, <1>8, <1>9
    <2>4. \A m \in 1..n : m = n \/ m \in 1..(n - 1)
      BY <1>2
    <2> QED
      BY <2>2, <2>3, <2>4 DEF AllSent
  <1> QED
    BY <1>2, <1>4, <1>7, <1>8, <1>9 DEF t, Extended

-----------------------------------------------------------------------------
(* The inductive invariant. *)

Popped == Len(pushed) - Len(items_)

QueueInOrder ==
  /\ Popped \in Nat
  /\ \A k \in 1..Len(items_) : items_[k] = Popped + k

WriteInProgress ==
  /\ item = Popped
  /\ item \in 1..Len(pushed)
  /\ ptr < Size[pushed[item]]
  /\ staging = [k \in 1..ToWrite(Size[pushed[item]] - ptr) |-> <<item, ptr + k>>]
  /\ AllSent(pushed, sent, item - 1)
  /\ UpTo(pushed, sent, item, ptr)

WriterProgress ==
  /\ writer = "write" => WriteInProgress
  /\ writer # "write" => staging = <<>>
  /\ writer \in {"pop", "done"} => LastSent(pushed, sent, Popped) /\ AllSent(pushed, sent, Popped)
  /\ writer = "done" => closed_ /\ AllSent(pushed, sent, atClose)

Inv ==
  TypeOK /\ NoLostWakeup /\ QueueInOrder /\ Ordered(pushed, sent) /\ WriterProgress

\* What the invariant says of the variables an action may leave alone.
LEMMA Types ==
  ASSUME Inv
  PROVE  /\ pushed \in Seq(Requests) /\ Len(pushed) \in Nat
         /\ items_ \in Seq(1..Len(pushed)) /\ Len(items_) \in Nat
         /\ sent \in Seq(Bytes(pushed))
         /\ staging \in Seq(Bytes(pushed))
         /\ atClose \in -1..Len(pushed)
         /\ item \in 0..Len(pushed) /\ ptr \in Nat
         /\ \A n \in 1..Len(pushed) : Size[pushed[n]] \in Nat \ {0}
         /\ setup.fixed \in BOOLEAN
  <1>1. pushed \in Seq(Requests) /\ Len(pushed) \in Nat
    BY DEF Inv, TypeOK
  <1>2. \A n \in 1..Len(pushed) : pushed[n] \in Requests
    BY <1>1, ElementOfSeq
  <1> QED
    BY <1>1, <1>2, ResponsePathAssumption DEF Inv, TypeOK, Positions, Bytes

\* An SQE carries at least one byte and at most what is left.
LEMMA ToWriteBounds ==
  ASSUME NEW len \in Nat \ {0}
  PROVE  ToWrite(len) \in 1..len
  BY ResponsePathAssumption DEF ToWrite

\* Resuming writeLoop with the queue q, when everything before q has left.
LEMMA AwaitResumeInv ==
  ASSUME NEW q \in Seq(1..Len(pushed')), NEW n \in Nat, n + Len(q) = Len(pushed'),
         \A k \in 1..Len(q) : q[k] = n + k,
         setup' = setup, setup' \in [sleeps : BOOLEAN, fixed : BOOLEAN],
         handler' \in [Requests -> {"none", "asleep", "done"}],
         pushed' \in Seq(Requests), closed_' \in BOOLEAN,
         sent' \in Seq(Bytes(pushed')), atClose' \in -1..Len(pushed'),
         Ordered(pushed', sent'), LastSent(pushed', sent', n), AllSent(pushed', sent', n),
         q = <<>> => closed_',
         waiter_' = FALSE,
         AwaitResume(q)
  PROVE  Inv'
  <1>1. Len(pushed') \in Nat /\ Len(q) \in Nat
    BY LenProperties
  <1>2. CASE q = <<>>
    <2>1. /\ writer' = "done" /\ item' = 0 /\ ptr' = 0 /\ staging' = <<>> /\ items_' = <<>>
          /\ closed_' /\ Len(items_') = 0
      BY <1>2 DEF AwaitResume, EndWriteLoop
    <2>2. Popped' = n /\ n = Len(pushed')
      BY <1>1, <1>2, <2>1 DEF Popped
    <2>3. TypeOK'
      <3>1. items_' \in Seq(1..Len(pushed')) /\ staging' \in Seq(Bytes(pushed'))
        BY <2>1, EmptySeq
      <3>2. item' \in 0..Len(pushed') /\ ptr' \in Nat
        BY <1>1, <2>1
      <3>3. writer' \in {"pop", "write", "done", "failed"} /\ waiter_' \in BOOLEAN
        BY <2>1
      <3> QED
        BY <3>1, <3>2, <3>3 DEF TypeOK, Positions, Bytes
    <2>4. NoLostWakeup' /\ QueueInOrder'
      BY <2>1, <2>2 DEF NoLostWakeup, QueueInOrder
    <2>5. AllSent(pushed', sent', atClose')
      <3>1. \A m \in 1..atClose' : m \in 1..n
        BY <1>1, <2>2
      <3> QED
        BY <3>1 DEF AllSent
    <2>6. WriterProgress'
      BY <2>1, <2>2, <2>5 DEF WriterProgress
    <2> QED
      BY <2>3, <2>4, <2>6 DEF Inv
  <1>3. CASE q # <<>>
    <2> DEFINE len == Size[pushed'[n + 1]]
    <2>1. Len(q) \in Nat \ {0} /\ Head(q) = q[1] /\ 1 \in 1..Len(q)
      BY <1>3, EmptySeq
    <2>2. Head(q) = n + 1 /\ n + 1 \in 1..Len(pushed')
      BY <1>1, <2>1
    <2>3. len \in Nat \ {0}
      <3>1. pushed'[n + 1] \in Requests
        BY <2>2, ElementOfSeq
      <3> QED
        BY <3>1, ResponsePathAssumption
    <2>4. /\ items_' = Tail(q) /\ writer' = "write" /\ item' = n + 1 /\ ptr' = 0
          /\ staging' = [k \in 1..ToWrite(len) |-> <<n + 1, 0 + k>>]
      BY <1>3, <2>2 DEF AwaitResume, WriteOnce
    <2>5. /\ items_' \in Seq(1..Len(pushed')) /\ Len(items_') = Len(q) - 1
          /\ \A k \in 1..Len(items_') : items_'[k] = q[k + 1]
      BY <1>3, <2>4, HeadTailProperties
    <2>6. Popped' = n + 1
      <3>1. Popped' = Len(pushed') - Len(items_')
        BY DEF Popped
      <3>2. Len(items_') = Len(q) - 1 /\ Len(pushed') = n + Len(q)
        BY <2>5
      <3> HIDE DEF Popped
      <3> QED
        BY <1>1, <3>1, <3>2
    <2> HIDE DEF len
    <2>7. ToWrite(len) \in 1..len
      BY <2>3, ToWriteBounds
    <2>8. TypeOK'
      <3>1. staging' \in Seq(Bytes(pushed'))
        <4>1. PICK w \in Nat : w = ToWrite(len)
          BY <2>3, <2>7
        <4>2. \A k \in 1..w : <<n + 1, 0 + k>> \in Bytes(pushed')
          BY <2>2 DEF Bytes
        <4>3. staging' \in [1..w -> Bytes(pushed')]
          BY <2>4, <4>1, <4>2
        <4>4. staging' \in UNION {[1..m -> Bytes(pushed')] : m \in Nat}
          BY <4>1, <4>3
        <4> QED
          BY <4>4, SeqDef
      <3>2. item' \in 0..Len(pushed') /\ ptr' \in Nat
        BY <1>1, <2>2, <2>4
      <3>3. writer' \in {"pop", "write", "done", "failed"} /\ waiter_' \in BOOLEAN
        BY <2>4
      <3> QED
        BY <2>5, <3>1, <3>2, <3>3 DEF TypeOK, Positions, Bytes
    <2>9. NoLostWakeup'
      BY <2>4 DEF NoLostWakeup
    <2>10. QueueInOrder'
      <3>1. ASSUME NEW k \in 1..Len(items_') PROVE items_'[k] = Popped' + k
        <4>1. k + 1 \in 1..Len(q) /\ (n + 1) + k = n + (k + 1)
          BY <2>1, <2>5
        <4> QED
          BY <2>5, <2>6, <4>1
      <3> QED
        BY <2>6, <3>1 DEF QueueInOrder
    <2>11. WriteInProgress'
      <3>1. Size[pushed'[item']] = len /\ len - 0 = len /\ 0 < len
        BY <2>3, <2>4 DEF len
      <3>2. staging' = [k \in 1..ToWrite(len) |-> <<item', ptr' + k>>]
        BY <2>4
      <3>3. ToWrite(Size[pushed[item]] - ptr)' = ToWrite(len)
        BY <2>4, <3>1 DEF ToWrite
      <3>4. item' - 1 = n
        BY <2>4
      <3>5. UpTo(pushed', sent', item', ptr')
        BY <2>4, <3>4 DEF UpTo
      <3> QED
        BY <2>2, <2>4, <2>6, <3>1, <3>2, <3>3, <3>4, <3>5 DEF WriteInProgress
    <2>12. WriterProgress'
      BY <2>4, <2>11 DEF WriterProgress
    <2> QED
      BY <2>8, <2>9, <2>10, <2>12 DEF Inv
  <1> QED
    BY <1>2, <1>3

\* Steps of handlers that do not push, and stuttering.
LEMMA FrameInv ==
  ASSUME Inv, handler' \in [Requests -> {"none", "asleep", "done"}],
         UNCHANGED <<setup, queueVars, writerVars, pushed, sent, atClose>>
  PROVE  Inv'
  <1>1. /\ setup' = setup /\ items_' = items_ /\ waiter_' = waiter_ /\ closed_' = closed_
        /\ writer' = writer /\ item' = item /\ ptr' = ptr /\ staging' = staging
        /\ pushed' = pushed /\ sent' = sent /\ atClose' = atClose
    BY DEF queueVars, writerVars
  <1>2. TypeOK' /\ NoLostWakeup'
    BY <1>1 DEF Inv, TypeOK, NoLostWakeup, Positions
  <1>3. QueueInOrder' /\ Popped' = Popped
    BY <1>1 DEF Inv, QueueInOrder, Popped
  <1>4. Ordered(pushed', sent')
    BY <1>1 DEF Inv
  <1>5. WriteInProgress => WriteInProgress'
    BY <1>1, <1>3 DEF WriteInProgress, ToWrite
  <1>6. WriterProgress'
    BY <1>1, <1>3, <1>5 DEF Inv, WriterProgress
  <1> QED
    BY <1>2, <1>3, <1>4, <1>6 DEF Inv

\* A response joins the queue while writeLoop is busy or gone.
LEMMA EnqueueInv ==
  ASSUME Inv, NEW r \in Requests, ~waiter_,
         handler' \in [Requests -> {"none", "asleep", "done"}],
         pushed' = Append(pushed, r), items_' = Append(items_, Len(pushed) + 1),
         UNCHANGED <<setup, waiter_, closed_, writerVars, sent, atClose>>
  PROVE  Inv'
  <1>1. /\ setup' = setup /\ waiter_' = waiter_ /\ closed_' = closed_
        /\ writer' = writer /\ item' = item /\ ptr' = ptr /\ staging' = staging
        /\ sent' = sent /\ atClose' = atClose
    BY DEF writerVars
  <1>2. /\ pushed' \in Seq(Requests) /\ Len(pushed') = Len(pushed) + 1
        /\ \A m \in 1..Len(pushed) : pushed'[m] = pushed[m]
    BY Types, AppendProperties
  <1>3. /\ items_ \in Seq(1..Len(pushed'))
        /\ staging \in Seq(Bytes(pushed')) /\ sent \in Seq(Bytes(pushed'))
    <2>1. 1..Len(pushed) \subseteq 1..Len(pushed')
      BY Types, <1>2
    <2>2. Bytes(pushed) \subseteq Bytes(pushed')
      BY Types, <1>2 DEF Bytes
    <2> QED
      BY Types, <2>1, <2>2, SeqMonotonic
  <1>4. /\ items_' \in Seq(1..Len(pushed')) /\ Len(items_') = Len(items_) + 1
        /\ \A k \in 1..Len(items_) : items_'[k] = items_[k]
        /\ items_'[Len(items_) + 1] = Len(pushed) + 1
    <2>1. Len(pushed) + 1 \in 1..Len(pushed')
      BY Types, <1>2
    <2> QED
      BY <1>3, <2>1, AppendProperties
  <1>5. Popped' = Popped /\ Popped \in 0..Len(pushed)
    <2>1. Popped = Len(pushed) - Len(items_) /\ Popped' = Len(pushed') - Len(items_')
      BY DEF Popped
    <2>2. Len(pushed') = Len(pushed) + 1 /\ Len(items_') = Len(items_) + 1
      BY <1>2, <1>4
    <2>3. Len(pushed) \in Nat /\ Len(items_) \in Nat /\ Popped \in Nat
      BY Types DEF Inv, QueueInOrder
    <2> QED
      BY <2>1, <2>2, <2>3
  <1>6. TypeOK' /\ NoLostWakeup'
    <2>1. item' \in 0..Len(pushed') /\ atClose' \in -1..Len(pushed')
      BY Types, <1>1, <1>2
    <2>2. TypeOK'
      BY <1>1, <1>2, <1>3, <1>4, <2>1 DEF Inv, TypeOK, Positions, Bytes
    <2> QED
      BY <1>1, <2>2 DEF Inv, NoLostWakeup
  <1>7. QueueInOrder'
    <2>1. ASSUME NEW k \in 1..Len(items_') PROVE items_'[k] = Popped + k
      <3>1. CASE k \in 1..Len(items_)
        BY <1>4, <3>1 DEF Inv, QueueInOrder
      <3>2. CASE k = Len(items_) + 1
        <4>1. Popped + k = Len(pushed) + 1
          BY Types, <3>2 DEF Popped
        <4> QED
          BY <1>4, <3>2, <4>1
      <3> QED
        BY Types, <1>4, <3>1, <3>2
    <2> QED
      BY <1>5, <2>1 DEF QueueInOrder
  <1>8. ASSUME NEW n \in 0..Len(pushed)
        PROVE  /\ LastSent(pushed, sent, n) => LastSent(pushed', sent, n)
               /\ AllSent(pushed, sent, n) => AllSent(pushed', sent, n)
    BY Types, PushKeeps
  <1>9. Ordered(pushed', sent')
    <2>1. Ordered(pushed, sent) /\ 0 \in 0..Len(pushed)
      BY Types DEF Inv
    <2> QED
      BY Types, <1>1, <2>1, PushKeeps
  <1>10. WriteInProgress => WriteInProgress'
    <2> SUFFICES ASSUME WriteInProgress PROVE WriteInProgress'
      OBVIOUS
    <2>1. item \in 1..Len(pushed) /\ item - 1 \in 0..Len(pushed) /\ item \in 1..Len(pushed')
      BY Types, <1>2, SMTT(30) DEF WriteInProgress
    <2>2. Size[pushed'[item']] = Size[pushed[item]]
      BY <1>1, <1>2, <2>1
    <2>3. AllSent(pushed', sent', item' - 1)
      BY <1>1, <1>8, <2>1 DEF WriteInProgress
    <2>4. UpTo(pushed', sent', item', ptr')
      BY <1>1, <1>8, <2>1 DEF WriteInProgress, UpTo
    <2>5. staging' = [k \in 1..ToWrite(Size[pushed[item]] - ptr)' |-> <<item', ptr' + k>>]
      BY <1>1, <2>2 DEF WriteInProgress, ToWrite
    <2> QED
      BY <1>1, <1>5, <2>1, <2>2, <2>3, <2>4, <2>5 DEF WriteInProgress
  <1>11. writer = "done" => AllSent(pushed', sent', atClose')
    <2>1. CASE atClose \in 0..Len(pushed)
      BY <1>1, <1>8, <2>1 DEF Inv, WriterProgress
    <2>2. CASE atClose = -1
      <3>1. 1..(-1) = {}
        OBVIOUS
      <3> QED
        BY <1>1, <2>2, <3>1 DEF AllSent
    <2> QED
      BY Types, <2>1, <2>2
  <1>12. WriterProgress'
    BY <1>1, <1>5, <1>8, <1>10, <1>11 DEF Inv, WriterProgress
  <1> QED
    BY <1>6, <1>7, <1>9, <1>12 DEF Inv

\* ResponseQueue::Push, with or without a suspended writeLoop.
LEMMA PushInv ==
  ASSUME Inv, NEW r \in Requests, PushResponse(r),
         handler' \in [Requests -> {"none", "asleep", "done"}],
         UNCHANGED <<setup, closed_, sent, atClose>>
  PROVE  Inv'
  <1>1. pushed' = Append(pushed, r) /\ WakeWaiter(Append(items_, Len(pushed) + 1))
    BY DEF PushResponse
  <1>2. CASE ~waiter_
    BY <1>1, <1>2, EnqueueInv DEF WakeWaiter
  <1>3. CASE waiter_
    <2>1. /\ items_ = <<>> /\ writer = "pop" /\ waiter_' = FALSE
          /\ AwaitResume(Append(items_, Len(pushed) + 1))
      BY <1>1, <1>3 DEF WakeWaiter, Inv, NoLostWakeup
    <2>2. Popped = Len(pushed)
      BY Types, <2>1 DEF Popped
    <2>3. LastSent(pushed, sent, Len(pushed)) /\ AllSent(pushed, sent, Len(pushed))
      BY <2>1, <2>2 DEF Inv, WriterProgress
    <2>4. /\ pushed' \in Seq(Requests) /\ Len(pushed') = Len(pushed) + 1
          /\ sent \in Seq(Bytes(pushed')) /\ Ordered(pushed', sent)
          /\ LastSent(pushed', sent, Len(pushed)) /\ AllSent(pushed', sent, Len(pushed))
      <3>1. Len(pushed) \in 0..Len(pushed) /\ Ordered(pushed, sent)
        BY Types DEF Inv
      <3> QED
        BY Types, <1>1, <2>3, <3>1, PushKeeps
    <2>5. PICK q : q = Append(items_, Len(pushed) + 1)
      OBVIOUS
    <2>6. /\ q \in Seq(1..Len(pushed')) /\ Len(q) = 1 /\ q # <<>>
          /\ \A k \in 1..Len(q) : q[k] = Len(pushed) + k
      <3>1. Len(pushed) + 1 \in 1..Len(pushed')
        BY Types, <2>4
      <3>2. <<>> \in Seq(1..Len(pushed')) /\ Len(<<>>) = 0
        BY EmptySeq
      <3>3. /\ q \in Seq(1..Len(pushed')) /\ Len(q) = 1
            /\ q[1] = Len(pushed) + 1
        <4>1. PICK e : e = Len(pushed) + 1
          OBVIOUS
        <4>2. e \in 1..Len(pushed') /\ q = Append(<<>>, e)
          BY <2>1, <2>5, <3>1, <4>1
        <4>3. /\ Append(<<>>, e) \in Seq(1..Len(pushed')) /\ Len(Append(<<>>, e)) = 0 + 1
              /\ Append(<<>>, e)[0 + 1] = e
          BY <3>2, <4>2, AppendProperties
        <4> QED
          BY <4>1, <4>2, <4>3
      <3>4. \A k \in 1..1 : k = 1
        OBVIOUS
      <3>5. 0 # 1
        OBVIOUS
      <3>6. q # <<>>
        BY <3>2, <3>3, <3>5, Zenon
      <3> QED
        BY <3>3, <3>4, <3>6
    <2>7. /\ setup' = setup /\ sent' = sent /\ closed_' = closed_ /\ atClose' = atClose
          /\ setup \in [sleeps : BOOLEAN, fixed : BOOLEAN] /\ closed_ \in BOOLEAN
          /\ atClose \in -1..Len(pushed') /\ Len(pushed) \in Nat
      <3>1. atClose \in -1..Len(pushed')
        BY Types, <2>4
      <3> QED
        BY Types, <3>1 DEF Inv, TypeOK
    <2>8. AwaitResume(q)
      BY <2>1, <2>5
    <2>9. PICK n \in Nat : n = Len(pushed)
      BY <2>7
    <2>10. n + Len(q) = Len(pushed') /\ \A k \in 1..Len(q) : q[k] = n + k
      BY <2>4, <2>6, <2>9
    <2>11. /\ sent' \in Seq(Bytes(pushed')) /\ Ordered(pushed', sent')
           /\ LastSent(pushed', sent', n) /\ AllSent(pushed', sent', n)
           /\ setup' \in [sleeps : BOOLEAN, fixed : BOOLEAN] /\ closed_' \in BOOLEAN
           /\ atClose' \in -1..Len(pushed')
      BY <2>4, <2>7, <2>9
    <2> QED
      BY <2>1, <2>4, <2>6, <2>7, <2>8, <2>9, <2>10, <2>11, AwaitResumeInv
  <1> QED
    BY <1>2, <1>3

\* ResponseQueue::Close.
LEMMA CloseInv ==
  ASSUME Inv, Close
  PROVE  Inv'
  <1>1. /\ ~closed_ /\ closed_' = TRUE /\ atClose' = Len(pushed) /\ WakeWaiter(items_)
        /\ setup' = setup /\ handler' = handler /\ pushed' = pushed /\ sent' = sent
    BY DEF Close
  <1>2. /\ QueueInOrder /\ Popped \in Nat /\ Popped + Len(items_) = Len(pushed)
    BY Types DEF Inv, QueueInOrder, Popped
  <1>3. /\ setup' \in [sleeps : BOOLEAN, fixed : BOOLEAN]
        /\ handler' \in [Requests -> {"none", "asleep", "done"}]
        /\ closed_' \in BOOLEAN /\ atClose' \in -1..Len(pushed')
        /\ Ordered(pushed', sent')
    <2>1. atClose' \in -1..Len(pushed')
      BY Types, <1>1
    <2> QED
      BY <1>1, <2>1 DEF Inv, TypeOK
  <1>4. CASE waiter_
    <2>1. waiter_' = FALSE /\ AwaitResume(items_) /\ writer = "pop"
      BY <1>1, <1>4 DEF WakeWaiter, Inv, NoLostWakeup
    <2>2. LastSent(pushed, sent, Popped) /\ AllSent(pushed, sent, Popped)
      BY <2>1 DEF Inv, WriterProgress
    <2>3. PICK q, n : q = items_ /\ n = Popped
      OBVIOUS
    <2>4. /\ q \in Seq(1..Len(pushed')) /\ n \in Nat /\ n + Len(q) = Len(pushed')
          /\ \A k \in 1..Len(q) : q[k] = n + k
          /\ AwaitResume(q)
      BY Types, <1>1, <1>2, <2>1, <2>3 DEF QueueInOrder
    <2>5. LastSent(pushed', sent', n) /\ AllSent(pushed', sent', n)
      BY <1>1, <2>2, <2>3
    <2>6. pushed' \in Seq(Requests) /\ sent' \in Seq(Bytes(pushed'))
      BY Types, <1>1
    <2> QED
      BY <1>1, <1>3, <2>1, <2>4, <2>5, <2>6, AwaitResumeInv
  <1>5. CASE ~waiter_
    <2>1. /\ items_' = items_ /\ waiter_' = waiter_
          /\ writer' = writer /\ item' = item /\ ptr' = ptr /\ staging' = staging
      BY <1>1, <1>5 DEF WakeWaiter, writerVars
    <2>2. TypeOK'
      BY <1>1, <1>3, <2>1 DEF Inv, TypeOK, Positions
    <2>3. NoLostWakeup'
      BY <1>5, <2>1 DEF Inv, NoLostWakeup
    <2>4. QueueInOrder' /\ Popped' = Popped
      BY <1>1, <2>1 DEF Inv, QueueInOrder, Popped
    <2>5. WriteInProgress => WriteInProgress'
      BY <1>1, <2>1, <2>4 DEF WriteInProgress, ToWrite
    <2>6. writer \notin {"pop", "done"}
      BY <1>1, <1>5 DEF Inv, NoLostWakeup, WriterProgress
    <2>7. WriterProgress'
      BY <2>1, <2>5, <2>6 DEF Inv, WriterProgress
    <2> QED
      BY <1>3, <2>2, <2>3, <2>4, <2>7 DEF Inv
  <1> QED
    BY <1>4, <1>5

\* A write error ends writeLoop.
LEMMA WriteFailsInv ==
  ASSUME Inv, WriteFails
  PROVE  Inv'
  <1>1. /\ writer = "write" /\ writer' = "failed" /\ item' = 0 /\ ptr' = 0 /\ staging' = <<>>
        /\ setup' = setup /\ handler' = handler /\ pushed' = pushed /\ sent' = sent
        /\ items_' = items_ /\ waiter_' = waiter_ /\ closed_' = closed_ /\ atClose' = atClose
    BY DEF WriteFails, EndWriteLoop, queueVars
  <1>2. staging' \in Seq(Bytes(pushed')) /\ item' \in 0..Len(pushed') /\ ptr' \in Nat
    <2>1. Len(pushed') \in Nat
      BY Types, <1>1
    <2> QED
      BY <1>1, <2>1, EmptySeq
  <1>3. TypeOK'
    BY <1>1, <1>2 DEF Inv, TypeOK, Positions, Bytes
  <1>4. NoLostWakeup'
    BY <1>1 DEF Inv, NoLostWakeup
  <1>5. QueueInOrder'
    BY <1>1 DEF Inv, QueueInOrder, Popped
  <1>6. Ordered(pushed', sent') /\ WriterProgress'
    BY <1>1 DEF Inv, WriterProgress
  <1> QED
    BY <1>3, <1>4, <1>5, <1>6 DEF Inv

\* What a completion of w bytes takes from the staging buffer.
LEMMA ChunkTaken ==
  ASSUME Inv, writer = "write", NEW w \in 1..Len(staging)
  PROVE  /\ w \in Nat \ {0} /\ ptr + w <= Size[pushed[item]]
         /\ Chunk(pushed, item, ptr, w, SubSeq(staging, 1, w))
  <1> DEFINE len == Size[pushed[item]]
  <1>1. WriteInProgress
    BY DEF Inv, WriterProgress
  <1>2. len \in Nat \ {0} /\ item \in 1..Len(pushed) /\ ptr \in Nat /\ ptr < len
    BY Types, <1>1 DEF WriteInProgress
  <1>3. staging = [k \in 1..ToWrite(len - ptr) |-> <<item, ptr + k>>]
    BY <1>1 DEF WriteInProgress
  <1> HIDE DEF len
  <1>4. ToWrite(len - ptr) \in 1..(len - ptr)
    <2>1. PICK m \in Nat \ {0} : m = len - ptr
      BY <1>2
    <2>2. ToWrite(m) \in 1..m
      BY <2>1, ToWriteBounds
    <2> QED
      BY <2>1, <2>2
  <1>5. Len(staging) = ToWrite(len - ptr)
    <2>1. PICK m \in Nat : m = ToWrite(len - ptr)
      BY <1>2, <1>4
    <2>2. DOMAIN staging = 1..m
      BY <1>3, <2>1
    <2>3. Len(staging) \in Nat /\ DOMAIN staging = 1..Len(staging)
      BY Types, LenProperties
    <2> QED
      BY <2>1, <2>2, <2>3
  <1>6. w \in Nat \ {0} /\ ptr + w <= len
    BY <1>2, <1>4, <1>5
  <1>7. /\ SubSeq(staging, 1, w) \in Seq(Bytes(pushed))
        /\ Len(SubSeq(staging, 1, w)) = w
        /\ \A j \in 1..w : SubSeq(staging, 1, w)[j] = staging[j]
    <2>1. 1 \in 1..(Len(staging) + 1) /\ w \in 1..Len(staging) /\ Len(staging) \in Nat
      BY Types, <1>6
    <2> QED
      BY Types, <2>1, SubSeqProperties
  <1>8. \A j \in 1..w : staging[j] = <<item, ptr + j>>
    <2>1. \A j \in 1..w : j \in 1..ToWrite(len - ptr)
      BY <1>4, <1>5, <1>6
    <2> QED
      BY <1>3, <2>1
  <1> QED
    BY <1>6, <1>7, <1>8 DEF Chunk, len

\* A completion: the bytes that left are the next ones of the response.
LEMMA WriteCompletesInv ==
  ASSUME Inv, NEW w \in 1..Len(staging), WriteCompletes(w)
  PROVE  Inv'
  <1> DEFINE len == Size[pushed[item]]
  <1>1. /\ writer = "write" /\ sent' = sent \o SubSeq(staging, 1, w)
        /\ setup' = setup /\ handler' = handler /\ closed_' = closed_
        /\ pushed' = pushed /\ atClose' = atClose
    BY DEF WriteCompletes
  <1>2. WriteInProgress /\ ~waiter_
    BY <1>1 DEF Inv, WriterProgress, NoLostWakeup
  <1>3. len \in Nat \ {0} /\ item \in 1..Len(pushed) /\ ptr \in Nat /\ ptr < len
    BY Types, <1>2 DEF WriteInProgress
  <1>4. /\ staging = [k \in 1..ToWrite(len - ptr) |-> <<item, ptr + k>>]
        /\ AllSent(pushed, sent, item - 1) /\ UpTo(pushed, sent, item, ptr)
        /\ item = Popped
    BY <1>2 DEF WriteInProgress
  <1> HIDE DEF len
  <1>5. w \in Nat \ {0} /\ ptr + w <= len
    BY <1>1, ChunkTaken DEF len
  <1>6. PICK c \in Seq(Bytes(pushed)) :
          /\ c = SubSeq(staging, 1, w)
          /\ Len(c) = w
          /\ \A j \in 1..w : c[j] = <<item, ptr + j>>
    BY <1>1, ChunkTaken DEF Chunk
  <1>7. /\ sent' \in Seq(Bytes(pushed)) /\ Ordered(pushed, sent') /\ sent' # <<>>
        /\ sent'[Len(sent')] = <<item, ptr + w>>
        /\ AllSent(pushed, sent', item - 1)
        /\ ptr + w = len => AllSent(pushed, sent', item)
    <2>1. sent' = sent \o c
      BY <1>1, <1>6
    <2>2. PICK n \in 1..Len(pushed), k \in Nat : n = item /\ k = ptr
      BY <1>3
    <2>3. /\ n - 1 \in Nat /\ k + w <= Size[pushed[n]] /\ UpTo(pushed, sent, n, k)
          /\ Size[pushed[n]] \in Nat /\ AllSent(pushed, sent, n - 1)
      BY Types, <1>3, <1>4, <1>5, <2>2 DEF len
    <2>4. Ordered(pushed, sent) /\ Chunk(pushed, n, k, w, c)
      BY <1>6, <2>2 DEF Inv, Chunk
    <2>5. Extended(pushed, sent, sent \o c, n, k + w)
      BY Types, <1>5, <2>2, <2>3, <2>4, SendKeeps
    <2> QED
      BY <2>1, <2>2, <2>3, <2>5 DEF Extended, len
  <1>8. CASE ptr + w < len
    <2>1. /\ ptr' = ptr + w /\ staging' = [k \in 1..ToWrite(len - (ptr + w)) |-> <<item, ptr + w + k>>]
          /\ writer' = writer /\ item' = item /\ items_' = items_ /\ waiter_' = waiter_
      BY <1>3, <1>5, <1>8 DEF WriteCompletes, Length, WriteOnce, len
    <2>2. ptr' \in Nat /\ ptr' # 0
      BY <1>3, <1>5, <2>1
    <2>3. staging' \in Seq(Bytes(pushed'))
      <3>1. PICK m \in Nat \ {0} : m = len - (ptr + w)
        BY <1>3, <1>5, <1>8
      <3>2. PICK v \in Nat : v = ToWrite(m)
        BY <3>1, ToWriteBounds
      <3>3. \A k \in 1..v : <<item, ptr + w + k>> \in Bytes(pushed')
        BY <1>1, <1>3, <1>5 DEF Bytes
      <3>4. staging' \in [1..v -> Bytes(pushed')]
        BY <2>1, <3>1, <3>2, <3>3
      <3>5. staging' \in UNION {[1..j -> Bytes(pushed')] : j \in Nat}
        BY <3>2, <3>4
      <3> QED
        BY <3>5, SeqDef
    <2>4. TypeOK'
      BY <1>1, <1>7, <2>1, <2>2, <2>3 DEF Inv, TypeOK, Positions, Bytes
    <2>5. NoLostWakeup'
      BY <1>1, <2>1 DEF Inv, NoLostWakeup
    <2>6. QueueInOrder' /\ Popped' = Popped
      BY <1>1, <2>1 DEF Inv, QueueInOrder, Popped
    <2>7. WriteInProgress'
      <3>1. Size[pushed'[item']] = len /\ ptr' < len
        BY <1>1, <1>8, <2>1 DEF len
      <3>2. staging' = [k \in 1..ToWrite(Size[pushed[item]] - ptr)' |-> <<item', ptr' + k>>]
        BY <1>1, <2>1, <3>1 DEF ToWrite
      <3>3. AllSent(pushed', sent', item' - 1) /\ UpTo(pushed', sent', item', ptr')
        BY <1>1, <1>7, <2>1, <2>2 DEF UpTo
      <3> QED
        BY <1>1, <1>3, <1>4, <2>1, <2>6, <3>1, <3>2, <3>3 DEF WriteInProgress
    <2>8. WriterProgress'
      BY <1>1, <2>1, <2>7 DEF WriterProgress
    <2> QED
      BY <1>1, <1>7, <2>4, <2>5, <2>6, <2>8 DEF Inv
  <1>9. CASE ~(ptr + w < len)
    <2>1. Pop
      BY <1>3, <1>5, <1>9 DEF WriteCompletes, Length, len
    <2>2. PICK n \in Nat : n = Popped /\ n = item
      BY <1>3, <1>4
    <2>3. ptr + w = len
      BY <1>3, <1>5, <1>9
    <2>4. LastSent(pushed', sent', n) /\ AllSent(pushed', sent', n)
      <3>1. n # 0 /\ sent' # <<>> /\ sent'[Len(sent')] = <<n, Size[pushed[n]]>>
        BY Types, <1>3, <1>7, <2>2, <2>3 DEF len
      <3>2. LastSent(pushed, sent', n)
        BY <3>1 DEF LastSent
      <3> QED
        BY <1>1, <1>7, <2>2, <2>3, <3>2
    <2>5. /\ setup' \in [sleeps : BOOLEAN, fixed : BOOLEAN]
          /\ handler' \in [Requests -> {"none", "asleep", "done"}]
          /\ pushed' \in Seq(Requests) /\ closed_' \in BOOLEAN
          /\ sent' \in Seq(Bytes(pushed')) /\ atClose' \in -1..Len(pushed')
          /\ Ordered(pushed', sent')
      BY <1>1, <1>7 DEF Inv, TypeOK
    <2>6. CASE items_ # <<>> \/ closed_
      <3>1. AwaitResume(items_) /\ waiter_' = FALSE
        BY <1>2, <2>1, <2>6 DEF Pop, Inv, TypeOK
      <3>2. PICK q : q = items_
        OBVIOUS
      <3>3. /\ q \in Seq(1..Len(pushed')) /\ n + Len(q) = Len(pushed')
            /\ AwaitResume(q)
        BY Types, <1>1, <2>2, <3>1, <3>2 DEF Popped
      <3>4. \A k \in 1..Len(q) : q[k] = n + k
        BY <2>2, <3>2 DEF Inv, QueueInOrder
      <3>5. q = <<>> => closed_'
        BY <1>1, <2>6, <3>2
      <3> QED
        BY <1>1, <2>4, <2>5, <3>1, <3>3, <3>4, <3>5, AwaitResumeInv
    <2>7. CASE items_ = <<>> /\ ~closed_
      <3>1. /\ waiter_' = TRUE /\ writer' = "pop" /\ item' = 0 /\ ptr' = 0
            /\ staging' = <<>> /\ items_' = items_
        BY <2>1, <2>7 DEF Pop
      <3>2. staging' \in Seq(Bytes(pushed')) /\ item' \in 0..Len(pushed') /\ ptr' \in Nat
        <4>1. Len(pushed') \in Nat
          BY Types, <1>1
        <4> QED
          BY <3>1, <4>1, EmptySeq
      <3>3. TypeOK'
        BY <1>1, <2>5, <3>1, <3>2 DEF Inv, TypeOK, Positions, Bytes
      <3>4. NoLostWakeup'
        BY <1>1, <2>7, <3>1 DEF NoLostWakeup
      <3>5. QueueInOrder' /\ Popped' = Popped
        BY <1>1, <3>1 DEF Inv, QueueInOrder, Popped
      <3>6. WriterProgress'
        BY <2>2, <2>4, <3>1, <3>5 DEF WriterProgress
      <3> QED
        BY <2>5, <3>3, <3>4, <3>5, <3>6 DEF Inv
    <2> QED
      BY <2>6, <2>7
  <1> QED
    BY <1>8, <1>9

-----------------------------------------------------------------------------
(* The theorems. *)

\* At the start nothing has been pushed and writeLoop waits.
LEMMA InitInv ==
  ASSUME Init
  PROVE  Inv
  <1>1. /\ <<>> \in Seq(Requests) /\ <<>> \in Seq(1..0) /\ <<>> \in Seq((1..0) \X (Nat \ {0}))
        /\ Len(<<>>) = 0
    BY EmptySeq
  <1>2. /\ pushed = <<>> /\ Len(pushed) = 0 /\ sent = <<>> /\ staging = <<>> /\ items_ = <<>>
        /\ Len(items_) = 0 /\ Len(sent) = 0
    BY <1>1 DEF Init
  <1>3. TypeOK
    <2>1. item \in 0..Len(pushed) /\ ptr \in Nat /\ atClose \in -1..Len(pushed)
      BY <1>2 DEF Init
    <2>2. Positions = 1..0
      BY <1>2 DEF Positions
    <2>3. /\ pushed \in Seq(Requests) /\ items_ \in Seq(Positions)
          /\ staging \in Seq(Positions \X (Nat \ {0})) /\ sent \in Seq(Positions \X (Nat \ {0}))
      BY <1>1, <1>2, <2>2
    <2> QED
      BY <2>1, <2>3 DEF Init, TypeOK
  <1>4. NoLostWakeup
    BY <1>2 DEF Init, NoLostWakeup
  <1>5. Popped = 0 /\ QueueInOrder
    BY <1>2 DEF Popped, QueueInOrder
  <1>6. Ordered(pushed, sent)
    BY <1>2 DEF Ordered
  <1>7. WriterProgress
    <2>1. LastSent(pushed, sent, 0) /\ AllSent(pushed, sent, 0)
      BY <1>2 DEF LastSent, AllSent
    <2> QED
      BY <1>2, <1>5, <2>1 DEF Init, WriterProgress
  <1> QED
    BY <1>3, <1>4, <1>5, <1>6, <1>7 DEF Inv

\* Every step keeps the invariant.
LEMMA NextInv ==
  ASSUME Inv, [Next]_vars
  PROVE  Inv'
  <1> USE DEF HandlerStep
  <1>1. ASSUME NEW r \in Requests, Dispatch(r)
        PROVE  Inv'
    <2>1. handler' \in [Requests -> {"none", "asleep", "done"}]
      BY <1>1 DEF Inv, TypeOK, Dispatch
    <2>2. \/ UNCHANGED <<queueVars, writerVars, pushed>>
          \/ PushResponse(r) /\ UNCHANGED closed_
      BY <1>1 DEF Dispatch
    <2>3. UNCHANGED <<setup, sent, atClose>>
      BY <1>1 DEF Dispatch
    <2> QED
      BY <2>1, <2>2, <2>3, FrameInv, PushInv
  <1>2. ASSUME NEW r \in Requests, Wake(r)
        PROVE  Inv'
    <2>1. handler' \in [Requests -> {"none", "asleep", "done"}]
      BY <1>2 DEF Inv, TypeOK, Wake
    <2> QED
      BY <1>2, <2>1, PushInv DEF Wake
  <1>3. ASSUME KernelStep PROVE Inv'
    BY <1>3, WriteCompletesInv DEF KernelStep
  <1>4. ASSUME UNCHANGED vars PROVE Inv'
    <2>1. handler' \in [Requests -> {"none", "asleep", "done"}]
      BY <1>4 DEF vars, Inv, TypeOK
    <2> QED
      BY <1>4, <2>1, FrameInv DEF vars
  <1> QED
    BY <1>1, <1>2, <1>3, <1>4, CloseInv, WriteFailsInv DEF Next

LEMMA InvHolds == Spec => []Inv
  BY InitInv, NextInv, PTL DEF Spec

\* While Write is suspended the bytes of the SQE in flight come next.
LEMMA InvStream ==
  ASSUME Inv
  PROVE  StreamInOrder
  <1>1. Ordered(pushed, sent \o staging)
    <2>1. CASE writer = "write"
      <3>1. WriteInProgress /\ Ordered(pushed, sent)
        BY <2>1 DEF Inv, WriterProgress
      <3>2. PICK n \in 1..Len(pushed), k \in Nat : n = item /\ k = ptr
        BY Types, <3>1 DEF WriteInProgress
      <3>3. /\ Size[pushed[n]] \in Nat \ {0} /\ k < Size[pushed[n]]
            /\ UpTo(pushed, sent, n, k)
            /\ staging = [j \in 1..ToWrite(Size[pushed[n]] - k) |-> <<n, k + j>>]
        BY Types, <3>1, <3>2 DEF WriteInProgress
      <3>4. PICK m \in Nat \ {0} : m = Size[pushed[n]] - k
        BY <3>2, <3>3
      <3>5. PICK w \in 1..m : w = ToWrite(m)
        BY <3>4, ToWriteBounds
      <3>6. Chunk(pushed, n, k, w, staging)
        <4>1. staging = [j \in 1..w |-> <<n, k + j>>] /\ w \in Nat
          BY <3>3, <3>4, <3>5
        <4>2. DOMAIN staging = 1..w /\ \A j \in 1..w : staging[j] = <<n, k + j>>
          BY <4>1
        <4>3. Len(staging) \in Nat /\ DOMAIN staging = 1..Len(staging)
          BY Types, LenProperties
        <4>4. Len(staging) = w
          BY <4>1, <4>2, <4>3
        <4> QED
          BY Types, <4>2, <4>4 DEF Chunk
      <3>7. w \in Nat \ {0} /\ k + w <= Size[pushed[n]] /\ Size[pushed[n]] \in Nat
        BY <3>2, <3>3, <3>4, <3>5
      <3>8. Extended(pushed, sent, sent \o staging, n, k + w)
        BY Types, <3>1, <3>2, <3>3, <3>6, <3>7, SendKeeps
      <3> QED
        BY <3>8 DEF Extended
    <2>2. CASE writer # "write"
      <3>1. staging = <<>> /\ Ordered(pushed, sent)
        BY <2>2 DEF Inv, WriterProgress
      <3>2. sent \o <<>> = sent
        BY Types, ConcatEmptySeq
      <3> QED
        BY <3>1, <3>2
    <2> QED
      BY <2>1, <2>2
  <1> QED
    BY <1>1 DEF StreamInOrder, Following, Length, Ordered, Successor

\* Every variable keeps its type, for any requests and lengths.
THEOREM TypeCorrect == Spec => []TypeOK
  <1>1. Inv => TypeOK
    BY DEF Inv
  <1> QED
    BY <1>1, InvHolds, PTL

\* ResponseQueue holds writeLoop's handle exactly while writeLoop waits, and
\* it waits only when the queue is empty and open.
THEOREM NoWakeupIsLost == Spec => []NoLostWakeup
  <1>1. Inv => NoLostWakeup
    BY DEF Inv
  <1> QED
    BY <1>1, InvHolds, PTL

\* Whatever the partial writes, the peer receives every response whole and
\* the responses in the order of the calls of Push.
THEOREM StreamStaysInOrder == Spec => []StreamInOrder
  BY InvStream, InvHolds, PTL

\* writeLoop returns without an error only after Close(), with all that was
\* pushed before Close() sent.
THEOREM DrainedBeforeExit == Spec => []DrainedOnExit
  <1>1. Inv => DrainedOnExit
    <2> SUFFICES ASSUME Inv, writer = "done", atClose > 0
                 PROVE  SentWhole(atClose)
      BY DEF Inv, WriterProgress, DrainedOnExit
    <2>1. AllSent(pushed, sent, atClose) /\ atClose \in 1..atClose
      BY Types, SMTT(30) DEF Inv, WriterProgress
    <2> QED
      BY <2>1 DEF AllSent, SentWhole, Length
  <1> QED
    BY <1>1, InvHolds, PTL

-----------------------------------------------------------------------------
(* The responses that have left are a channel's. *)

\* Nothing has left of a response that was not popped, and of the one in Write
\* no byte beyond ptr.
Frontier ==
  /\ \A k \in 1..Len(sent) : sent[k][1] <= Popped
  /\ writer = "write" => \A k \in 1..Len(sent) : sent[k][1] = item => sent[k][2] <= ptr

LEMMA InitFrontier ==
  ASSUME Init
  PROVE  Frontier
  <1>1. 1..Len(sent) = {}
    BY EmptySeq DEF Init
  <1> QED
    BY <1>1 DEF Frontier

\* What a completion adds to the bytes that have left.
LEMMA BytesTaken ==
  ASSUME Inv, NEW w \in 1..Len(staging), WriteCompletes(w)
  PROVE  \A k \in 1..Len(sent') :
           \/ k \in 1..Len(sent) /\ sent'[k] = sent[k]
           \/ \E j \in 1..w : sent'[k] = <<item, ptr + j>>
  <1> DEFINE c == SubSeq(staging, 1, w)
  <1>1. writer = "write" /\ sent' = sent \o c
    BY DEF WriteCompletes
  <1>2. w \in Nat \ {0} /\ c \in Seq(Bytes(pushed)) /\ Len(c) = w /\ \A j \in 1..w : c[j] = <<item, ptr + j>>
    BY <1>1, ChunkTaken DEF Chunk
  <1> HIDE DEF c
  <1>3. sent \in Seq(Bytes(pushed)) /\ Len(sent) \in Nat
    BY Types, LenProperties
  <1>4. /\ Len(sent') = Len(sent) + w
        /\ \A k \in 1..(Len(sent) + Len(c)) : sent'[k] = IF k <= Len(sent) THEN sent[k] ELSE c[k - Len(sent)]
    BY <1>1, <1>2, <1>3, ConcatProperties
  <1> SUFFICES ASSUME NEW k \in 1..Len(sent'), ~(k \in 1..Len(sent) /\ sent'[k] = sent[k])
               PROVE  \E j \in 1..w : sent'[k] = <<item, ptr + j>>
    OBVIOUS
  <1>5. k \in 1..(Len(sent) + Len(c)) /\ ~(k <= Len(sent)) /\ k - Len(sent) \in 1..w
    BY <1>2, <1>3, <1>4
  <1>6. sent'[k] = c[k - Len(sent)]
    BY <1>4, <1>5
  <1> QED
    BY <1>2, <1>5, <1>6

\* When no byte leaves, the queue's front stays or moves on by one.
LEMMA NoByteLeaves ==
  ASSUME Inv, Inv', Frontier, sent' = sent, Popped' >= Popped,
         writer' = "write" => \/ writer = "write" /\ item' = item /\ ptr' = ptr
                              \/ Popped' > Popped
  PROVE  Frontier'
  <1>1. Popped \in Nat /\ Popped' \in Nat
    BY DEF Inv, QueueInOrder
  <1>2. \A k \in 1..Len(sent) : sent[k][1] \in Nat
    <2>1. \A k \in 1..Len(sent) : sent[k] \in Bytes(pushed)
      BY Types, ElementOfSeq
    <2> QED
      BY <2>1 DEF Bytes
  <1>3. \A k \in 1..Len(sent') : sent'[k][1] <= Popped'
    BY <1>1, <1>2 DEF Frontier
  <1>4. writer' = "write" /\ Popped' > Popped => \A k \in 1..Len(sent') : sent'[k][1] # item'
    <2>1. writer' = "write" => item' = Popped'
      BY DEF Inv, WriterProgress, WriteInProgress
    <2> QED
      BY <1>1, <1>2, <2>1 DEF Frontier
  <1> QED
    BY <1>3, <1>4 DEF Frontier

LEMMA PushFrontier ==
  ASSUME Inv, Inv', Frontier, NEW r \in Requests, PushResponse(r), sent' = sent
  PROVE  Frontier'
  <1>1. pushed' = Append(pushed, r) /\ WakeWaiter(Append(items_, Len(pushed) + 1))
    BY DEF PushResponse
  <1>2. /\ Len(pushed') = Len(pushed) + 1 /\ Len(pushed) \in Nat /\ Len(items_) \in Nat
        /\ items_ \in Seq(Nat) /\ Len(pushed) + 1 \in Nat
    <2>1. 1..Len(pushed) \subseteq Nat
      OBVIOUS
    <2> QED
      BY Types, <1>1, <2>1, AppendProperties, SeqMonotonic
  <1>3. PICK q : q = Append(items_, Len(pushed) + 1)
    OBVIOUS
  <1>4. q \in Seq(Nat) /\ q # <<>> /\ Len(q) = Len(items_) + 1
    BY <1>2, <1>3, AppendProperties
  <1>5. CASE waiter_
    <2>1. items_' = Tail(q)
      BY <1>1, <1>3, <1>4, <1>5 DEF WakeWaiter, AwaitResume
    <2>2. Len(items_') = Len(items_)
      BY <1>2, <1>4, <2>1, HeadTailProperties
    <2>3. Popped' = Popped + 1 /\ Popped \in Nat
      BY <1>2, <2>2 DEF Popped, Inv, QueueInOrder
    <2> QED
      BY <2>3, NoByteLeaves
  <1>6. CASE ~waiter_
    <2>1. items_' = q /\ writer' = writer /\ item' = item /\ ptr' = ptr
      BY <1>1, <1>3, <1>6 DEF WakeWaiter, writerVars
    <2>2. Popped' = Popped /\ Popped \in Nat
      BY <1>2, <1>4, <2>1 DEF Popped, Inv, QueueInOrder
    <2> QED
      BY <2>1, <2>2, NoByteLeaves
  <1> QED
    BY <1>5, <1>6

LEMMA CompletesFrontier ==
  ASSUME Inv, Inv', Frontier, NEW w \in 1..Len(staging), WriteCompletes(w)
  PROVE  Frontier' /\ Popped' >= Popped
  <1>1. writer = "write" /\ pushed' = pushed
    BY DEF WriteCompletes
  <1>2. item = Popped /\ Popped \in Nat /\ Popped' \in Nat /\ ptr \in Nat /\ w \in Nat
    BY Types, <1>1, ChunkTaken DEF Inv, QueueInOrder, WriterProgress, WriteInProgress
  <1>3. \A k \in 1..Len(sent) : sent[k][1] \in Nat /\ sent[k][2] \in Nat
    <2>1. \A k \in 1..Len(sent) : sent[k] \in Bytes(pushed)
      BY Types, ElementOfSeq
    <2> QED
      BY <2>1 DEF Bytes
  <1>4. \A k \in 1..Len(sent') :
          /\ sent'[k][1] \in Nat /\ sent'[k][2] \in Nat
          /\ sent'[k][1] <= Popped
          /\ sent'[k][1] = item => sent'[k][2] <= ptr + w
    <2> SUFFICES ASSUME NEW k \in 1..Len(sent')
                 PROVE  /\ sent'[k][1] \in Nat /\ sent'[k][2] \in Nat
                        /\ sent'[k][1] <= Popped
                        /\ sent'[k][1] = item => sent'[k][2] <= ptr + w
      OBVIOUS
    <2>1. CASE k \in 1..Len(sent) /\ sent'[k] = sent[k]
      <3>1. sent[k][1] <= Popped /\ (sent[k][1] = item => sent[k][2] <= ptr)
        BY <1>1, <2>1 DEF Frontier
      <3> QED
        BY <1>2, <1>3, <2>1, <3>1
    <2>2. CASE \E j \in 1..w : sent'[k] = <<item, ptr + j>>
      BY <1>2, <2>2
    <2> QED
      BY <2>1, <2>2, BytesTaken
  <1>5. \/ items_' = items_ /\ (writer' = "write" => item' = item /\ ptr' = ptr + w)
        \/ items_ # <<>> /\ items_' = Tail(items_)
    BY <1>1 DEF WriteCompletes, Pop, AwaitResume, EndWriteLoop
  <1>6. CASE items_' = items_ /\ (writer' = "write" => item' = item /\ ptr' = ptr + w)
    <2>1. Popped' = Popped
      BY <1>1, <1>6 DEF Popped
    <2> QED
      BY <1>2, <1>4, <1>6, <2>1 DEF Frontier
  <1>7. CASE items_ # <<>> /\ items_' = Tail(items_)
    <2>1. Len(items_') = Len(items_) - 1 /\ Len(items_) \in Nat /\ Len(pushed) \in Nat
      BY Types, <1>7, HeadTailProperties
    <2>2. Popped' = Popped + 1
      BY <1>1, <2>1 DEF Popped
    <2>3. writer' = "write" => item' = Popped'
      BY DEF Inv, WriterProgress, WriteInProgress
    <2>4. \A k \in 1..Len(sent') : sent'[k][1] <= Popped' /\ sent'[k][1] # Popped'
      BY <1>2, <1>4, <2>2
    <2> QED
      BY <1>2, <2>2, <2>3, <2>4 DEF Frontier
  <1> QED
    BY <1>5, <1>6, <1>7

LEMMA NextFrontier ==
  ASSUME Inv, Inv', Frontier, [Next]_vars
  PROVE  Frontier'
  <1>1. ASSUME NEW r \in Requests, PushResponse(r), sent' = sent PROVE Frontier'
    BY <1>1, PushFrontier
  <1>2. ASSUME UNCHANGED <<queueVars, writerVars, pushed, sent>> PROVE Frontier'
    BY <1>2 DEF Frontier, Popped, queueVars, writerVars
  <1>3. ASSUME NEW r \in Requests, HandlerStep(r) PROVE Frontier'
    BY <1>1, <1>2, <1>3 DEF HandlerStep, Dispatch, Wake
  <1>4. CASE KernelStep
    BY <1>4, CompletesFrontier DEF KernelStep
  <1>5. CASE Close
    <2>1. pushed' = pushed /\ sent' = sent /\ WakeWaiter(items_)
      BY <1>5 DEF Close
    <2>2. waiter_ => items_ = <<>>
      BY DEF Inv, NoLostWakeup
    <2>3. items_' = items_ /\ (writer' = "write" => writer = "write" /\ item' = item /\ ptr' = ptr)
      BY <2>1, <2>2 DEF WakeWaiter, AwaitResume, EndWriteLoop, writerVars
    <2>4. Popped' = Popped /\ Popped \in Nat
      BY <2>1, <2>3 DEF Popped, Inv, QueueInOrder
    <2> QED
      BY <2>1, <2>3, <2>4, NoByteLeaves
  <1>6. CASE WriteFails
    BY <1>6 DEF WriteFails, EndWriteLoop, queueVars, Frontier, Popped
  <1>7. CASE UNCHANGED vars
    BY <1>2, <1>7 DEF vars
  <1> QED
    BY <1>3, <1>4, <1>5, <1>6, <1>7 DEF Next

\* The first n elements of a sequence.
LEMMA FirstOnes ==
  ASSUME NEW p \in Seq(Requests), NEW n \in 0..Len(p)
  PROVE  /\ SubSeq(p, 1, n) \in Seq(Requests) /\ Len(SubSeq(p, 1, n)) = n
         /\ \A k \in 1..n : SubSeq(p, 1, n)[k] = p[k]
  <1>1. Len(p) \in Nat /\ \A k \in 1..n : p[k] \in Requests
    BY LenProperties, ElementOfSeq
  <1>2. /\ SubSeq(p, 1, n) \in Seq(Requests)
        /\ Len(SubSeq(p, 1, n)) = IF 1 <= n THEN n - 1 + 1 ELSE 0
        /\ \A k \in 1..(n - 1 + 1) : SubSeq(p, 1, n)[k] = p[1 + k - 1]
    BY <1>1, SubSeqProperties
  <1>3. n - 1 + 1 = n /\ \A k \in 1..n : 1 + k - 1 = k
    BY <1>1
  <1> QED
    BY <1>1, <1>2, <1>3

\* How many responses have left, when they are the first m.
LEMMA LeftIs ==
  ASSUME NEW m \in 0..Len(pushed), Len(pushed) \in Nat,
         \A n \in 1..Len(pushed) : SentWhole(n) <=> n <= m
  PROVE  Left = m
  <1>1. {n \in Positions : SentWhole(n)} = 1..m
    BY DEF Positions
  <1>2. Cardinality(1..m) = m
    BY FS_Interval
  <1> QED
    BY <1>1, <1>2 DEF Left

\* The responses before the one in Write have left; when writeLoop waits or has
\* returned, all that were popped.
FirstHaveLeft ==
  /\ writer = "write" => Left = Popped - 1
  /\ writer \in {"pop", "done"} => Left = Popped

LEMMA LeftInOrder == Inv /\ Frontier => FirstHaveLeft
  <1> SUFFICES ASSUME Inv, Frontier PROVE FirstHaveLeft
    OBVIOUS
  <1>1. Len(pushed) \in Nat /\ Popped \in 0..Len(pushed) /\ \A n \in 1..Len(pushed) : Size[pushed[n]] \in Nat
    BY Types DEF Popped, Inv, QueueInOrder
  <1>2. ASSUME writer = "write" PROVE Left = Popped - 1
    <2>1. /\ item = Popped /\ item \in 1..Len(pushed) /\ ptr < Size[pushed[item]] /\ ptr \in Nat
          /\ AllSent(pushed, sent, item - 1)
      BY <1>2, Types DEF Inv, WriterProgress, WriteInProgress
    <2>2. ASSUME NEW n \in 1..Len(pushed), SentWhole(n) PROVE n <= Popped - 1
      <3>1. PICK k \in 1..Len(sent) : sent[k][1] = n /\ sent[k][2] = Size[pushed[n]]
        BY <2>2 DEF SentWhole, Length
      <3>2. n <= Popped /\ (n = item => Size[pushed[n]] <= ptr)
        BY <1>2, <3>1 DEF Frontier
      <3> QED
        BY <1>1, <2>1, <3>2
    <2>3. ASSUME NEW n \in 1..Len(pushed), n <= Popped - 1 PROVE SentWhole(n)
      <3>1. n \in 1..(item - 1)
        BY <1>1, <2>1, <2>3
      <3> QED
        BY <2>1, <3>1 DEF AllSent, SentWhole, Length
    <2>4. Popped - 1 \in 0..Len(pushed)
      BY <1>1, <2>1
    <2> QED
      BY <1>1, <2>2, <2>3, <2>4, LeftIs
  <1>3. ASSUME writer \in {"pop", "done"} PROVE Left = Popped
    <2>1. AllSent(pushed, sent, Popped)
      BY <1>3 DEF Inv, WriterProgress
    <2>2. ASSUME NEW n \in 1..Len(pushed), SentWhole(n) PROVE n <= Popped
      <3>1. PICK k \in 1..Len(sent) : sent[k][1] = n
        BY <2>2 DEF SentWhole
      <3> QED
        BY <3>1 DEF Frontier
    <2>3. ASSUME NEW n \in 1..Len(pushed), n <= Popped PROVE SentWhole(n)
      <3>1. n \in 1..Popped
        BY <1>1, <2>3
      <3> QED
        BY <2>1, <3>1 DEF AllSent, SentWhole, Length
    <2> QED
      BY <1>1, <2>2, <2>3, LeftIs
  <1> QED
    BY <1>2, <1>3 DEF FirstHaveLeft

LEMMA LeftBound ==
  ASSUME Inv
  PROVE  Left \in 0..Len(pushed)
  <1> DEFINE G == {n \in Positions : SentWhole(n)}
  <1>1. Len(pushed) \in Nat /\ G \in SUBSET (1..Len(pushed))
    BY Types DEF Positions
  <1>2. IsFiniteSet(1..Len(pushed)) /\ Cardinality(1..Len(pushed)) = Len(pushed)
    <2>1. PICK m \in Nat : m = Len(pushed)
      BY <1>1
    <2>2. IsFiniteSet(1..m) /\ Cardinality(1..m) = m
      BY FS_Interval
    <2> QED
      BY <2>1, <2>2
  <1>3. IsFiniteSet(G) /\ Cardinality(G) <= Len(pushed)
    BY <1>1, <1>2, FS_Subset
  <1>4. Cardinality(G) \in Nat
    BY <1>3, FS_CardinalityType
  <1> QED
    BY <1>1, <1>3, <1>4 DEF Left

\* Push puts a response into the channel, and nothing leaves it.
LEMMA PushSends ==
  ASSUME Inv, NEW r \in Requests, PushResponse(r), sent' = sent
  PROVE  Channel!Send(r)
  <1>1. /\ pushed' = Append(pushed, r) /\ pushed' \in Seq(Requests) /\ Len(pushed') = Len(pushed) + 1
        /\ \A n \in 1..Len(pushed) : pushed'[n] = pushed[n]
    BY Types, AppendProperties DEF PushResponse
  <1>2. Len(pushed) \in Nat /\ \A k \in 1..Len(sent) : sent[k][1] \in 1..Len(pushed)
    <2>1. \A k \in 1..Len(sent) : sent[k] \in Bytes(pushed)
      BY Types, ElementOfSeq
    <2> QED
      BY Types, <2>1 DEF Bytes
  <1>3. Left' = Left
    <2>1. ASSUME NEW n \in 1..Len(pushed) PROVE SentWhole(n)' <=> SentWhole(n)
      BY <1>1 DEF SentWhole, Length
    <2>2. PICK last : last = Len(pushed) + 1
      OBVIOUS
    <2>3. Positions' = Positions \cup {last} /\ Positions = 1..Len(pushed)
      BY <1>1, <1>2, <2>2 DEF Positions
    <2>4. {n \in Positions : SentWhole(n)}' = {n \in Positions : SentWhole(n)}
      <3>1. ~SentWhole(last)'
        <4>1. \A k \in 1..Len(sent) : sent[k][1] # last
          BY <1>2, <2>2
        <4> QED
          BY <4>1 DEF SentWhole
      <3> QED
        BY <2>1, <2>3, <3>1
    <2> QED
      BY <2>4 DEF Left
  <1>4. SubSeq(pushed', 1, Left) = SubSeq(pushed, 1, Left)
    <2>1. PICK n : n = Left
      OBVIOUS
    <2>2. n \in 0..Len(pushed) /\ n \in 0..Len(pushed')
      BY <1>1, <1>2, <2>1, LeftBound
    <2>3. /\ SubSeq(pushed, 1, n) \in Seq(Requests) /\ Len(SubSeq(pushed, 1, n)) = n
          /\ \A k \in 1..n : SubSeq(pushed, 1, n)[k] = pushed[k]
      BY Types, <2>2, FirstOnes
    <2>4. /\ SubSeq(pushed', 1, n) \in Seq(Requests) /\ Len(SubSeq(pushed', 1, n)) = n
          /\ \A k \in 1..n : SubSeq(pushed', 1, n)[k] = pushed'[k]
      BY <1>1, <2>2, FirstOnes
    <2>5. \A k \in 1..n : pushed'[k] = pushed[k]
      BY <1>1, <1>2, <2>2
    <2>6. SubSeq(pushed', 1, n) = SubSeq(pushed, 1, n)
      BY <2>3, <2>4, <2>5, SeqEqual
    <2> QED
      BY <2>1, <2>6
  <1> QED
    BY <1>1, <1>3, <1>4 DEF Channel!Send

\* A completion takes nothing out of the channel, or the next response.
LEMMA CompletionReceives ==
  ASSUME Inv, Inv', Frontier, NEW w \in 1..Len(staging), WriteCompletes(w)
  PROVE  Channel!Receive \/ UNCHANGED <<pushed, Left>>
  <1>1. writer = "write" /\ pushed' = pushed
    BY DEF WriteCompletes
  <1>2. item = Popped /\ item \in 1..Len(pushed) /\ Len(pushed) \in Nat /\ Popped \in Nat
    BY Types, <1>1 DEF Inv, QueueInOrder, WriterProgress, WriteInProgress
  <1>3. Left = Popped - 1 /\ Frontier'
    BY <1>1, LeftInOrder, CompletesFrontier DEF FirstHaveLeft
  <1>4. /\ writer' = "write" => Left' = Popped' - 1
        /\ writer' \in {"pop", "done"} => Left' = Popped'
    <2>1. Inv' /\ Frontier' => FirstHaveLeft'
      BY LeftInOrder, PTL
    <2> QED
      BY <1>3, <2>1 DEF FirstHaveLeft
  <1>5. Left' = Left \/ Left' = Left + 1
    <2>1. \/ items_' = items_ /\ writer' \in {"write", "pop", "done"}
          \/ items_ # <<>> /\ items_' = Tail(items_) /\ writer' = "write"
      BY <1>1 DEF WriteCompletes, Pop, AwaitResume, EndWriteLoop
    <2>2. CASE items_' = items_ /\ writer' \in {"write", "pop", "done"}
      <3>1. Popped' = Popped
        BY <1>1, <2>2 DEF Popped
      <3> QED
        BY <1>2, <1>3, <1>4, <2>2, <3>1
    <2>3. CASE items_ # <<>> /\ items_' = Tail(items_) /\ writer' = "write"
      <3>1. Len(items_') = Len(items_) - 1 /\ Len(items_) \in Nat
        BY Types, <2>3, HeadTailProperties
      <3>2. Popped' = Popped + 1
        BY <1>1, <1>2, <3>1 DEF Popped
      <3> QED
        BY <1>2, <1>3, <1>4, <2>3, <3>2
    <2> QED
      BY <2>1, <2>2, <2>3
  <1>6. ASSUME Left' = Left + 1 PROVE Channel!Receive
    <2>1. PICK n \in Nat : n = Left /\ n \in 0..Len(pushed) /\ n + 1 \in 0..Len(pushed) /\ n + 1 \in 1..Len(pushed)
      BY <1>2, <1>3
    <2>2. /\ SubSeq(pushed, 1, n) \in Seq(Requests) /\ Len(SubSeq(pushed, 1, n)) = n
          /\ \A k \in 1..n : SubSeq(pushed, 1, n)[k] = pushed[k]
      BY Types, <2>1, FirstOnes
    <2>3. /\ SubSeq(pushed, 1, n + 1) \in Seq(Requests) /\ Len(SubSeq(pushed, 1, n + 1)) = n + 1
          /\ \A k \in 1..(n + 1) : SubSeq(pushed, 1, n + 1)[k] = pushed[k]
      BY Types, <2>1, FirstOnes
    <2>4. pushed[n + 1] \in Requests
      BY Types, <2>1, ElementOfSeq
    <2>5. PICK t : t = Append(SubSeq(pushed, 1, n), pushed[n + 1])
      OBVIOUS
    <2>6. /\ t \in Seq(Requests) /\ Len(t) = n + 1
          /\ \A k \in 1..n : t[k] = SubSeq(pushed, 1, n)[k]
          /\ t[n + 1] = pushed[n + 1]
      BY <2>2, <2>4, <2>5, AppendProperties
    <2>7. \A k \in 1..(n + 1) : t[k] = pushed[k]
      <3>1. \A k \in 1..(n + 1) : k \in 1..n \/ k = n + 1
        BY <2>1
      <3> QED
        BY <2>2, <2>6, <3>1
    <2>8. t = SubSeq(pushed, 1, n + 1)
      BY <2>3, <2>6, <2>7, SeqEqual
    <2>9. n < Len(pushed)
      BY <1>2, <2>1
    <2>10. SubSeq(pushed', 1, Left') = Append(SubSeq(pushed, 1, Left), pushed[Len(SubSeq(pushed, 1, Left)) + 1])
      BY <1>1, <1>6, <2>1, <2>2, <2>5, <2>8
    <2>11. Len(SubSeq(pushed, 1, Left)) < Len(pushed)
      BY <2>1, <2>2, <2>9
    <2> QED
      BY <1>1, <2>10, <2>11 DEF Channel!Receive
  <1> QED
    BY <1>1, <1>5, <1>6

\* response_queue.h and CoroConnection::Write: for any responses, any buffer and
\* any partial writes, every step of handlers, writeLoop and kernel puts one
\* response in, lets the next one out, or is not seen.
THEOREM ResponsesThroughChannel == Spec => ImplementsChannel
  <1>1. Init => Channel!Init
    <2> SUFFICES ASSUME Init PROVE Channel!Init
      OBVIOUS
    <2>1. pushed = <<>> /\ Len(pushed) = 0 /\ Inv
      BY EmptySeq, InitInv DEF Init
    <2>2. Left = 0 /\ pushed \in Seq(Requests)
      BY <2>1, LeftBound, Types
    <2>3. Len(SubSeq(pushed, 1, 0)) = 0 /\ SubSeq(pushed, 1, 0) \in Seq(Requests)
      BY <2>1, <2>2, FirstOnes
    <2>4. SubSeq(pushed, 1, Left) = <<>>
      BY <2>2, <2>3, EmptySeq
    <2> QED
      BY <2>1, <2>4 DEF Channel!Init
  <1>2. Spec => []Frontier
    BY InitFrontier, NextFrontier, InvHolds, PTL DEF Spec
  <1>3. ASSUME Inv, Inv', Frontier, [Next]_vars
        PROVE  [Channel!Next]_<<pushed, SubSeq(pushed, 1, Left)>>
    <2>1. ASSUME UNCHANGED <<pushed, sent>> PROVE UNCHANGED <<pushed, SubSeq(pushed, 1, Left)>>
      <3>1. {n \in Positions : SentWhole(n)}' = {n \in Positions : SentWhole(n)}
        BY <2>1 DEF Positions, SentWhole, Length
      <3> QED
        BY <2>1, <3>1 DEF Left
    <2>2. ASSUME NEW r \in Requests, HandlerStep(r)
          PROVE  Channel!Next \/ UNCHANGED <<pushed, sent>>
      <3>1. (PushResponse(r) \/ pushed' = pushed) /\ sent' = sent
        BY <2>2 DEF HandlerStep, Dispatch, Wake
      <3> QED
        BY <1>3, <3>1, PushSends DEF Channel!Next
    <2>3. ASSUME KernelStep PROVE Channel!Next \/ UNCHANGED <<pushed, SubSeq(pushed, 1, Left)>>
      <3>1. Channel!Receive \/ UNCHANGED <<pushed, Left>>
        BY <1>3, <2>3, CompletionReceives DEF KernelStep
      <3> QED
        BY <3>1 DEF Channel!Next
    <2>4. Close \/ WriteFails \/ UNCHANGED vars => UNCHANGED <<pushed, sent>>
      BY DEF Close, WriteFails, vars
    <2> QED
      BY <1>3, <2>1, <2>2, <2>3, <2>4 DEF Next
  <1>4. Spec => [][Channel!Next]_<<pushed, SubSeq(pushed, 1, Left)>>
    BY <1>2, <1>3, InvHolds, PTL DEF Spec
  <1> QED
    BY <1>1, <1>4, PTL DEF Spec, ImplementsChannel, Channel!Spec
=============================================================================
