------------------------- MODULE ConnectionsProofs -------------------------
(***************************************************************************)
(* Proofs about Connections, for any number of connections, buffers and file *)
(* slots and any queue length.                                               *)
(*                                                                           *)
(* The two free lists obey the same discipline.  Owns states it once, for a  *)
(* free list and a function H from connections to the indices they hold: the *)
(* list has no duplicates, nobody holds what is free or what another one     *)
(* holds, and, if the registration succeeded, every index is somewhere.      *)
(* The inductive invariant is Owns for both lists (PoolPart), together with  *)
(* what ties the two loops of a connection to the object they share          *)
(* (LoopPart): the object is there while one of them is, and as long as it   *)
(* is there one of them has an operation in flight.                          *)
(***************************************************************************)
EXTENDS Connections, SequenceTheorems, FiniteSetTheorems, TLAPS

NoDup(q) == \A a, b \in 1..Len(q) : q[a] = q[b] => a = b

Elems(q) == {q[a] : a \in 1..Len(q)}

-----------------------------------------------------------------------------
(* A free list as a stack. *)

LEMMA NoneIsNotFree ==
  ASSUME NEW n \in Nat, NEW q \in Seq(0..(n - 1))
  PROVE  None \notin Elems(q)
  <1>1. \A a \in 1..Len(q) : q[a] \in 0..(n - 1)
    BY ElementOfSeq
  <1>2. \A a \in 1..Len(q) : q[a] # None
    BY <1>1 DEF None
  <1> QED
    BY <1>2 DEF Elems

\* Taking the last index off a free list.
LEMMA RestFacts ==
  ASSUME NEW n \in Nat, NEW q \in Seq(0..(n - 1)), NoDup(q)
  PROVE  /\ Rest(q) \in Seq(0..(n - 1))
         /\ NoDup(Rest(q))
         /\ Elems(Rest(q)) = Elems(q) \ {Top(q)}
         /\ {Top(q)} \ {None} \subseteq Elems(q)
         /\ Top(q) \in Idx(n)
         /\ q = <<>> <=> Top(q) = None
  <1>1. CASE q = <<>>
    BY <1>1 DEF Rest, Top, NoDup, Elems, Idx, None
  <1>2. CASE q # <<>>
    <2>1. Len(q) \in Nat /\ Len(q) > 0
      BY <1>2, EmptySeq, LenProperties
    <2>2. Rest(q) = SubSeq(q, 1, Len(q) - 1) /\ Top(q) = q[Len(q)]
      BY <1>2 DEF Rest, Top
    <2>3. /\ Rest(q) \in Seq(0..(n - 1))
          /\ Len(Rest(q)) = Len(q) - 1
          /\ \A a \in 1..(Len(q) - 1) : Rest(q)[a] = q[a]
      <3> DEFINE m == Len(q) - 1
      <3>1. m \in Int /\ m >= 0
        BY <2>1
      <3>2. \A a \in 1..m : q[a] \in 0..(n - 1)
        BY <2>1, ElementOfSeq
      <3> HIDE DEF m
      <3>3. /\ SubSeq(q, 1, m) \in Seq(0..(n - 1))
            /\ Len(SubSeq(q, 1, m)) = IF 1 <= m THEN m - 1 + 1 ELSE 0
            /\ \A a \in 1..(m - 1 + 1) : SubSeq(q, 1, m)[a] = q[1 + a - 1]
        BY <3>1, <3>2, SubSeqProperties
      <3>4. Len(SubSeq(q, 1, m)) = m
        BY <3>1, <3>3
      <3>5. \A a \in 1..m : SubSeq(q, 1, m)[a] = q[a]
        BY <3>1, <3>3
      <3> QED
        BY <2>2, <3>3, <3>4, <3>5 DEF m
    <2>4. q[Len(q)] \in 0..(n - 1)
      BY <2>1, ElementOfSeq
    <2>5. Top(q) # None /\ Top(q) \in Idx(n)
      BY <2>2, <2>4 DEF None, Idx
    <2>6. NoDup(Rest(q))
      <3> SUFFICES ASSUME NEW a \in 1..Len(Rest(q)), NEW b \in 1..Len(Rest(q)),
                          Rest(q)[a] = Rest(q)[b]
                   PROVE  a = b
        BY DEF NoDup
      <3>0. a \in 1..(Len(q) - 1) /\ b \in 1..(Len(q) - 1)
        BY ONLY <2>3, a \in 1..Len(Rest(q)), b \in 1..Len(Rest(q))
      <3>1. a \in 1..Len(q) /\ b \in 1..Len(q)
        BY <2>1, <3>0, SMTT(30)
      <3>2. q[a] = q[b]
        BY <2>3, <3>0
      <3> QED
        BY <3>1, <3>2 DEF NoDup
    <2>7. Elems(Rest(q)) = Elems(q) \ {Top(q)}
      <3>1. \A x : x \in Elems(Rest(q)) <=> \E a \in 1..(Len(q) - 1) : x = q[a]
        BY <2>3 DEF Elems
      <3>2. \A x : x \in Elems(q) <=> \E a \in 1..Len(q) : x = q[a]
        BY DEF Elems
      <3>3. \A a \in 1..(Len(q) - 1) : q[a] # q[Len(q)]
        BY <2>1 DEF NoDup
      <3>4. \A x : x \in Elems(q) \ {Top(q)} <=> x \in Elems(Rest(q))
        BY <2>1, <2>2, <3>1, <3>2, <3>3, SMTT(30)
      <3> QED
        BY <3>4
    <2>8. Top(q) \in Elems(q)
      BY <2>1, <2>2 DEF Elems
    <2> QED
      BY <1>2, <2>3, <2>5, <2>6, <2>7, <2>8
  <1> QED
    BY <1>1, <1>2

\* Giving an index back to a free list that does not hold it.
LEMMA ReturnedFacts ==
  ASSUME NEW n \in Nat, NEW q \in Seq(0..(n - 1)), NoDup(q),
         NEW idx \in Idx(n), idx \notin Elems(q)
  PROVE  /\ q \o Returned(idx) \in Seq(0..(n - 1))
         /\ NoDup(q \o Returned(idx))
         /\ Elems(q \o Returned(idx)) = Elems(q) \cup ({idx} \ {None})
  <1>1. CASE idx = None
    <2>1. q \o Returned(idx) = q
      BY <1>1, ConcatEmptySeq DEF Returned
    <2> QED
      BY <1>1, <2>1
  <1>2. CASE idx # None
    <2>1. idx \in 0..(n - 1)
      BY <1>2 DEF Idx
    <2>2. Returned(idx) = <<idx>>
      BY <1>2 DEF Returned
    <2>3. <<idx>> \in Seq(0..(n - 1)) /\ Len(<<idx>>) = 1 /\ <<idx>>[1] = idx
      BY <2>1
    <2> DEFINE r == q \o <<idx>>
    <2>4. /\ r \in Seq(0..(n - 1))
          /\ Len(r) = Len(q) + 1
          /\ \A a \in 1..Len(q) : r[a] = q[a]
          /\ r[Len(q) + 1] = idx
      BY <2>3, ConcatProperties, LenProperties
    <2>5. Len(q) \in Nat
      BY LenProperties
    <2> HIDE DEF r
    <2>6. \A a \in 1..Len(q) : q[a] # idx
      BY DEF Elems
    <2>7. NoDup(r)
      <3> SUFFICES ASSUME NEW a \in 1..Len(r), NEW b \in 1..Len(r), r[a] = r[b]
                   PROVE  a = b
        BY DEF NoDup
      <3>1. CASE a \in 1..Len(q) /\ b \in 1..Len(q)
        BY <2>4, <3>1 DEF NoDup
      <3>2. CASE a \in 1..Len(q) /\ b = Len(q) + 1
        BY <2>4, <2>6, <3>2
      <3>3. CASE a = Len(q) + 1 /\ b \in 1..Len(q)
        BY <2>4, <2>6, <3>3
      <3>4. CASE a = Len(q) + 1 /\ b = Len(q) + 1
        BY <3>4
      <3> QED
        BY <2>4, <2>5, <3>1, <3>2, <3>3, <3>4, SMTT(30)
    <2>8. \A x : x \in Elems(r) <=> x \in Elems(q) \/ x = idx
      <3>1. \A x : x \in Elems(r) <=> \E a \in 1..(Len(q) + 1) : x = r[a]
        BY <2>4 DEF Elems
      <3>2. \A x : x \in Elems(q) <=> \E a \in 1..Len(q) : x = q[a]
        BY DEF Elems
      <3>3. 1..(Len(q) + 1) = 1..Len(q) \cup {Len(q) + 1}
        BY <2>5
      <3> QED
        BY <2>4, <3>1, <3>2, <3>3
    <2>9. Elems(r) = Elems(q) \cup ({idx} \ {None})
      BY <1>2, <2>8
    <2> QED
      BY <2>2, <2>4, <2>7, <2>9 DEF r
  <1> QED
    BY <1>1, <1>2

-----------------------------------------------------------------------------
(* What is in a free list and what connections hold. *)

\* on: the registration succeeded, so the n indices exist.
Owns(n, on, free, H) ==
  /\ free \in Seq(0..(n - 1)) /\ NoDup(free)
  /\ \A c \in Conns : H[c] \subseteq 0..(n - 1) /\ H[c] \cap Elems(free) = {}
  /\ \A c, d \in Conns : c # d => H[c] \cap H[d] = {}
  /\ on => \A i \in 0..(n - 1) : i \in Elems(free) \/ \E c \in Conns : i \in H[c]
  /\ ~on => Elems(free) = {} /\ \A c \in Conns : H[c] = {}

\* Connection c, which held nothing, takes the indices H2[c] from the free list.
Takes(n, free, H, c, free2, H2) ==
  /\ free2 \in Seq(0..(n - 1)) /\ NoDup(free2)
  /\ H[c] = {}
  /\ H2[c] \subseteq Elems(free) /\ H2[c] \subseteq 0..(n - 1)
  /\ Elems(free2) = Elems(free) \ H2[c]
  /\ \A d \in Conns \ {c} : H2[d] = H[d]

LEMMA TakeKeepsOwns ==
  ASSUME NEW n, NEW on, NEW free, NEW H, Owns(n, on, free, H),
         NEW c \in Conns, NEW free2, NEW H2, Takes(n, free, H, c, free2, H2)
  PROVE  Owns(n, on, free2, H2)
  <1>1. \A d \in Conns : H2[d] \subseteq 0..(n - 1) /\ H2[d] \cap Elems(free2) = {}
    BY DEF Owns, Takes
  <1>2. \A d, e \in Conns : d # e => H2[d] \cap H2[e] = {}
    BY DEF Owns, Takes
  <1>3. on => \A i \in 0..(n - 1) : i \in Elems(free2) \/ \E d \in Conns : i \in H2[d]
    BY DEF Owns, Takes
  <1>4. ~on => Elems(free2) = {} /\ \A d \in Conns : H2[d] = {}
    BY DEF Owns, Takes
  <1> QED
    BY <1>1, <1>2, <1>3, <1>4 DEF Owns, Takes

\* A connection gives back all that it holds.
LEMMA GiveKeepsOwns ==
  ASSUME NEW n, NEW on, NEW free, NEW H, Owns(n, on, free, H),
         NEW c \in Conns, NEW free2, NEW H2,
         free2 \in Seq(0..(n - 1)), NoDup(free2),
         Elems(free2) = Elems(free) \cup H[c],
         H2[c] = {}, \A d \in Conns \ {c} : H2[d] = H[d]
  PROVE  Owns(n, on, free2, H2)
  <1>1. \A d \in Conns : H2[d] \subseteq 0..(n - 1) /\ H2[d] \cap Elems(free2) = {}
    BY DEF Owns
  <1>2. \A d, e \in Conns : d # e => H2[d] \cap H2[e] = {}
    BY DEF Owns
  <1>3. on => \A i \in 0..(n - 1) : i \in Elems(free2) \/ \E d \in Conns : i \in H2[d]
    BY DEF Owns
  <1>4. ~on => Elems(free2) = {} /\ \A d \in Conns : H2[d] = {}
    BY DEF Owns
  <1> QED
    BY <1>1, <1>2, <1>3, <1>4 DEF Owns

\* The free list that a constructor of IoContext fills.
LEMMA InitOwns ==
  ASSUME NEW n \in Nat, NEW on \in BOOLEAN, NEW H, \A c \in Conns : H[c] = {},
         NEW free, free = IF on THEN [i \in 1..n |-> i - 1] ELSE <<>>
  PROVE  Owns(n, on, free, H)
  <1>1. CASE on
    <2>1. free \in [1..n -> 0..(n - 1)]
      BY <1>1
    <2>2. free \in Seq(0..(n - 1))
      <3>1. free \in UNION {[1..m -> 0..(n - 1)] : m \in Nat}
        BY <2>1
      <3> QED
        BY <3>1, SeqDef
    <2>3. Len(free) = n
      <3>1. Len(free) \in Nat /\ 1..Len(free) = 1..n
        BY <2>1, <2>2, LenProperties, Zenon
      <3>2. \A a, b \in Nat : a < b => b \in 1..b /\ b \notin 1..a
        OBVIOUS
      <3> QED
        BY <3>1, <3>2
    <2>4. \A a \in 1..n : free[a] = a - 1
      BY <1>1
    <2>5. NoDup(free)
      BY <2>3, <2>4 DEF NoDup
    <2>6. \A i \in 0..(n - 1) : i + 1 \in 1..n /\ free[i + 1] = i
      BY <2>4
    <2>7. \A i \in 0..(n - 1) : i \in Elems(free)
      BY <2>3, <2>6 DEF Elems
    <2>8. \A i \in Elems(free) : i \in 0..(n - 1)
      <3>1. \A a \in 1..n : free[a] \in 0..(n - 1)
        BY <2>1
      <3> QED
        BY <2>3, <3>1, Zenon DEF Elems
    <2> QED
      BY <1>1, <2>2, <2>5, <2>7, <2>8 DEF Owns
  <1>2. CASE ~on
    <2>1. free = <<>>
      BY <1>2
    <2>2. free \in Seq(0..(n - 1)) /\ Len(free) = 0
      BY <2>1, EmptySeq
    <2>3. \A a \in 1..Len(free) : FALSE
      BY <2>2
    <2>4. NoDup(free) /\ Elems(free) = {}
      BY <2>3, Zenon DEF NoDup, Elems
    <2> QED
      BY <1>2, <2>2, <2>4 DEF Owns
  <1> QED
    BY <1>1, <1>2

-----------------------------------------------------------------------------
(* The inductive invariant. *)

ConnType ==
  [alive : BOOLEAN, fd_ : Fds \cup {None}, fixed_file_idx_ : Idx(FileSlots),
   read_buf_idx_ : Idx(BufCount), write_buf_idx_ : Idx(BufCount)]

BufHeld(cn) ==
  [c \in Conns |-> {cn[c].read_buf_idx_, cn[c].write_buf_idx_} \ {None}]

SlotHeld(cn) == [c \in Conns |-> {cn[c].fixed_file_idx_} \ {None}]

\* A connection's two buffers differ, a dead one holds nothing, and the
\* descriptor of a live one is its socket.
Sound(k, c, fds) ==
  /\ k.read_buf_idx_ = k.write_buf_idx_ => k.read_buf_idx_ = None
  /\ ~k.alive => k = NoConn
  /\ k.alive => k.fd_ \in Fds /\ fds[k.fd_] = c

TableHas(k, tab) ==
  k.fixed_file_idx_ # None => k.alive /\ tab[k.fixed_file_idx_] = k.fd_

PoolPart ==
  /\ conn \in [Conns -> ConnType]
  /\ table \in [0..(FileSlots - 1) -> Fds \cup {None}]
  /\ openFds \in [Fds -> Conns \cup {None}]
  /\ Owns(BufCount, bufs_registered, free_buf_indices_, BufHeld(conn))
  /\ Owns(FileSlots, files_enabled_, free_file_indices_, SlotHeld(conn))
  /\ \A c \in Conns : Sound(conn[c], c, openFds) /\ TableHas(conn[c], table)

\* The two loops r and w of a connection k, its queue q, its operations in
\* flight ro and wo.
LoopOK(k, r, w, q, ro, wo) ==
  /\ r = "reading" \/ w # "done" => k.alive
  /\ k.alive => r = "reading" \/ w = "write"
  /\ k.alive /\ ~q.closed => r = "reading"
  /\ r = "reading" => ro = Op(k, k.read_buf_idx_)
  /\ w = "write" => wo = Op(k, k.write_buf_idx_)

LoopPart ==
  /\ reader \in [Conns -> {"reading", "done"}]
  /\ writer \in [Conns -> {"pop", "write", "done"}]
  /\ queue \in [Conns -> [items : 0..MaxQueue, closed : BOOLEAN]]
  /\ readOp \in [Conns -> OpType]
  /\ writeOp \in [Conns -> OpType]
  /\ \A c \in Conns : LoopOK(conn[c], reader[c], writer[c], queue[c], readOp[c], writeOp[c])

ConfigPart ==
  bufs_registered \in BOOLEAN /\ files_enabled_ \in BOOLEAN /\ accepting \in BOOLEAN

Inv == ConfigPart /\ PoolPart /\ LoopPart

LEMMA NoConnTyped == NoConn \in ConnType
  BY ConnectionsAssumption DEF NoConn, ConnType, Idx

LEMMA OpTyped ==
  ASSUME NEW k \in ConnType, NEW idx \in Idx(BufCount)
  PROVE  Op(k, idx) \in OpType
  BY DEF Op, Target, OpType, ConnType, Idx

LEMMA NoOpTyped == NoOp \in OpType
  BY DEF NoOp, OpType, Idx

LEMMA InitInv == Init => Inv
  <1> SUFFICES ASSUME Init PROVE Inv
    OBVIOUS
  <1>1. ConfigPart
    BY DEF Init, ConfigPart
  <1>2. /\ conn \in [Conns -> ConnType]
        /\ \A c \in Conns : conn[c] = NoConn
    BY NoConnTyped DEF Init
  <1>3. /\ table \in [0..(FileSlots - 1) -> Fds \cup {None}]
        /\ openFds \in [Fds -> Conns \cup {None}]
    BY DEF Init
  <1>4. \A c \in Conns : BufHeld(conn)[c] = {} /\ SlotHeld(conn)[c] = {}
    BY <1>2 DEF BufHeld, SlotHeld, NoConn
  <1>5. Owns(BufCount, bufs_registered, free_buf_indices_, BufHeld(conn))
    BY <1>4, InitOwns, ConnectionsAssumption DEF Init
  <1>6. Owns(FileSlots, files_enabled_, free_file_indices_, SlotHeld(conn))
    BY <1>4, InitOwns, ConnectionsAssumption DEF Init
  <1>7. \A c \in Conns : Sound(conn[c], c, openFds) /\ TableHas(conn[c], table)
    BY <1>2 DEF Sound, TableHas, NoConn
  <1>8. PoolPart
    BY <1>2, <1>3, <1>5, <1>6, <1>7 DEF PoolPart
  <1>9. LoopPart
    BY <1>2, NoOpTyped, ConnectionsAssumption DEF Init, LoopPart, LoopOK, NoConn, EmptyQueue
  <1> QED
    BY <1>1, <1>8, <1>9 DEF Inv

-----------------------------------------------------------------------------
(* What the pools go through. *)

LEMMA SamePool ==
  ASSUME PoolPart, UNCHANGED <<config, conn, poolVars>>
  PROVE  PoolPart'
  <1>1. /\ bufs_registered' = bufs_registered /\ files_enabled_' = files_enabled_
        /\ conn' = conn /\ table' = table /\ openFds' = openFds
        /\ free_buf_indices_' = free_buf_indices_
        /\ free_file_indices_' = free_file_indices_
    BY DEF config, poolVars
  <1> QED
    BY <1>1 DEF PoolPart

\* CoroConnection::Close gives back what the connection holds, once.
LEMMA CloseKeepsPool ==
  ASSUME PoolPart, NEW c \in Conns, conn[c].alive, CloseConnection(c), UNCHANGED config
  PROVE  /\ PoolPart'
         /\ conn' = [conn EXCEPT ![c] = NoConn]
  <1> DEFINE k == conn[c]
  <1>1. /\ k \in ConnType
        /\ k.read_buf_idx_ \in Idx(BufCount) /\ k.write_buf_idx_ \in Idx(BufCount)
        /\ k.fixed_file_idx_ \in Idx(FileSlots)
    BY DEF PoolPart, ConnType
  <1>2. /\ Sound(k, c, openFds) /\ TableHas(k, table)
        /\ k.fd_ \in Fds /\ openFds[k.fd_] = c
    BY DEF PoolPart, Sound
  <1>3. /\ conn' = [conn EXCEPT ![c] = NoConn]
        /\ free_file_indices_' = free_file_indices_ \o Returned(k.fixed_file_idx_)
        /\ free_buf_indices_' = free_buf_indices_ \o Returned(k.read_buf_idx_)
                                                  \o Returned(k.write_buf_idx_)
        /\ openFds' = [openFds EXCEPT ![k.fd_] = None]
    BY DEF CloseConnection, UnregisterFile
  <1>4. /\ BufHeld(conn)[c] = {k.read_buf_idx_, k.write_buf_idx_} \ {None}
        /\ SlotHeld(conn)[c] = {k.fixed_file_idx_} \ {None}
    BY DEF BufHeld, SlotHeld
  <1> HIDE DEF k
  <1>5. /\ BufHeld(conn')[c] = {}
        /\ \A d \in Conns \ {c} : BufHeld(conn')[d] = BufHeld(conn)[d]
        /\ SlotHeld(conn')[c] = {}
        /\ \A d \in Conns \ {c} : SlotHeld(conn')[d] = SlotHeld(conn)[d]
    <2>1. conn'[c] = NoConn /\ \A d \in Conns \ {c} : conn'[d] = conn[d]
      BY <1>3 DEF PoolPart
    <2>2. /\ BufHeld(conn')[c] = {NoConn.read_buf_idx_, NoConn.write_buf_idx_} \ {None}
          /\ \A d \in Conns \ {c} : BufHeld(conn')[d] = BufHeld(conn)[d]
          /\ SlotHeld(conn')[c] = {NoConn.fixed_file_idx_} \ {None}
          /\ \A d \in Conns \ {c} : SlotHeld(conn')[d] = SlotHeld(conn)[d]
      BY <2>1 DEF BufHeld, SlotHeld
    <2> QED
      BY <2>2 DEF NoConn
  <1>6. Owns(BufCount, bufs_registered, free_buf_indices_', BufHeld(conn'))
    <2> DEFINE q1 == free_buf_indices_ \o Returned(k.read_buf_idx_)
               q2 == q1 \o Returned(k.write_buf_idx_)
    <2>1. Owns(BufCount, bufs_registered, free_buf_indices_, BufHeld(conn))
      BY DEF PoolPart
    <2>2. BufCount \in Nat
      BY ConnectionsAssumption
    <2>3. /\ free_buf_indices_ \in Seq(0..(BufCount - 1)) /\ NoDup(free_buf_indices_)
          /\ BufHeld(conn)[c] \cap Elems(free_buf_indices_) = {}
      BY <2>1 DEF Owns
    <2>4. None \notin Elems(free_buf_indices_)
      BY <2>2, <2>3, NoneIsNotFree
    <2>5. k.read_buf_idx_ \notin Elems(free_buf_indices_)
      BY <1>4, <2>3, <2>4
    <2>6. /\ q1 \in Seq(0..(BufCount - 1)) /\ NoDup(q1)
          /\ Elems(q1) = Elems(free_buf_indices_) \cup ({k.read_buf_idx_} \ {None})
      BY <1>1, <2>2, <2>3, <2>5, ReturnedFacts
    <2> HIDE DEF q1
    <2>7. k.write_buf_idx_ \notin Elems(q1)
      BY <1>2, <1>4, <2>3, <2>4, <2>6 DEF Sound
    <2>8. /\ q2 \in Seq(0..(BufCount - 1)) /\ NoDup(q2)
          /\ Elems(q2) = Elems(q1) \cup ({k.write_buf_idx_} \ {None})
      BY <1>1, <2>2, <2>6, <2>7, ReturnedFacts
    <2>9. free_buf_indices_' = q2
      BY <1>3 DEF q1
    <2> HIDE DEF q2
    <2>10. Elems(q2) = Elems(free_buf_indices_) \cup BufHeld(conn)[c]
      BY <1>4, <2>6, <2>8
    <2> QED
      BY <1>5, <2>1, <2>8, <2>9, <2>10, GiveKeepsOwns
  <1>7. Owns(FileSlots, files_enabled_, free_file_indices_', SlotHeld(conn'))
    <2>1. Owns(FileSlots, files_enabled_, free_file_indices_, SlotHeld(conn))
      BY DEF PoolPart
    <2>2. FileSlots \in Nat
      BY ConnectionsAssumption
    <2>3. /\ free_file_indices_ \in Seq(0..(FileSlots - 1)) /\ NoDup(free_file_indices_)
          /\ SlotHeld(conn)[c] \cap Elems(free_file_indices_) = {}
      BY <2>1 DEF Owns
    <2>4. None \notin Elems(free_file_indices_)
      BY <2>2, <2>3, NoneIsNotFree
    <2>5. k.fixed_file_idx_ \notin Elems(free_file_indices_)
      BY <1>4, <2>3, <2>4
    <2> DEFINE q1 == free_file_indices_ \o Returned(k.fixed_file_idx_)
    <2>6. /\ q1 \in Seq(0..(FileSlots - 1)) /\ NoDup(q1)
          /\ Elems(q1) = Elems(free_file_indices_) \cup ({k.fixed_file_idx_} \ {None})
      BY <1>1, <2>2, <2>3, <2>5, ReturnedFacts
    <2>7. free_file_indices_' = q1
      BY <1>3
    <2> HIDE DEF q1
    <2> QED
      BY <1>4, <1>5, <2>1, <2>6, <2>7, GiveKeepsOwns
  <1>8. /\ conn' \in [Conns -> ConnType]
        /\ conn'[c] = NoConn
        /\ \A d \in Conns \ {c} : conn'[d] = conn[d]
    BY <1>3, NoConnTyped DEF PoolPart
  <1>9. /\ table' \in [0..(FileSlots - 1) -> Fds \cup {None}]
        /\ \A s \in 0..(FileSlots - 1) : s # k.fixed_file_idx_ => table'[s] = table[s]
    <2>1. PICK ok \in BOOLEAN :
            table' = [s \in DOMAIN table |->
                        IF ok /\ s = k.fixed_file_idx_ THEN None ELSE table[s]]
      BY DEF CloseConnection, UnregisterFile, k
    <2> QED
      BY <2>1 DEF PoolPart
  <1>10. /\ openFds' \in [Fds -> Conns \cup {None}]
         /\ \A f \in Fds : openFds'[f] = IF f = k.fd_ THEN None ELSE openFds[f]
    BY <1>3 DEF PoolPart
  <1>11. \A d \in Conns : Sound(conn'[d], d, openFds') /\ TableHas(conn'[d], table')
    <2> SUFFICES ASSUME NEW d \in Conns
                 PROVE  Sound(conn'[d], d, openFds') /\ TableHas(conn'[d], table')
      OBVIOUS
    <2>1. CASE d = c
      BY <1>8, <2>1 DEF Sound, TableHas, NoConn
    <2>2. CASE d # c
      <3>1. /\ conn'[d] = conn[d] /\ conn[d] \in ConnType
            /\ Sound(conn[d], d, openFds) /\ TableHas(conn[d], table)
        BY <1>8, <2>2 DEF PoolPart
      <3>2. Sound(conn'[d], d, openFds')
        BY <1>2, <1>10, <2>2, <3>1 DEF Sound
      <3>3. conn[d].fixed_file_idx_ # None =>
              /\ conn[d].fixed_file_idx_ # k.fixed_file_idx_
              /\ conn[d].fixed_file_idx_ \in 0..(FileSlots - 1)
        <4>1. SlotHeld(conn)[d] \cap SlotHeld(conn)[c] = {}
          BY <2>2 DEF PoolPart, Owns
        <4>2. SlotHeld(conn)[d] = {conn[d].fixed_file_idx_} \ {None}
          BY DEF SlotHeld
        <4>3. conn[d].fixed_file_idx_ \in Idx(FileSlots)
          BY <3>1 DEF ConnType
        <4> QED
          BY <1>4, <4>1, <4>2, <4>3 DEF Idx
      <3>4. TableHas(conn'[d], table')
        BY <1>9, <3>1, <3>3 DEF TableHas
      <3> QED
        BY <3>2, <3>4
    <2> QED
      BY <2>1, <2>2
  <1>12. bufs_registered' = bufs_registered /\ files_enabled_' = files_enabled_
    BY DEF config
  <1> QED
    BY <1>3, <1>6, <1>7, <1>8, <1>9, <1>10, <1>11, <1>12 DEF PoolPart

\* The constructor of CoroConnection takes a slot and two buffers, as far as
\* there are any.
LEMMA AcceptKeepsPool ==
  ASSUME PoolPart, NEW c \in Conns, Accept(c)
  PROVE  /\ PoolPart'
         /\ \E k \in ConnType : /\ k.alive
                                /\ conn' = [conn EXCEPT ![c] = k]
                                /\ readOp' = [readOp EXCEPT ![c] = Op(k, k.read_buf_idx_)]
  <1>1. PICK fd \in NewFds, ok \in BOOLEAN :
          LET k == NewConnection(fd, ok)
          IN  /\ RegisterFile(fd, ok)
              /\ conn' = [conn EXCEPT ![c] = k]
              /\ readOp' = [readOp EXCEPT ![c] = Op(k, k.read_buf_idx_)]
              /\ openFds' = [openFds EXCEPT ![fd] = c]
    BY DEF Accept
  <1> DEFINE k == NewConnection(fd, ok)
             q == free_buf_indices_
             f == free_file_indices_
  <1>2. /\ conn' = [conn EXCEPT ![c] = k]
        /\ readOp' = [readOp EXCEPT ![c] = Op(k, k.read_buf_idx_)]
        /\ openFds' = [openFds EXCEPT ![fd] = c]
        /\ RegisterFile(fd, ok)
    BY <1>1
  <1>3. /\ free_buf_indices_' = Rest(Rest(q))
        /\ bufs_registered' = bufs_registered /\ files_enabled_' = files_enabled_
        /\ ~conn[c].alive
    BY DEF Accept, config
  <1>4. /\ k.alive /\ k.fd_ = fd
        /\ k.fixed_file_idx_ = IF ok THEN Top(f) ELSE None
        /\ k.read_buf_idx_ = Top(q) /\ k.write_buf_idx_ = Top(Rest(q))
    BY DEF NewConnection
  <1>5. /\ fd \in Fds /\ openFds[fd] = None
        /\ conn[c] = NoConn
    BY <1>1, <1>3 DEF NewFds, PoolPart, Sound
  <1>6. /\ BufCount \in Nat /\ FileSlots \in Nat
        /\ Owns(BufCount, bufs_registered, q, BufHeld(conn))
        /\ Owns(FileSlots, files_enabled_, f, SlotHeld(conn))
        /\ q \in Seq(0..(BufCount - 1)) /\ NoDup(q)
        /\ f \in Seq(0..(FileSlots - 1)) /\ NoDup(f)
    BY ConnectionsAssumption DEF PoolPart, Owns
  <1>7. /\ BufHeld(conn)[c] = {} /\ SlotHeld(conn)[c] = {}
    <2>1. BufHeld(conn)[c] = {NoConn.read_buf_idx_, NoConn.write_buf_idx_} \ {None}
      BY <1>5 DEF BufHeld
    <2>2. SlotHeld(conn)[c] = {NoConn.fixed_file_idx_} \ {None}
      BY <1>5 DEF SlotHeld
    <2>3. NoConn.read_buf_idx_ = None /\ NoConn.write_buf_idx_ = None /\ NoConn.fixed_file_idx_ = None
      BY DEF NoConn
    <2> QED
      BY <2>1, <2>2, <2>3
  <1>8. /\ Rest(q) \in Seq(0..(BufCount - 1)) /\ NoDup(Rest(q))
        /\ Elems(Rest(q)) = Elems(q) \ {Top(q)}
        /\ {Top(q)} \ {None} \subseteq Elems(q)
        /\ Top(q) \in Idx(BufCount)
    BY <1>6, RestFacts
  <1>9. /\ Rest(Rest(q)) \in Seq(0..(BufCount - 1)) /\ NoDup(Rest(Rest(q)))
        /\ Elems(Rest(Rest(q))) = Elems(Rest(q)) \ {Top(Rest(q))}
        /\ {Top(Rest(q))} \ {None} \subseteq Elems(Rest(q))
        /\ Top(Rest(q)) \in Idx(BufCount)
    BY <1>6, <1>8, RestFacts
  <1>10. /\ Rest(f) \in Seq(0..(FileSlots - 1)) /\ NoDup(Rest(f))
         /\ Elems(Rest(f)) = Elems(f) \ {Top(f)}
         /\ {Top(f)} \ {None} \subseteq Elems(f)
         /\ Top(f) \in Idx(FileSlots)
         /\ f = <<>> <=> Top(f) = None
    BY <1>6, RestFacts
  <1>11. None \notin Elems(q) /\ None \notin Elems(f)
    BY <1>6, NoneIsNotFree
  <1>12. k \in ConnType
    <2>1. (IF ok THEN Top(f) ELSE None) \in Idx(FileSlots)
      BY <1>10 DEF Idx
    <2> QED
      BY <1>5, <1>8, <1>9, <2>1 DEF NewConnection, ConnType
  <1> HIDE DEF k, q, f
  <1>13. /\ k.fixed_file_idx_ \in Idx(FileSlots)
         /\ k.read_buf_idx_ \in Idx(BufCount) /\ k.write_buf_idx_ \in Idx(BufCount)
    BY <1>4, <1>8, <1>9, <1>10 DEF Idx
  <1>15. /\ conn' \in [Conns -> ConnType]
         /\ conn'[c] = k
         /\ \A d \in Conns \ {c} : conn'[d] = conn[d]
    BY <1>2, <1>12 DEF PoolPart
  <1>16. /\ BufHeld(conn')[c] = {k.read_buf_idx_, k.write_buf_idx_} \ {None}
         /\ \A d \in Conns \ {c} : BufHeld(conn')[d] = BufHeld(conn)[d]
         /\ SlotHeld(conn')[c] = {k.fixed_file_idx_} \ {None}
         /\ \A d \in Conns \ {c} : SlotHeld(conn')[d] = SlotHeld(conn)[d]
    BY <1>15 DEF BufHeld, SlotHeld
  <1>17. Owns(BufCount, bufs_registered, free_buf_indices_', BufHeld(conn'))
    <2> DEFINE X == {Top(q), Top(Rest(q))} \ {None}
               r == Rest(Rest(q))
    <2>1. /\ X \subseteq Elems(q) /\ X \subseteq 0..(BufCount - 1)
          /\ Elems(r) = Elems(q) \ X
      BY <1>8, <1>9, <1>11 DEF Idx
    <2>2. BufHeld(conn')[c] = X
      BY <1>4, <1>16
    <2>3. r \in Seq(0..(BufCount - 1)) /\ NoDup(r) /\ free_buf_indices_' = r
      BY <1>3, <1>9
    <2> HIDE DEF X, r
    <2>4. /\ BufHeld(conn')[c] \subseteq Elems(q)
          /\ BufHeld(conn')[c] \subseteq 0..(BufCount - 1)
          /\ Elems(r) = Elems(q) \ BufHeld(conn')[c]
      BY <2>1, <2>2
    <2>5. Owns(BufCount, bufs_registered, r, BufHeld(conn'))
      <3>1. Takes(BufCount, q, BufHeld(conn), c, r, BufHeld(conn'))
        BY <1>7, <1>16, <2>3, <2>4 DEF Takes
      <3> QED
        BY <1>6, <3>1, TakeKeepsOwns
    <2> QED
      BY <2>3, <2>5
  <1>18. Owns(FileSlots, files_enabled_, free_file_indices_', SlotHeld(conn'))
    <2> DEFINE X == {k.fixed_file_idx_} \ {None}
               r == free_file_indices_'
    <2>1. /\ X \subseteq Elems(f) /\ X \subseteq 0..(FileSlots - 1)
          /\ r \in Seq(0..(FileSlots - 1)) /\ NoDup(r)
          /\ Elems(r) = Elems(f) \ X
      <3>1. CASE ok
        <4>1. r = Rest(f) /\ k.fixed_file_idx_ = Top(f)
          BY <1>2, <1>4, <3>1 DEF RegisterFile, f
        <4> HIDE DEF r
        <4> QED
          BY <1>10, <1>11, <4>1 DEF Idx
      <3>2. CASE ~ok
        <4>1. r = f /\ k.fixed_file_idx_ = None
          BY <1>2, <1>4, <3>2 DEF RegisterFile, f
        <4> HIDE DEF r
        <4> QED
          BY <1>6, <4>1
      <3> QED
        BY <3>1, <3>2
    <2>2. SlotHeld(conn')[c] = X
      BY <1>16
    <2> HIDE DEF X, r
    <2>4. /\ SlotHeld(conn')[c] \subseteq Elems(f)
          /\ SlotHeld(conn')[c] \subseteq 0..(FileSlots - 1)
          /\ Elems(r) = Elems(f) \ SlotHeld(conn')[c]
      BY <2>1, <2>2
    <2>3. Owns(FileSlots, files_enabled_, r, SlotHeld(conn'))
      <3>1. Takes(FileSlots, f, SlotHeld(conn), c, r, SlotHeld(conn'))
        BY <1>7, <1>16, <2>1, <2>4 DEF Takes
      <3> QED
        BY <1>6, <3>1, TakeKeepsOwns
    <2> QED
      BY <2>3 DEF r
  <1>19. /\ openFds' \in [Fds -> Conns \cup {None}]
         /\ \A g \in Fds : openFds'[g] = IF g = fd THEN c ELSE openFds[g]
    BY <1>2, <1>5 DEF PoolPart
  <1>20. /\ table' \in [0..(FileSlots - 1) -> Fds \cup {None}]
         /\ \A s \in 0..(FileSlots - 1) :
              table'[s] = IF s = k.fixed_file_idx_ THEN fd ELSE table[s]
    <2>1. table \in [0..(FileSlots - 1) -> Fds \cup {None}]
      BY DEF PoolPart
    <2>2. CASE ok
      <3>1. table' = [table EXCEPT ![Top(f)] = fd] /\ k.fixed_file_idx_ = Top(f)
        BY <1>2, <1>4, <2>2 DEF RegisterFile, f
      <3> QED
        BY <1>5, <2>1, <3>1
    <2>3. CASE ~ok
      <3>1. table' = table /\ k.fixed_file_idx_ = None
        BY <1>2, <1>4, <2>3 DEF RegisterFile
      <3> QED
        BY <2>1, <3>1 DEF None
    <2> QED
      BY <2>2, <2>3
  <1>21. \A d \in Conns : Sound(conn'[d], d, openFds') /\ TableHas(conn'[d], table')
    <2> SUFFICES ASSUME NEW d \in Conns
                 PROVE  Sound(conn'[d], d, openFds') /\ TableHas(conn'[d], table')
      OBVIOUS
    <2>1. CASE d = c
      <3>1. k.read_buf_idx_ = k.write_buf_idx_ => k.read_buf_idx_ = None
        BY <1>4, <1>8, <1>9
      <3>2. Sound(k, c, openFds')
        BY <1>4, <1>5, <1>19, <3>1 DEF Sound
      <3>3. TableHas(k, table')
        BY <1>4, <1>13, <1>20 DEF TableHas, Idx
      <3> QED
        BY <1>15, <2>1, <3>2, <3>3
    <2>2. CASE d # c
      <3>1. /\ conn'[d] = conn[d] /\ conn[d] \in ConnType
            /\ Sound(conn[d], d, openFds) /\ TableHas(conn[d], table)
        BY <1>15, <2>2 DEF PoolPart
      <3>2. Sound(conn'[d], d, openFds')
        BY <1>5, <1>19, <3>1, ConnectionsAssumption DEF Sound
      <3>3. conn[d].fixed_file_idx_ # None =>
              /\ conn[d].fixed_file_idx_ # k.fixed_file_idx_
              /\ conn[d].fixed_file_idx_ \in 0..(FileSlots - 1)
        <4>1. SlotHeld(conn')[d] \cap SlotHeld(conn')[c] = {}
          BY <1>18, <2>2 DEF Owns
        <4>2. SlotHeld(conn')[d] = {conn[d].fixed_file_idx_} \ {None}
          BY <1>16, <2>2 DEF SlotHeld
        <4>3. conn[d].fixed_file_idx_ \in Idx(FileSlots)
          BY <3>1 DEF ConnType
        <4> QED
          BY <1>16, <4>1, <4>2, <4>3 DEF Idx
      <3>4. TableHas(conn'[d], table')
        BY <1>20, <3>1, <3>3 DEF TableHas
      <3> QED
        BY <3>2, <3>4
    <2> QED
      BY <2>1, <2>2
  <1>22. PoolPart'
    BY <1>3, <1>15, <1>17, <1>18, <1>19, <1>20, <1>21 DEF PoolPart
  <1> QED
    BY <1>2, <1>4, <1>12, <1>22

-----------------------------------------------------------------------------
(* What the two loops of a connection go through. *)

\* A frame goes: the connection is closed exactly if the other one is gone.
LEMMA ReleaseKeepsPool ==
  ASSUME PoolPart, NEW c \in Conns, conn[c].alive, NEW other,
         ReleaseConnection(c, other), UNCHANGED config
  PROVE  /\ PoolPart'
         /\ conn'[c] = IF other = "done" THEN NoConn ELSE conn[c]
         /\ \A d \in Conns \ {c} : conn'[d] = conn[d]
  <1>1. CASE other = "done"
    <2>1. CloseConnection(c)
      BY <1>1 DEF ReleaseConnection
    <2>2. PoolPart' /\ conn' = [conn EXCEPT ![c] = NoConn]
      BY <2>1, CloseKeepsPool
    <2>3. conn \in [Conns -> ConnType]
      BY DEF PoolPart
    <2> QED
      BY <1>1, <2>2, <2>3
  <1>2. CASE other # "done"
    <2>1. UNCHANGED <<conn, poolVars>>
      BY <1>2 DEF ReleaseConnection
    <2>2. PoolPart'
      BY <2>1, SamePool
    <2> QED
      BY <1>2, <2>1, <2>2
  <1> QED
    BY <1>1, <1>2

\* The state of every connection but c stays as it is.
OthersKeep(c) ==
  \A d \in Conns \ {c} :
    /\ conn'[d] = conn[d] /\ reader'[d] = reader[d] /\ writer'[d] = writer[d]
    /\ queue'[d] = queue[d] /\ readOp'[d] = readOp[d] /\ writeOp'[d] = writeOp[d]

LoopTypes ==
  /\ reader \in [Conns -> {"reading", "done"}]
  /\ writer \in [Conns -> {"pop", "write", "done"}]
  /\ queue \in [Conns -> [items : 0..MaxQueue, closed : BOOLEAN]]
  /\ readOp \in [Conns -> OpType]
  /\ writeOp \in [Conns -> OpType]

LEMMA OneLoop ==
  ASSUME LoopPart, NEW c \in Conns, OthersKeep(c), LoopTypes',
         LoopOK(conn'[c], reader'[c], writer'[c], queue'[c], readOp'[c], writeOp'[c])
  PROVE  LoopPart'
  <1>1. ASSUME NEW d \in Conns
        PROVE  LoopOK(conn'[d], reader'[d], writer'[d], queue'[d], readOp'[d], writeOp'[d])
    <2>1. CASE d = c
      BY <2>1
    <2>2. CASE d # c
      BY <2>2 DEF OthersKeep, LoopPart
    <2> QED
      BY <2>1, <2>2
  <1> QED
    BY <1>1 DEF LoopPart, LoopTypes

\* What the invariant says of one connection.
LEMMA OneConnection ==
  ASSUME Inv, NEW c \in Conns
  PROVE  /\ conn \in [Conns -> ConnType] /\ conn[c] \in ConnType
         /\ conn[c].read_buf_idx_ \in Idx(BufCount) /\ conn[c].write_buf_idx_ \in Idx(BufCount)
         /\ Op(conn[c], conn[c].read_buf_idx_) \in OpType
         /\ Op(conn[c], conn[c].write_buf_idx_) \in OpType
         /\ LoopTypes /\ PoolPart /\ LoopPart
         /\ queue[c].items \in 0..MaxQueue /\ queue[c].closed \in BOOLEAN
         /\ queue[c] = [items |-> queue[c].items, closed |-> queue[c].closed]
         /\ LoopOK(conn[c], reader[c], writer[c], queue[c], readOp[c], writeOp[c])
  <1>1. /\ conn \in [Conns -> ConnType] /\ conn[c] \in ConnType
        /\ conn[c].read_buf_idx_ \in Idx(BufCount) /\ conn[c].write_buf_idx_ \in Idx(BufCount)
    BY DEF Inv, PoolPart, ConnType
  <1>2. LoopTypes /\ queue[c] \in [items : 0..MaxQueue, closed : BOOLEAN]
    BY DEF Inv, LoopPart, LoopTypes
  <1> QED
    BY <1>1, <1>2, OpTyped DEF Inv, LoopPart

LEMMA AcceptInv ==
  ASSUME Inv, NEW c \in Conns, Accept(c)
  PROVE  Inv'
  <1>1. PoolPart /\ LoopPart /\ LoopTypes /\ conn \in [Conns -> ConnType]
    BY OneConnection
  <1>2. PICK k \in ConnType : /\ k.alive
                              /\ conn' = [conn EXCEPT ![c] = k]
                              /\ readOp' = [readOp EXCEPT ![c] = Op(k, k.read_buf_idx_)]
    BY <1>1, AcceptKeepsPool
  <1>3. PoolPart'
    BY <1>1, AcceptKeepsPool
  <1>4. /\ reader' = [reader EXCEPT ![c] = "reading"]
        /\ writer' = [writer EXCEPT ![c] = "pop"]
        /\ queue' = [queue EXCEPT ![c] = EmptyQueue]
        /\ writeOp' = writeOp
        /\ UNCHANGED <<config, accepting>>
    BY DEF Accept
  <1>5. OthersKeep(c)
    BY <1>1, <1>2, <1>4 DEF OthersKeep, LoopTypes
  <1>6. Op(k, k.read_buf_idx_) \in OpType
    BY OpTyped DEF ConnType
  <1>7. EmptyQueue \in [items : 0..MaxQueue, closed : BOOLEAN]
    BY ConnectionsAssumption DEF EmptyQueue
  <1>8. LoopTypes'
    BY <1>1, <1>2, <1>4, <1>6, <1>7 DEF LoopTypes
  <1>9. LoopOK(conn'[c], reader'[c], writer'[c], queue'[c], readOp'[c], writeOp'[c])
    BY <1>1, <1>2, <1>4 DEF LoopOK, LoopTypes
  <1>10. ConfigPart'
    BY <1>4 DEF Inv, ConfigPart, config
  <1> QED
    BY <1>1, <1>3, <1>5, <1>8, <1>9, <1>10, OneLoop DEF Inv

LEMMA WritePartlyInv ==
  ASSUME Inv, NEW c \in Conns, WritePartly(c)
  PROVE  Inv'
  <1>1. /\ PoolPart /\ LoopPart /\ LoopTypes
        /\ Op(conn[c], conn[c].write_buf_idx_) \in OpType
        /\ LoopOK(conn[c], reader[c], writer[c], queue[c], readOp[c], writeOp[c])
    BY OneConnection
  <1>2. /\ writer[c] = "write"
        /\ writer' = [writer EXCEPT ![c] = "write"]
        /\ writeOp' = [writeOp EXCEPT ![c] = Op(conn[c], conn[c].write_buf_idx_)]
        /\ conn' = conn /\ reader' = reader /\ queue' = queue /\ readOp' = readOp
        /\ UNCHANGED <<config, accepting, conn, poolVars>>
    BY DEF WritePartly, BeginWrite
  <1>3. PoolPart'
    BY <1>1, <1>2, SamePool
  <1>4. OthersKeep(c) /\ LoopTypes'
    BY <1>1, <1>2 DEF OthersKeep, LoopTypes
  <1>5. LoopOK(conn'[c], reader'[c], writer'[c], queue'[c], readOp'[c], writeOp'[c])
    BY <1>1, <1>2 DEF LoopOK, LoopTypes
  <1>6. ConfigPart'
    BY <1>2 DEF Inv, ConfigPart, config
  <1> QED
    BY <1>1, <1>3, <1>4, <1>5, <1>6, OneLoop DEF Inv

\* The write loop ends with the queue as it is: closed, or after a failure.
LEMMA WriterEndsInv ==
  ASSUME Inv, NEW c \in Conns, writer[c] = "write", EndWriter(c),
         ReleaseConnection(c, reader[c]),
         UNCHANGED <<config, accepting, reader, readOp, queue>>
  PROVE  Inv'
  <1>1. /\ PoolPart /\ LoopPart /\ LoopTypes
        /\ LoopOK(conn[c], reader[c], writer[c], queue[c], readOp[c], writeOp[c])
    BY OneConnection
  <1>2. conn[c].alive
    BY <1>1 DEF LoopOK
  <1>3. /\ PoolPart'
        /\ conn'[c] = IF reader[c] = "done" THEN NoConn ELSE conn[c]
        /\ \A d \in Conns \ {c} : conn'[d] = conn[d]
    BY <1>1, <1>2, ReleaseKeepsPool
  <1>4. /\ writer' = [writer EXCEPT ![c] = "done"]
        /\ writeOp' = [writeOp EXCEPT ![c] = NoOp]
        /\ reader' = reader /\ queue' = queue /\ readOp' = readOp
    BY DEF EndWriter
  <1>5. OthersKeep(c) /\ LoopTypes'
    <2>1. LoopTypes'
      BY <1>1, <1>4, NoOpTyped DEF LoopTypes
    <2> QED
      BY <1>1, <1>3, <1>4, <2>1 DEF OthersKeep, LoopTypes
  <1>6. LoopOK(conn'[c], reader'[c], writer'[c], queue'[c], readOp'[c], writeOp'[c])
    <2>1. /\ writer'[c] = "done" /\ reader'[c] = reader[c] /\ queue'[c] = queue[c]
          /\ readOp'[c] = readOp[c] /\ reader[c] \in {"reading", "done"}
      BY <1>1, <1>4 DEF LoopTypes
    <2>2. CASE reader[c] = "done"
      <3>1. ~(conn'[c].alive)
        BY <1>3, <2>2 DEF NoConn
      <3> QED
        BY <2>1, <2>2, <3>1 DEF LoopOK
    <2>3. CASE reader[c] = "reading"
      <3>1. conn'[c] = conn[c]
        BY <1>3, <2>3
      <3> QED
        BY <1>1, <1>2, <2>1, <2>3, <3>1 DEF LoopOK
    <2> QED
      BY <2>1, <2>2, <2>3
  <1>7. ConfigPart'
    BY DEF Inv, ConfigPart, config
  <1> QED
    BY <1>1, <1>3, <1>5, <1>6, <1>7, OneLoop DEF Inv

LEMMA WriteCompletesInv ==
  ASSUME Inv, NEW c \in Conns, WriteCompletes(c)
  PROVE  Inv'
  <1>1. /\ PoolPart /\ LoopPart /\ LoopTypes
        /\ Op(conn[c], conn[c].write_buf_idx_) \in OpType
        /\ queue[c].items \in 0..MaxQueue /\ queue[c].closed \in BOOLEAN
        /\ LoopOK(conn[c], reader[c], writer[c], queue[c], readOp[c], writeOp[c])
    BY OneConnection
  <1>2. /\ writer[c] = "write"
        /\ reader' = reader /\ readOp' = readOp
        /\ UNCHANGED <<config, accepting>>
    BY DEF WriteCompletes
  <1>3. ConfigPart'
    BY <1>2 DEF Inv, ConfigPart, config
  <1>4. CASE /\ queue[c].items > 0
             /\ BeginWrite(c)
             /\ queue' = [queue EXCEPT ![c].items = @ - 1]
             /\ UNCHANGED <<conn, poolVars>>
    <2>1. /\ writer' = [writer EXCEPT ![c] = "write"]
          /\ writeOp' = [writeOp EXCEPT ![c] = Op(conn[c], conn[c].write_buf_idx_)]
          /\ conn' = conn
      BY <1>4 DEF BeginWrite
    <2>2. PoolPart'
      BY <1>1, <1>2, <1>4, SamePool
    <2>3. queue[c].items - 1 \in 0..MaxQueue
      BY <1>1, <1>4, ConnectionsAssumption
    <2>4. /\ queue' \in [Conns -> [items : 0..MaxQueue, closed : BOOLEAN]]
          /\ queue'[c].closed = queue[c].closed
          /\ \A d \in Conns \ {c} : queue'[d] = queue[d]
      BY <1>1, <1>4, <2>3 DEF LoopTypes
    <2>5. OthersKeep(c) /\ LoopTypes'
      BY <1>1, <1>2, <2>1, <2>4 DEF OthersKeep, LoopTypes
    <2>6. LoopOK(conn'[c], reader'[c], writer'[c], queue'[c], readOp'[c], writeOp'[c])
      BY <1>1, <1>2, <2>1, <2>4 DEF LoopOK, LoopTypes
    <2> QED
      BY <1>1, <1>3, <2>2, <2>5, <2>6, OneLoop DEF Inv
  <1>5. CASE /\ queue[c].items = 0 /\ ~queue[c].closed
             /\ writer' = [writer EXCEPT ![c] = "pop"]
             /\ writeOp' = [writeOp EXCEPT ![c] = NoOp]
             /\ UNCHANGED <<queue, conn, poolVars>>
    <2>1. PoolPart'
      BY <1>1, <1>2, <1>5, SamePool
    <2>2. OthersKeep(c) /\ LoopTypes'
      BY <1>1, <1>2, <1>5, NoOpTyped DEF OthersKeep, LoopTypes
    <2>3. LoopOK(conn'[c], reader'[c], writer'[c], queue'[c], readOp'[c], writeOp'[c])
      BY <1>1, <1>2, <1>5 DEF LoopOK, LoopTypes
    <2> QED
      BY <1>1, <1>3, <2>1, <2>2, <2>3, OneLoop DEF Inv
  <1>6. CASE EndWriter(c) /\ ReleaseConnection(c, reader[c]) /\ UNCHANGED queue
    BY <1>2, <1>6, WriterEndsInv
  <1> QED
    BY <1>4, <1>5, <1>6 DEF WriteCompletes

LEMMA ReadCompletesInv ==
  ASSUME Inv, NEW c \in Conns, NEW n \in 0..MaxBatch, ReadCompletes(c, n)
  PROVE  Inv'
  <1>1. /\ PoolPart /\ LoopPart /\ LoopTypes
        /\ Op(conn[c], conn[c].read_buf_idx_) \in OpType
        /\ Op(conn[c], conn[c].write_buf_idx_) \in OpType
        /\ queue[c].items \in 0..MaxQueue /\ queue[c].closed \in BOOLEAN
        /\ LoopOK(conn[c], reader[c], writer[c], queue[c], readOp[c], writeOp[c])
    BY OneConnection
  <1>2. /\ reader[c] = "reading"
        /\ readOp' = [readOp EXCEPT ![c] = Op(conn[c], conn[c].read_buf_idx_)]
        /\ reader' = reader /\ conn' = conn
        /\ UNCHANGED <<config, accepting, conn, poolVars>>
    BY DEF ReadCompletes
  <1>3. ConfigPart' /\ PoolPart'
    BY <1>1, <1>2, SamePool DEF Inv, ConfigPart, config
  <1>4. \E j \in 0..MaxQueue : queue' = [queue EXCEPT ![c].items = j]
    <2>1. MaxQueue \in Nat \ {0} /\ n \in 0..2
      BY ConnectionsAssumption DEF MaxBatch
    <2>2. CASE n > 0 /\ writer[c] = "pop"
      <3>1. n - 1 \in 0..MaxQueue
        BY <2>1, <2>2
      <3> QED
        BY <2>2, <3>1 DEF ReadCompletes
    <2>3. CASE n = 0 \/ writer[c] # "pop"
      <3>1. queue[c].items + n <= MaxQueue /\ queue' = [queue EXCEPT ![c].items = @ + n]
        BY <2>1, <2>3 DEF ReadCompletes
      <3>2. queue[c].items + n \in 0..MaxQueue
        BY <1>1, <2>1, <3>1
      <3> QED
        BY <3>1, <3>2
    <2> QED
      BY <2>1, <2>2, <2>3
  <1>5. /\ queue' \in [Conns -> [items : 0..MaxQueue, closed : BOOLEAN]]
        /\ queue'[c].closed = queue[c].closed
        /\ \A d \in Conns \ {c} : queue'[d] = queue[d]
    BY <1>1, <1>4 DEF LoopTypes
  <1>6. \/ /\ writer' = [writer EXCEPT ![c] = "write"]
           /\ writeOp' = [writeOp EXCEPT ![c] = Op(conn[c], conn[c].write_buf_idx_)]
        \/ writer' = writer /\ writeOp' = writeOp
    BY DEF ReadCompletes, BeginWrite
  <1>7. OthersKeep(c) /\ LoopTypes'
    BY <1>1, <1>2, <1>5, <1>6, ZenonT(60) DEF OthersKeep, LoopTypes
  <1>8. LoopOK(conn'[c], reader'[c], writer'[c], queue'[c], readOp'[c], writeOp'[c])
    <2>1. /\ conn'[c] = conn[c] /\ reader'[c] = "reading"
          /\ readOp'[c] = Op(conn[c], conn[c].read_buf_idx_)
      BY <1>1, <1>2 DEF LoopTypes
    <2>2. conn[c].alive
      BY <1>1, <1>2 DEF LoopOK
    <2>3. \/ writer'[c] = "write" /\ writeOp'[c] = Op(conn[c], conn[c].write_buf_idx_)
          \/ writer'[c] = writer[c] /\ writeOp'[c] = writeOp[c]
      BY <1>1, <1>6 DEF LoopTypes
    <2> QED
      BY <1>1, <2>1, <2>2, <2>3 DEF LoopOK
  <1> QED
    BY <1>1, <1>3, <1>7, <1>8, OneLoop DEF Inv

LEMMA ReadEndsInv ==
  ASSUME Inv, NEW c \in Conns, ReadEnds(c)
  PROVE  Inv'
  <1>1. /\ PoolPart /\ LoopPart /\ LoopTypes
        /\ LoopOK(conn[c], reader[c], writer[c], queue[c], readOp[c], writeOp[c])
    BY OneConnection
  <1>2. /\ reader[c] = "reading"
        /\ reader' = [reader EXCEPT ![c] = "done"]
        /\ readOp' = [readOp EXCEPT ![c] = NoOp]
        /\ queue' = [queue EXCEPT ![c].closed = TRUE]
        /\ UNCHANGED <<config, accepting>>
    BY DEF ReadEnds
  <1>3. conn[c].alive
    BY <1>1, <1>2 DEF LoopOK
  <1>4. ConfigPart'
    BY <1>2 DEF Inv, ConfigPart, config
  <1>5. /\ queue' \in [Conns -> [items : 0..MaxQueue, closed : BOOLEAN]]
        /\ queue'[c].closed = TRUE
        /\ \A d \in Conns \ {c} : queue'[d] = queue[d]
    BY <1>1, <1>2 DEF LoopTypes
  <1>6. CASE writer[c] = "pop"
    <2>1. /\ writer' = [writer EXCEPT ![c] = "done"]
          /\ writeOp' = [writeOp EXCEPT ![c] = NoOp]
          /\ ReleaseConnection(c, "done")
      BY <1>6 DEF ReadEnds, EndWriter
    <2>2. PoolPart' /\ conn'[c] = NoConn /\ \A d \in Conns \ {c} : conn'[d] = conn[d]
      BY <1>1, <1>2, <1>3, <2>1, ReleaseKeepsPool
    <2>3. OthersKeep(c) /\ LoopTypes'
      BY <1>1, <1>2, <1>5, <2>1, <2>2, NoOpTyped DEF OthersKeep, LoopTypes
    <2>4. LoopOK(conn'[c], reader'[c], writer'[c], queue'[c], readOp'[c], writeOp'[c])
      BY <1>1, <1>2, <2>1, <2>2 DEF LoopOK, LoopTypes, NoConn
    <2> QED
      BY <1>1, <1>4, <2>2, <2>3, <2>4, OneLoop DEF Inv
  <1>7. CASE writer[c] # "pop"
    <2>1. writer' = writer /\ writeOp' = writeOp /\ ReleaseConnection(c, writer[c])
      BY <1>7 DEF ReadEnds
    <2>2. /\ PoolPart'
          /\ conn'[c] = IF writer[c] = "done" THEN NoConn ELSE conn[c]
          /\ \A d \in Conns \ {c} : conn'[d] = conn[d]
      BY <1>1, <1>2, <1>3, <2>1, ReleaseKeepsPool
    <2>3. OthersKeep(c) /\ LoopTypes'
      BY <1>1, <1>2, <1>5, <2>1, <2>2, NoOpTyped DEF OthersKeep, LoopTypes
    <2>4. LoopOK(conn'[c], reader'[c], writer'[c], queue'[c], readOp'[c], writeOp'[c])
      BY <1>1, <1>2, <1>3, <1>5, <1>7, <2>1, <2>2 DEF LoopOK, LoopTypes, NoConn
    <2> QED
      BY <1>1, <1>4, <2>2, <2>3, <2>4, OneLoop DEF Inv
  <1> QED
    BY <1>6, <1>7

LEMMA NextInv ==
  ASSUME Inv, [Next]_vars
  PROVE  Inv'
  <1>1. CASE UNCHANGED vars
    <2>1. /\ UNCHANGED <<config, accepting, conn, poolVars>>
          /\ reader' = reader /\ writer' = writer /\ queue' = queue
          /\ readOp' = readOp /\ writeOp' = writeOp
      BY <1>1 DEF vars, loopVars
    <2>2. PoolPart'
      BY <2>1, SamePool DEF Inv
    <2> QED
      BY <2>1, <2>2 DEF Inv, LoopPart, ConfigPart, config
  <1>2. CASE AcceptFails
    <2>1. /\ UNCHANGED <<config, conn, poolVars>> /\ accepting' = FALSE
          /\ reader' = reader /\ writer' = writer /\ queue' = queue
          /\ readOp' = readOp /\ writeOp' = writeOp
      BY <1>2 DEF AcceptFails, loopVars
    <2>2. PoolPart'
      BY <2>1, SamePool DEF Inv
    <2> QED
      BY <2>1, <2>2 DEF Inv, LoopPart, ConfigPart, config
  <1>3. ASSUME NEW c \in Conns, Accept(c) \/ ReaderStep(c) \/ WriterStep(c)
        PROVE  Inv'
    <2>1. CASE Accept(c)
      BY <2>1, AcceptInv
    <2>2. CASE ReaderStep(c)
      BY <2>2, ReadCompletesInv, ReadEndsInv DEF ReaderStep
    <2>3. CASE WriterStep(c)
      <3>1. CASE WriteFails(c)
        BY <3>1, WriterEndsInv DEF WriteFails
      <3> QED
        BY <2>3, <3>1, WritePartlyInv, WriteCompletesInv DEF WriterStep
    <2> QED
      BY <1>3, <2>1, <2>2, <2>3
  <1> QED
    BY <1>1, <1>2, <1>3 DEF Next

LEMMA InvHolds == Spec => []Inv
  BY InitInv, NextInv, PTL DEF Spec

-----------------------------------------------------------------------------
(* The theorems. *)

\* A buffer is in one place, or nowhere if there are no buffers.
LEMMA OneBufferPlace ==
  ASSUME PoolPart, NEW b \in 0..(BufCount - 1)
  PROVE  IF bufs_registered THEN \E p : BufferPlaces(b) = {p} ELSE BufferPlaces(b) = {}
  <1> DEFINE q == free_buf_indices_
             atFree == {j \in DOMAIN free_buf_indices_ : free_buf_indices_[j] = b}
             asRead == {d \in Conns : conn[d].read_buf_idx_ = b}
             asWrite == {d \in Conns : conn[d].write_buf_idx_ = b}
  <1>1. BufferPlaces(b) = {<<"free", i>> : i \in atFree} \cup {<<"read", c>> : c \in asRead}
                            \cup {<<"write", c>> : c \in asWrite}
    BY DEF BufferPlaces
  <1>2. Owns(BufCount, bufs_registered, q, BufHeld(conn))
    BY DEF PoolPart
  <1>3. b # None
    BY ConnectionsAssumption DEF None
  <1>4. /\ \A d \in asRead : b \in BufHeld(conn)[d]
        /\ \A d \in asWrite : b \in BufHeld(conn)[d]
        /\ \A d \in Conns : b \in BufHeld(conn)[d] => d \in asRead \cup asWrite
    BY <1>3 DEF BufHeld
  <1>5. DOMAIN q = 1..Len(q) /\ NoDup(q)
    BY <1>2, LenProperties DEF Owns
  <1>6. \A d \in asRead : d \notin asWrite
    BY <1>3 DEF PoolPart, Sound
  <1>7. atFree = {j \in 1..Len(q) : q[j] = b}
    BY <1>5
  <1>8. /\ asRead \subseteq Conns /\ asWrite \subseteq Conns
    OBVIOUS
  <1> HIDE DEF q, atFree, asRead, asWrite
  <1>9. CASE ~bufs_registered
    <2>1. Elems(q) = {} /\ \A d \in Conns : BufHeld(conn)[d] = {}
      BY <1>2, <1>9 DEF Owns
    <2>2. asRead = {} /\ asWrite = {}
      BY <1>4, <1>8, <2>1
    <2>3. atFree = {}
      BY <1>7, <2>1 DEF Elems
    <2> QED
      BY <1>1, <1>9, <2>2, <2>3
  <1>10. CASE bufs_registered /\ b \in Elems(q)
    <2>1. PICK i \in 1..Len(q) : q[i] = b
      BY <1>10 DEF Elems
    <2>2. atFree = {i}
      BY <1>5, <1>7, <2>1 DEF NoDup
    <2>3. asRead = {} /\ asWrite = {}
      BY <1>2, <1>4, <1>8, <1>10 DEF Owns
    <2>4. BufferPlaces(b) = {<<"free", i>>}
      BY <1>1, <2>2, <2>3
    <2> QED
      BY <1>10, <2>4
  <1>11. CASE bufs_registered /\ b \notin Elems(q)
    <2>1. PICK c \in Conns : b \in BufHeld(conn)[c]
      BY <1>2, <1>11 DEF Owns
    <2>2. atFree = {}
      BY <1>7, <1>11 DEF Elems
    <2>3. \A d \in Conns : b \in BufHeld(conn)[d] => d = c
      BY <1>2, <2>1 DEF Owns
    <2>4. asRead \subseteq {c} /\ asWrite \subseteq {c} /\ c \in asRead \cup asWrite
      BY <1>4, <1>8, <2>1, <2>3
    <2>5. CASE c \in asRead
      <3>1. asRead = {c} /\ asWrite = {}
        BY <1>6, <2>4, <2>5
      <3>2. BufferPlaces(b) = {<<"read", c>>}
        BY <1>1, <2>2, <3>1
      <3> QED
        BY <1>11, <3>2
    <2>6. CASE c \notin asRead
      <3>1. asWrite = {c} /\ asRead = {}
        BY <2>4, <2>6
      <3>2. BufferPlaces(b) = {<<"write", c>>}
        BY <1>1, <2>2, <3>1
      <3> QED
        BY <1>11, <3>2
    <2> QED
      BY <2>5, <2>6
  <1> QED
    BY <1>9, <1>10, <1>11

\* So is a slot of the file table.
LEMMA OneSlotPlace ==
  ASSUME PoolPart, NEW s \in 0..(FileSlots - 1)
  PROVE  IF files_enabled_ THEN \E p : SlotPlaces(s) = {p} ELSE SlotPlaces(s) = {}
  <1> DEFINE q == free_file_indices_
             atFree == {j \in DOMAIN free_file_indices_ : free_file_indices_[j] = s}
             held == {d \in Conns : conn[d].fixed_file_idx_ = s}
  <1>1. SlotPlaces(s) = {<<"free", i>> : i \in atFree} \cup {<<"conn", c>> : c \in held}
    BY DEF SlotPlaces
  <1>2. Owns(FileSlots, files_enabled_, q, SlotHeld(conn))
    BY DEF PoolPart
  <1>3. s # None
    BY ConnectionsAssumption DEF None
  <1>4. \A d \in Conns : d \in held <=> s \in SlotHeld(conn)[d]
    BY <1>3 DEF SlotHeld
  <1>5. DOMAIN q = 1..Len(q) /\ NoDup(q)
    BY <1>2, LenProperties DEF Owns
  <1>6. atFree = {j \in 1..Len(q) : q[j] = s} /\ held \subseteq Conns
    BY <1>5
  <1> HIDE DEF q, atFree, held
  <1>7. CASE ~files_enabled_
    <2>1. atFree = {} /\ held = {}
      BY <1>2, <1>4, <1>6, <1>7 DEF Owns, Elems
    <2> QED
      BY <1>1, <1>7, <2>1
  <1>8. CASE files_enabled_ /\ s \in Elems(q)
    <2>1. PICK i \in 1..Len(q) : q[i] = s
      BY <1>8 DEF Elems
    <2>2. atFree = {i}
      BY <1>5, <1>6, <2>1 DEF NoDup
    <2>3. held = {}
      BY <1>2, <1>4, <1>6, <1>8 DEF Owns
    <2>4. SlotPlaces(s) = {<<"free", i>>}
      BY <1>1, <2>2, <2>3
    <2> QED
      BY <1>8, <2>4
  <1>9. CASE files_enabled_ /\ s \notin Elems(q)
    <2>1. PICK c \in Conns : s \in SlotHeld(conn)[c]
      BY <1>2, <1>9 DEF Owns
    <2>2. atFree = {}
      BY <1>6, <1>9 DEF Elems
    <2>3. held = {c}
      BY <1>2, <1>4, <1>6, <2>1 DEF Owns
    <2>4. SlotPlaces(s) = {<<"conn", c>>}
      BY <1>1, <2>2, <2>3
    <2> QED
      BY <1>9, <2>4
  <1> QED
    BY <1>7, <1>8, <1>9

\* What the variables hold, TypeOK, for any number of connections.
THEOREM TypeCorrect == Spec => []TypeOK
  <1>1. Inv => TypeOK
    BY DEF Inv, ConfigPart, PoolPart, LoopPart, ConnType, Owns, TypeOK
  <1> QED
    BY <1>1, InvHolds, PTL

\* Every registered buffer is free or is one connection's in one role, however
\* many connections come and go and in whatever order their loops end.
THEOREM BuffersAreOwned == Spec => []BufferOwnership
  <1>1. ASSUME PoolPart, NEW b \in 0..(BufCount - 1)
        PROVE  Cardinality(BufferPlaces(b)) = IF bufs_registered THEN 1 ELSE 0
    BY <1>1, OneBufferPlace, FS_Singleton, FS_EmptySet
  <1>2. Inv => BufferOwnership
    BY <1>1 DEF Inv, BufferOwnership
  <1> QED
    BY <1>2, InvHolds, PTL

\* Every slot of the fixed file table is free or is one connection's, and then
\* holds its descriptor, whichever updates of the table the kernel refuses.
THEOREM SlotsAreOwned == Spec => []SlotOwnership
  <1>1. ASSUME PoolPart, NEW s \in 0..(FileSlots - 1)
        PROVE  Cardinality(SlotPlaces(s)) = IF files_enabled_ THEN 1 ELSE 0
    BY <1>1, OneSlotPlace, FS_Singleton, FS_EmptySet
  <1>2. ASSUME PoolPart, NEW s \in 0..(FileSlots - 1), NEW c \in Conns,
               conn[c].fixed_file_idx_ = s
        PROVE  table[s] = conn[c].fd_
    <2>1. s # None
      BY ConnectionsAssumption DEF None
    <2> QED
      BY <1>2, <2>1 DEF PoolPart, TableHas
  <1>3. Inv => SlotOwnership
    BY <1>1, <1>2 DEF Inv, SlotOwnership, PoolPart
  <1> QED
    BY <1>3, InvHolds, PTL

\* An operation in flight works on its own connection's socket and buffer,
\* whatever is closed and reused around it.
THEOREM OperationsStayHome == Spec => []OpsStayHome
  <1>1. ASSUME PoolPart, NEW c \in Conns, conn[c].alive, NEW idx
        PROVE  Reaches(Op(conn[c], idx)) = c /\ Op(conn[c], idx).buf = idx
    <2>1. /\ conn[c].fd_ \in Fds /\ openFds[conn[c].fd_] = c
          /\ TableHas(conn[c], table)
      BY <1>1 DEF PoolPart, Sound
    <2>2. conn[c].fd_ # None
      BY <2>1, FS_CardinalityType, ConnectionsAssumption DEF Fds, None
    <2> QED
      BY <2>1, <2>2 DEF Reaches, Op, Target, TableHas
  <1>2. ASSUME Inv, NEW c \in Conns, reader[c] = "reading"
        PROVE  /\ conn[c].alive /\ Reaches(readOp[c]) = c
               /\ readOp[c].buf = conn[c].read_buf_idx_
    <2>1. PoolPart /\ conn[c].alive /\ readOp[c] = Op(conn[c], conn[c].read_buf_idx_)
      BY <1>2 DEF Inv, LoopPart, LoopOK
    <2> QED
      BY <1>1, <2>1
  <1>3. ASSUME Inv, NEW c \in Conns, writer[c] = "write"
        PROVE  /\ conn[c].alive /\ Reaches(writeOp[c]) = c
               /\ writeOp[c].buf = conn[c].write_buf_idx_
    <2>1. PoolPart /\ conn[c].alive /\ writeOp[c] = Op(conn[c], conn[c].write_buf_idx_)
      BY <1>3 DEF Inv, LoopPart, LoopOK
    <2> QED
      BY <1>1, <2>1
  <1>4. Inv => OpsStayHome
    BY <1>2, <1>3 DEF OpsStayHome
  <1> QED
    BY <1>4, InvHolds, PTL

\* A connection that exists has an operation in flight: it cannot be kept by
\* coroutines that nothing resumes.
THEOREM NothingLeaks == Spec => []NoLeak
  <1>1. Inv => NoLeak
    BY DEF Inv, LoopPart, LoopOK, NoLeak
  <1> QED
    BY <1>1, InvHolds, PTL
=============================================================================
