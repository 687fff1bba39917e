------------------------- MODULE RequestPathProofs -------------------------
(***************************************************************************)
(* Proofs about RequestPath, for all messages whose lengths fit into 32 bits, *)
(* all buffer sizes, every fragmentation and every byte of noise.             *)
(*                                                                            *)
(* First come slices of sequences, then what Compact, Resize, EnsureWritable, *)
(* HasWritten and HasRead do to the readable bytes of a buffer, then what     *)
(* EncodeMessage writes and what ParseMessage makes of it.  The inductive     *)
(* invariant has, besides the types, a part that relates the buffer to the    *)
(* stream (StorePart), one that says where in the stream the messages lie and *)
(* where the reader is (MessagePart), and the two properties of a read in     *)
(* flight that follow from them at the moment it starts (ReadingPart).        *)
(***************************************************************************)
EXTENDS RequestPath, SequenceTheorems, TLAPS

(* Slices of sequences. *)

LEMMA Slice ==
  ASSUME NEW S, NEW s \in Seq(S), NEW n \in 0..Len(s), NEW m \in 0..n
  PROVE  /\ SubSeq(s, m + 1, n) \in Seq(S)
         /\ Len(SubSeq(s, m + 1, n)) = n - m
         /\ \A k \in 1..(n - m) : SubSeq(s, m + 1, n)[k] = s[m + k]
  <1>1. \A k \in (m + 1)..n : s[k] \in S
    BY ElementOfSeq
  <1>2. Len(s) \in Nat /\ m + 1 \in Int /\ n \in Int
    OBVIOUS
  <1>3. /\ SubSeq(s, m + 1, n) \in Seq(S)
        /\ Len(SubSeq(s, m + 1, n)) = IF m + 1 <= n THEN n - (m + 1) + 1 ELSE 0
        /\ \A k \in 1..(n - (m + 1) + 1) : SubSeq(s, m + 1, n)[k] = s[(m + 1) + k - 1]
    BY <1>1, <1>2, SubSeqProperties
  <1> QED
    BY <1>2, <1>3

LEMMA SliceOfSlice ==
  ASSUME NEW S, NEW s \in Seq(S), NEW n \in 0..Len(s), NEW m \in 0..n, NEW k \in 0..(n - m)
  PROVE  SubSeq(SubSeq(s, m + 1, n), k + 1, n - m) = SubSeq(s, (m + k) + 1, n)
  <1> DEFINE t == SubSeq(s, m + 1, n)
  <1>1. t \in Seq(S) /\ Len(t) = n - m /\ \A i \in 1..(n - m) : t[i] = s[m + i]
    BY Slice
  <1>2. m + k \in 0..n
    OBVIOUS
  <1> HIDE DEF t
  <1>3. n - m \in 0..Len(t)
    BY <1>1
  <1>4. /\ SubSeq(t, k + 1, n - m) \in Seq(S)
        /\ Len(SubSeq(t, k + 1, n - m)) = (n - m) - k
        /\ \A i \in 1..((n - m) - k) : SubSeq(t, k + 1, n - m)[i] = t[k + i]
    BY <1>1, <1>3, Slice
  <1>5. /\ SubSeq(s, (m + k) + 1, n) \in Seq(S)
        /\ Len(SubSeq(s, (m + k) + 1, n)) = n - (m + k)
        /\ \A i \in 1..(n - (m + k)) : SubSeq(s, (m + k) + 1, n)[i] = s[(m + k) + i]
    BY <1>2, Slice
  <1>6. \A i \in 1..(n - (m + k)) : SubSeq(t, k + 1, n - m)[i] = SubSeq(s, (m + k) + 1, n)[i]
    <2> SUFFICES ASSUME NEW i \in 1..(n - (m + k))
                 PROVE  SubSeq(t, k + 1, n - m)[i] = SubSeq(s, (m + k) + 1, n)[i]
      OBVIOUS
    <2>1. i \in 1..((n - m) - k) /\ k + i \in 1..(n - m) /\ m + (k + i) = (m + k) + i
      OBVIOUS
    <2>2. SubSeq(t, k + 1, n - m)[i] = t[k + i]
      BY <2>1, <1>4
    <2>3. t[k + i] = s[m + (k + i)]
      BY <2>1, <1>1
    <2> QED
      BY <2>1, <2>2, <2>3, <1>5
  <1>7. (n - m) - k = n - (m + k)
    OBVIOUS
  <1>8. SubSeq(t, k + 1, n - m) = SubSeq(s, (m + k) + 1, n)
    BY <1>4, <1>5, <1>6, <1>7, SeqEqual
  <1> QED
    BY <1>8 DEF t

LEMMA SliceOfLonger ==
  ASSUME NEW S, NEW s \in Seq(S), NEW t \in Seq(S), NEW n \in 0..Len(s), NEW m \in 0..n
  PROVE  SubSeq(s \o t, m + 1, n) = SubSeq(s, m + 1, n)
  <1>1. s \o t \in Seq(S) /\ Len(s \o t) = Len(s) + Len(t)
    BY ConcatProperties
  <1>2. \A i \in 1..Len(s) : (s \o t)[i] = s[i]
    BY ConcatProperties
  <1>3. n \in 0..Len(s \o t)
    BY <1>1
  <1>4. /\ SubSeq(s \o t, m + 1, n) \in Seq(S)
        /\ Len(SubSeq(s \o t, m + 1, n)) = n - m
        /\ \A k \in 1..(n - m) : SubSeq(s \o t, m + 1, n)[k] = (s \o t)[m + k]
    BY <1>1, <1>3, Slice
  <1>5. /\ SubSeq(s, m + 1, n) \in Seq(S)
        /\ Len(SubSeq(s, m + 1, n)) = n - m
        /\ \A k \in 1..(n - m) : SubSeq(s, m + 1, n)[k] = s[m + k]
    BY Slice
  <1>6. \A k \in 1..(n - m) : SubSeq(s \o t, m + 1, n)[k] = SubSeq(s, m + 1, n)[k]
    <2> SUFFICES ASSUME NEW k \in 1..(n - m)
                 PROVE  SubSeq(s \o t, m + 1, n)[k] = SubSeq(s, m + 1, n)[k]
      OBVIOUS
    <2>1. m + k \in 1..Len(s)
      OBVIOUS
    <2> QED
      BY <2>1, <1>2, <1>4, <1>5
  <1> QED
    BY <1>4, <1>5, <1>6, SeqEqual

-----------------------------------------------------------------------------
(* Buffer. *)

LEMMA ReadableFacts ==
  ASSUME NEW b, IsBuffer(b)
  PROVE  /\ ReadableBytes(b) \in Nat
         /\ Readable(b) \in Seq(Byte)
         /\ Len(Readable(b)) = ReadableBytes(b)
         /\ \A k \in 1..ReadableBytes(b) : Readable(b)[k] = b.mem[b.read_idx_ + k]
  <1>1. b.mem \in Seq(Byte) /\ b.write_idx_ \in 0..Len(b.mem) /\ b.read_idx_ \in 0..b.write_idx_
    BY DEF IsBuffer
  <1>2. /\ SubSeq(b.mem, b.read_idx_ + 1, b.write_idx_) \in Seq(Byte)
        /\ Len(SubSeq(b.mem, b.read_idx_ + 1, b.write_idx_)) = b.write_idx_ - b.read_idx_
        /\ \A k \in 1..(b.write_idx_ - b.read_idx_) :
             SubSeq(b.mem, b.read_idx_ + 1, b.write_idx_)[k] = b.mem[b.read_idx_ + k]
    BY <1>1, Slice
  <1>3. b.write_idx_ - b.read_idx_ \in Nat
    BY <1>1
  <1> QED
    BY <1>2, <1>3 DEF Readable, ReadableBytes

\* Two buffers that hold the same bytes for the reader.
SameContent(b, c) ==
  /\ IsBuffer(c)
  /\ c.is_fixed_ = b.is_fixed_
  /\ ReadableBytes(c) = ReadableBytes(b)
  /\ Readable(c) = Readable(b)

LEMMA CompactKeeps ==
  ASSUME NEW b, IsBuffer(b)
  PROVE  /\ SameContent(b, Compact(b))
         /\ capacity_(Compact(b)) = capacity_(b)
         /\ Compact(b).read_idx_ = 0
  <1>0. CASE b.read_idx_ = 0
    BY <1>0 DEF Compact, SameContent
  <1>1. CASE b.read_idx_ # 0
    <2> DEFINE r == Readable(b)
               t == SubSeq(b.mem, ReadableBytes(b) + 1, Len(b.mem))
               c == [b EXCEPT !.mem = r \o t, !.read_idx_ = 0, !.write_idx_ = ReadableBytes(b)]
    <2>1. b.mem \in Seq(Byte) /\ b.write_idx_ \in 0..Len(b.mem) /\ b.read_idx_ \in 0..b.write_idx_
      BY DEF IsBuffer
    <2>2. ReadableBytes(b) \in Nat /\ ReadableBytes(b) \in 0..Len(b.mem) /\ Len(b.mem) \in Nat
      BY <2>1 DEF ReadableBytes
    <2>3. r \in Seq(Byte) /\ Len(r) = ReadableBytes(b)
      BY ReadableFacts
    <2>4. t \in Seq(Byte) /\ Len(t) = Len(b.mem) - ReadableBytes(b)
      <3>1. Len(b.mem) \in 0..Len(b.mem)
        BY <2>2
      <3> QED
        BY <2>1, <2>2, <3>1, Slice
    <2>5. Compact(b) = c
      BY <1>1 DEF Compact
    <2> HIDE DEF r, t
    <2>6. r \o t \in Seq(Byte) /\ Len(r \o t) = Len(b.mem)
      <3>1. r \o t \in Seq(Byte) /\ Len(r \o t) = Len(r) + Len(t)
        BY <2>3, <2>4, ConcatProperties
      <3> QED
        BY <2>2, <2>3, <2>4, <3>1
    <2>7. /\ c.mem = r \o t /\ c.is_fixed_ = b.is_fixed_
          /\ c.read_idx_ = 0 /\ c.write_idx_ = ReadableBytes(b)
          /\ c \in [mem : Seq(Byte), is_fixed_ : BOOLEAN, write_idx_ : Nat, read_idx_ : Nat]
      BY <2>2, <2>6 DEF IsBuffer
    <2> HIDE DEF c
    <2>8. IsBuffer(c)
      BY <2>2, <2>6, <2>7 DEF IsBuffer
    <2>9. ReadableBytes(c) = ReadableBytes(b)
      BY <2>2, <2>7 DEF ReadableBytes
    <2>10. Readable(c) = SubSeq(r \o t, 0 + 1, Len(r))
      BY <2>3, <2>7 DEF Readable
    <2>11. SubSeq(r \o t, 0 + 1, Len(r)) = SubSeq(r, 0 + 1, Len(r))
      <3>1. Len(r) \in 0..Len(r) /\ 0 \in 0..Len(r)
        BY <2>2, <2>3
      <3> QED
        BY <2>3, <2>4, <3>1, SliceOfLonger
    <2>12. SubSeq(r, 0 + 1, Len(r)) = r
      BY <2>3, SubSeqFull
    <2>13. Readable(c) = r
      BY <2>10, <2>11, <2>12
    <2> QED
      BY <2>5, <2>6, <2>7, <2>8, <2>9, <2>13 DEF SameContent, capacity_, r
  <1> QED
    BY <1>0, <1>1

LEMMA ResizeKeeps ==
  ASSUME NEW b, IsBuffer(b), NEW n \in Nat, n >= capacity_(b)
  PROVE  SameContent(b, Resize(b, n)) /\ capacity_(Resize(b, n)) = n
  <1> DEFINE w == n - Len(b.mem)
             z == [i \in 1..w |-> 0]
             c == Resize(b, n)
  <1>1. b.mem \in Seq(Byte) /\ b.write_idx_ \in 0..Len(b.mem) /\ b.read_idx_ \in 0..b.write_idx_
    BY DEF IsBuffer
  <1>2. w \in Nat
    BY <1>1 DEF capacity_
  <1>3. z \in Seq(Byte) /\ Len(z) = w
    <2> HIDE DEF w
    <2>1. 0 \in Byte
      BY DEF Byte
    <2>2. z \in [1..w -> Byte]
      BY <2>1
    <2>3. z \in UNION {[1..k -> Byte] : k \in Nat}
      BY <1>2, <2>2
    <2>4. z \in Seq(Byte)
      BY <2>3, SeqDef
    <2>5. DOMAIN z = 1..w
      OBVIOUS
    <2> QED
      BY <1>2, <2>4, <2>5
  <1>4. c = [b EXCEPT !.mem = b.mem \o z]
    BY DEF Resize
  <1> HIDE DEF z
  <1>5. b.mem \o z \in Seq(Byte) /\ Len(b.mem \o z) = n
    BY <1>1, <1>2, <1>3, ConcatProperties
  <1> HIDE DEF c
  <1>6. /\ c.mem = b.mem \o z /\ c.is_fixed_ = b.is_fixed_
        /\ c.read_idx_ = b.read_idx_ /\ c.write_idx_ = b.write_idx_
        /\ c \in [mem : Seq(Byte), is_fixed_ : BOOLEAN, write_idx_ : Nat, read_idx_ : Nat]
    BY <1>4, <1>5 DEF IsBuffer
  <1>7. IsBuffer(c)
    BY <1>1, <1>2, <1>5, <1>6 DEF IsBuffer
  <1>8. Readable(c) = Readable(b)
    <2>1. SubSeq(b.mem \o z, b.read_idx_ + 1, b.write_idx_)
            = SubSeq(b.mem, b.read_idx_ + 1, b.write_idx_)
      BY <1>1, <1>3, SliceOfLonger
    <2> QED
      BY <1>6, <2>1 DEF Readable
  <1> QED
    BY <1>5, <1>6, <1>7, <1>8 DEF SameContent, capacity_, ReadableBytes, c

\* EnsureWritable loses nothing, and there is room afterwards: in a fixed
\* buffer as much as its capacity leaves, in a dynamic one what was asked for.
LEMMA EnsureWritableKeeps ==
  ASSUME NEW b, IsBuffer(b), NEW n \in Nat
  PROVE  /\ SameContent(b, EnsureWritable(b, n))
         /\ b.is_fixed_ => capacity_(EnsureWritable(b, n)) = capacity_(b)
         /\ ~b.is_fixed_ => WritableBytes(EnsureWritable(b, n)) >= n
         /\ \/ WritableBytes(EnsureWritable(b, n)) >= n
            \/ WritableBytes(EnsureWritable(b, n)) = capacity_(b) - ReadableBytes(b)
  <1> DEFINE c == Compact(b)
             e == EnsureWritable(b, n)
  <1>1. /\ SameContent(b, c) /\ capacity_(c) = capacity_(b) /\ c.read_idx_ = 0
    BY CompactKeeps
  <1>2. /\ b.write_idx_ \in Nat /\ Len(b.mem) \in Nat /\ b.is_fixed_ \in BOOLEAN
    BY DEF IsBuffer
  <1>3. CASE WritableBytes(b) >= n
    <2>1. e = b
      BY <1>3 DEF EnsureWritable
    <2> QED
      BY <1>2, <1>3, <2>1 DEF SameContent
  <1>4. CASE ~(WritableBytes(b) >= n)
    <2>1. e = IF WritableBytes(c) >= n \/ c.is_fixed_ THEN c ELSE Resize(c, c.write_idx_ + n)
      BY <1>4 DEF EnsureWritable
    <2> HIDE DEF c, e
    <2>2. /\ IsBuffer(c) /\ c.is_fixed_ = b.is_fixed_ /\ c.write_idx_ \in Nat
          /\ Len(c.mem) \in Nat
      BY <1>1 DEF SameContent, IsBuffer
    <2>3. WritableBytes(c) = capacity_(b) - ReadableBytes(b)
      BY <1>1, <2>2 DEF SameContent, WritableBytes, ReadableBytes, capacity_
    <2>4. CASE WritableBytes(c) >= n \/ c.is_fixed_
      BY <1>1, <2>1, <2>2, <2>3, <2>4, <1>2 DEF e
    <2>5. CASE ~(WritableBytes(c) >= n \/ c.is_fixed_)
      <3>1. e = Resize(c, c.write_idx_ + n)
        BY <2>1, <2>5
      <3>2. c.write_idx_ + n \in Nat /\ c.write_idx_ + n >= capacity_(c)
        BY <2>2, <2>5 DEF WritableBytes, capacity_
      <3>3. SameContent(c, e) /\ capacity_(e) = c.write_idx_ + n
        BY <2>2, <3>1, <3>2, ResizeKeeps
      <3>4. e.write_idx_ = c.write_idx_
        BY <3>1, <2>2 DEF Resize, IsBuffer
      <3>5. WritableBytes(e) >= n
        BY <2>2, <3>3, <3>4 DEF WritableBytes
      <3>6. SameContent(b, e)
        BY <1>1, <3>3 DEF SameContent
      <3> QED
        BY <1>2, <2>2, <2>5, <3>5, <3>6 DEF e
    <2> QED
      BY <2>4, <2>5
  <1> QED
    BY <1>3, <1>4

LEMMA SliceToEnd ==
  ASSUME NEW S, NEW s \in Seq(S), NEW t \in Seq(S), NEW m \in 0..Len(s)
  PROVE  SubSeq(s \o t, m + 1, Len(s) + Len(t)) = SubSeq(s, m + 1, Len(s)) \o t
  <1> DEFINE u == s \o t
             a == SubSeq(s, m + 1, Len(s))
             n == Len(s) + Len(t)
  <1>1. /\ u \in Seq(S) /\ Len(u) = n
        /\ \A i \in 1..n : u[i] = IF i <= Len(s) THEN s[i] ELSE t[i - Len(s)]
    BY ConcatProperties
  <1>2. Len(s) \in Nat /\ Len(t) \in Nat /\ n \in 0..n /\ m \in 0..n /\ Len(s) \in 0..Len(s)
    OBVIOUS
  <1>3. /\ a \in Seq(S) /\ Len(a) = Len(s) - m
        /\ \A k \in 1..(Len(s) - m) : a[k] = s[m + k]
    BY <1>2, Slice
  <1> HIDE DEF u, a, n
  <1>4. /\ SubSeq(u, m + 1, n) \in Seq(S) /\ Len(SubSeq(u, m + 1, n)) = n - m
        /\ \A k \in 1..(n - m) : SubSeq(u, m + 1, n)[k] = u[m + k]
    <2>1. u \in Seq(S) /\ n \in 0..Len(u) /\ m \in 0..n
      BY <1>1, <1>2
    <2> QED
      BY <2>1, Slice, Zenon
  <1>5. /\ a \o t \in Seq(S) /\ Len(a \o t) = Len(a) + Len(t)
        /\ \A k \in 1..(Len(a) + Len(t)) : (a \o t)[k] = IF k <= Len(a) THEN a[k] ELSE t[k - Len(a)]
    BY <1>3, ConcatProperties
  <1>6. Len(a) + Len(t) = n - m
    BY <1>2, <1>3 DEF n
  <1>7. \A k \in 1..(n - m) : SubSeq(u, m + 1, n)[k] = (a \o t)[k]
    <2> SUFFICES ASSUME NEW k \in 1..(n - m)
                 PROVE  SubSeq(u, m + 1, n)[k] = (a \o t)[k]
      OBVIOUS
    <2>1. SubSeq(u, m + 1, n)[k] = u[m + k] /\ m + k \in 1..n
      BY <1>2, <1>4
    <2>2. (a \o t)[k] = IF k <= Len(a) THEN a[k] ELSE t[k - Len(a)]
      BY <1>5, <1>6
    <2>3. u[m + k] = IF m + k <= Len(s) THEN s[m + k] ELSE t[(m + k) - Len(s)]
      BY <1>1, <2>1
    <2>4. CASE k <= Len(a)
      <3>1. m + k <= Len(s) /\ k \in 1..(Len(s) - m)
        BY <1>2, <1>3, <2>4
      <3> QED
        BY <1>3, <2>1, <2>2, <2>3, <2>4, <3>1
    <2>5. CASE ~(k <= Len(a))
      <3>1. ~(m + k <= Len(s)) /\ (m + k) - Len(s) = k - Len(a)
        BY <1>2, <1>3, <2>5
      <3> QED
        BY <2>1, <2>2, <2>3, <2>5, <3>1
    <2> QED
      BY <2>4, <2>5
  <1>8. SubSeq(u, m + 1, n) = a \o t
    BY <1>4, <1>5, <1>6, <1>7, SeqEqual
  <1> QED
    BY <1>8 DEF u, a, n

\* Bytes stored behind the readable ones become the last readable ones.
LEMMA PutAppends ==
  ASSUME NEW b, IsBuffer(b), NEW bytes \in Seq(Byte), Len(bytes) <= WritableBytes(b)
  PROVE  /\ IsBuffer(Put(b, bytes))
         /\ Readable(Put(b, bytes)) = Readable(b) \o bytes
         /\ Put(b, bytes).is_fixed_ = b.is_fixed_
         /\ capacity_(Put(b, bytes)) = capacity_(b)
         /\ WritableBytes(Put(b, bytes)) = WritableBytes(b) - Len(bytes)
  <1> DEFINE at0 == b.write_idx_
             s == b.mem
             L == Len(bytes)
             x == SubSeq(s, 0 + 1, at0)
             y == SubSeq(s, (at0 + L) + 1, Len(s))
             c == Put(b, bytes)
  <1>1. /\ s \in Seq(Byte) /\ at0 \in 0..Len(s) /\ b.read_idx_ \in 0..at0 /\ Len(s) \in Nat
        /\ L \in Nat /\ at0 + L \in 0..Len(s) /\ 0 \in 0..at0 /\ Len(s) \in 0..Len(s)
        /\ b.is_fixed_ \in BOOLEAN
    BY DEF IsBuffer, WritableBytes, capacity_
  <1>2. x \in Seq(Byte) /\ Len(x) = at0 - 0
    BY <1>1, Slice
  <1>3. y \in Seq(Byte) /\ Len(y) = Len(s) - (at0 + L)
    BY <1>1, Slice, SMTT(30)
  <1>4. c = [b EXCEPT !.mem = (x \o bytes) \o y, !.write_idx_ = at0 + L]
    <2>1. Store(b, at0, bytes) = [b EXCEPT !.mem = (x \o bytes) \o y]
      BY DEF Store
    <2>2. Store(b, at0, bytes).write_idx_ = at0
      BY <2>1 DEF IsBuffer
    <2> QED
      BY <2>1, <2>2 DEF Put, HasWritten, IsBuffer
  <1>5. SubSeq(x, b.read_idx_ + 1, at0) = Readable(b)
    <2>1. b.read_idx_ \in 0..(at0 - 0)
      BY <1>1
    <2>2. SubSeq(SubSeq(s, 0 + 1, at0), b.read_idx_ + 1, at0 - 0) = SubSeq(s, (0 + b.read_idx_) + 1, at0)
      BY <1>1, <2>1, SliceOfSlice
    <2>3. at0 - 0 = at0 /\ 0 + b.read_idx_ = b.read_idx_
      BY <1>1
    <2> QED
      BY <2>2, <2>3 DEF Readable
  <1> HIDE DEF x, y, c
  <1>6. x \o bytes \in Seq(Byte) /\ Len(x \o bytes) = at0 + L
    <2>1. x \o bytes \in Seq(Byte) /\ Len(x \o bytes) = Len(x) + Len(bytes)
      BY <1>2, ConcatProperties
    <2> QED
      BY <1>1, <1>2, <2>1
  <1>7. (x \o bytes) \o y \in Seq(Byte) /\ Len((x \o bytes) \o y) = Len(s)
    <2>1. (x \o bytes) \o y \in Seq(Byte) /\ Len((x \o bytes) \o y) = Len(x \o bytes) + Len(y)
      BY <1>3, <1>6, ConcatProperties
    <2>2. Len(x \o bytes) + Len(y) = (at0 + L) + (Len(s) - (at0 + L))
      BY <1>3, <1>6
    <2>3. (at0 + L) + (Len(s) - (at0 + L)) = Len(s)
      BY <1>1
    <2> QED
      BY <2>1, <2>2, <2>3
  <1>8. /\ c.mem = (x \o bytes) \o y /\ c.is_fixed_ = b.is_fixed_
        /\ c.read_idx_ = b.read_idx_ /\ c.write_idx_ = at0 + L
        /\ c \in [mem : Seq(Byte), is_fixed_ : BOOLEAN, write_idx_ : Nat, read_idx_ : Nat]
    <2> DEFINE mem2 == (x \o bytes) \o y
    <2>1. mem2 \in Seq(Byte) /\ at0 + L \in Nat
      BY <1>1, <1>7
    <2>2. c = [b EXCEPT !.mem = mem2, !.write_idx_ = at0 + L]
      BY <1>4
    <2> HIDE DEF mem2
    <2>3. /\ c.mem = mem2 /\ c.is_fixed_ = b.is_fixed_
          /\ c.read_idx_ = b.read_idx_ /\ c.write_idx_ = at0 + L
          /\ c \in [mem : Seq(Byte), is_fixed_ : BOOLEAN, write_idx_ : Nat, read_idx_ : Nat]
      BY <2>1, <2>2 DEF IsBuffer
    <2> QED
      BY <2>3 DEF mem2
  <1>9. IsBuffer(c)
    BY <1>1, <1>7, <1>8 DEF IsBuffer
  <1>10. Readable(c) = SubSeq((x \o bytes) \o y, b.read_idx_ + 1, at0 + L)
    BY <1>8 DEF Readable
  <1>11. SubSeq((x \o bytes) \o y, b.read_idx_ + 1, at0 + L) = SubSeq(x \o bytes, b.read_idx_ + 1, at0 + L)
    <2>1. at0 + L \in 0..Len(x \o bytes) /\ b.read_idx_ \in 0..(at0 + L)
      BY <1>1, <1>6
    <2> QED
      BY <1>3, <1>6, <2>1, SliceOfLonger
  <1>12. SubSeq(x \o bytes, b.read_idx_ + 1, at0 + L) = SubSeq(x, b.read_idx_ + 1, at0) \o bytes
    <2>1. b.read_idx_ \in 0..Len(x) /\ Len(x) = at0
      BY <1>1, <1>2
    <2>2. SubSeq(x \o bytes, b.read_idx_ + 1, Len(x) + Len(bytes)) = SubSeq(x, b.read_idx_ + 1, Len(x)) \o bytes
      BY <1>2, <2>1, SliceToEnd
    <2> QED
      BY <2>1, <2>2
  <1>13. Readable(c) = Readable(b) \o bytes
    BY <1>5, <1>10, <1>11, <1>12
  <1>14. capacity_(c) = capacity_(b) /\ WritableBytes(c) = WritableBytes(b) - L
    BY <1>1, <1>7, <1>8 DEF capacity_, WritableBytes
  <1> QED
    BY <1>8, <1>9, <1>13, <1>14 DEF c

LEMMA HasReadDrops ==
  ASSUME NEW b, IsBuffer(b), NEW n \in 0..ReadableBytes(b)
  PROVE  /\ IsBuffer(HasRead(b, n))
         /\ Readable(HasRead(b, n)) = SubSeq(Readable(b), n + 1, ReadableBytes(b))
         /\ ReadableBytes(HasRead(b, n)) = ReadableBytes(b) - n
         /\ HasRead(b, n).is_fixed_ = b.is_fixed_
         /\ capacity_(HasRead(b, n)) = capacity_(b)
  <1> DEFINE c == HasRead(b, n)
  <1>1. /\ b.mem \in Seq(Byte) /\ b.write_idx_ \in 0..Len(b.mem) /\ b.read_idx_ \in 0..b.write_idx_
        /\ b.is_fixed_ \in BOOLEAN
        /\ n \in 0..(b.write_idx_ - b.read_idx_)
    BY DEF IsBuffer, ReadableBytes
  <1>2. /\ c.mem = b.mem /\ c.is_fixed_ = b.is_fixed_ /\ c.write_idx_ = b.write_idx_
        /\ c.read_idx_ = b.read_idx_ + n
        /\ c \in [mem : Seq(Byte), is_fixed_ : BOOLEAN, write_idx_ : Nat, read_idx_ : Nat]
    BY <1>1 DEF HasRead, IsBuffer
  <1> HIDE DEF c
  <1>3. IsBuffer(c)
    BY <1>1, <1>2 DEF IsBuffer
  <1>4. SubSeq(SubSeq(b.mem, b.read_idx_ + 1, b.write_idx_), n + 1, b.write_idx_ - b.read_idx_)
          = SubSeq(b.mem, (b.read_idx_ + n) + 1, b.write_idx_)
    BY <1>1, SliceOfSlice
  <1>5. Readable(c) = SubSeq(Readable(b), n + 1, ReadableBytes(b))
    BY <1>2, <1>4 DEF Readable, ReadableBytes
  <1>6. ReadableBytes(c) = ReadableBytes(b) - n
    BY <1>1, <1>2 DEF ReadableBytes
  <1> QED
    BY <1>2, <1>3, <1>5, <1>6 DEF c, capacity_

-----------------------------------------------------------------------------
(* Protocol. *)

LEMMA ByteOrder ==
  ASSUME NEW n \in Nat, IsWord(n)
  PROVE  /\ htonl(n) \in Seq(Byte)
         /\ Len(htonl(n)) = 4
         /\ ntohl(htonl(n)) = n
  <1> DEFINE a == (n \div 16777216) % 256
             b == (n \div 65536) % 256
             c == (n \div 256) % 256
             d == n % 256
  <1>1. a \in Byte /\ b \in Byte /\ c \in Byte /\ d \in Byte
    BY DEF Byte
  <1>2. a * 16777216 + b * 65536 + c * 256 + d = n
    <2>1. n = 256 * (n \div 256) + d /\ n \div 256 \in Nat
      OBVIOUS
    <2>2. n \div 256 = 256 * (n \div 65536) + c /\ n \div 65536 \in Nat
      OBVIOUS
    <2>3. n \div 65536 = 256 * (n \div 16777216) + b /\ n \div 16777216 \in Nat
      OBVIOUS
    <2>4. n \div 16777216 = a
      BY <2>3 DEF IsWord
    <2> HIDE DEF a, b, c, d
    <2> QED
      BY <1>1, <2>1, <2>2, <2>3, <2>4 DEF Byte
  <1>3. htonl(n) = <<a, b, c, d>>
    BY DEF htonl
  <1> HIDE DEF a, b, c, d
  <1>4. <<a, b, c, d>> \in Seq(Byte) /\ Len(<<a, b, c, d>>) = 4
    BY <1>1
  <1>5. ntohl(<<a, b, c, d>>) = n
    BY <1>2 DEF ntohl
  <1> QED
    BY <1>3, <1>4, <1>5

\* What a message is, in the proofs.
IsMessage(m) ==
  /\ m \in [version : Byte, msg_type : Byte, seq_id : Nat, payload : Seq(Byte)]
  /\ IsWord(m.seq_id) /\ IsWord(Len(m.payload))

LEMMA MessagesAreMessages == \A m \in Messages : IsMessage(m)
  BY RequestPathAssumption DEF IsMessage

Net(m) ==
  htons(MAGIC_NUMBER) \o <<m.version, m.msg_type>> \o htonl(m.seq_id) \o htonl(Len(m.payload))

\* The front of s is the header of m.
StartsWith(s, m) ==
  /\ s[1] = 84 /\ s[2] = 82 /\ s[3] = m.version /\ s[4] = m.msg_type
  /\ \A k \in 1..4 : s[4 + k] = htonl(m.seq_id)[k] /\ s[8 + k] = htonl(Len(m.payload))[k]

\* z is s, of length i, followed by t, of length j.
IsCat(z, s, i, t, j) ==
  /\ z \in Seq(Byte)
  /\ Len(z) = i + j
  /\ \A k \in 1..i : z[k] = s[k]
  /\ \A k \in 1..j : z[i + k] = t[k]

LEMMA ConcatAt ==
  ASSUME NEW s \in Seq(Byte), NEW t \in Seq(Byte), NEW z, z = s \o t
  PROVE  IsCat(z, s, Len(s), t, Len(t))
  <1>1. /\ z \in Seq(Byte) /\ Len(z) = Len(s) + Len(t)
        /\ \A k \in 1..(Len(s) + Len(t)) : z[k] = IF k <= Len(s) THEN s[k] ELSE t[k - Len(s)]
    BY ConcatProperties
  <1>2. Len(s) \in Nat /\ Len(t) \in Nat
    OBVIOUS
  <1>3. ASSUME NEW k \in 1..Len(s) PROVE z[k] = s[k]
    <2>1. k \in 1..(Len(s) + Len(t)) /\ k <= Len(s)
      BY <1>2
    <2> QED
      BY <1>1, <2>1
  <1>4. ASSUME NEW k \in 1..Len(t) PROVE z[Len(s) + k] = t[k]
    <2> DEFINE j == Len(s) + k
    <2>1. j \in 1..(Len(s) + Len(t)) /\ ~(j <= Len(s)) /\ j - Len(s) = k
      BY <1>2
    <2> HIDE DEF j
    <2>2. z[j] = t[k]
      BY <1>1, <2>1
    <2> QED
      BY <2>2 DEF j
  <1> QED
    BY <1>1, <1>3, <1>4 DEF IsCat

LEMMA ConcatWith ==
  ASSUME NEW s \in Seq(Byte), NEW t \in Seq(Byte), NEW z, z = s \o t,
         NEW i, NEW j, Len(s) = i, Len(t) = j
  PROVE  IsCat(z, s, i, t, j)
  BY ConcatAt

LEMMA NetFacts ==
  ASSUME NEW m, IsMessage(m)
  PROVE  Net(m) \in Seq(Byte) /\ Len(Net(m)) = HEADER_SIZE /\ StartsWith(Net(m), m)
  <1> DEFINE x == <<84, 82>>
             y == <<m.version, m.msg_type>>
             u == htonl(m.seq_id)
             v == htonl(Len(m.payload))
             xy == x \o y
             xyu == xy \o u
             xyuv == xyu \o v
  <1>1. htons(MAGIC_NUMBER) = x
    BY DEF htons, MAGIC_NUMBER
  <1>2. x \in Seq(Byte) /\ Len(x) = 2 /\ y \in Seq(Byte) /\ Len(y) = 2
    BY DEF Byte, IsMessage
  <1>3. u \in Seq(Byte) /\ Len(u) = 4 /\ v \in Seq(Byte) /\ Len(v) = 4
    <2>1. m.seq_id \in Nat /\ Len(m.payload) \in Nat /\ IsWord(m.seq_id) /\ IsWord(Len(m.payload))
      BY DEF IsMessage
    <2> QED
      BY <2>1, ByteOrder
  <1>4. x[1] = 84 /\ x[2] = 82 /\ y[1] = m.version /\ y[2] = m.msg_type
    OBVIOUS
  <1>5. Net(m) = xyuv
    BY <1>1 DEF Net
  <1>6. xy = x \o y /\ xyu = xy \o u /\ xyuv = xyu \o v
    OBVIOUS
  <1> HIDE DEF x, y, u, v, xy, xyu, xyuv
  <1>7. /\ xy \in Seq(Byte) /\ Len(xy) = 4
        /\ \A k \in 1..2 : xy[k] = x[k] /\ xy[2 + k] = y[k]
    <2>1. IsCat(xy, x, 2, y, 2)
      BY <1>2, <1>6, ConcatWith
    <2> QED
      BY <2>1 DEF IsCat
  <1>8. /\ xyu \in Seq(Byte) /\ Len(xyu) = 8
        /\ \A k \in 1..4 : xyu[k] = xy[k] /\ xyu[4 + k] = u[k]
    <2>1. IsCat(xyu, xy, 4, u, 4)
      BY <1>3, <1>6, <1>7, ConcatWith
    <2> QED
      BY <2>1 DEF IsCat
  <1>9. /\ xyuv \in Seq(Byte) /\ Len(xyuv) = 12
        /\ \A k \in 1..8 : xyuv[k] = xyu[k]
        /\ \A k \in 1..4 : xyuv[8 + k] = v[k]
    <2>1. IsCat(xyuv, xyu, 8, v, 4)
      BY <1>3, <1>6, <1>8, ConcatWith
    <2> QED
      BY <2>1 DEF IsCat
  <1>10. xyuv[1] = 84 /\ xyuv[2] = 82 /\ xyuv[3] = m.version /\ xyuv[4] = m.msg_type
    <2>1. xy[1] = 84 /\ xy[2] = 82 /\ xy[3] = m.version /\ xy[4] = m.msg_type
      BY <1>4, <1>7
    <2>2. xyu[1] = 84 /\ xyu[2] = 82 /\ xyu[3] = m.version /\ xyu[4] = m.msg_type
      BY <1>8, <2>1
    <2> QED
      BY <1>9, <2>2
  <1>11. \A k \in 1..4 : xyuv[4 + k] = u[k] /\ xyuv[8 + k] = v[k]
    <2>1. ASSUME NEW k \in 1..4 PROVE xyuv[4 + k] = u[k]
      <3>1. 4 + k \in 1..8
        OBVIOUS
      <3> QED
        BY <1>8, <1>9, <3>1
    <2> QED
      BY <1>9, <2>1
  <1>12. StartsWith(xyuv, m)
    BY <1>10, <1>11 DEF StartsWith, u, v
  <1> QED
    BY <1>5, <1>9, <1>12 DEF HEADER_SIZE

LEMMA EmptyBuffer ==
  ASSUME NEW n \in Nat, NEW f \in BOOLEAN
  PROVE  /\ IsBuffer(NewBuffer(n, f))
         /\ Readable(NewBuffer(n, f)) = <<>>
         /\ ReadableBytes(NewBuffer(n, f)) = 0
         /\ NewBuffer(n, f).is_fixed_ = f
         /\ capacity_(NewBuffer(n, f)) = n
  <1> DEFINE z == [i \in 1..n |-> 0]
             b == NewBuffer(n, f)
  <1>1. z \in Seq(Byte) /\ Len(z) = n
    <2>1. 0 \in Byte
      BY DEF Byte
    <2>2. z \in [1..n -> Byte]
      BY <2>1
    <2>3. z \in UNION {[1..k -> Byte] : k \in Nat}
      BY <2>2
    <2>4. z \in Seq(Byte)
      BY <2>3, SeqDef
    <2>5. DOMAIN z = 1..n
      OBVIOUS
    <2> HIDE DEF z
    <2> QED
      BY <2>4, <2>5, LenProperties
  <1> HIDE DEF z
  <1>2. b = [mem |-> z, is_fixed_ |-> f, write_idx_ |-> 0, read_idx_ |-> 0]
    BY DEF NewBuffer, z
  <1> HIDE DEF b
  <1>3. b.mem = z /\ b.is_fixed_ = f /\ b.write_idx_ = 0 /\ b.read_idx_ = 0
    BY <1>2
  <1>4. IsBuffer(b) /\ ReadableBytes(b) = 0 /\ capacity_(b) = n
    BY <1>1, <1>2, <1>3 DEF IsBuffer, ReadableBytes, capacity_
  <1>5. Readable(b) \in Seq(Byte) /\ Len(Readable(b)) = 0
    BY <1>4, ReadableFacts
  <1>6. Readable(b) = <<>>
    BY <1>5, EmptySeq
  <1> QED
    BY <1>3, <1>4, <1>6 DEF b

LEMMA WireIs ==
  ASSUME NEW m, IsMessage(m)
  PROVE  IsCat(WireBytes(m), Net(m), HEADER_SIZE, m.payload, Len(m.payload))
  <1> DEFINE n == HEADER_SIZE + Len(m.payload)
             b == NewBuffer(0, FALSE)
             e == EnsureWritable(b, n)
             p == Put(e, Net(m))
             q == Put(p, m.payload)
  <1>1. m.payload \in Seq(Byte) /\ Len(m.payload) \in Nat
    BY DEF IsMessage
  <1>2. Net(m) \in Seq(Byte) /\ Len(Net(m)) = HEADER_SIZE /\ HEADER_SIZE \in Nat /\ n \in Nat
    BY <1>1, NetFacts DEF HEADER_SIZE
  <1>3. IsBuffer(b) /\ Readable(b) = <<>> /\ b.is_fixed_ = FALSE
    BY EmptyBuffer
  <1>4. WireBytes(m) = Readable(q)
    BY DEF WireBytes, EncodeMessage, Net
  <1> HIDE DEF b
  <1>5. SameContent(b, e) /\ WritableBytes(e) >= n
    <2> HIDE DEF n
    <2> QED
      BY <1>2, <1>3, EnsureWritableKeeps
  <1> HIDE DEF e
  <1>6. IsBuffer(e) /\ Readable(e) = <<>> /\ WritableBytes(e) \in Int
    BY <1>3, <1>5 DEF SameContent, IsBuffer, WritableBytes, capacity_
  <1>7. Len(Net(m)) <= WritableBytes(e)
    BY <1>1, <1>2, <1>5, <1>6
  <1>8. IsBuffer(p) /\ Readable(p) = Readable(e) \o Net(m) /\ WritableBytes(p) = WritableBytes(e) - Len(Net(m))
    BY <1>2, <1>6, <1>7, PutAppends
  <1> HIDE DEF p
  <1>9. Len(m.payload) <= WritableBytes(p)
    BY <1>1, <1>2, <1>5, <1>6, <1>8
  <1>10. Readable(q) = Readable(p) \o m.payload
    BY <1>1, <1>8, <1>9, PutAppends
  <1>11. Readable(p) = Net(m)
    BY <1>2, <1>6, <1>8, ConcatEmptySeq
  <1>12. WireBytes(m) = Net(m) \o m.payload
    BY <1>4, <1>10, <1>11
  <1> QED
    BY <1>1, <1>2, <1>12, ConcatWith

\* s starts with the header of m.
HeaderAt(s, m) ==
  /\ s \in Seq(Byte)
  /\ Len(s) >= HEADER_SIZE
  /\ \A k \in 1..HEADER_SIZE : s[k] = Net(m)[k]

LEMMA BytesToNat ==
  \A a, b, c, d \in Byte : a * 16777216 + b * 65536 + c * 256 + d \in Nat
  BY SMT DEF Byte

LEMMA Quad ==
  ASSUME NEW s \in Seq(Byte), NEW i \in 0..Len(s), i + 4 <= Len(s)
  PROVE  /\ ntohl(SubSeq(s, i + 1, i + 4)) \in Nat
         /\ \A n \in Nat : IsWord(n) /\ (\A k \in 1..4 : s[i + k] = htonl(n)[k])
              => ntohl(SubSeq(s, i + 1, i + 4)) = n
  <1> DEFINE t == SubSeq(s, i + 1, i + 4)
  <1>1. i \in 0..(i + 4) /\ i + 4 \in 0..Len(s) /\ (i + 4) - i = 4
    OBVIOUS
  <1>2. t \in Seq(Byte) /\ Len(t) = (i + 4) - i /\ \A k \in 1..((i + 4) - i) : t[k] = s[i + k]
    BY <1>1, Slice
  <1> HIDE DEF t
  <1>3. t \in Seq(Byte) /\ Len(t) = 4 /\ \A k \in 1..4 : t[k] = s[i + k]
    BY <1>1, <1>2
  <1>4. t[1] \in Byte /\ t[2] \in Byte /\ t[3] \in Byte /\ t[4] \in Byte
    <2>1. \A k \in 1..4 : t[k] \in Byte
      BY <1>3, ElementOfSeq
    <2> QED
      BY <2>1
  <1>5. ntohl(t) \in Nat
    <2>1. PICK a \in Byte, b \in Byte, c \in Byte, d \in Byte :
            t[1] = a /\ t[2] = b /\ t[3] = c /\ t[4] = d
      BY <1>4
    <2>2. ntohl(t) = a * 16777216 + b * 65536 + c * 256 + d
      BY <2>1, SMT DEF ntohl
    <2>3. a * 16777216 + b * 65536 + c * 256 + d \in Nat
      BY BytesToNat, SMT
    <2> QED
      BY <2>2, <2>3, SMT
  <1>6. ASSUME NEW n \in Nat, IsWord(n), \A k \in 1..4 : s[i + k] = htonl(n)[k]
        PROVE  ntohl(t) = n
    <2>1. ntohl(htonl(n)) = n
      BY <1>6, ByteOrder
    <2>2. \A k \in 1..4 : t[k] = htonl(n)[k]
      BY <1>3, <1>6
    <2>3. t[1] = htonl(n)[1] /\ t[2] = htonl(n)[2] /\ t[3] = htonl(n)[3] /\ t[4] = htonl(n)[4]
      BY <2>2
    <2> QED
      BY <2>1, <2>3, SMT DEF ntohl
  <1> QED
    BY <1>5, <1>6 DEF t

LEMMA DecodeFields ==
  ASSUME NEW s
  PROVE  /\ DecodeHeader(s).version = s[3]
         /\ DecodeHeader(s).msg_type = s[4]
         /\ DecodeHeader(s).seq_id = ntohl(SubSeq(s, 4 + 1, 4 + 4))
         /\ DecodeHeader(s).payload_len = ntohl(SubSeq(s, 8 + 1, 8 + 4))
  <1>1. 4 + 1 = 5 /\ 4 + 4 = 8 /\ 8 + 1 = 9 /\ 8 + 4 = 12
    OBVIOUS
  <1> QED
    BY <1>1 DEF DecodeHeader

LEMMA DecodeTyped ==
  ASSUME NEW s \in Seq(Byte), Len(s) >= HEADER_SIZE
  PROVE  /\ DecodeHeader(s).version \in Byte
         /\ DecodeHeader(s).msg_type \in Byte
         /\ DecodeHeader(s).seq_id \in Nat
         /\ DecodeHeader(s).payload_len \in Nat
  <1>1. Len(s) \in Nat /\ Len(s) >= 12
    BY DEF HEADER_SIZE
  <1>2. 3 \in 1..Len(s) /\ 4 \in 1..Len(s) /\ 4 \in 0..Len(s) /\ 8 \in 0..Len(s)
        /\ 4 + 4 <= Len(s) /\ 8 + 4 <= Len(s)
    BY <1>1
  <1>3. s[3] \in Byte /\ s[4] \in Byte
    BY <1>2, ElementOfSeq
  <1>4. ntohl(SubSeq(s, 4 + 1, 4 + 4)) \in Nat
    BY <1>2, Quad
  <1>5. ntohl(SubSeq(s, 8 + 1, 8 + 4)) \in Nat
    BY <1>2, Quad
  <1> QED
    BY <1>3, <1>4, <1>5, DecodeFields

\* 'T' 'R' is the magic number; a byte followed by 'T' is not.
LEMMA Magic ==
  ASSUME NEW s \in Seq(Byte), Len(s) >= HEADER_SIZE
  PROVE  /\ s[1] = 84 /\ s[2] = 82 => ntohs(SubSeq(s, 1, 2)) = MAGIC_NUMBER
         /\ s[2] = 84 => ntohs(SubSeq(s, 1, 2)) # MAGIC_NUMBER
  <1> DEFINE t == SubSeq(s, 0 + 1, 2)
  <1>1. Len(s) \in Nat /\ Len(s) >= 12
    BY DEF HEADER_SIZE
  <1>2. 2 \in 0..Len(s) /\ 0 \in 0..2 /\ 1 \in 1..Len(s) /\ 2 - 0 = 2
    BY <1>1
  <1>3. t \in Seq(Byte) /\ Len(t) = 2 - 0 /\ \A k \in 1..(2 - 0) : t[k] = s[0 + k]
    BY <1>2, Slice
  <1>4. SubSeq(s, 1, 2) = t
    OBVIOUS
  <1> HIDE DEF t
  <1>5. t[1] = s[1] /\ t[2] = s[2]
    <2>1. t[1] = s[0 + 1] /\ t[2] = s[0 + 2]
      BY <1>3
    <2> QED
      BY <2>1
  <1>6. PICK a \in Byte : s[1] = a
    BY <1>2, ElementOfSeq
  <1>7. s[2] = 84 => ntohs(t) = a * 256 + 84
    BY <1>5, <1>6 DEF ntohs
  <1>8. a * 256 + 84 # 21586
    BY SMT DEF Byte
  <1>9. s[1] = 84 /\ s[2] = 82 => ntohs(t) = 21586
    BY <1>5, SMT DEF ntohs
  <1> QED
    <2>1. s[2] = 84 => ntohs(t) # MAGIC_NUMBER
      BY <1>7, <1>8, SMT DEF MAGIC_NUMBER
    <2>2. s[1] = 84 /\ s[2] = 82 => ntohs(t) = MAGIC_NUMBER
      BY <1>9, SMT DEF MAGIC_NUMBER
    <2> QED
      BY <1>4, <2>1, <2>2, Zenon

LEMMA DecodesHeader ==
  ASSUME NEW m, IsMessage(m), NEW s, HeaderAt(s, m)
  PROVE  /\ ntohs(SubSeq(s, 1, 2)) = MAGIC_NUMBER
         /\ DecodeHeader(s).version = m.version
         /\ DecodeHeader(s).msg_type = m.msg_type
         /\ DecodeHeader(s).seq_id = m.seq_id
         /\ DecodeHeader(s).payload_len = Len(m.payload)
  <1> DEFINE u == htonl(m.seq_id)
             v == htonl(Len(m.payload))
             w == Net(m)
  <1>1. s \in Seq(Byte) /\ Len(s) >= HEADER_SIZE /\ Len(s) \in Nat /\ Len(s) >= 12
    BY DEF HeaderAt, HEADER_SIZE
  <1>2. 4 \in 0..Len(s) /\ 8 \in 0..Len(s) /\ 4 + 4 <= Len(s) /\ 8 + 4 <= Len(s)
    BY <1>1
  <1>3. /\ m.seq_id \in Nat /\ Len(m.payload) \in Nat
        /\ IsWord(m.seq_id) /\ IsWord(Len(m.payload))
    BY DEF IsMessage
  <1>4. /\ w[1] = 84 /\ w[2] = 82 /\ w[3] = m.version /\ w[4] = m.msg_type
        /\ \A k \in 1..4 : w[4 + k] = u[k] /\ w[8 + k] = v[k]
    <2>1. StartsWith(w, m)
      BY NetFacts
    <2> QED
      BY <2>1 DEF StartsWith
  <1>5. \A k \in 1..12 : s[k] = w[k]
    <2>1. HEADER_SIZE = 12
      BY DEF HEADER_SIZE
    <2>2. \A k \in 1..HEADER_SIZE : s[k] = w[k]
      BY DEF HeaderAt
    <2> QED
      BY <2>1, <2>2
  <1>6. \A k \in 1..4 : 4 + k \in 1..12 /\ 8 + k \in 1..12
    OBVIOUS
  <1> HIDE DEF u, v, w
  <1>7. s[1] = 84 /\ s[2] = 82 /\ s[3] = m.version /\ s[4] = m.msg_type
    BY <1>4, <1>5
  <1>8. \A k \in 1..4 : s[4 + k] = u[k] /\ s[8 + k] = v[k]
    BY <1>4, <1>5, <1>6
  <1>9. ntohs(SubSeq(s, 1, 2)) = MAGIC_NUMBER
    BY <1>1, <1>7, Magic
  <1>10. ntohl(SubSeq(s, 4 + 1, 4 + 4)) = m.seq_id
    BY <1>1, <1>2, <1>3, <1>8, Quad DEF u
  <1>11. ntohl(SubSeq(s, 8 + 1, 8 + 4)) = Len(m.payload)
    BY <1>1, <1>2, <1>3, <1>8, Quad DEF v
  <1> QED
    BY <1>7, <1>9, <1>10, <1>11, DecodeFields

MessageRecord == [version : Byte, msg_type : Byte, seq_id : Nat, payload : Seq(Byte)]

LEMMA ParseOutcomes ==
  ASSUME NEW b, IsBuffer(b)
  PROVE  LET s == Readable(b) IN
         /\ Len(s) < HEADER_SIZE => ParseOutcome(b) = "short"
         /\ Len(s) >= HEADER_SIZE /\ ntohs(SubSeq(s, 1, 2)) # MAGIC_NUMBER => ParseOutcome(b) = "bad_magic"
         /\ Len(s) >= HEADER_SIZE /\ ntohs(SubSeq(s, 1, 2)) = MAGIC_NUMBER
            /\ Len(s) < HEADER_SIZE + DecodeHeader(s).payload_len => ParseOutcome(b) = "fragment"
         /\ Len(s) >= HEADER_SIZE /\ ntohs(SubSeq(s, 1, 2)) = MAGIC_NUMBER
            /\ Len(s) >= HEADER_SIZE + DecodeHeader(s).payload_len => ParseOutcome(b) = "message"
  <1> DEFINE s == Readable(b)
  <1>1. s \in Seq(Byte) /\ Len(s) \in Nat /\ HEADER_SIZE \in Nat
    BY ReadableFacts DEF HEADER_SIZE
  <1>2. Len(s) >= HEADER_SIZE => DecodeHeader(s).payload_len \in Nat
    BY <1>1, DecodeTyped
  <1> HIDE DEF s
  <1>3. ParseOutcome(b) = IF Len(s) < HEADER_SIZE THEN "short"
                          ELSE IF ntohs(SubSeq(s, 1, 2)) # MAGIC_NUMBER THEN "bad_magic"
                          ELSE IF Len(s) < HEADER_SIZE + DecodeHeader(s).payload_len THEN "fragment"
                          ELSE "message"
    BY DEF ParseOutcome, s
  <1>4. /\ Len(s) >= HEADER_SIZE <=> ~(Len(s) < HEADER_SIZE)
        /\ Len(s) >= HEADER_SIZE =>
             (Len(s) >= HEADER_SIZE + DecodeHeader(s).payload_len
              <=> ~(Len(s) < HEADER_SIZE + DecodeHeader(s).payload_len))
    BY <1>1, <1>2
  <1>5. Len(s) < HEADER_SIZE => ParseOutcome(b) = "short"
    BY <1>3, Zenon
  <1>6. Len(s) >= HEADER_SIZE /\ ntohs(SubSeq(s, 1, 2)) # MAGIC_NUMBER => ParseOutcome(b) = "bad_magic"
    BY <1>3, <1>4, Zenon
  <1>7. Len(s) >= HEADER_SIZE /\ ntohs(SubSeq(s, 1, 2)) = MAGIC_NUMBER
        /\ Len(s) < HEADER_SIZE + DecodeHeader(s).payload_len => ParseOutcome(b) = "fragment"
    BY <1>3, <1>4, Zenon
  <1>8. Len(s) >= HEADER_SIZE /\ ntohs(SubSeq(s, 1, 2)) = MAGIC_NUMBER
        /\ Len(s) >= HEADER_SIZE + DecodeHeader(s).payload_len => ParseOutcome(b) = "message"
    BY <1>3, <1>4, Zenon
  <1> QED
    BY <1>5, <1>6, <1>7, <1>8, Zenon DEF s

LEMMA ConsumesCases ==
  ASSUME NEW b
  PROVE  /\ ParseOutcome(b) = "message" => ParseConsumes(b) = HEADER_SIZE + DecodeHeader(Readable(b)).payload_len
         /\ ParseOutcome(b) = "bad_magic" => ParseConsumes(b) = 1
         /\ ParseOutcome(b) \notin {"message", "bad_magic"} => ParseConsumes(b) = 0
  BY DEF ParseConsumes

LEMMA ParseTakes ==
  ASSUME NEW b, IsBuffer(b)
  PROVE  /\ ParseConsumes(b) \in 0..ReadableBytes(b)
         /\ ParseOutcome(b) \in {"short", "bad_magic", "fragment", "message"}
         /\ ParseOutcome(b) = "message" => ParsedMessage(b) \in MessageRecord
  <1> DEFINE s == Readable(b)
             L == DecodeHeader(s).payload_len
  <1>1. s \in Seq(Byte) /\ Len(s) = ReadableBytes(b) /\ Len(s) \in Nat
    BY ReadableFacts
  <1>2. HEADER_SIZE = 12
    BY DEF HEADER_SIZE
  <1>3. CASE Len(s) < HEADER_SIZE
    <2>1. ParseOutcome(b) = "short"
      BY <1>3, ParseOutcomes
    <2> QED
      BY <1>1, <2>1, ConsumesCases
  <1>4. CASE Len(s) >= HEADER_SIZE /\ ntohs(SubSeq(s, 1, 2)) # MAGIC_NUMBER
    <2>1. ParseOutcome(b) = "bad_magic"
      BY <1>4, ParseOutcomes
    <2> QED
      BY <1>1, <1>2, <1>4, <2>1, ConsumesCases
  <1>5. CASE Len(s) >= HEADER_SIZE /\ ntohs(SubSeq(s, 1, 2)) = MAGIC_NUMBER
    <2>1. /\ DecodeHeader(s).version \in Byte /\ DecodeHeader(s).msg_type \in Byte
          /\ DecodeHeader(s).seq_id \in Nat /\ L \in Nat
      BY <1>1, <1>5, DecodeTyped
    <2>2. CASE Len(s) < HEADER_SIZE + L
      <3>1. ParseOutcome(b) = "fragment"
        BY <1>5, <2>2, ParseOutcomes
      <3> QED
        BY <1>1, <3>1, ConsumesCases
    <2>3. CASE Len(s) >= HEADER_SIZE + L
      <3>1. ParseOutcome(b) = "message"
        BY <1>5, <2>3, ParseOutcomes
      <3>2. ParseConsumes(b) = HEADER_SIZE + L
        BY <3>1, ConsumesCases
      <3>3. HEADER_SIZE \in 0..(HEADER_SIZE + L) /\ HEADER_SIZE + L \in 0..Len(s)
        BY <1>1, <1>2, <2>1, <2>3
      <3>4. SubSeq(s, HEADER_SIZE + 1, HEADER_SIZE + L) \in Seq(Byte)
        BY <1>1, <3>3, Slice
      <3>5. ParsedMessage(b) \in MessageRecord
        BY <2>1, <3>4 DEF ParsedMessage, MessageRecord
      <3> QED
        BY <1>1, <3>1, <3>2, <3>3, <3>5
    <2> QED
      BY <1>1, <1>2, <2>1, <2>2, <2>3
  <1> QED
    BY <1>1, <1>2, <1>3, <1>4, <1>5

LEMMA ParsesNoise ==
  ASSUME NEW b, IsBuffer(b), Len(Readable(b)) >= HEADER_SIZE, Readable(b)[2] = 84
  PROVE  ParseOutcome(b) = "bad_magic" /\ ParseConsumes(b) = 1
  <1>1. Readable(b) \in Seq(Byte)
    BY ReadableFacts
  <1>2. ntohs(SubSeq(Readable(b), 1, 2)) # MAGIC_NUMBER
    BY <1>1, Magic
  <1>3. ParseOutcome(b) = "bad_magic"
    BY <1>2, ParseOutcomes
  <1> QED
    BY <1>3, ConsumesCases

\* What ParseMessage does when the header of m is at the front of the buffer:
\* with all of the payload behind it, it returns m and takes m's bytes.
LEMMA ParsesMessage ==
  ASSUME NEW b, IsBuffer(b), NEW m, IsMessage(m), HeaderAt(Readable(b), m)
  PROVE  /\ ReadableBytes(b) < HEADER_SIZE + Len(m.payload) => ParseOutcome(b) = "fragment"
         /\ ReadableBytes(b) >= HEADER_SIZE + Len(m.payload) =>
              ParseOutcome(b) = "message" /\ ParseConsumes(b) = HEADER_SIZE + Len(m.payload)
         /\ /\ ReadableBytes(b) >= HEADER_SIZE + Len(m.payload)
            /\ \A k \in 1..Len(m.payload) : Readable(b)[HEADER_SIZE + k] = m.payload[k]
            => ParsedMessage(b) = m
  <1> DEFINE s == Readable(b)
             L == Len(m.payload)
  <1>1. s \in Seq(Byte) /\ Len(s) = ReadableBytes(b) /\ Len(s) \in Nat
    BY ReadableFacts
  <1>2. HEADER_SIZE = 12 /\ m.payload \in Seq(Byte) /\ L \in Nat
    BY DEF HEADER_SIZE, IsMessage
  <1>3. Len(s) >= HEADER_SIZE
    BY DEF HeaderAt
  <1>4. /\ ntohs(SubSeq(s, 1, 2)) = MAGIC_NUMBER
        /\ DecodeHeader(s).version = m.version
        /\ DecodeHeader(s).msg_type = m.msg_type
        /\ DecodeHeader(s).seq_id = m.seq_id
        /\ DecodeHeader(s).payload_len = L
    BY DecodesHeader
  <1>5. ReadableBytes(b) < HEADER_SIZE + L => ParseOutcome(b) = "fragment"
    BY <1>1, <1>3, <1>4, ParseOutcomes
  <1>6. ReadableBytes(b) >= HEADER_SIZE + L => ParseOutcome(b) = "message"
    BY <1>1, <1>3, <1>4, ParseOutcomes
  <1>7. ReadableBytes(b) >= HEADER_SIZE + L => ParseConsumes(b) = HEADER_SIZE + L
    BY <1>4, <1>6, ConsumesCases
  <1>8. ASSUME ReadableBytes(b) >= HEADER_SIZE + L,
               \A k \in 1..L : s[HEADER_SIZE + k] = m.payload[k]
        PROVE  ParsedMessage(b) = m
    <2> DEFINE t == SubSeq(s, HEADER_SIZE + 1, HEADER_SIZE + L)
    <2>1. HEADER_SIZE \in 0..(HEADER_SIZE + L) /\ HEADER_SIZE + L \in 0..Len(s)
          /\ (HEADER_SIZE + L) - HEADER_SIZE = L
      BY <1>1, <1>2, <1>8
    <2>2. /\ t \in Seq(Byte) /\ Len(t) = (HEADER_SIZE + L) - HEADER_SIZE
          /\ \A k \in 1..((HEADER_SIZE + L) - HEADER_SIZE) : t[k] = s[HEADER_SIZE + k]
      BY <1>1, <2>1, Slice
    <2> HIDE DEF t, s, L
    <2>3. Len(t) = L /\ \A k \in 1..L : t[k] = m.payload[k]
      BY <1>8, <2>1, <2>2
    <2>4. t = m.payload
      BY <1>2, <2>2, <2>3, SeqEqual DEF L
    <2>5. ParsedMessage(b) = [version |-> DecodeHeader(s).version, msg_type |-> DecodeHeader(s).msg_type,
                              seq_id |-> DecodeHeader(s).seq_id,
                              payload |-> SubSeq(s, HEADER_SIZE + 1, HEADER_SIZE + DecodeHeader(s).payload_len)]
      BY DEF ParsedMessage, s
    <2>6. ParsedMessage(b) = [version |-> m.version, msg_type |-> m.msg_type,
                              seq_id |-> m.seq_id, payload |-> m.payload]
      BY <1>4, <2>4, <2>5 DEF t
    <2>7. m \in [version : Byte, msg_type : Byte, seq_id : Nat, payload : Seq(Byte)]
      BY DEF IsMessage
    <2> QED
      BY <2>6, <2>7
  <1> QED
    BY <1>5, <1>6, <1>7, <1>8

-----------------------------------------------------------------------------
(* The buffer and the stream. *)

\* The part of the invariant that relates the buffer to the stream.  A fixed
\* buffer keeps the capacity it was made with.
StorePart ==
  /\ BufferHoldsStream
  /\ ReadTargetsFreeSpace
  /\ read_buffer_.is_fixed_ => capacity_(read_buffer_) = BufSize

\* What Read() leaves of buffer b, before the kernel has written to it.
LEMMA RoomMade ==
  ASSUME NEW b, IsBuffer(b), NEW e, e = EnsureWritable(b, Room(b))
  PROVE  /\ SameContent(b, e)
         /\ b.is_fixed_ => capacity_(e) = capacity_(b)
         /\ e.write_idx_ \in Nat /\ WritableBytes(e) \in Nat
         /\ e.write_idx_ + WritableBytes(e) = capacity_(e)
         /\ \/ WritableBytes(e) > 0
            \/ b.is_fixed_ /\ WritableBytes(e) = capacity_(b) - ReadableBytes(b)
  <1>1. Room(b) \in Nat /\ Room(b) >= 1
    BY RequestPathAssumption DEF Room
  <1>2. /\ SameContent(b, e)
        /\ b.is_fixed_ => capacity_(e) = capacity_(b)
        /\ ~b.is_fixed_ => WritableBytes(e) >= Room(b)
        /\ WritableBytes(e) >= Room(b) \/ WritableBytes(e) = capacity_(b) - ReadableBytes(b)
    BY <1>1, EnsureWritableKeeps
  <1>3. IsBuffer(e)
    BY <1>2 DEF SameContent
  <1>4. e.write_idx_ \in Nat /\ Len(e.mem) \in Nat /\ e.write_idx_ <= Len(e.mem)
    BY <1>3 DEF IsBuffer
  <1>5. /\ WritableBytes(e) \in Nat
        /\ e.write_idx_ + WritableBytes(e) = capacity_(e)
    BY <1>4 DEF WritableBytes, capacity_
  <1>6. WritableBytes(e) >= Room(b) => WritableBytes(e) > 0
    BY <1>1, <1>5
  <1> QED
    BY <1>2, <1>4, <1>5, <1>6

LEMMA InitStore == Init => TypeOK /\ StorePart
  <1> SUFFICES ASSUME Init PROVE TypeOK /\ StorePart
    OBVIOUS
  <1>1. PICK b \in {NewBuffer(BufSize, TRUE), NewBuffer(DynamicSize, FALSE)} :
          /\ read_buffer_ = EnsureWritable(b, Room(b))
          /\ at = read_buffer_.write_idx_
          /\ room = WritableBytes(read_buffer_)
    BY DEF Init
  <1>2. /\ IsBuffer(b) /\ Readable(b) = <<>>
        /\ b.is_fixed_ => capacity_(b) = BufSize
    <2>1. BufSize \in Nat /\ DynamicSize \in Nat /\ TRUE \in BOOLEAN /\ FALSE \in BOOLEAN
      BY RequestPathAssumption
    <2>2. CASE b = NewBuffer(BufSize, TRUE)
      BY <2>1, <2>2, EmptyBuffer
    <2>3. CASE b = NewBuffer(DynamicSize, FALSE)
      BY <2>1, <2>3, EmptyBuffer, Zenon
    <2> QED
      BY <2>2, <2>3
  <1>3. /\ SameContent(b, read_buffer_)
        /\ b.is_fixed_ => capacity_(read_buffer_) = capacity_(b)
        /\ at \in Nat /\ room \in Nat /\ at + room = capacity_(read_buffer_)
    BY <1>1, <1>2, RoomMade
  <1>4. /\ pc = "reading" /\ stream = <<>> /\ arrived = 0 /\ peerClosed = FALSE
        /\ sentMessages = <<>> /\ noisy = FALSE
        /\ consumed = 0 /\ parsed = <<>> /\ dispatched = <<>>
    BY DEF Init
  <1>5. TypeOK
    <2>1. stream \in Seq(Byte) /\ sentMessages \in Seq(Messages)
          /\ parsed \in Seq(MessageRecord) /\ dispatched \in Seq(MessageRecord)
      BY <1>4, EmptySeq
    <2>2. arrived \in 0..Len(stream) /\ consumed \in 0..arrived
      BY <1>4
    <2>3. IsBuffer(read_buffer_)
      BY <1>3 DEF SameContent
    <2>4. pc \in {"reading", "parsing", "eof", "error"} /\ peerClosed \in BOOLEAN /\ noisy \in BOOLEAN
      BY <1>4
    <2> QED
      BY <1>3, <2>1, <2>2, <2>3, <2>4 DEF TypeOK, MessageRecord
  <1>6. SubSeq(stream, consumed + 1, arrived) = <<>>
    BY <1>4
  <1>7. BufferHoldsStream
    BY <1>2, <1>3, <1>6 DEF SameContent, BufferHoldsStream
  <1> QED
    BY <1>1, <1>2, <1>3, <1>5, <1>7 DEF StorePart, ReadTargetsFreeSpace, SameContent

\* The unread part of the stream, and what the stream may do to it.
LEMMA Unread ==
  ASSUME TypeOK, StorePart
  PROVE  /\ ReadableBytes(read_buffer_) = arrived - consumed
         /\ Readable(read_buffer_) \in Seq(Byte)
         /\ Len(Readable(read_buffer_)) = arrived - consumed
         /\ \A k \in 1..(arrived - consumed) : Readable(read_buffer_)[k] = stream[consumed + k]
  <1>1. IsBuffer(read_buffer_) /\ stream \in Seq(Byte) /\ arrived \in 0..Len(stream) /\ consumed \in 0..arrived
    BY DEF TypeOK
  <1>2. Readable(read_buffer_) = SubSeq(stream, consumed + 1, arrived)
    BY DEF StorePart, BufferHoldsStream
  <1>3. /\ SubSeq(stream, consumed + 1, arrived) \in Seq(Byte)
        /\ Len(SubSeq(stream, consumed + 1, arrived)) = arrived - consumed
        /\ \A k \in 1..(arrived - consumed) : SubSeq(stream, consumed + 1, arrived)[k] = stream[consumed + k]
    BY <1>1, Slice
  <1>4. Len(Readable(read_buffer_)) = ReadableBytes(read_buffer_)
    BY <1>1, ReadableFacts
  <1> QED
    BY <1>2, <1>3, <1>4

LEMMA StreamGrows ==
  ASSUME TypeOK, StorePart, NEW t \in Seq(Byte), stream' = stream \o t,
         UNCHANGED <<readVars, read_buffer_, arrived, consumed>>
  PROVE  /\ stream' \in Seq(Byte) /\ arrived' \in 0..Len(stream')
         /\ Len(stream') = Len(stream) + Len(t)
         /\ \A k \in 1..Len(stream) : stream'[k] = stream[k]
         /\ \A k \in 1..Len(t) : stream'[Len(stream) + k] = t[k]
         /\ StorePart'
  <1>1. stream \in Seq(Byte) /\ arrived \in 0..Len(stream) /\ consumed \in 0..arrived
    BY DEF TypeOK
  <1>2. IsCat(stream', stream, Len(stream), t, Len(t))
    BY <1>1, ConcatAt
  <1>3. SubSeq(stream \o t, consumed + 1, arrived) = SubSeq(stream, consumed + 1, arrived)
    BY <1>1, SliceOfLonger
  <1>4. /\ Readable(read_buffer_) = SubSeq(stream, consumed + 1, arrived)
        /\ ReadTargetsFreeSpace /\ (read_buffer_.is_fixed_ => capacity_(read_buffer_) = BufSize)
    BY DEF StorePart, BufferHoldsStream
  <1>5. StorePart'
    <2>1. /\ pc' = pc /\ at' = at /\ room' = room
          /\ read_buffer_' = read_buffer_ /\ arrived' = arrived /\ consumed' = consumed
      BY DEF readVars
    <2>2. BufferHoldsStream'
      BY <1>3, <1>4, <2>1 DEF BufferHoldsStream
    <2>3. ReadTargetsFreeSpace'
      BY <1>4, <2>1 DEF ReadTargetsFreeSpace
    <2> QED
      BY <1>4, <2>1, <2>2, <2>3 DEF StorePart
  <1>6. Len(stream') = Len(stream) + Len(t) /\ stream' \in Seq(Byte)
    BY <1>2 DEF IsCat
  <1>7. arrived' \in 0..Len(stream')
    <2>1. Len(t) \in Nat /\ Len(stream) \in Nat /\ arrived' = arrived
      BY <1>1
    <2> QED
      BY <1>1, <1>6, <2>1
  <1> QED
    BY <1>2, <1>5, <1>6, <1>7 DEF IsCat

LEMMA WireTyped ==
  ASSUME NEW m \in Messages
  PROVE  /\ WireBytes(m) \in Seq(Byte)
         /\ Len(WireBytes(m)) = HEADER_SIZE + Len(m.payload)
  BY MessagesAreMessages, WireIs DEF IsCat

LEMMA SendMessageStore ==
  ASSUME TypeOK, StorePart, NEW m \in Messages, SendMessage(m)
  PROVE  TypeOK' /\ StorePart'
  <1>1. WireBytes(m) \in Seq(Byte)
    BY WireTyped
  <1>2. /\ stream' = stream \o WireBytes(m)
        /\ sentMessages' = Append(sentMessages, m)
        /\ UNCHANGED <<readVars, read_buffer_, arrived, consumed>>
        /\ UNCHANGED <<peerClosed, noisy, parsed, dispatched>>
    BY DEF SendMessage
  <1>3. stream' \in Seq(Byte) /\ arrived' \in 0..Len(stream') /\ StorePart'
    BY <1>1, <1>2, StreamGrows
  <1>4. sentMessages' \in Seq(Messages)
    BY <1>2, AppendProperties DEF TypeOK
  <1> QED
    BY <1>2, <1>3, <1>4 DEF TypeOK, readVars

LEMMA SendNoiseStore ==
  ASSUME TypeOK, StorePart, NEW b \in Noise, SendNoise(b)
  PROVE  TypeOK' /\ StorePart'
  <1>1. b \in Byte /\ stream \in Seq(Byte)
    BY RequestPathAssumption DEF TypeOK
  <1>2. <<b>> \in Seq(Byte)
    BY <1>1
  <1>3. /\ stream' = stream \o <<b>> /\ noisy' = TRUE
        /\ UNCHANGED <<readVars, read_buffer_, arrived, consumed>>
        /\ UNCHANGED <<peerClosed, sentMessages, parsed, dispatched>>
    BY <1>1, AppendIsConcat DEF SendNoise
  <1>4. stream' \in Seq(Byte) /\ arrived' \in 0..Len(stream') /\ StorePart'
    BY <1>2, <1>3, StreamGrows
  <1> QED
    BY <1>3, <1>4 DEF TypeOK, readVars

LEMMA DataArrivesStore ==
  ASSUME TypeOK, StorePart, DataArrives
  PROVE  TypeOK' /\ StorePart'
  <1>1. PICK n \in 1..(Len(stream) - arrived) : n <= room /\ ReadCompletes(n)
    BY DEF DataArrives
  <1> DEFINE bytes == SubSeq(stream, arrived + 1, arrived + n)
             b == read_buffer_
  <1>2. /\ IsBuffer(b) /\ stream \in Seq(Byte) /\ arrived \in 0..Len(stream)
        /\ consumed \in 0..arrived /\ room \in Nat /\ at \in Nat /\ Len(stream) \in Nat
    BY DEF TypeOK
  <1>3. arrived + n \in 0..Len(stream) /\ arrived \in 0..(arrived + n) /\ (arrived + n) - arrived = n
        /\ consumed \in 0..(arrived + n)
    BY <1>2
  <1>4. bytes \in Seq(Byte) /\ Len(bytes) = (arrived + n) - arrived
    BY <1>2, <1>3, Slice
  <1>5. /\ pc = "reading" /\ arrived' = arrived + n /\ pc' = "parsing"
        /\ b' = HasWritten(Store(b, at, bytes), n)
        /\ UNCHANGED <<at, room, peerVars, consumed, parsed, dispatched>>
    BY <1>1 DEF ReadCompletes
  <1> HIDE DEF bytes
  <1>6. Len(bytes) = n
    BY <1>3, <1>4
  <1>7. at = b.write_idx_ /\ at + room = capacity_(b)
    BY <1>5 DEF StorePart, ReadTargetsFreeSpace
  <1>8. Len(bytes) <= WritableBytes(b)
    BY <1>1, <1>2, <1>6, <1>7 DEF WritableBytes, IsBuffer, capacity_
  <1>9. b' = Put(b, bytes)
    BY <1>5, <1>6, <1>7 DEF Put
  <1>10. /\ IsBuffer(Put(b, bytes)) /\ Readable(Put(b, bytes)) = Readable(b) \o bytes
         /\ Put(b, bytes).is_fixed_ = b.is_fixed_ /\ capacity_(Put(b, bytes)) = capacity_(b)
    BY <1>2, <1>4, <1>8, PutAppends
  <1>11. SubSeq(stream, consumed + 1, arrived) \o SubSeq(stream, arrived + 1, arrived + n)
         = SubSeq(stream, consumed + 1, arrived + n)
    <2>1. /\ consumed + 1 \in 1..(Len(stream) + 1)
          /\ arrived \in ((consumed + 1) - 1)..Len(stream)
          /\ arrived + n \in arrived..Len(stream)
      BY <1>2, <1>3
    <2> QED
      BY <1>2, <2>1, ConcatAdjacentSubSeq
  <1>12. stream' = stream /\ consumed' = consumed
    BY <1>5 DEF peerVars
  <1>13. BufferHoldsStream'
    <2>1. Readable(b) = SubSeq(stream, consumed + 1, arrived)
      BY DEF StorePart, BufferHoldsStream
    <2>2. Readable(b') = SubSeq(stream, consumed + 1, arrived + n)
      BY <1>9, <1>10, <1>11, <2>1 DEF bytes
    <2> QED
      BY <1>5, <1>12, <2>2 DEF BufferHoldsStream
  <1>14. StorePart'
    <2>1. ReadTargetsFreeSpace'
      BY <1>5 DEF ReadTargetsFreeSpace
    <2>2. b.is_fixed_ => capacity_(b) = BufSize
      BY DEF StorePart
    <2>3. b'.is_fixed_ => capacity_(b') = BufSize
      BY <1>9, <1>10, <2>2
    <2> QED
      BY <1>13, <2>1, <2>3 DEF StorePart
  <1>15. IsBuffer(read_buffer_')
    BY <1>9, <1>10
  <1>16. arrived' \in 0..Len(stream') /\ consumed' \in 0..arrived'
    BY <1>3, <1>5, <1>12
  <1>17. TypeOK'
    BY <1>5, <1>15, <1>16 DEF TypeOK, peerVars
  <1> QED
    BY <1>14, <1>17

\* The buffer after ParseMessage has taken its bytes.
LEMMA AfterTake ==
  ASSUME TypeOK, StorePart, NEW c, c = ParseConsumes(read_buffer_),
         NEW b, b = HasRead(read_buffer_, c)
  PROVE  /\ IsBuffer(b)
         /\ consumed + c \in 0..arrived
         /\ Readable(b) = SubSeq(stream, (consumed + c) + 1, arrived)
         /\ ReadableBytes(b) = arrived - (consumed + c)
         /\ b.is_fixed_ = read_buffer_.is_fixed_
         /\ capacity_(b) = capacity_(read_buffer_)
  <1>1. IsBuffer(read_buffer_) /\ stream \in Seq(Byte) /\ arrived \in 0..Len(stream) /\ consumed \in 0..arrived
    BY DEF TypeOK
  <1>2. ReadableBytes(read_buffer_) = arrived - consumed
    BY Unread
  <1>3. c \in 0..ReadableBytes(read_buffer_)
    BY <1>1, ParseTakes
  <1>4. /\ IsBuffer(b)
        /\ Readable(b) = SubSeq(Readable(read_buffer_), c + 1, ReadableBytes(read_buffer_))
        /\ ReadableBytes(b) = ReadableBytes(read_buffer_) - c
        /\ b.is_fixed_ = read_buffer_.is_fixed_
        /\ capacity_(b) = capacity_(read_buffer_)
    BY <1>1, <1>3, HasReadDrops
  <1>5. c \in 0..(arrived - consumed)
    BY <1>2, <1>3
  <1>6. SubSeq(SubSeq(stream, consumed + 1, arrived), c + 1, arrived - consumed)
        = SubSeq(stream, (consumed + c) + 1, arrived)
    BY <1>1, <1>5, SliceOfSlice
  <1>7. Readable(read_buffer_) = SubSeq(stream, consumed + 1, arrived)
    BY DEF StorePart, BufferHoldsStream
  <1>8. Readable(b) = SubSeq(stream, (consumed + c) + 1, arrived)
    BY <1>2, <1>4, <1>6, <1>7
  <1>9. consumed + c \in 0..arrived /\ ReadableBytes(b) = arrived - (consumed + c)
    BY <1>1, <1>2, <1>4, <1>5
  <1> QED
    BY <1>4, <1>8, <1>9

LEMMA ParseMessageStore ==
  ASSUME TypeOK, StorePart, ParseMessage
  PROVE  TypeOK' /\ StorePart'
  <1> DEFINE c == ParseConsumes(read_buffer_)
             m == ParsedMessage(read_buffer_)
  <1>1. /\ pc = "parsing" /\ ParseOutcome(read_buffer_) = "message"
        /\ parsed' = Append(parsed, m)
        /\ dispatched' = IF m.msg_type = 0 THEN Append(dispatched, m) ELSE dispatched
        /\ read_buffer_' = HasRead(read_buffer_, c)
        /\ consumed' = consumed + c
        /\ UNCHANGED <<readVars, arrived, peerVars>>
    BY DEF ParseMessage
  <1>2. /\ IsBuffer(read_buffer_')
        /\ consumed + c \in 0..arrived
        /\ Readable(read_buffer_') = SubSeq(stream, (consumed + c) + 1, arrived)
        /\ read_buffer_'.is_fixed_ = read_buffer_.is_fixed_
        /\ capacity_(read_buffer_') = capacity_(read_buffer_)
    BY <1>1, AfterTake
  <1>3. m \in MessageRecord
    BY <1>1, ParseTakes DEF TypeOK
  <1>4. parsed \in Seq(MessageRecord) /\ dispatched \in Seq(MessageRecord)
    BY DEF TypeOK, MessageRecord
  <1> HIDE DEF c, m
  <1>5. Append(parsed, m) \in Seq(MessageRecord) /\ Append(dispatched, m) \in Seq(MessageRecord)
    BY <1>3, <1>4, AppendProperties
  <1>6. parsed' \in Seq(MessageRecord) /\ dispatched' \in Seq(MessageRecord)
    BY <1>1, <1>4, <1>5
  <1>7. /\ pc' = pc /\ at' = at /\ room' = room /\ arrived' = arrived /\ stream' = stream
        /\ peerClosed' = peerClosed /\ sentMessages' = sentMessages /\ noisy' = noisy
    BY <1>1 DEF readVars, peerVars
  <1>8. TypeOK'
    BY <1>1, <1>2, <1>6, <1>7 DEF TypeOK, MessageRecord
  <1>9. BufferHoldsStream'
    BY <1>1, <1>2, <1>7 DEF BufferHoldsStream
  <1>10. ReadTargetsFreeSpace'
    BY <1>1, <1>7 DEF ReadTargetsFreeSpace
  <1> QED
    BY <1>2, <1>8, <1>9, <1>10 DEF StorePart

LEMMA ParseBreaksStore ==
  ASSUME TypeOK, StorePart, ParseBreaks
  PROVE  /\ TypeOK' /\ StorePart'
         /\ pc' = "reading"
         /\ Readable(read_buffer_') = Readable(HasRead(read_buffer_, ParseConsumes(read_buffer_)))
         /\ read_buffer_'.is_fixed_ = read_buffer_.is_fixed_
         /\ room' > 0 \/ (read_buffer_.is_fixed_ /\ room' = BufSize - (arrived - consumed'))
  <1> DEFINE c == ParseConsumes(read_buffer_)
             b == HasRead(read_buffer_, c)
  <1>1. /\ pc = "parsing"
        /\ read_buffer_' = EnsureWritable(b, Room(b))
        /\ at' = read_buffer_'.write_idx_ /\ room' = WritableBytes(read_buffer_')
        /\ pc' = "reading"
        /\ consumed' = consumed + c
        /\ UNCHANGED <<arrived, peerVars, parsed, dispatched>>
    BY DEF ParseBreaks, Read
  <1>2. /\ IsBuffer(b)
        /\ consumed + c \in 0..arrived
        /\ Readable(b) = SubSeq(stream, (consumed + c) + 1, arrived)
        /\ ReadableBytes(b) = arrived - (consumed + c)
        /\ b.is_fixed_ = read_buffer_.is_fixed_
        /\ capacity_(b) = capacity_(read_buffer_)
    BY AfterTake
  <1> HIDE DEF b, c
  <1>3. /\ SameContent(b, read_buffer_')
        /\ b.is_fixed_ => capacity_(read_buffer_') = capacity_(b)
        /\ at' \in Nat /\ room' \in Nat /\ at' + room' = capacity_(read_buffer_')
        /\ room' > 0 \/ (b.is_fixed_ /\ room' = capacity_(b) - ReadableBytes(b))
    BY <1>1, <1>2, RoomMade
  <1>4. /\ IsBuffer(read_buffer_') /\ Readable(read_buffer_') = Readable(b)
        /\ read_buffer_'.is_fixed_ = b.is_fixed_
    BY <1>3 DEF SameContent
  <1>5. /\ arrived' = arrived /\ stream' = stream /\ parsed' = parsed /\ dispatched' = dispatched
        /\ peerClosed' = peerClosed /\ sentMessages' = sentMessages /\ noisy' = noisy
    BY <1>1 DEF peerVars
  <1>6. TypeOK'
    BY <1>1, <1>2, <1>3, <1>4, <1>5 DEF TypeOK
  <1>7. BufferHoldsStream'
    BY <1>1, <1>2, <1>4, <1>5 DEF BufferHoldsStream
  <1>8. ReadTargetsFreeSpace'
    BY <1>1, <1>3 DEF ReadTargetsFreeSpace
  <1>9. read_buffer_.is_fixed_ => capacity_(read_buffer_) = BufSize
    BY DEF StorePart
  <1>10. StorePart'
    BY <1>2, <1>3, <1>4, <1>7, <1>8, <1>9 DEF StorePart
  <1>11. room' > 0 \/ (read_buffer_.is_fixed_ /\ room' = BufSize - (arrived - consumed'))
    BY <1>1, <1>2, <1>3, <1>9
  <1> QED
    BY <1>1, <1>2, <1>4, <1>6, <1>10, <1>11 DEF b, c

-----------------------------------------------------------------------------
(* The messages in the stream. *)

\* Bytes q + 1, q + 2, ... of str are those of t.
LiesAt(str, q, t) == \A k \in 1..Len(t) : str[q + k] = t[k]

\* Message i lies in the stream from st[i] to off[i], right behind the message
\* before it or behind one byte of noise.
Placed(i, off, st) ==
  /\ \/ st[i] = off[i - 1]
     \/ st[i] = off[i - 1] + 1 /\ noisy /\ stream[st[i]] \in Noise
  /\ off[i] = st[i] + Len(WireBytes(sentMessages[i]))
  /\ off[i] <= Len(stream)
  /\ LiesAt(stream, st[i], WireBytes(sentMessages[i]))

\* The stream is made of the messages sent and of at most one byte of noise
\* before each of them and at its end.
Layout(off, st) ==
  /\ off \in [0..Len(sentMessages) -> Nat]
  /\ st \in [1..Len(sentMessages) -> Nat]
  /\ off[0] = 0
  /\ \A i \in 1..Len(sentMessages) : Placed(i, off, st)
  /\ \/ Len(stream) = off[Len(sentMessages)]
     \/ /\ Len(stream) = off[Len(sentMessages)] + 1
        /\ noisy /\ stream[Len(stream)] \in Noise

\* The messages parsed are the first ones sent; the reader is at the end of the
\* last of them, or behind the byte of noise that follows it.
Position(off, st) ==
  /\ Len(parsed) <= Len(sentMessages)
  /\ \A i \in 1..Len(parsed) : parsed[i] = sentMessages[i]
  /\ \/ consumed = off[Len(parsed)]
     \/ /\ consumed = off[Len(parsed)] + 1 /\ stream[consumed] \in Noise
        /\ Len(parsed) < Len(sentMessages) => st[Len(parsed) + 1] = consumed
        /\ Len(parsed) = Len(sentMessages) => Len(stream) = consumed

MessagePart == \E off, st : Layout(off, st) /\ Position(off, st)

LEMMA MessageAtFront ==
  ASSUME NEW m \in Messages, NEW s \in Seq(Byte), Len(s) >= HEADER_SIZE,
         NEW q, NEW str, LiesAt(str, q, s), LiesAt(str, q, WireBytes(m))
  PROVE  /\ HeaderAt(s, m)
         /\ Len(s) >= HEADER_SIZE + Len(m.payload) =>
              \A k \in 1..Len(m.payload) : s[HEADER_SIZE + k] = m.payload[k]
  <1> DEFINE w == WireBytes(m)
             L == Len(m.payload)
  <1>1. HEADER_SIZE \in Nat /\ L \in Nat /\ Len(s) \in Nat
    BY MessagesAreMessages DEF IsMessage, HEADER_SIZE
  <1>2. /\ w \in Seq(Byte) /\ Len(w) = HEADER_SIZE + L
        /\ \A k \in 1..HEADER_SIZE : w[k] = Net(m)[k]
        /\ \A k \in 1..L : w[HEADER_SIZE + k] = m.payload[k]
    <2>1. IsCat(w, Net(m), HEADER_SIZE, m.payload, L)
      BY MessagesAreMessages, WireIs
    <2> QED
      BY <2>1 DEF IsCat
  <1> HIDE DEF w, L
  <1>3. ASSUME NEW k \in 1..Len(s), k \in 1..Len(w) PROVE s[k] = w[k]
    BY <1>3 DEF LiesAt, w
  <1>4. \A k \in 1..HEADER_SIZE : k \in 1..Len(s) /\ k \in 1..Len(w)
    BY <1>1, <1>2
  <1>5. \A k \in 1..HEADER_SIZE : s[k] = Net(m)[k]
    BY <1>2, <1>3, <1>4
  <1>6. ASSUME Len(s) >= HEADER_SIZE + L, NEW k \in 1..L
        PROVE  s[HEADER_SIZE + k] = m.payload[k]
    <2>1. HEADER_SIZE + k \in 1..Len(s) /\ HEADER_SIZE + k \in 1..Len(w)
      BY <1>1, <1>2, <1>6
    <2> QED
      BY <1>2, <1>3, <2>1
  <1> QED
    BY <1>5, <1>6 DEF HeaderAt, L

LEMMA NoiseAtFront ==
  ASSUME NEW m \in Messages, NEW s \in Seq(Byte), Len(s) >= HEADER_SIZE,
         NEW q \in Nat, NEW str, LiesAt(str, q, s), LiesAt(str, q + 1, WireBytes(m))
  PROVE  s[2] = 84
  <1>1. HEADER_SIZE = 12 /\ Len(m.payload) \in Nat /\ Len(s) \in Nat
    BY MessagesAreMessages DEF IsMessage, HEADER_SIZE
  <1>2. WireBytes(m)[1] = Net(m)[1] /\ Len(WireBytes(m)) = HEADER_SIZE + Len(m.payload)
    <2>1. IsCat(WireBytes(m), Net(m), HEADER_SIZE, m.payload, Len(m.payload))
      BY MessagesAreMessages, WireIs
    <2>2. 1 \in 1..HEADER_SIZE
      BY <1>1
    <2> QED
      BY <2>1, <2>2 DEF IsCat
  <1>3. Net(m)[1] = 84
    BY MessagesAreMessages, NetFacts DEF StartsWith
  <1>4. 2 \in 1..Len(s) /\ 1 \in 1..Len(WireBytes(m)) /\ q + 2 = (q + 1) + 1
    BY <1>1, <1>2
  <1>5. s[2] = str[q + 2]
    BY <1>4 DEF LiesAt
  <1>6. WireBytes(m)[1] = str[(q + 1) + 1]
    BY <1>4 DEF LiesAt
  <1> QED
    BY <1>2, <1>3, <1>4, <1>5, <1>6

\* What the loop finds at the front of the buffer: less than a header, a byte
\* of noise, or the message that is to be parsed next.
NoiseNext(off, st) ==
  /\ consumed = off[Len(parsed)]
  /\ st[Len(parsed) + 1] = consumed + 1
  /\ noisy /\ stream[consumed + 1] \in Noise
  /\ ParseOutcome(read_buffer_) = "bad_magic" /\ ParseConsumes(read_buffer_) = 1

MessageNext(off, st, m) ==
  /\ m = sentMessages[Len(parsed) + 1]
  /\ off[Len(parsed) + 1] = consumed + (HEADER_SIZE + Len(m.payload))
  /\ \/ /\ ParseOutcome(read_buffer_) = "message" /\ ParsedMessage(read_buffer_) = m
        /\ ParseConsumes(read_buffer_) = HEADER_SIZE + Len(m.payload)
     \/ /\ ParseOutcome(read_buffer_) = "fragment"
        /\ arrived - consumed < Len(WireBytes(m))

LEMMA NextSent ==
  ASSUME TypeOK, NEW off, NEW st, Layout(off, st), Position(off, st), Len(parsed) < Len(sentMessages)
  PROVE  /\ Len(parsed) + 1 \in 1..Len(sentMessages)
         /\ sentMessages[Len(parsed) + 1] \in Messages
         /\ Placed(Len(parsed) + 1, off, st)
         /\ st[Len(parsed) + 1] \in Nat /\ off[Len(parsed)] \in Nat /\ (Len(parsed) + 1) - 1 = Len(parsed)
  <1>1. sentMessages \in Seq(Messages) /\ Len(sentMessages) \in Nat /\ Len(parsed) \in Nat
    BY DEF TypeOK
  <1>2. Len(parsed) + 1 \in 1..Len(sentMessages) /\ Len(parsed) \in 0..Len(sentMessages)
    BY <1>1
  <1>3. sentMessages[Len(parsed) + 1] \in Messages
    BY <1>1, <1>2, ElementOfSeq
  <1> QED
    BY <1>1, <1>2, <1>3 DEF Layout

LEMMA Front ==
  ASSUME TypeOK, StorePart, NEW off, NEW st, Layout(off, st), Position(off, st)
  PROVE  /\ \/ ParseOutcome(read_buffer_) = "short" /\ arrived - consumed < HEADER_SIZE
            \/ Len(parsed) < Len(sentMessages) /\ NoiseNext(off, st)
            \/ Len(parsed) < Len(sentMessages) /\ \E m \in Messages : MessageNext(off, st, m)
         /\ ~noisy /\ arrived > consumed => Len(parsed) < Len(sentMessages)
  <1> DEFINE s == Readable(read_buffer_)
             p == Len(parsed)
             n == Len(sentMessages)
             m == sentMessages[p + 1]
  <1>1. /\ IsBuffer(read_buffer_) /\ arrived \in 0..Len(stream) /\ consumed \in 0..arrived
        /\ Len(stream) \in Nat /\ p \in Nat /\ n \in Nat /\ HEADER_SIZE = 12
    BY DEF TypeOK, HEADER_SIZE
  <1>2. /\ s \in Seq(Byte) /\ Len(s) = arrived - consumed /\ Len(s) = ReadableBytes(read_buffer_)
        /\ LiesAt(stream, consumed, s)
    BY Unread DEF LiesAt
  <1>3. p <= n /\ off[n] \in Nat /\ off[p] \in Nat
    BY <1>1, SMTT(30) DEF Position, Layout
  <1>4. /\ Len(stream) = off[n] \/ (Len(stream) = off[n] + 1 /\ noisy)
        /\ \/ consumed = off[p]
           \/ /\ consumed = off[p] + 1 /\ (p < n => st[p + 1] = consumed)
              /\ (p = n => Len(stream) = consumed)
    BY DEF Position, Layout
  <1>5. p = n => arrived - consumed <= 1 /\ (~noisy => arrived <= consumed)
    BY <1>1, <1>3, <1>4
  <1>6. ~noisy /\ arrived > consumed => p < n
    BY <1>1, <1>3, <1>5
  <1>7. CASE Len(s) < HEADER_SIZE
    <2>1. ParseOutcome(read_buffer_) = "short"
      BY <1>1, <1>7, ParseOutcomes
    <2> QED
      BY <1>2, <1>6, <1>7, <2>1
  <1>8. CASE Len(s) >= HEADER_SIZE
    <2>1. p < n
      BY <1>1, <1>2, <1>3, <1>5, <1>8
    <2>2. /\ m \in Messages /\ Placed(p + 1, off, st) /\ st[p + 1] \in Nat /\ (p + 1) - 1 = p
      BY <2>1, NextSent
    <2>3. /\ st[p + 1] = off[p] \/ (st[p + 1] = off[p] + 1 /\ noisy /\ stream[st[p + 1]] \in Noise)
          /\ off[p + 1] = st[p + 1] + Len(WireBytes(m))
          /\ LiesAt(stream, st[p + 1], WireBytes(m))
      BY <2>2 DEF Placed
    <2>4. CASE st[p + 1] = consumed
      <3>1. /\ HeaderAt(s, m)
            /\ Len(s) >= HEADER_SIZE + Len(m.payload) =>
                 \A k \in 1..Len(m.payload) : s[HEADER_SIZE + k] = m.payload[k]
        BY <1>2, <1>8, <2>2, <2>3, <2>4, MessageAtFront
      <3>2. IsMessage(m) /\ Len(m.payload) \in Nat
        BY <2>2, MessagesAreMessages, SMTT(30) DEF IsMessage
      <3>3. Len(WireBytes(m)) = HEADER_SIZE + Len(m.payload)
        BY <2>2, WireTyped
      <3>4. off[p + 1] = consumed + (HEADER_SIZE + Len(m.payload))
        BY <2>3, <2>4, <3>3
      <3>5. CASE Len(s) < HEADER_SIZE + Len(m.payload)
        <4>1. ParseOutcome(read_buffer_) = "fragment"
          BY <1>1, <1>2, <3>1, <3>2, <3>5, ParsesMessage
        <4>2. MessageNext(off, st, m)
          BY <1>2, <3>3, <3>4, <3>5, <4>1 DEF MessageNext
        <4> QED
          BY <1>6, <2>1, <2>2, <4>2
      <3>6. CASE Len(s) >= HEADER_SIZE + Len(m.payload)
        <4>1. /\ ParseOutcome(read_buffer_) = "message"
              /\ ParseConsumes(read_buffer_) = HEADER_SIZE + Len(m.payload)
          BY <1>1, <1>2, <3>1, <3>2, <3>6, ParsesMessage
        <4>2. ParsedMessage(read_buffer_) = m
          BY <1>1, <1>2, <3>1, <3>2, <3>6, ParsesMessage
        <4>3. MessageNext(off, st, m)
          BY <3>4, <4>1, <4>2 DEF MessageNext
        <4> QED
          BY <1>6, <2>1, <2>2, <4>3
      <3> QED
        BY <1>1, <1>2, <3>2, <3>5, <3>6, SMTT(30)
    <2>5. CASE st[p + 1] # consumed
      <3>1. consumed = off[p] /\ st[p + 1] = consumed + 1 /\ noisy /\ stream[consumed + 1] \in Noise
        BY <1>4, <2>1, <2>3, <2>5
      <3>2. consumed \in Nat /\ LiesAt(stream, consumed + 1, WireBytes(m))
        BY <1>1, <2>3, <3>1
      <3>3. s[2] = 84
        BY <1>2, <1>8, <2>2, <3>2, NoiseAtFront
      <3>4. ParseOutcome(read_buffer_) = "bad_magic" /\ ParseConsumes(read_buffer_) = 1
        BY <1>1, <1>8, <3>3, ParsesNoise
      <3>5. NoiseNext(off, st)
        BY <3>1, <3>4 DEF NoiseNext
      <3> QED
        BY <1>6, <2>1, <3>5
    <2> QED
      BY <2>4, <2>5
  <1> QED
    BY <1>1, <1>2, <1>7, <1>8

\* The two properties of a read in flight that the messages give.
ReadingPart == NothingWholeLeft /\ ReadHasRoom

LEMMA LayoutFrame ==
  ASSUME NEW off, NEW st, Layout(off, st), UNCHANGED <<stream, sentMessages, noisy>>
  PROVE  Layout(off, st)'
  BY DEF Layout, Placed

LEMMA MessageFrame ==
  ASSUME MessagePart, UNCHANGED <<stream, sentMessages, noisy, parsed, consumed>>
  PROVE  MessagePart'
  <1>1. PICK off, st : Layout(off, st) /\ Position(off, st)
    BY DEF MessagePart
  <1>2. Layout(off, st)'
    BY <1>1, LayoutFrame
  <1>3. Position(off, st)'
    BY <1>1 DEF Position
  <1> QED
    BY <1>2, <1>3 DEF MessagePart

LEMMA ParseMessageStep ==
  ASSUME TypeOK, StorePart, MessagePart, ParseMessage
  PROVE  MessagePart' /\ ReadingPart'
  <1>1. PICK off, st : Layout(off, st) /\ Position(off, st)
    BY DEF MessagePart
  <1>2. /\ pc = "parsing" /\ pc' = pc /\ ParseOutcome(read_buffer_) = "message"
        /\ parsed' = Append(parsed, ParsedMessage(read_buffer_))
        /\ consumed' = consumed + ParseConsumes(read_buffer_)
        /\ UNCHANGED <<stream, sentMessages, noisy>>
    BY DEF ParseMessage, readVars, peerVars
  <1>3. Len(parsed) < Len(sentMessages) /\ \E m \in Messages : MessageNext(off, st, m)
    BY <1>1, <1>2, Front DEF NoiseNext
  <1>4. PICK m \in Messages : MessageNext(off, st, m)
    BY <1>3
  <1>5. /\ m = sentMessages[Len(parsed) + 1] /\ ParsedMessage(read_buffer_) = m
        /\ consumed' = off[Len(parsed) + 1]
    BY <1>2, <1>4 DEF MessageNext
  <1>6. m \in MessageRecord /\ parsed \in Seq(MessageRecord)
    BY RequestPathAssumption DEF MessageRecord, TypeOK
  <1>7. /\ Len(parsed') = Len(parsed) + 1 /\ \A i \in 1..Len(parsed) : parsed'[i] = parsed[i]
        /\ parsed'[Len(parsed) + 1] = m
    BY <1>2, <1>5, <1>6, AppendProperties
  <1>8. Len(parsed) \in Nat /\ Len(sentMessages) \in Nat
    BY DEF TypeOK
  <1>9. Len(parsed') <= Len(sentMessages)
    BY <1>3, <1>7, <1>8
  <1>10. \A i \in 1..Len(parsed') : parsed'[i] = sentMessages[i]
    <2>1. \A i \in 1..Len(parsed) : parsed[i] = sentMessages[i]
      BY <1>1 DEF Position
    <2>2. \A i \in 1..Len(parsed') : i \in 1..Len(parsed) \/ i = Len(parsed) + 1
      BY <1>7, <1>8
    <2> QED
      BY <1>5, <1>7, <2>1, <2>2
  <1>11. Position(off, st)'
    BY <1>2, <1>5, <1>7, <1>9, <1>10 DEF Position
  <1>12. Layout(off, st)'
    BY <1>1, <1>2, LayoutFrame
  <1>13. MessagePart'
    BY <1>11, <1>12 DEF MessagePart
  <1>14. ReadingPart'
    BY <1>2 DEF ReadingPart, NothingWholeLeft, ReadHasRoom
  <1> QED
    BY <1>13, <1>14

\* What ParseMessage finds depends on the bytes that can be read alone.
LEMMA SameOutcome ==
  ASSUME NEW b, NEW c, Readable(b) = Readable(c)
  PROVE  ParseOutcome(b) = ParseOutcome(c)
  BY DEF ParseOutcome

LEMMA ParseBreaksMessages ==
  ASSUME TypeOK, StorePart, MessagePart, ParseBreaks
  PROVE  MessagePart'
  <1>1. PICK off, st : Layout(off, st) /\ Position(off, st)
    BY DEF MessagePart
  <1>2. /\ ParseOutcome(read_buffer_) # "message"
        /\ consumed' = consumed + ParseConsumes(read_buffer_)
        /\ UNCHANGED <<stream, sentMessages, noisy, parsed>>
    BY DEF ParseBreaks, peerVars
  <1>3. consumed \in Nat /\ Len(parsed) \in Nat /\ Len(sentMessages) \in Nat
    BY DEF TypeOK
  <1>4. Layout(off, st)'
    BY <1>1, <1>2, LayoutFrame
  <1>5. CASE ParseConsumes(read_buffer_) = 0
    <2>1. consumed' = consumed
      BY <1>2, <1>3, <1>5
    <2> QED
      BY <1>2, <2>1, MessageFrame
  <1>6. CASE Len(parsed) < Len(sentMessages) /\ NoiseNext(off, st)
    <2>1. /\ consumed' = off[Len(parsed)] + 1 /\ stream[consumed'] \in Noise
          /\ st[Len(parsed) + 1] = consumed'
      BY <1>2, <1>6 DEF NoiseNext
    <2>2. Len(parsed) # Len(sentMessages)
      BY <1>3, <1>6
    <2>3. /\ Len(parsed) <= Len(sentMessages)
          /\ \A i \in 1..Len(parsed) : parsed[i] = sentMessages[i]
      BY <1>1 DEF Position
    <2>4. Position(off, st)'
      BY <1>2, <2>1, <2>2, <2>3 DEF Position
    <2> QED
      BY <1>4, <2>4 DEF MessagePart
  <1>7. ParseConsumes(read_buffer_) = 0 \/ (Len(parsed) < Len(sentMessages) /\ NoiseNext(off, st))
    <2>1. ParseOutcome(read_buffer_) \in {"short", "fragment"} => ParseConsumes(read_buffer_) = 0
      BY ConsumesCases
    <2> QED
      BY <1>1, <1>2, <2>1, Front DEF MessageNext
  <1> QED
    BY <1>5, <1>6, <1>7

LEMMA ParseBreaksReading ==
  ASSUME TypeOK, StorePart, MessagePart, ParseBreaks
  PROVE  ReadingPart'
  <1>1. PICK off, st : Layout(off, st) /\ Position(off, st)
    BY DEF MessagePart
  <1>2. /\ ParseOutcome(read_buffer_) # "message"
        /\ consumed' = consumed + ParseConsumes(read_buffer_)
        /\ stream' = stream /\ arrived' = arrived /\ noisy' = noisy
    BY DEF ParseBreaks, peerVars
  <1>3. /\ pc' = "reading" /\ read_buffer_'.is_fixed_ = read_buffer_.is_fixed_
        /\ room' > 0 \/ (read_buffer_.is_fixed_ /\ room' = BufSize - (arrived - consumed'))
        /\ TypeOK' /\ StorePart'
    BY ParseBreaksStore
  <1>4. consumed \in Nat /\ arrived \in Nat /\ Len(parsed) \in Nat /\ consumed <= arrived
    BY DEF TypeOK
  <1>5. CASE ParseOutcome(read_buffer_) \in {"short", "fragment"}
    <2>1. consumed' = consumed
      <3>1. ParseConsumes(read_buffer_) = 0
        BY <1>5, ConsumesCases
      <3> QED
        BY <1>2, <1>4, <3>1
    <2>2. Readable(read_buffer_') = Readable(read_buffer_)
      BY <1>2, <1>3, <2>1 DEF StorePart, BufferHoldsStream
    <2>3. ParseOutcome(read_buffer_') = ParseOutcome(read_buffer_)
      BY <2>2, SameOutcome
    <2>4. NothingWholeLeft'
      BY <1>5, <2>3 DEF NothingWholeLeft
    <2>5. ASSUME read_buffer_.is_fixed_ => AllMessagesFit, ~noisy, read_buffer_.is_fixed_
          PROVE  arrived - consumed < BufSize
      <3>1. BufSize \in Nat /\ BufSize > 0 /\ HEADER_SIZE = 12
        BY RequestPathAssumption DEF HEADER_SIZE
      <3>2. CASE arrived = consumed
        BY <1>4, <3>1, <3>2
      <3>3. CASE arrived # consumed
        <4>1. Len(parsed) < Len(sentMessages)
          BY <1>1, <1>4, <2>5, <3>3, Front
        <4>2. \E m \in Messages : arrived - consumed < Len(WireBytes(m)) \/ arrived - consumed < HEADER_SIZE
          <5>1. sentMessages[Len(parsed) + 1] \in Messages
            BY <1>1, <4>1, NextSent
          <5>2. \/ arrived - consumed < HEADER_SIZE
                \/ \E m \in Messages : MessageNext(off, st, m)
            BY <1>1, <1>5, Front DEF NoiseNext
          <5> QED
            BY <1>5, <5>1, <5>2 DEF MessageNext
        <4>3. PICK m \in Messages : arrived - consumed < Len(WireBytes(m)) \/ arrived - consumed < HEADER_SIZE
          BY <4>2
        <4>4. /\ Len(WireBytes(m)) = HEADER_SIZE + Len(m.payload) /\ Len(m.payload) \in Nat
              /\ Len(WireBytes(m)) <= BufSize
          BY <2>5, WireTyped, MessagesAreMessages DEF AllMessagesFit, IsMessage
        <4> QED
          BY <1>4, <3>1, <4>3, <4>4
      <3> QED
        BY <3>2, <3>3
    <2>6. ReadHasRoom'
      <3> SUFFICES ASSUME read_buffer_'.is_fixed_ => AllMessagesFit, ~noisy' PROVE room' > 0
        BY DEF ReadHasRoom, AllMessagesFit
      <3>1. read_buffer_.is_fixed_ => arrived - consumed < BufSize
        BY <1>2, <1>3, <2>5
      <3>2. BufSize \in Nat
        BY RequestPathAssumption
      <3> QED
        BY <1>3, <1>4, <2>1, <3>1, <3>2
    <2> QED
      BY <2>4, <2>6 DEF ReadingPart
  <1>6. CASE NoiseNext(off, st)
    <2>1. consumed' = consumed + 1 /\ consumed' > 0 /\ stream'[consumed'] \in Noise /\ noisy'
      BY <1>2, <1>4, <1>6 DEF NoiseNext
    <2> QED
      BY <2>1 DEF ReadingPart, NothingWholeLeft, ReadHasRoom
  <1>7. ParseOutcome(read_buffer_) \in {"short", "fragment"} \/ NoiseNext(off, st)
    BY <1>1, <1>2, Front DEF MessageNext
  <1> QED
    BY <1>5, <1>6, <1>7

\* A read in flight is not disturbed by what the peer sends.
LEMMA ReadingFrame ==
  ASSUME TypeOK, ReadingPart, UNCHANGED <<pc, room, read_buffer_, consumed>>,
         noisy => noisy', \A k \in 1..Len(stream) : stream'[k] = stream[k]
  PROVE  ReadingPart'
  <1>1. consumed > 0 => consumed \in 1..Len(stream)
    BY DEF TypeOK
  <1>2. NothingWholeLeft'
    BY <1>1 DEF ReadingPart, NothingWholeLeft
  <1>3. ReadHasRoom'
    BY DEF ReadingPart, ReadHasRoom, AllMessagesFit
  <1> QED
    BY <1>2, <1>3 DEF ReadingPart

\* A message keeps its place when the stream and the messages grow.
LEMMA PlacedKeeps ==
  ASSUME NEW n \in Nat, NEW off, NEW st, NEW off2, NEW st2, NEW i \in 1..n,
         off \in [0..n -> Nat], st \in [1..n -> Nat], Placed(i, off, st),
         off2[i] = off[i], off2[i - 1] = off[i - 1], st2[i] = st[i],
         noisy => noisy', sentMessages'[i] = sentMessages[i],
         sentMessages[i] \in Messages,
         Len(stream) \in Nat, Len(stream') \in Nat, Len(stream') >= Len(stream),
         \A k \in 1..Len(stream) : stream'[k] = stream[k]
  PROVE  Placed(i, off2, st2)'
  <1> DEFINE w == WireBytes(sentMessages[i])
  <1>1. off[i] \in Nat /\ off[i - 1] \in Nat /\ st[i] \in Nat
    BY SMTT(30)
  <1>2. Len(w) \in Nat
    <2>1. w \in Seq(Byte)
      BY WireTyped
    <2> HIDE DEF w
    <2> QED
      BY ONLY <2>1, LenProperties
  <1>3. /\ st[i] = off[i - 1] \/ (st[i] = off[i - 1] + 1 /\ noisy /\ stream[st[i]] \in Noise)
        /\ off[i] = st[i] + Len(w) /\ off[i] <= Len(stream) /\ LiesAt(stream, st[i], w)
    BY DEF Placed
  <1> HIDE DEF w
  <1>4. LiesAt(stream', st[i], w)
    <2> SUFFICES ASSUME NEW k \in 1..Len(w) PROVE stream'[st[i] + k] = w[k]
      BY DEF LiesAt
    <2>1. st[i] + k \in 1..Len(stream)
      <3>1. PICK a \in Nat, c \in Nat, d \in Nat : a = st[i] /\ c = Len(w) /\ d = Len(stream)
        BY <1>1, <1>2
      <3>2. a + c <= d
        BY <1>3, <3>1
      <3>3. k \in 1..c
        BY <3>1
      <3>4. a + k \in 1..d
        BY ONLY a \in Nat, c \in Nat, d \in Nat, <3>2, <3>3
      <3> QED
        BY <3>1, <3>4
    <2> QED
      BY <1>3, <2>1 DEF LiesAt
  <1>5. st[i] = off[i - 1] + 1 => stream'[st[i]] = stream[st[i]]
    <2>1. PICK a \in Nat, b \in Nat, c \in Nat, d \in Nat :
            a = st[i] /\ b = off[i - 1] /\ c = Len(w) /\ d = Len(stream)
      BY <1>1, <1>2
    <2>2. a + c <= d
      BY <1>3, <2>1
    <2>3. a = b + 1 => a \in 1..d
      BY ONLY a \in Nat, b \in Nat, c \in Nat, d \in Nat, <2>2
    <2> QED
      BY <2>1, <2>3
  <1>6. off[i] <= Len(stream')
    BY <1>1, <1>3
  <1>7. WireBytes(sentMessages'[i]) = w
    BY DEF w
  <1> QED
    BY <1>3, <1>4, <1>5, <1>6, <1>7 DEF Placed

LEMMA SendMessageMessages ==
  ASSUME TypeOK, StorePart, MessagePart, NEW m \in Messages, SendMessage(m)
  PROVE  MessagePart'
  <1>1. PICK off, st : Layout(off, st) /\ Position(off, st)
    BY DEF MessagePart
  <1> DEFINE w == WireBytes(m)
  <1>0. PICK n \in Nat : n = Len(sentMessages)
    BY DEF TypeOK
  <1>2. /\ sentMessages' = Append(sentMessages, m) /\ stream' = stream \o w
        /\ UNCHANGED <<readVars, read_buffer_, arrived, consumed>>
        /\ noisy' = noisy /\ parsed' = parsed
    BY DEF SendMessage
  <1>3. w \in Seq(Byte) /\ Len(w) \in Nat
    BY WireTyped
  <1>4. /\ sentMessages \in Seq(Messages) /\ n = Len(sentMessages) /\ Len(stream) \in Nat /\ Len(parsed) \in Nat
        /\ consumed \in 0..Len(stream)
    BY <1>0 DEF TypeOK
  <1>5. /\ Len(sentMessages') = n + 1 /\ sentMessages'[n + 1] = m
        /\ \A i \in 1..n : sentMessages'[i] = sentMessages[i] /\ sentMessages[i] \in Messages
    BY <1>2, <1>4, AppendProperties, ElementOfSeq
  <1>6. /\ Len(stream') = Len(stream) + Len(w)
        /\ \A k \in 1..Len(stream) : stream'[k] = stream[k]
        /\ LiesAt(stream', Len(stream), w)
    BY <1>2, <1>3, StreamGrows DEF LiesAt
  <1>7. /\ off \in [0..n -> Nat] /\ st \in [1..n -> Nat] /\ off[0] = 0
        /\ \A i \in 1..n : Placed(i, off, st)
        /\ Len(stream) = off[n] \/ (Len(stream) = off[n] + 1 /\ noisy /\ stream[Len(stream)] \in Noise)
    BY <1>0, <1>1 DEF Layout
  <1>8. PICK off2, st2 :
          /\ off2 = [i \in 0..(n + 1) |-> IF i <= n THEN off[i] ELSE Len(stream) + Len(w)]
          /\ st2 = [i \in 1..(n + 1) |-> IF i <= n THEN st[i] ELSE Len(stream)]
    OBVIOUS
  <1> HIDE DEF w
  <1>9. /\ \A i \in 0..n : off2[i] = off[i]
        /\ \A i \in 1..n : st2[i] = st[i]
        /\ off2[n + 1] = Len(stream) + Len(w) /\ st2[n + 1] = Len(stream)
    BY <1>8
  <1>10. off2 \in [0..(n + 1) -> Nat] /\ st2 \in [1..(n + 1) -> Nat]
    <2>1. \A i \in 0..(n + 1) : i <= n => off[i] \in Nat
      BY <1>7
    <2>2. \A i \in 1..(n + 1) : i <= n => st[i] \in Nat
      BY <1>7
    <2>3. Len(stream) + Len(w) \in Nat
      BY <1>3, <1>4
    <2> QED
      BY <1>4, <1>8, <2>1, <2>2, <2>3
  <1>11. \A i \in 1..n : Placed(i, off2, st2)'
    <2> SUFFICES ASSUME NEW i \in 1..n PROVE Placed(i, off2, st2)'
      OBVIOUS
    <2>1. i \in 0..n /\ i - 1 \in 0..n
      BY <1>4
    <2>2. off2[i] = off[i] /\ off2[i - 1] = off[i - 1] /\ st2[i] = st[i]
      BY <1>9, <2>1
    <2>3. Len(stream') \in Nat /\ Len(stream') >= Len(stream)
      BY <1>3, <1>4, <1>6
    <2> QED
      BY <1>2, <1>4, <1>5, <1>6, <1>7, <2>2, <2>3, PlacedKeeps
  <1>12. Placed(n + 1, off2, st2)'
    <2>1. (n + 1) - 1 = n /\ off2[n] = off[n] /\ off[n] \in Nat
      BY <1>4, <1>7, <1>9
    <2>2. \/ st2[n + 1] = off[n]
          \/ st2[n + 1] = off[n] + 1 /\ noisy' /\ stream'[st2[n + 1]] \in Noise
      <3>1. Len(stream) = off[n] + 1 => Len(stream) \in 1..Len(stream)
        BY <1>4, <2>1
      <3> QED
        BY <1>2, <1>6, <1>7, <1>9, <3>1
    <2>3. off2[n + 1] = st2[n + 1] + Len(w) /\ off2[n + 1] <= Len(stream')
      BY <1>3, <1>4, <1>6, <1>9
    <2>4. WireBytes(sentMessages'[n + 1]) = w
      BY <1>5 DEF w
    <2> QED
      BY <1>6, <1>9, <2>1, <2>2, <2>3, <2>4 DEF Placed
  <1>13. Layout(off2, st2)'
    <2>1. \A i \in 1..(n + 1) : Placed(i, off2, st2)'
      <3>1. \A i \in 1..(n + 1) : i \in 1..n \/ i = n + 1
        BY <1>4
      <3> QED
        BY <1>11, <1>12, <3>1
    <2>2. off2[0] = 0
      BY <1>4, <1>7, <1>9
    <2>3. Len(stream') = off2[n + 1]
      BY <1>6, <1>9
    <2> QED
      BY <1>5, <1>10, <2>1, <2>2, <2>3 DEF Layout
  <1>14. Position(off2, st2)'
    <2>1. Len(parsed) <= n /\ \A i \in 1..Len(parsed) : parsed[i] = sentMessages[i]
      BY <1>0, <1>1 DEF Position
    <2>2. Len(parsed) <= n + 1 /\ Len(parsed) # n + 1 /\ Len(parsed) \in 0..n
      BY <1>4, <2>1
    <2>3. \A i \in 1..Len(parsed) : i \in 1..n
      BY <1>4, <2>1
    <2>4. \A i \in 1..Len(parsed) : parsed[i] = sentMessages'[i]
      BY <1>5, <2>1, <2>3
    <2>5. \/ consumed = off[Len(parsed)]
          \/ /\ consumed = off[Len(parsed)] + 1 /\ stream[consumed] \in Noise
             /\ Len(parsed) < n => st[Len(parsed) + 1] = consumed
             /\ Len(parsed) = n => Len(stream) = consumed
      BY <1>0, <1>1 DEF Position
    <2>6. off2[Len(parsed)] = off[Len(parsed)] /\ off[Len(parsed)] \in Nat
      BY <1>7, <1>9, <2>2
    <2>7. consumed = off[Len(parsed)] + 1 => stream'[consumed] = stream[consumed]
      <3>1. consumed = off[Len(parsed)] + 1 => consumed \in 1..Len(stream)
        BY <1>4, <2>6
      <3> QED
        BY <1>6, <3>1
    <2>8. Len(parsed) < n => st2[Len(parsed) + 1] = st[Len(parsed) + 1]
      <3>1. Len(parsed) < n => Len(parsed) + 1 \in 1..n
        BY <1>4
      <3> QED
        BY <1>9, <3>1
    <2>9. Len(parsed) = n => st2[Len(parsed) + 1] = Len(stream)
      BY <1>9
    <2>10. Len(parsed) < n \/ Len(parsed) = n
      BY <1>4, <2>1
    <2>11. \/ consumed = off2[Len(parsed)]
           \/ /\ consumed = off2[Len(parsed)] + 1 /\ stream'[consumed] \in Noise
              /\ st2[Len(parsed) + 1] = consumed
      BY <2>5, <2>6, <2>7, <2>8, <2>9, <2>10
    <2> QED
      BY <1>2, <1>5, <2>2, <2>4, <2>11 DEF Position
  <1> QED
    BY <1>13, <1>14 DEF MessagePart

LEMMA SendNoiseMessages ==
  ASSUME TypeOK, StorePart, MessagePart, NEW b \in Noise, SendNoise(b)
  PROVE  MessagePart' /\ \A k \in 1..Len(stream) : stream'[k] = stream[k]
  <1>1. PICK off, st : Layout(off, st) /\ Position(off, st)
    BY DEF MessagePart
  <1>2. PICK n \in Nat : n = Len(sentMessages)
    BY DEF TypeOK
  <1>3. /\ stream' = Append(stream, b) /\ ~noisy /\ noisy' = TRUE
        /\ consumed' = consumed /\ parsed' = parsed /\ sentMessages' = sentMessages
    BY DEF SendNoise
  <1>4. /\ sentMessages \in Seq(Messages) /\ Len(stream) \in Nat /\ Len(parsed) \in Nat
        /\ consumed \in 0..Len(stream) /\ stream \in Seq(Byte) /\ b \in Byte
    BY RequestPathAssumption DEF TypeOK
  <1>5. /\ Len(stream') = Len(stream) + 1 /\ stream'[Len(stream) + 1] = b
        /\ \A k \in 1..Len(stream) : stream'[k] = stream[k]
    BY <1>3, <1>4, AppendProperties
  <1>6. /\ off \in [0..n -> Nat] /\ st \in [1..n -> Nat] /\ off[0] = 0
        /\ \A i \in 1..n : Placed(i, off, st)
        /\ Len(stream) = off[n]
    BY <1>1, <1>2, <1>3 DEF Layout
  <1>7. \A i \in 1..n : Placed(i, off, st)'
    <2> SUFFICES ASSUME NEW i \in 1..n PROVE Placed(i, off, st)'
      OBVIOUS
    <2>1. sentMessages'[i] = sentMessages[i] /\ sentMessages[i] \in Messages
      BY <1>2, <1>3, <1>4, ElementOfSeq
    <2>2. Len(stream') \in Nat /\ Len(stream') >= Len(stream)
      BY <1>4, <1>5
    <2> QED
      BY <1>3, <1>4, <1>5, <1>6, <2>1, <2>2, PlacedKeeps
  <1>8. Layout(off, st)'
    <2>1. Len(stream') = off[n] + 1 /\ stream'[Len(stream')] \in Noise
      BY <1>5, <1>6
    <2> QED
      BY <1>2, <1>3, <1>6, <1>7, <2>1 DEF Layout
  <1>9. Position(off, st)'
    <2>1. /\ Len(parsed) <= n /\ \A i \in 1..Len(parsed) : parsed[i] = sentMessages[i]
          /\ \/ consumed = off[Len(parsed)]
             \/ /\ consumed = off[Len(parsed)] + 1 /\ stream[consumed] \in Noise
                /\ Len(parsed) < n => st[Len(parsed) + 1] = consumed
                /\ Len(parsed) = n => Len(stream) = consumed
      BY <1>1, <1>2 DEF Position
    <2>2. off[Len(parsed)] \in Nat
      BY <1>4, <1>6, <2>1
    <2>3. consumed = off[Len(parsed)] + 1 => Len(parsed) # n /\ stream'[consumed] = stream[consumed]
      <3>1. consumed = off[Len(parsed)] + 1 => consumed \in 1..Len(stream)
        BY <1>4, <2>2
      <3>2. consumed = off[n] + 1 => Len(stream) # consumed
        BY <1>4, <1>6
      <3> QED
        BY <1>5, <2>1, <3>1, <3>2
    <2> QED
      BY <1>2, <1>3, <2>1, <2>3 DEF Position
  <1> QED
    BY <1>5, <1>8, <1>9 DEF MessagePart

LEMMA InitMessages == Init => MessagePart /\ ReadingPart
  <1> SUFFICES ASSUME Init PROVE MessagePart /\ ReadingPart
    OBVIOUS
  <1>1. /\ stream = <<>> /\ arrived = 0 /\ sentMessages = <<>> /\ noisy = FALSE
        /\ consumed = 0 /\ parsed = <<>>
    BY DEF Init
  <1>2. TypeOK /\ StorePart
    BY InitStore
  <1>3. MessagePart
    <2> DEFINE off == [i \in 0..0 |-> 0]
               st == [i \in 1..0 |-> 0]
    <2>1. /\ off \in [0..0 -> Nat] /\ off[0] = 0 /\ st \in [1..0 -> Nat]
      OBVIOUS
    <2>2. Len(sentMessages) = 0 /\ Len(parsed) = 0 /\ Len(stream) = 0
      BY <1>1
    <2> HIDE DEF off, st
    <2>3. Layout(off, st)
      BY <2>1, <2>2 DEF Layout
    <2>4. Position(off, st)
      BY <1>1, <2>1, <2>2 DEF Position
    <2> QED
      BY <2>3, <2>4 DEF MessagePart
  <1>4. NothingWholeLeft
    <2>1. Len(Readable(read_buffer_)) = 0 /\ IsBuffer(read_buffer_)
      BY <1>1, <1>2, Unread DEF TypeOK
    <2>2. Len(Readable(read_buffer_)) < HEADER_SIZE
      BY <2>1 DEF HEADER_SIZE
    <2>3. ParseOutcome(read_buffer_) = "short"
      BY <2>1, <2>2, ParseOutcomes
    <2> QED
      BY <2>3 DEF NothingWholeLeft
  <1>5. ReadHasRoom
    <2>1. PICK b \in {NewBuffer(BufSize, TRUE), NewBuffer(DynamicSize, FALSE)} :
            /\ read_buffer_ = EnsureWritable(b, Room(b))
            /\ room = WritableBytes(read_buffer_)
      BY DEF Init
    <2>2. BufSize \in Nat /\ BufSize > 0 /\ DynamicSize \in Nat /\ TRUE \in BOOLEAN /\ FALSE \in BOOLEAN
      BY RequestPathAssumption
    <2>3. IsBuffer(b) /\ ReadableBytes(b) = 0 /\ (b.is_fixed_ => capacity_(b) = BufSize)
      <3>1. CASE b = NewBuffer(BufSize, TRUE)
        BY <2>2, <3>1, EmptyBuffer
      <3>2. CASE b = NewBuffer(DynamicSize, FALSE)
        BY <2>2, <3>2, EmptyBuffer, Zenon
      <3> QED
        BY <3>1, <3>2
    <2>4. room > 0 \/ (b.is_fixed_ /\ room = capacity_(b) - ReadableBytes(b))
      BY <2>1, <2>3, RoomMade
    <2>5. room > 0
      BY <2>2, <2>3, <2>4
    <2> QED
      BY <2>5 DEF ReadHasRoom
  <1> QED
    BY <1>3, <1>4, <1>5 DEF ReadingPart

-----------------------------------------------------------------------------
(* The invariant and the theorems. *)

\* The inductive invariant.
Inv == TypeOK /\ StorePart /\ MessagePart /\ ReadingPart

LEMMA InitInv == Init => Inv
  BY InitStore, InitMessages DEF Inv

LEMMA NextInv == Inv /\ [Next]_vars => Inv'
  <1> SUFFICES ASSUME TypeOK, StorePart, MessagePart, ReadingPart, [Next]_vars PROVE Inv'
    BY DEF Inv
  <1>1. ASSUME NEW m \in Messages, SendMessage(m) PROVE Inv'
    <2>1. TypeOK' /\ StorePart'
      BY <1>1, SendMessageStore
    <2>2. MessagePart'
      BY <1>1, SendMessageMessages
    <2>3. /\ stream' = stream \o WireBytes(m) /\ noisy' = noisy
          /\ UNCHANGED <<readVars, read_buffer_, arrived, consumed>>
          /\ pc' = pc /\ room' = room
      BY <1>1 DEF SendMessage, readVars
    <2>4. WireBytes(m) \in Seq(Byte)
      BY WireTyped
    <2>5. \A k \in 1..Len(stream) : stream'[k] = stream[k]
      BY <2>3, <2>4, StreamGrows
    <2>6. ReadingPart'
      BY <2>3, <2>5, ReadingFrame
    <2> QED
      BY <2>1, <2>2, <2>6 DEF Inv
  <1>2. ASSUME NEW b \in Noise, SendNoise(b) PROVE Inv'
    <2>1. TypeOK' /\ StorePart'
      BY <1>2, SendNoiseStore
    <2>2. MessagePart' /\ \A k \in 1..Len(stream) : stream'[k] = stream[k]
      BY <1>2, SendNoiseMessages
    <2>3. /\ noisy' = TRUE /\ pc' = pc /\ room' = room
          /\ read_buffer_' = read_buffer_ /\ consumed' = consumed
      BY <1>2 DEF SendNoise, readVars
    <2>4. ReadingPart'
      BY <2>2, <2>3, ReadingFrame
    <2> QED
      BY <2>1, <2>2, <2>4 DEF Inv
  <1>3. CASE PeerClose
    <2>1. UNCHANGED <<readVars, read_buffer_, arrived, stream, sentMessages, noisy, consumed, parsed, dispatched>>
          /\ peerClosed' = TRUE /\ pc' = pc /\ at' = at /\ room' = room
      BY <1>3 DEF PeerClose, readVars
    <2>2. TypeOK'
      BY <2>1 DEF TypeOK
    <2>3. StorePart'
      BY <2>1 DEF StorePart, BufferHoldsStream, ReadTargetsFreeSpace
    <2>4. MessagePart'
      BY <2>1, MessageFrame
    <2>5. ReadingPart'
      BY <2>1, ReadingFrame
    <2> QED
      BY <2>2, <2>3, <2>4, <2>5 DEF Inv
  <1>4. CASE DataArrives
    <2>1. TypeOK' /\ StorePart'
      BY <1>4, DataArrivesStore
    <2>2. pc' = "parsing" /\ UNCHANGED <<stream, sentMessages, noisy, parsed, consumed>>
      BY <1>4 DEF DataArrives, ReadCompletes, peerVars
    <2>3. MessagePart'
      BY <2>2, MessageFrame
    <2>4. ReadingPart'
      BY <2>2 DEF ReadingPart, NothingWholeLeft, ReadHasRoom
    <2> QED
      BY <2>1, <2>3, <2>4 DEF Inv
  <1>5. CASE ReadReturnsZero \/ ReadFails
    <2>1. /\ pc' \in {"eof", "error"}
          /\ UNCHANGED <<at, room, read_buffer_, arrived, stream, peerClosed, sentMessages, noisy,
                         consumed, parsed, dispatched>>
      BY <1>5 DEF ReadReturnsZero, ReadFails, peerVars
    <2>2. TypeOK'
      BY <2>1 DEF TypeOK
    <2>3. StorePart'
      BY <2>1 DEF StorePart, BufferHoldsStream, ReadTargetsFreeSpace
    <2>4. MessagePart'
      BY <2>1, MessageFrame
    <2>5. ReadingPart'
      BY <2>1 DEF ReadingPart, NothingWholeLeft, ReadHasRoom
    <2> QED
      BY <2>2, <2>3, <2>4, <2>5 DEF Inv
  <1>6. CASE ParseMessage
    BY <1>6, ParseMessageStore, ParseMessageStep DEF Inv
  <1>7. CASE ParseBreaks
    BY <1>7, ParseBreaksStore, ParseBreaksMessages, ParseBreaksReading DEF Inv
  <1>8. CASE UNCHANGED vars
    <2>1. UNCHANGED <<pc, at, room, read_buffer_, arrived, stream, peerClosed, sentMessages, noisy,
                      consumed, parsed, dispatched>>
      BY <1>8 DEF vars, readVars, peerVars
    <2>2. TypeOK'
      BY <2>1 DEF TypeOK
    <2>3. StorePart'
      BY <2>1 DEF StorePart, BufferHoldsStream, ReadTargetsFreeSpace
    <2>4. MessagePart'
      BY <2>1, MessageFrame
    <2>5. ReadingPart'
      BY <2>1, ReadingFrame
    <2> QED
      BY <2>2, <2>3, <2>4, <2>5 DEF Inv
  <1> QED
    BY <1>1, <1>2, <1>3, <1>4, <1>5, <1>6, <1>7, <1>8 DEF Next, PeerStep

THEOREM Invariance == Spec => []Inv
  BY InitInv, NextInv, PTL DEF Spec

\* Every variable keeps its type: the indices of the read buffer stay within
\* its storage, and no more is taken from it than has arrived.
THEOREM TypeCorrect == Spec => []TypeOK
  <1>1. Inv => TypeOK
    BY DEF Inv
  <1> QED
    BY <1>1, Invariance, PTL

\* For every buffer size, message set and fragmentation: what can be read from
\* the buffer is the part of the stream that has arrived and was not taken.
THEOREM BufferIsStream == Spec => []BufferHoldsStream
  <1>1. Inv => BufferHoldsStream
    BY DEF Inv, StorePart
  <1> QED
    BY <1>1, Invariance, PTL

\* For every buffer size the kernel is only ever given the free part of the
\* read buffer to write to.
THEOREM ReadIntoFreeSpace == Spec => []ReadTargetsFreeSpace
  <1>1. Inv => ReadTargetsFreeSpace
    BY DEF Inv, StorePart
  <1> QED
    BY <1>1, Invariance, PTL

\* The inner loop of handleConnection leaves no whole message in the buffer
\* when it reads again, except right behind a byte of noise.
THEOREM LoopTakesAll == Spec => []NothingWholeLeft
  <1>1. Inv => NothingWholeLeft
    BY DEF Inv, ReadingPart
  <1> QED
    BY <1>1, Invariance, PTL

\* When every message fits into the fixed buffer, a read always has room.
THEOREM RoomForRead == Spec => []ReadHasRoom
  <1>1. Inv => ReadHasRoom
    BY DEF Inv, ReadingPart
  <1> QED
    BY <1>1, Invariance, PTL

\* coro.h:58 on a read that returns 0, "Connection closed by peer", for a clean
\* stream of messages that fit into the buffer, if the buffer is a fixed one.
EofMeansPeerClosedIfFitting ==
  (read_buffer_.is_fixed_ => AllMessagesFit) /\ ~noisy /\ pc = "eof" => peerClosed

\* So read, the log message is true: such a connection never offers the kernel a
\* buffer without room, and 0 bytes are then the end of the stream.
THEOREM EofIsPeerClose == Spec => []EofMeansPeerClosedIfFitting
  <1>1. Init => EofMeansPeerClosedIfFitting
    BY DEF Init, EofMeansPeerClosedIfFitting
  <1>2. ASSUME Inv, EofMeansPeerClosedIfFitting, [Next]_vars
        PROVE  EofMeansPeerClosedIfFitting'
    <2> SUFFICES ASSUME (read_buffer_'.is_fixed_ => AllMessagesFit), ~noisy', pc' = "eof" PROVE peerClosed'
      BY Zenon DEF EofMeansPeerClosedIfFitting, AllMessagesFit, WireBytes
    <2>1. CASE ReadReturnsZero
      <3>1. /\ pc = "reading" /\ read_buffer_' = read_buffer_ /\ noisy' = noisy /\ peerClosed' = peerClosed
            /\ peerClosed \/ room = 0
        BY <2>1 DEF ReadReturnsZero, peerVars
      <3>2. room > 0
        BY <1>2, <3>1 DEF Inv, ReadingPart, ReadHasRoom
      <3> QED
        BY <3>1, <3>2
    <2>2. CASE ~ReadReturnsZero
      <3>1. pc = "eof" /\ read_buffer_' = read_buffer_ /\ (noisy => noisy')
        <4>1. CASE PeerStep
          BY <4>1 DEF PeerStep, SendMessage, SendNoise, PeerClose, readVars
        <4>2. CASE DataArrives
          BY <4>2, "parsing" # "eof", Zenon DEF DataArrives, ReadCompletes
        <4>3. CASE ReadFails
          BY <4>3, "error" # "eof", Zenon DEF ReadFails
        <4>4. CASE ParseMessage
          BY <4>4, "parsing" # "eof", Zenon DEF ParseMessage, readVars
        <4>5. CASE ParseBreaks
          BY <4>5, "reading" # "eof", Zenon DEF ParseBreaks, Read
        <4>6. CASE UNCHANGED vars
          BY <4>6, Zenon DEF vars, readVars, peerVars
        <4> QED
          BY <1>2, <2>2, <4>1, <4>2, <4>3, <4>4, <4>5, <4>6, Zenon DEF Next
      <3>2. peerClosed => peerClosed'
        <4>1. CASE PeerStep
          BY <4>1, Zenon DEF PeerStep, SendMessage, SendNoise, PeerClose
        <4>2. CASE DataArrives \/ ReadFails \/ ParseMessage \/ ParseBreaks \/ UNCHANGED vars
          BY <4>2, Zenon DEF DataArrives, ReadCompletes, ReadFails, ParseMessage, ParseBreaks, vars, peerVars
        <4> QED
          BY <1>2, <2>2, <4>1, <4>2, Zenon DEF Next
      <3> QED
        BY <1>2, <3>1, <3>2 DEF EofMeansPeerClosedIfFitting
    <2> QED
      BY <2>1, <2>2
  <1> QED
    BY <1>1, <1>2, Invariance, PTL DEF Spec

\* For every message set, every fragmentation and every byte of noise: the
\* messages ParseMessage returns are those the peer sent, in their order.
THEOREM ParsedInOrder == Spec => []ParsedAsSent
  <1>1. Inv => ParsedAsSent
    <2> SUFFICES ASSUME TypeOK, MessagePart PROVE ParsedAsSent
      BY DEF Inv
    <2> DEFINE p == Len(parsed)
               t == SubSeq(sentMessages, 0 + 1, p)
    <2>1. p <= Len(sentMessages) /\ \A i \in 1..p : parsed[i] = sentMessages[i]
      BY DEF MessagePart, Position
    <2>2. sentMessages \in Seq(Messages) /\ parsed \in Seq(MessageRecord) /\ p \in Nat
      BY DEF TypeOK, MessageRecord
    <2>3. p \in 0..Len(sentMessages) /\ 0 \in 0..p /\ p - 0 = p
      BY <2>1, <2>2
    <2>4. t \in Seq(Messages) /\ Len(t) = p - 0 /\ \A i \in 1..(p - 0) : t[i] = sentMessages[0 + i]
      BY <2>2, <2>3, Slice
    <2>5. t = SubSeq(sentMessages, 1, p)
      OBVIOUS
    <2> HIDE DEF t
    <2>6. Len(t) = Len(parsed) /\ \A i \in 1..Len(parsed) : parsed[i] = t[i]
      BY <2>1, <2>3, <2>4
    <2>7. t \in Seq(MessageRecord)
      <3>1. Messages \subseteq MessageRecord
        BY RequestPathAssumption DEF MessageRecord
      <3> QED
        BY <2>4, <3>1
    <2>8. parsed = t
      BY <2>2, <2>6, <2>7, SeqEqual
    <2> QED
      BY <2>1, <2>5, <2>8 DEF ParsedAsSent
  <1> QED
    BY <1>1, Invariance, PTL

\* One more message, dispatched if it is a request.
LEMMA PicksOneMore ==
  ASSUME NEW ms \in Seq(MessageRecord), NEW ds \in Seq(MessageRecord), NEW m \in MessageRecord,
         NEW f, PicksRequests(f, ms, ds)
  PROVE  \E g : PicksRequests(g, Append(ms, m), IF m.msg_type = 0 THEN Append(ds, m) ELSE ds)
  <1> DEFINE n == Len(ms)
             d == Len(ds)
             more == Append(ms, m)
  <1>1. n \in Nat /\ d \in Nat
    OBVIOUS
  <1>2. Len(more) = n + 1 /\ more[n + 1] = m /\ \A i \in 1..n : more[i] = ms[i]
    OBVIOUS
  <1>3. /\ f \in [1..d -> 1..n]
        /\ \A j, k \in 1..d : j < k => f[j] < f[k]
        /\ {f[k] : k \in 1..d} = {i \in 1..n : ms[i].msg_type = 0}
        /\ \A k \in 1..d : ds[k] = ms[f[k]]
    BY DEF PicksRequests
  <1>4. 1..(n + 1) = 1..n \cup {n + 1} /\ n + 1 \notin 1..n
    BY <1>1
  <1>5. CASE m.msg_type # 0
    <2>1. {i \in 1..(n + 1) : more[i].msg_type = 0} = {i \in 1..n : ms[i].msg_type = 0}
      <3> HIDE DEF more, n
      <3> QED
        BY <1>2, <1>4, <1>5
    <2>2. f \in [1..d -> 1..(n + 1)] /\ \A k \in 1..d : ds[k] = more[f[k]]
      <3> HIDE DEF more, n, d
      <3> QED
        BY <1>2, <1>3, <1>4
    <2>3. PicksRequests(f, more, ds)
      <3>1. Len(more) = n + 1
        BY <1>2
      <3> HIDE DEF more, n
      <3> QED
        BY <1>3, <2>1, <2>2, <3>1 DEF PicksRequests
    <2> QED
      BY <1>5, <2>3
  <1>6. CASE m.msg_type = 0
    <2> DEFINE all == Append(ds, m)
               g == [k \in 1..(d + 1) |-> IF k = d + 1 THEN n + 1 ELSE f[k]]
    <2>1. Len(all) = d + 1 /\ all[d + 1] = m /\ \A k \in 1..d : all[k] = ds[k]
      OBVIOUS
    <2>2. 1..(d + 1) = 1..d \cup {d + 1} /\ d + 1 \notin 1..d /\ d + 1 \in 1..(d + 1)
      BY <1>1
    <2>3. g[d + 1] = n + 1 /\ \A k \in 1..d : g[k] = f[k]
      BY <2>2
    <2>4. g \in [1..(d + 1) -> 1..(n + 1)]
      <3> HIDE DEF n, d, more, all
      <3> QED
        BY <1>3, <1>4, <2>2
    <2> HIDE DEF g, all, more, n, d
    <2>5. {g[k] : k \in 1..(d + 1)} = {f[k] : k \in 1..d} \cup {n + 1}
      BY <2>2, <2>3
    <2>6. {i \in 1..(n + 1) : more[i].msg_type = 0} = {i \in 1..n : ms[i].msg_type = 0} \cup {n + 1}
      BY <1>2, <1>4, <1>6
    <2>7. ASSUME NEW j \in 1..(d + 1), NEW k \in 1..(d + 1), j < k PROVE g[j] < g[k]
      <3>1. j \in 1..d
        BY <1>1, <2>7
      <3>2. CASE k = d + 1
        <4>1. g[j] = f[j] /\ f[j] \in 1..n /\ g[k] = n + 1
          BY <1>3, <2>3, <3>1, <3>2
        <4> QED
          BY <1>1, <4>1
      <3>3. CASE k \in 1..d
        BY <1>3, <2>3, <2>7, <3>1, <3>3
      <3> QED
        BY <2>2, <3>2, <3>3
    <2>8. ASSUME NEW k \in 1..(d + 1) PROVE all[k] = more[g[k]]
      <3>1. CASE k = d + 1
        BY <1>2, <2>1, <2>3, <3>1
      <3>2. CASE k \in 1..d
        <4>1. f[k] \in 1..n /\ ds[k] = ms[f[k]]
          BY <1>3, <3>2
        <4> QED
          BY <1>2, <2>1, <2>3, <3>2, <4>1
      <3> QED
        BY <2>2, <3>1, <3>2
    <2>9. PicksRequests(g, more, all)
      BY <1>2, <1>3, <2>1, <2>4, <2>5, <2>6, <2>7, <2>8 DEF PicksRequests
    <2> QED
      BY <1>6, <2>9 DEF more, all
  <1> QED
    BY <1>5, <1>6

\* The loop has dispatched the requests among what it parsed.
DispatchPart == \E f : PicksRequests(f, parsed, dispatched)

LEMMA InitDispatch == Init => DispatchPart
  <1> SUFFICES ASSUME Init PROVE DispatchPart
    OBVIOUS
  <1> DEFINE e == [k \in 1..0 |-> 0]
  <1>1. parsed = <<>> /\ dispatched = <<>> /\ Len(parsed) = 0 /\ Len(dispatched) = 0 /\ 1..0 = {}
    BY DEF Init
  <1>2. e \in [1..0 -> 1..0]
    BY <1>1
  <1> HIDE DEF e
  <1>3. PicksRequests(e, parsed, dispatched)
    BY <1>1, <1>2 DEF PicksRequests
  <1> QED
    BY <1>3 DEF DispatchPart

LEMMA NextDispatch == TypeOK /\ TypeOK' /\ DispatchPart /\ [Next]_vars => DispatchPart'
  <1> SUFFICES ASSUME TypeOK, TypeOK', DispatchPart, [Next]_vars PROVE DispatchPart'
    OBVIOUS
  <1>1. CASE ParseMessage
    <2> DEFINE m == ParsedMessage(read_buffer_)
    <2>1. /\ parsed' = Append(parsed, m)
          /\ dispatched' = IF m.msg_type = 0 THEN Append(dispatched, m) ELSE dispatched
      BY <1>1 DEF ParseMessage
    <2> HIDE DEF m
    <2>2. parsed \in Seq(MessageRecord) /\ dispatched \in Seq(MessageRecord) /\ parsed' \in Seq(MessageRecord)
      BY DEF TypeOK, MessageRecord
    <2>3. m \in MessageRecord
      <3>1. Len(parsed') = Len(parsed) + 1 /\ parsed'[Len(parsed) + 1] = m /\ Len(parsed) \in Nat
        BY <2>1, <2>2, AppendProperties
      <3>2. Len(parsed) + 1 \in 1..Len(parsed')
        BY <3>1
      <3> QED
        BY <2>2, <3>1, <3>2, ElementOfSeq
    <2>4. PICK f : PicksRequests(f, parsed, dispatched)
      BY DEF DispatchPart
    <2>5. \E g : PicksRequests(g, Append(parsed, m), IF m.msg_type = 0 THEN Append(dispatched, m) ELSE dispatched)
      BY <2>2, <2>3, <2>4, PicksOneMore
    <2> QED
      BY <2>1, <2>5 DEF DispatchPart
  <1>2. CASE ~ParseMessage
    <2>1. parsed' = parsed /\ dispatched' = dispatched
      BY <1>2 DEF Next, PeerStep, SendMessage, SendNoise, PeerClose, DataArrives, ReadCompletes,
                  ReadReturnsZero, ReadFails, ParseBreaks, vars
    <2> QED
      BY <2>1 DEF DispatchPart
  <1> QED
    BY <1>1, <1>2

\* For every message set and fragmentation, handleRequest is called for exactly
\* the requests the peer sent, once each and in their order.
THEOREM DispatchedInOrder == Spec => []DispatchedAsSent
  <1>1. Spec => []DispatchPart
    BY InitDispatch, NextDispatch, TypeCorrect, PTL DEF Spec
  <1>2. ParsedAsSent /\ DispatchPart => DispatchedAsSent
    BY DEF DispatchedAsSent, DispatchPart, PicksRequests
  <1> QED
    BY <1>1, <1>2, ParsedInOrder, PTL

\* coro_echo.cpp:73-81 on top of CoroConnection::Read and ParseMessage is a
\* channel: for any messages, sizes and fragmentation every step of the peer, the
\* kernel and the read loop puts one message in, hands the next one over, or is
\* not seen.
THEOREM RequestsThroughChannel == Spec => ImplementsChannel
  <1>1. Init => Channel!Init
    BY DEF Init, Channel!Init
  <1>2. ASSUME Inv, [Next]_vars PROVE [Channel!Next]_<<sentMessages, parsed>>
    <2>1. ASSUME NEW m \in Messages, SendMessage(m) PROVE Channel!Next
      <3>1. sentMessages' = Append(sentMessages, m) /\ parsed' = parsed
        BY <2>1 DEF SendMessage
      <3> QED
        BY <3>1 DEF Channel!Next, Channel!Send
    <2>2. CASE ParseMessage
      <3>1. TypeOK /\ StorePart /\ MessagePart
        BY <1>2 DEF Inv
      <3>2. PICK off, st : Layout(off, st) /\ Position(off, st)
        BY <3>1 DEF MessagePart
      <3>3. /\ ParseOutcome(read_buffer_) = "message"
            /\ parsed' = Append(parsed, ParsedMessage(read_buffer_))
            /\ sentMessages' = sentMessages
        BY <2>2 DEF ParseMessage, peerVars
      <3>4. Len(parsed) < Len(sentMessages) /\ \E m \in Messages : MessageNext(off, st, m)
        BY <3>1, <3>2, <3>3, Front DEF NoiseNext
      <3>5. ParsedMessage(read_buffer_) = sentMessages[Len(parsed) + 1]
        BY <3>3, <3>4 DEF MessageNext
      <3> QED
        BY <3>3, <3>4, <3>5 DEF Channel!Next, Channel!Receive
    <2>3. CASE (\E b \in Noise : SendNoise(b)) \/ PeerClose
      BY <2>3 DEF SendNoise, PeerClose
    <2>4. CASE DataArrives \/ ReadReturnsZero \/ ReadFails \/ ParseBreaks \/ UNCHANGED vars
      BY <2>4, Zenon DEF DataArrives, ReadCompletes, ReadReturnsZero, ReadFails, ParseBreaks, peerVars, vars
    <2> QED
      BY <1>2, <2>1, <2>2, <2>3, <2>4 DEF Next, PeerStep
  <1> QED
    BY <1>1, <1>2, Invariance, PTL DEF Spec, ImplementsChannel, Channel!Spec

\* ParseMessage undoes EncodeMessage: from a buffer that starts with the bytes
\* of a message it takes these bytes and returns the message.
THEOREM RoundTrip ==
  ASSUME NEW m \in Messages, NEW b, IsBuffer(b), NEW rest \in Seq(Byte),
         Readable(b) = WireBytes(m) \o rest
  PROVE  /\ ParseOutcome(b) = "message"
         /\ ParsedMessage(b) = m
         /\ ParseConsumes(b) = Len(WireBytes(m))
  <1> DEFINE s == Readable(b)
             w == WireBytes(m)
  <1>1. w \in Seq(Byte) /\ Len(w) = HEADER_SIZE + Len(m.payload)
    BY WireTyped
  <1>2. IsMessage(m) /\ Len(m.payload) \in Nat /\ HEADER_SIZE \in Nat
    <2>1. IsMessage(m)
      BY MessagesAreMessages
    <2>2. m.payload \in Seq(Byte)
      BY ONLY <2>1 DEF IsMessage
    <2>3. Len(m.payload) \in Nat
      BY ONLY <2>2, LenProperties
    <2> QED
      BY <2>1, <2>3 DEF HEADER_SIZE
  <1>3. s \in Seq(Byte) /\ Len(s) = ReadableBytes(b) /\ Len(s) \in Nat
    BY ReadableFacts
  <1>4. IsCat(s, w, Len(w), rest, Len(rest))
    BY <1>1, ConcatAt
  <1>5. Len(s) = Len(w) + Len(rest) /\ \A k \in 1..Len(w) : s[k] = w[k]
    BY <1>4 DEF IsCat
  <1>6. PICK q \in Nat : q = 0
    OBVIOUS
  <1>7. LiesAt([k \in Nat |-> s[k]], q, s) /\ LiesAt([k \in Nat |-> s[k]], q, w)
    <2>1. \A k \in Nat : q + k = k
      BY <1>6
    <2>2. \A k \in 1..Len(s) : k \in Nat
      OBVIOUS
    <2>3. \A k \in 1..Len(w) : k \in Nat
      OBVIOUS
    <2> QED
      BY <1>5, <2>1, <2>2, <2>3 DEF LiesAt
  <1>8. Len(s) >= HEADER_SIZE + Len(m.payload) /\ Len(s) >= HEADER_SIZE
    <2>1. Len(rest) \in Nat
      OBVIOUS
    <2> QED
      BY <1>1, <1>2, <1>3, <1>5, <2>1
  <1>9. HeaderAt(s, m) /\ \A k \in 1..Len(m.payload) : s[HEADER_SIZE + k] = m.payload[k]
    <2> DEFINE str == [k \in Nat |-> s[k]]
    <2>1. LiesAt(str, q, s) /\ LiesAt(str, q, WireBytes(m))
      BY <1>7
    <2> HIDE DEF str
    <2> QED
      BY <1>3, <1>8, <2>1, MessageAtFront
  <1> QED
    BY <1>1, <1>2, <1>3, <1>8, <1>9, ParsesMessage

=============================================================================
