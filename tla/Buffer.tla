------------------------------- MODULE Buffer -------------------------------
(***************************************************************************)
(* class Buffer (src/buffer.h): a byte array with a read and a write index. *)
(* A buffer is a record; mem is the storage (the vector data_ or the         *)
(* registered memory behind external_data_), whose length is capacity_.      *)
(* The indices count from 0 as in the code: the byte at index i is           *)
(* mem[i + 1].                                                               *)
(***************************************************************************)
EXTENDS Integers, Sequences

Byte == 0..255

\* A buffer whose indices are within its storage.
IsBuffer(b) ==
  /\ b \in [mem : Seq(Byte), is_fixed_ : BOOLEAN, write_idx_ : Nat, read_idx_ : Nat]
  /\ b.read_idx_ <= b.write_idx_
  /\ b.write_idx_ <= Len(b.mem)

\* The three constructors: the default one is NewBuffer(0, FALSE).
NewBuffer(capacity, fixed) ==
  [mem |-> [i \in 1..capacity |-> 0], is_fixed_ |-> fixed,
   write_idx_ |-> 0, read_idx_ |-> 0]

capacity_(b) == Len(b.mem)

WritableBytes(b) == capacity_(b) - b.write_idx_

ReadableBytes(b) == b.write_idx_ - b.read_idx_

HasWritten(b, len) == [b EXCEPT !.write_idx_ = @ + len]

HasRead(b, len) == [b EXCEPT !.read_idx_ = @ + len]

\* The bytes from ReadBegin() on that are readable (GetSpan).
Readable(b) == SubSeq(b.mem, b.read_idx_ + 1, b.write_idx_)

\* bytes are copied to the storage from index at on (memcpy, or the kernel).
Store(b, at, bytes) ==
  [b EXCEPT !.mem = SubSeq(@, 1, at) \o bytes \o SubSeq(@, at + Len(bytes) + 1, Len(@))]

\* Mutant: the indices move, the bytes do not.
CompactMovesNothing(b) ==
  [b EXCEPT !.read_idx_ = 0, !.write_idx_ = ReadableBytes(b)]

\* memmove of the readable bytes to the front.
Compact(b) ==
  IF b.read_idx_ = 0 THEN b
  ELSE [b EXCEPT !.mem = Readable(b) \o SubSeq(@, ReadableBytes(b) + 1, Len(@)),
                 !.read_idx_ = 0,
                 !.write_idx_ = ReadableBytes(b)]

\* data_.resize(capacity), to a larger capacity: the new bytes are zero.
Resize(b, capacity) ==
  [b EXCEPT !.mem = @ \o [i \in 1..(capacity - Len(@)) |-> 0]]

\* Mutant: a full fixed buffer is not compacted.
EnsureWritableNoCompact(b, len) ==
  IF WritableBytes(b) >= len \/ b.is_fixed_ THEN b
  ELSE Resize(b, b.write_idx_ + len)

\* The buffer that EnsureWritable(len) leaves.  Its result is FALSE iff
\* WritableBytes of that buffer is still less than len.
EnsureWritable(b, len) ==
  IF WritableBytes(b) >= len THEN b
  ELSE LET c == Compact(b)
       IN  IF WritableBytes(c) >= len \/ c.is_fixed_ THEN c
           ELSE Resize(c, c.write_idx_ + len)
=============================================================================
