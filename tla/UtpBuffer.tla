----------------------------- MODULE UtpBuffer -----------------------------
(***************************************************************************)
(* SizableCircularBuffer (libutp/utp_internal.cpp): a ring of a power of   *)
(* two of slots, indexed by sequence numbers masked to its size.  A buffer *)
(* is its mask and its elements.                                           *)
(***************************************************************************)
EXTENDS Integers, FiniteSetsExt

CONSTANT NULL

Slots(n) == 0..(n - 1)

EmptyBuffer(size) == [mask |-> size - 1, elements |-> [i \in Slots(size) |-> NULL]]

Size(b) == b.mask + 1

Slot(b, i) == i % Size(b)       \* i & mask

Get(b, i) == b.elements[Slot(b, i)]

Put(b, i, x) == [b EXCEPT !.elements[Slot(b, i)] = x]

(* What doubling makes of one slot: a bound, larger than any ring needs.   *)
Powers == {1, 2, 4, 8, 16, 32, 64, 128, 256, 512, 1024, 2048, 4096, 8192, 16384, 32768, 65536}

(* Mutant of Grow: as large as it must be, which no mask fits.             *)
Grow_Exact(b, item, index) ==
  LET size  == index + 1
      first == item - index
      place(j) == (j - first) % size
  IN  [mask |-> size - 1,
       elements |-> [j \in Slots(size) |->
                       IF place(j) < Size(b) THEN Get(b, first + place(j)) ELSE NULL]]

(* Mutant of Grow: the elements keep their slots.                          *)
Grow_InPlace(b, item, index) ==
  LET size == Min({n \in {Size(b) * k : k \in Powers \ {1}} : index < n})
  IN  [mask |-> size - 1,
       elements |-> [j \in Slots(size) |-> IF j < Size(b) THEN b.elements[j] ELSE NULL]]

(* grow: the size is doubled until index fits, and the old ring is copied  *)
(* from the element item - index on, each element to its new slot.         *)
Grow(b, item, index) ==
  LET size  == Min({n \in {Size(b) * k : k \in Powers \ {1}} : index < n})
      first == item - index
      place(j) == (j - first) % size          \* j holds the place(j)-th copied
  IN  [mask |-> size - 1,
       elements |-> [j \in Slots(size) |->
                       IF place(j) < Size(b) THEN Get(b, first + place(j)) ELSE NULL]]

EnsureSize(b, item, index) == IF index > b.mask THEN Grow(b, item, index) ELSE b
=============================================================================
