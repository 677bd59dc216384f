------------------------- MODULE UtpTransfer_proofs -------------------------
(***************************************************************************)
(* Proofs about one direction of a connection on its rings, for any sizes, *)
(* limits and MTUs, whatever the network does: types, and then, if fewer   *)
(* packets are sent than there are sequence numbers (NoWrap), that the     *)
(* rings lose and confuse nothing, that the search for the MTU stays in    *)
(* its interval, and that the stream arrives.                              *)
(***************************************************************************)
EXTENDS UtpTransfer, Basics, FunctionTheorems

-----------------------------------------------------------------------------
(* Sequence numbers                                                        *)

SeqNrs == 0..(Modulus - 1)

LEMMA Counts ==
  /\ Modulus \in Nat \ {0} /\ Modulus \in Int /\ InitialSize \in Nat /\ InitialSize > 1
  /\ ReorderMax \in Nat /\ 2 * ReorderMax <= Modulus /\ OutMax \in Nat /\ OutMax # 0
  /\ OutMax <= ReorderMax /\ SeqNr \in SeqNrs /\ SeqNr \in Int
BY BufferAssumption DEF Powers, SeqNrs

LEMMA ModSeqNr == \A n \in Int : Mod(n) \in SeqNrs /\ Mod(n) \in Int
BY Counts DEF Mod, SeqNrs

LEMMA Congruent ==
  ASSUME NEW a \in Int, NEW b \in Int, NEW q \in Int, a = b + Modulus * q PROVE Mod(a) = Mod(b)
BY Counts, CongruentMod DEF Mod

LEMMA Quotient == ASSUME NEW a \in Int PROVE \E q \in Int : a = Modulus * q + Mod(a)
BY Counts, Division DEF Mod

LEMMA Small ==
  /\ \A d \in 0..(Modulus - 1) : Mod(d) = d
  /\ \A d \in (-Modulus)..(-1) : Mod(d) = d + Modulus
BY Counts, SmallMod DEF Mod

(* A number may be reduced before it is added or subtracted.               *)
LEMMA ModSum ==
  ASSUME NEW a \in Int, NEW b \in Int
  PROVE  Mod(Mod(a) + b) = Mod(a + b) /\ Mod(b - Mod(a)) = Mod(b - a)
<1>1. PICK q \in Int : a = Modulus * q + Mod(a)
  BY Quotient
<1> DEFINE c == Mod(a)
           m == Modulus * q
<1>2. c \in Int /\ m \in Int /\ a = m + c /\ -q \in Int /\ Modulus * (-q) = -m
  BY <1>1, ModSeqNr, Counts
<1> HIDE DEF c
<1>3. Mod(a + b) = Mod(c + b)
  <2> DEFINE x == a + b
             y == c + b
  <2>1. x = y + Modulus * q /\ x \in Int /\ y \in Int
    BY <1>2
  <2> HIDE DEF x, y
  <2>2. Mod(x) = Mod(y)
    BY <2>1, Congruent
  <2> QED BY <2>2 DEF x, y
<1>4. Mod(b - a) = Mod(b - c)
  <2> DEFINE x == b - a
             y == b - c
  <2>1. x = y + Modulus * (-q) /\ x \in Int /\ y \in Int
    BY <1>2
  <2> HIDE DEF x, y
  <2>2. Mod(x) = Mod(y)
    BY <1>2, <2>1, Congruent
  <2> QED BY <2>2 DEF x, y
<1> QED BY <1>3, <1>4 DEF c

(* Numbers as far from a third are the same.                               *)
LEMMA SameDistance ==
  ASSUME NEW o \in Int, NEW v \in SeqNrs, NEW w \in SeqNrs, Mod(v - o) = Mod(w - o) PROVE v = w
<1>0. v \in Int /\ w \in Int
  BY Counts DEF SeqNrs
<1> DEFINE a == v - o
           b == w - o
<1>1. a \in Int /\ b \in Int /\ Mod(a) = Mod(b)
  BY <1>0
<1>2. Mod(v) = Mod(Mod(a) + o) /\ Mod(w) = Mod(Mod(b) + o)
  <2>1. Mod(Mod(a) + o) = Mod(a + o) /\ Mod(Mod(b) + o) = Mod(b + o)
    <3> HIDE DEF a, b
    <3> QED BY <1>1, ModSum
  <2>2. a + o = v /\ b + o = w
    BY <1>0
  <2> QED BY <2>1, <2>2
<1>3. Mod(v) = v /\ Mod(w) = w
  BY Small DEF SeqNrs
<1> QED BY <1>1, <1>2, <1>3

(* The number d past o                                                     *)
LEMMA DistanceOf ==
  ASSUME NEW o \in Int, NEW d \in 0..(Modulus - 1) PROVE Mod(Mod(o + d) - o) = d
<1>0. d \in Int /\ o + d \in Int /\ -o \in Int
  BY Counts
<1>1. Mod(Mod(o + d) + (-o)) = Mod(o + d + (-o))
  BY <1>0, ModSum
<1>2. o + d + (-o) = d /\ Mod(o + d) - o = Mod(o + d) + (-o)
  BY <1>0, ModSeqNr
<1> QED BY <1>1, <1>2, Small

-----------------------------------------------------------------------------
(* Rings                                                                   *)

Sizes == {n \in Powers : InitialSize <= n /\ n <= Modulus}

LEMMA SizeFacts ==
  ASSUME NEW n \in Sizes PROVE n \in Nat \ {0} /\ n > 1 /\ n <= Modulus /\ n \in Powers
BY Counts DEF Sizes, Powers

LEMMA PowersDivide ==
  ASSUME NEW m \in Powers, NEW n \in Powers, n <= m PROVE \E k \in Powers : m = n * k
BY SMTT(60) DEF Powers

(* A ring does not tell numbers apart that are the same.                   *)
LEMMA SlotOfMod ==
  ASSUME NEW n \in Sizes, NEW i \in Int PROVE Mod(i) % n = i % n
<1>1. PICK k \in Powers : Modulus = n * k
  BY PowersDivide, SizeFacts, BufferAssumption
<1>2. PICK q \in Int : i = Modulus * q + Mod(i)
  BY Quotient
<1> DEFINE c == Mod(i)
<1>3. c \in Int /\ n \in Nat \ {0} /\ k \in Int /\ k * q \in Int
  BY ModSeqNr, SizeFacts DEF Powers
<1> HIDE DEF c
<1>4. n * (k * q) = (n * k) * q
  BY <1>3
<1>5. i = c + n * (k * q)
  <2>1. i = (n * k) * q + c
    BY <1>1, <1>2 DEF c
  <2>2. (n * k) * q \in Int
    BY <1>3
  <2> QED BY <1>3, <1>4, <2>1, <2>2
<1>6. i % n = c % n
  <2> DEFINE r == k * q
  <2>1. i = c + n * r /\ r \in Int
    BY <1>3, <1>5
  <2> HIDE DEF r
  <2> QED BY <1>3, <2>1, CongruentMod
<1> QED BY <1>6 DEF c

(* Within as many numbers as it has slots, a slot belongs to one number.   *)
LEMMA OneNumber ==
  ASSUME NEW n \in Sizes, NEW o \in Int, NEW v \in Int, NEW w \in Int,
         v % n = w % n, Mod(v - o) < n, Mod(w - o) < n
  PROVE  Mod(v) = Mod(w)
<1> DEFINE d == Mod(v - o)
           e == Mod(w - o)
<1>1. d \in Int /\ e \in Int /\ d \in SeqNrs /\ e \in SeqNrs /\ v - o \in Int /\ w - o \in Int
  BY ModSeqNr
<1>2. Mod(d + o) = Mod(v) /\ Mod(e + o) = Mod(w)
  <2>1. Mod(Mod(v - o) + o) = Mod(v - o + o) /\ Mod(Mod(w - o) + o) = Mod(w - o + o)
    BY <1>1, ModSum
  <2>2. v - o + o = v /\ w - o + o = w
    OBVIOUS
  <2> QED BY <2>1, <2>2
<1>3. (d + o) % n = (e + o) % n
  <2>1. \A x \in Int : Mod(x) % n = x % n
    BY SlotOfMod
  <2>2. d + o \in Int /\ e + o \in Int
    BY <1>1
  <2> HIDE DEF d, e
  <2>3. (d + o) % n = v % n /\ (e + o) % n = w % n
    BY <1>2, <2>1, <2>2
  <2> QED BY <2>3
<1>4. d = e
  <2> DEFINE x == d + o
             y == e + o
  <2>1. n \in Nat \ {0} /\ d >= 0 /\ e >= 0 /\ d < n /\ e < n
    BY <1>1, SizeFacts, Counts DEF SeqNrs
  <2> HIDE DEF d, e
  <2>2. x \in Int /\ y \in Int /\ x % n = y % n /\ x - y < n /\ y - x < n
    BY <1>1, <1>3, <2>1
  <2> HIDE DEF x, y
  <2>3. x = y
    BY <2>1, <2>2, SameRemainder
  <2> QED BY <1>1, <2>3 DEF x, y
<1> QED BY <1>2, <1>4


(* The rings of elements of P                                              *)
Ring(P) == UNION {[mask: {n - 1}, elements: [Slots(n) -> P \cup {NULL}]] : n \in Sizes}

LEMMA RingFacts ==
  ASSUME NEW P, NEW b \in Ring(P)
  PROVE  /\ Size(b) \in Sizes /\ Size(b) \in Nat \ {0} /\ b.mask = Size(b) - 1 /\ b.mask \in Nat
         /\ b.elements \in [Slots(Size(b)) -> P \cup {NULL}]
         /\ b = [mask |-> b.mask, elements |-> b.elements]
         /\ \A i \in Int : Slot(b, i) \in Slots(Size(b)) /\ Slot(b, i) \in Int
<1>1. PICK n \in Sizes : b \in [mask: {n - 1}, elements: [Slots(n) -> P \cup {NULL}]]
  BY DEF Ring
<1>2. n \in Nat \ {0}
  BY SizeFacts
<1>3. b.mask = n - 1 /\ b.elements \in [Slots(n) -> P \cup {NULL}]
      /\ b = [mask |-> b.mask, elements |-> b.elements]
  BY <1>1
<1>4. Size(b) = n
  BY <1>2, <1>3 DEF Size
<1>5. ASSUME NEW i \in Int PROVE i % n \in 0..(n - 1)
  BY <1>2
<1> QED BY <1>2, <1>3, <1>4, <1>5 DEF Slot, Slots

LEMMA RingMade ==
  ASSUME NEW P, NEW n \in Sizes, NEW f \in [Slots(n) -> P \cup {NULL}]
  PROVE  LET b == [mask |-> n - 1, elements |-> f]
         IN  b \in Ring(P) /\ Size(b) = n /\ b.elements = f
<1>1. n \in Nat
  BY SizeFacts
<1>2. [mask |-> n - 1, elements |-> f] \in [mask: {n - 1}, elements: [Slots(n) -> P \cup {NULL}]]
  OBVIOUS
<1> QED BY <1>1, <1>2 DEF Ring, Size

(* Every element of b has the slot of its number, and its number is one of *)
(* the first w from o on.                                                  *)
Placed(b, o, w) ==
  /\ w \in Nat /\ w <= Size(b)
  /\ \A j \in Slots(Size(b)) : b.elements[j] # NULL =>
       b.elements[j].seq % Size(b) = j /\ Mod(b.elements[j].seq - o) < w

(* Elements that have a number                                             *)
Numbered(P) == NULL \notin P /\ \A p \in P : p.seq \in SeqNrs

LEMMA HeldFacts ==
  ASSUME NEW P, Numbered(P), NEW b \in Ring(P), NEW o \in Int, NEW w, Placed(b, o, w)
  PROVE  /\ \A p \in Held(b) : /\ p \in P /\ p # NULL /\ p.seq \in SeqNrs /\ p.seq \in Int
                               /\ Get(b, p.seq) = p /\ Mod(p.seq - o) < w
         /\ \A i \in Int : Get(b, i) # NULL => Get(b, i) \in Held(b)
         /\ \A p \in Held(b) : \A q \in Held(b) : p.seq = q.seq => p = q
<1>1. ASSUME NEW p \in Held(b)
      PROVE  /\ p \in P /\ p # NULL /\ p.seq \in SeqNrs /\ p.seq \in Int
             /\ Get(b, p.seq) = p /\ Mod(p.seq - o) < w
  <2>1. PICK j \in Slots(Size(b)) : p = b.elements[j] /\ p # NULL
    BY RingFacts DEF Held
  <2>2. p \in P /\ p.seq \in SeqNrs /\ p.seq \in Int
    BY <2>1, RingFacts, Counts DEF Numbered, SeqNrs
  <2> QED BY <2>1, <2>2 DEF Placed, Get, Slot
<1>2. ASSUME NEW i \in Int, Get(b, i) # NULL PROVE Get(b, i) \in Held(b)
  BY <1>2, RingFacts DEF Held, Get
<1> QED BY <1>1, <1>2

(* Reading a number within reach gives its element, or NULL.               *)
LEMMA GetOf ==
  ASSUME NEW P, Numbered(P), NEW b \in Ring(P), NEW o \in Int, NEW w, Placed(b, o, w),
         NEW i \in Int, Mod(i - o) < Size(b), Get(b, i) # NULL
  PROVE  Get(b, i) \in Held(b) /\ Get(b, i).seq = Mod(i)
<1> DEFINE p == Get(b, i)
<1>1. p \in Held(b) /\ p.seq \in SeqNrs /\ p.seq \in Int /\ Mod(p.seq - o) < w
  BY HeldFacts
<1>2. p = b.elements[Slot(b, i)] /\ Slot(b, i) \in Slots(Size(b)) /\ Slot(b, i) = i % Size(b)
  BY RingFacts DEF Get, Slot
<1>3. p.seq % Size(b) = i % Size(b)
  BY <1>2 DEF Placed
<1>4. Mod(p.seq - o) < Size(b) /\ Size(b) \in Sizes
  <2>1. p.seq - o \in Int
    BY <1>1
  <2>2. Mod(p.seq - o) \in Int
    BY <2>1, ModSeqNr
  <2>3. w \in Nat /\ w <= Size(b) /\ Size(b) \in Nat /\ Size(b) \in Sizes
    BY RingFacts DEF Placed
  <2> QED BY <1>1, <2>2, <2>3
<1> HIDE DEF p
<1>5. Mod(p.seq) = Mod(i)
  BY <1>1, <1>3, <1>4, OneNumber
<1>6. Mod(p.seq) = p.seq
  BY <1>1, Small DEF SeqNrs
<1> QED BY <1>1, <1>5, <1>6 DEF p

LEMMA PutShape ==
  ASSUME NEW P, NEW b \in Ring(P), NEW i \in Int, NEW x \in P \cup {NULL}
  PROVE  LET t == Put(b, i, x)
         IN  /\ t \in Ring(P) /\ Size(t) = Size(b)
             /\ t.elements = [b.elements EXCEPT ![Slot(b, i)] = x]
<1> DEFINE f == [b.elements EXCEPT ![Slot(b, i)] = x]
<1>1. f \in [Slots(Size(b)) -> P \cup {NULL}]
  BY RingFacts
<1>2. Put(b, i, x) = [mask |-> Size(b) - 1, elements |-> f]
  BY RingFacts DEF Put
<1> HIDE DEF f
<1>3. Size(b) \in Sizes
  BY RingFacts
<1>4. LET t == [mask |-> Size(b) - 1, elements |-> f]
      IN  t \in Ring(P) /\ Size(t) = Size(b) /\ t.elements = f
  BY <1>1, <1>3, RingMade
<1> QED BY <1>2, <1>4 DEF f

(* Writing a number within reach replaces its element.                     *)
LEMMA PutNull ==
  ASSUME NEW P, Numbered(P), NEW b \in Ring(P), NEW o \in Int, NEW w, Placed(b, o, w), NEW i \in Int
  PROVE  LET t == Put(b, i, NULL)
         IN  /\ t \in Ring(P) /\ Size(t) = Size(b) /\ Placed(t, o, w)
             /\ Held(t) = Held(b) \ {Get(b, i)}
<1> DEFINE t == Put(b, i, NULL)
           n == Size(b)
           k == Slot(b, i)
<1>1. /\ t \in Ring(P) /\ Size(t) = n /\ t.elements = [b.elements EXCEPT ![k] = NULL]
      /\ DOMAIN b.elements = Slots(n) /\ DOMAIN t.elements = Slots(n) /\ k \in Slots(n)
  <2>1. NULL \in P \cup {NULL}
    OBVIOUS
  <2>2. t \in Ring(P) /\ Size(t) = n /\ t.elements = [b.elements EXCEPT ![k] = NULL]
    BY <2>1, PutShape
  <2> HIDE DEF t
  <2> QED BY <2>2, RingFacts
<1>2. \A j \in Slots(n) : t.elements[j] = IF j = k THEN NULL ELSE b.elements[j]
  BY <1>1
<1>3. Get(b, i) = b.elements[k]
  BY DEF Get
<1> HIDE DEF t, n, k
<1>4. Placed(t, o, w)
  BY <1>1, <1>2 DEF Placed, n
<1>5. Held(t) = Held(b) \ {Get(b, i)}
  <2>1. ASSUME NEW j \in Slots(n), j # k, b.elements[j] # NULL PROVE b.elements[j] # b.elements[k]
    <3> SUFFICES ASSUME b.elements[j] = b.elements[k] PROVE FALSE
      OBVIOUS
    <3>1. b.elements[j].seq % n = j /\ b.elements[k].seq % n = k
      BY <1>1, <2>1 DEF Placed, n
    <3> QED BY <2>1, <3>1
  <2>2. Held(b) = {b.elements[j] : j \in Slots(n)} \ {NULL}
    BY <1>1 DEF Held
  <2>3. Held(t) = {t.elements[j] : j \in Slots(n)} \ {NULL}
    BY <1>1 DEF Held
  <2> QED BY <1>1, <1>2, <1>3, <2>1, <2>2, <2>3
<1> QED BY <1>1, <1>4, <1>5 DEF t, n

LEMMA PutElement ==
  ASSUME NEW P, Numbered(P), NEW b \in Ring(P), NEW o \in Int, NEW w, Placed(b, o, w),
         NEW i \in Int, NEW p \in P, p.seq = Mod(i), Mod(p.seq - o) < w
  PROVE  LET t == Put(b, i, p)
         IN  /\ t \in Ring(P) /\ Size(t) = Size(b) /\ Placed(t, o, w)
             /\ Held(t) = (Held(b) \ {Get(b, i)}) \cup {p}
<1> DEFINE t == Put(b, i, p)
           n == Size(b)
           k == Slot(b, i)
<1>1. /\ t \in Ring(P) /\ Size(t) = n /\ t.elements = [b.elements EXCEPT ![k] = p]
      /\ DOMAIN b.elements = Slots(n) /\ DOMAIN t.elements = Slots(n) /\ k \in Slots(n) /\ n \in Sizes
  BY PutShape, RingFacts
<1>2. \A j \in Slots(n) : t.elements[j] = IF j = k THEN p ELSE b.elements[j]
  BY <1>1
<1>3. Get(b, i) = b.elements[k] /\ p # NULL
  BY DEF Get, Numbered
<1>4. p.seq % n = k
  <2>1. Mod(i) % n = i % n
    BY <1>1, SlotOfMod
  <2> QED BY <2>1 DEF Slot
<1> HIDE DEF t, n, k
<1>5. Placed(t, o, w)
  BY <1>1, <1>2, <1>4 DEF Placed, n
<1>6. Held(t) = (Held(b) \ {Get(b, i)}) \cup {p}
  <2>1. ASSUME NEW j \in Slots(n), j # k, b.elements[j] # NULL PROVE b.elements[j] # b.elements[k]
    <3> SUFFICES ASSUME b.elements[j] = b.elements[k] PROVE FALSE
      OBVIOUS
    <3>1. b.elements[j].seq % n = j /\ b.elements[k].seq % n = k
      BY <1>1, <2>1 DEF Placed, n
    <3> QED BY <2>1, <3>1
  <2>2. Held(b) = {b.elements[j] : j \in Slots(n)} \ {NULL}
    BY <1>1 DEF Held
  <2>3. Held(t) = {t.elements[j] : j \in Slots(n)} \ {NULL}
    BY <1>1 DEF Held
  <2> QED BY <1>1, <1>2, <1>3, <2>1, <2>2, <2>3
<1> QED BY <1>1, <1>5, <1>6 DEF t, n

LEMMA PowersMultiply ==
  ASSUME NEW m \in Powers, NEW n \in Powers, m * n <= 65536 PROVE m * n \in Powers
BY SMTT(60) DEF Powers

(* What doubling stops at                                                  *)
LEMMA Doubled ==
  ASSUME NEW n \in Sizes, NEW index \in Nat, n <= index, index <= ReorderMax
  PROVE  LET size == Min({m \in {n * k : k \in Powers \ {1}} : index < m})
         IN  size \in Sizes /\ index < size /\ n <= size
<1> DEFINE Fits == {m \in {n * k : k \in Powers \ {1}} : index < m}
           size == Min(Fits)
<1>1. n \in Nat /\ n > 1 /\ n \in Powers /\ InitialSize <= n
  BY SizeFacts DEF Sizes
<1>2. Modulus \in Powers /\ Modulus <= 65536 /\ Modulus \in Nat
  BY BufferAssumption DEF Powers
<1>3. Fits # {} /\ Fits \in SUBSET Nat
  <2>1. 65536 \in Powers \ {1} /\ n * 65536 \in Nat /\ \A k \in Powers : n * k \in Nat
    BY <1>1 DEF Powers
  <2>2. index < n * 65536
    BY <1>1, <1>2, <2>1, Counts
  <2> QED BY <2>1, <2>2
<1>4. size \in Fits /\ \A m \in Fits : size <= m
  <2>1. \E x \in Fits : \A y \in Fits : x <= y
    BY <1>3, LeastOf
  <2> HIDE DEF Fits
  <2> QED BY <2>1 DEF Min
<1>5. PICK k \in Powers \ {1} : size = n * k
  BY <1>4
<1>6. k \in Nat /\ index < size /\ size \in Nat
  BY <1>3, <1>4 DEF Powers
<1>7. size <= Modulus
  <2>1. CASE k = 2
    <3>1. size = n + n
      BY <1>1, <1>5, <2>1
    <3> QED BY <1>1, <3>1, Counts
  <2>2. CASE k # 2
    <3>1. PICK h \in Powers \ {1} : k = h + h
      BY <2>2 DEF Powers
    <3>2. h \in Nat /\ h > 0
      BY DEF Powers
    <3>3. n * h \in Nat /\ size = n * h + n * h /\ n * h > 0
      <4>1. n * (h + h) = n * h + n * h
        BY <1>1, <3>2
      <4>2. n * h \in Nat /\ n * h > 0
        BY <1>1, <3>2
      <4> QED BY <1>5, <3>1, <4>1, <4>2
    <3>4. n * h \notin Fits
      <4> HIDE DEF Fits, size
      <4> QED BY <1>4, <1>6, <3>3
    <3>5. ~(index < n * h)
      BY <3>4
    <3> HIDE DEF size
    <3> QED BY <3>3, <3>5, Counts
  <2> QED BY <2>1, <2>2
<1>8. size \in Powers
  <2>1. n * k <= 65536 /\ k \in Powers
    BY <1>2, <1>5, <1>6, <1>7
  <2> QED BY <1>1, <1>5, <2>1, PowersMultiply
<1>9. n <= size
  BY <1>1, <1>6
<1> HIDE DEF size
<1>10. size \in Sizes
  BY <1>1, <1>6, <1>7, <1>8, <1>9, Counts DEF Sizes
<1> QED BY <1>6, <1>9, <1>10 DEF size

(* A place and the slot it is copied to                                    *)
LEMMA PlaceOf ==
  ASSUME NEW n \in Nat \ {0}, NEW a \in Int, NEW j \in 0..(n - 1)
  PROVE  (j - a) % n \in 0..(n - 1) /\ (a + ((j - a) % n)) % n = j
<1> DEFINE x == j - a
           c == x % n
           y == a + c
<1>1. x \in Int /\ c \in 0..(n - 1)
  BY Division
<1> HIDE DEF c
<1>2. PICK q \in Int : x = n * q + c
  <2> HIDE DEF x
  <2> QED BY <1>1, Division DEF c
<1>3. j = y + n * q /\ y \in Int /\ j \in Int /\ n * q \in Int
  BY <1>1, <1>2
<1> HIDE DEF y, x
<1>4. j % n = y % n
  BY <1>3, CongruentMod
<1>5. j % n = j
  BY SmallMod
<1> QED BY <1>1, <1>4, <1>5 DEF x, y, c

LEMMA SlotOfPlace ==
  ASSUME NEW n \in Nat \ {0}, NEW a \in Int, NEW k \in 0..(n - 1)
  PROVE  (a + k) % n \in 0..(n - 1) /\ (((a + k) % n) - a) % n = k
<1> DEFINE x == a + k
           c == x % n
           y == c - a
<1>1. x \in Int /\ c \in 0..(n - 1)
  BY Division
<1> HIDE DEF c
<1>2. PICK q \in Int : x = n * q + c
  <2> HIDE DEF x
  <2> QED BY <1>1, Division DEF c
<1>3. k = y + n * q /\ y \in Int /\ k \in Int /\ n * q \in Int
  BY <1>1, <1>2
<1> HIDE DEF y, x
<1>4. k % n = y % n
  BY <1>3, CongruentMod
<1>5. k % n = k
  BY SmallMod
<1> QED BY <1>1, <1>4, <1>5 DEF x, y, c

(* Growing moves the elements to the slots they have in the larger ring,   *)
(* and loses none.                                                         *)
LEMMA GrowKeeps ==
  ASSUME NEW P, Numbered(P), NEW b \in Ring(P), NEW o \in Int, NEW w, Placed(b, o, w),
         NEW item \in Int, NEW index \in Nat, index > b.mask, index <= ReorderMax,
         Mod(item - index - o) = 0
  PROVE  LET t == Grow(b, item, index)
         IN  /\ t \in Ring(P) /\ index < Size(t) /\ Size(b) <= Size(t)
             /\ Placed(t, o, w) /\ Held(t) = Held(b)
<1> DEFINE n == Size(b)
           size == Min({m \in {n * k : k \in Powers \ {1}} : index < m})
           first == item - index
           f == [j \in Slots(size) |-> IF (j - first) % size < n THEN Get(b, first + ((j - first) % size)) ELSE NULL]
           t == [mask |-> size - 1, elements |-> f]
<1>1. Grow(b, item, index) = t
  BY DEF Grow
<1>2. n \in Sizes /\ n \in Nat \ {0} /\ n <= index /\ w \in Nat /\ w <= n
  BY RingFacts DEF Placed
<1>3. size \in Sizes /\ index < size /\ n <= size
  <2> HIDE DEF n
  <2> QED BY <1>2, Doubled
<1> HIDE DEF size, n
<1>4. size \in Nat \ {0} /\ size <= Modulus /\ first \in Int /\ Slots(size) = 0..(size - 1)
  BY <1>3, SizeFacts DEF Slots
<1> HIDE DEF first
<1>5. ASSUME NEW k \in 0..(n - 1)
      PROVE /\ k \in Int /\ first + k \in Int /\ Mod((first + k) - o) = k
            /\ Get(b, first + k) # NULL => /\ Get(b, first + k) \in Held(b)
                                           /\ Get(b, first + k).seq = Mod(first + k)
  <2>1. k \in Int /\ first + k \in Int /\ k \in 0..(Modulus - 1) /\ k < n
    BY <1>2, <1>3, <1>4, Counts
  <2>2. Mod((first + k) - o) = k
    <3>1. Mod(Mod(first - o) + k) = Mod(first - o + k)
      <4> DEFINE x == first - o
      <4>1. x \in Int
        BY <1>4
      <4> HIDE DEF x
      <4>2. Mod(Mod(x) + k) = Mod(x + k)
        BY <2>1, <4>1, ModSum
      <4> QED BY <4>2 DEF x
    <3>2. first - o + k = (first + k) - o /\ Mod(first - o) = 0 /\ 0 + k = k
      BY <1>4, <2>1 DEF first
    <3> QED BY <2>1, <3>1, <3>2, Small
  <2>3. Get(b, first + k) # NULL => /\ Get(b, first + k) \in Held(b)
                                    /\ Get(b, first + k).seq = Mod(first + k)
    <3> DEFINE i == first + k
    <3>1. i \in Int /\ Mod(i - o) < Size(b)
      BY <2>1, <2>2 DEF n
    <3> HIDE DEF i
    <3>2. Get(b, i) # NULL => Get(b, i) \in Held(b) /\ Get(b, i).seq = Mod(i)
      BY <3>1, GetOf
    <3> QED BY <3>2 DEF i
  <2> QED BY <2>1, <2>2, <2>3
<1>6. ASSUME NEW j \in Slots(size)
      PROVE /\ (j - first) % size \in 0..(size - 1)
            /\ f[j] # NULL => /\ (j - first) % size \in 0..(n - 1) /\ f[j] \in Held(b)
                              /\ f[j].seq = Mod(first + ((j - first) % size))
  <2> DEFINE k == (j - first) % size
  <2>1. k \in 0..(size - 1)
    BY <1>4, PlaceOf
  <2>2. f[j] = IF k < n THEN Get(b, first + k) ELSE NULL
    OBVIOUS
  <2> HIDE DEF k, f
  <2>3. f[j] # NULL => k \in 0..(n - 1)
    BY <1>2, <1>4, <2>1, <2>2
  <2>4. ASSUME f[j] # NULL PROVE f[j] \in Held(b) /\ f[j].seq = Mod(first + k)
    BY <1>5, <2>2, <2>3, <2>4
  <2> QED BY <2>1, <2>3, <2>4 DEF k
<1>7. f \in [Slots(size) -> P \cup {NULL}]
  <2>1. \A j \in Slots(size) : f[j] \in P \cup {NULL}
    <3> HIDE DEF f
    <3> QED BY <1>6, HeldFacts
  <2> QED BY <2>1
<1>8. t \in Ring(P) /\ Size(t) = size /\ t.elements = f
  <2> HIDE DEF f
  <2> QED BY <1>3, <1>7, RingMade
<1> HIDE DEF t
<1>9. Placed(t, o, w)
  <2>1. ASSUME NEW j \in Slots(size), f[j] # NULL
        PROVE f[j].seq % size = j /\ Mod(f[j].seq - o) < w
    <3> DEFINE k == (j - first) % size
    <3>1. k \in 0..(n - 1) /\ f[j] \in Held(b) /\ f[j].seq = Mod(first + k) /\ first + k \in Int
      <4> HIDE DEF f
      <4> QED BY <1>5, <1>6, <2>1
    <3>2. (first + k) % size = j
      <4>1. j \in 0..(size - 1)
        BY <1>4
      <4> QED BY <1>4, <4>1, PlaceOf
    <3>3. Mod(first + k) % size = (first + k) % size
      <4> DEFINE i == first + k
      <4>1. i \in Int
        BY <3>1
      <4> HIDE DEF i
      <4>2. Mod(i) % size = i % size
        BY <1>3, <4>1, SlotOfMod
      <4> QED BY <4>2 DEF i
    <3> HIDE DEF k, f
    <3>4. Mod(f[j].seq - o) < w
      BY <3>1, HeldFacts
    <3> QED BY <3>1, <3>2, <3>3, <3>4
  <2> QED BY <1>2, <1>3, <1>4, <1>8, <2>1 DEF Placed
<1>10. Held(t) = Held(b)
  <2>1. Held(t) = {f[j] : j \in Slots(size)} \ {NULL}
    <3>1. DOMAIN t.elements = Slots(size)
      BY <1>7, <1>8
    <3> QED BY <1>8, <3>1 DEF Held
  <2>2. ASSUME NEW p \in Held(b) PROVE \E j \in Slots(size) : f[j] = p /\ p # NULL
    <3> DEFINE d == Mod(p.seq - o)
               j == (first + d) % size
    <3>1. p \in P /\ p # NULL /\ p.seq \in SeqNrs /\ p.seq \in Int /\ Get(b, p.seq) = p /\ d < w
      BY HeldFacts
    <3>2. d \in 0..(n - 1) /\ d \in 0..(size - 1)
      <4>1. d \in SeqNrs /\ d \in Int
        BY <3>1, ModSeqNr
      <4> HIDE DEF d
      <4> QED BY <1>2, <1>3, <1>4, <3>1, <4>1, Counts DEF SeqNrs
    <3> HIDE DEF d
    <3>3. j \in Slots(size) /\ (j - first) % size = d
      <4>1. (first + d) % size \in 0..(size - 1) /\ (((first + d) % size) - first) % size = d
        BY <1>4, <3>2, SlotOfPlace
      <4> QED BY <1>4, <4>1
    <3> HIDE DEF j
    <3>4. f[j] = Get(b, first + d)
      BY <1>2, <3>2, <3>3
    <3>5. first + d \in Int /\ Mod((first + d) - o) = d
      BY <1>5, <3>2
    <3>6. Mod(first + d) = p.seq
      <4> DEFINE i == first + d
      <4>1. i \in Int /\ Mod(i) \in SeqNrs /\ Mod(i) \in Int /\ Mod(i - o) = d /\ -o \in Int
        BY <3>5, ModSeqNr
      <4>2. Mod(Mod(i) - o) = d
        <5> HIDE DEF i
        <5>1. Mod(Mod(i) + (-o)) = Mod(i + (-o))
          BY <4>1, ModSum
        <5>2. Mod(i) + (-o) = Mod(i) - o /\ i + (-o) = i - o
          BY <4>1
        <5> QED BY <4>1, <5>1, <5>2
      <4> HIDE DEF i
      <4>3. Mod(i) = p.seq
        BY <3>1, <4>1, <4>2, SameDistance DEF d
      <4> QED BY <4>3 DEF i
    <3>7. Get(b, first + d) = Get(b, p.seq)
      <4> DEFINE i == first + d
      <4>1. i \in Int /\ Mod(i) = p.seq
        BY <3>5, <3>6
      <4> HIDE DEF i
      <4>2. Slot(b, p.seq) = Slot(b, i)
        <5>1. Mod(i) % n = i % n
          BY <1>2, <4>1, SlotOfMod
        <5> QED BY <4>1, <5>1 DEF Slot, n
      <4>3. Get(b, i) = Get(b, p.seq)
        BY <4>2 DEF Get
      <4> QED BY <4>3 DEF i
    <3> QED BY <3>1, <3>3, <3>4, <3>7
  <2>3. \A j \in Slots(size) : f[j] # NULL => f[j] \in Held(b)
    BY <1>6
  <2> HIDE DEF f
  <2> QED BY <2>1, <2>2, <2>3
<1> QED BY <1>1, <1>2, <1>3, <1>8, <1>9, <1>10 DEF n

LEMMA EnsureKeeps ==
  ASSUME NEW P, Numbered(P), NEW b \in Ring(P), NEW o \in Int, NEW w, Placed(b, o, w),
         NEW item \in Int, NEW index \in Nat, index <= ReorderMax, Mod(item - index - o) = 0
  PROVE  LET t == EnsureSize(b, item, index)
         IN  /\ t \in Ring(P) /\ index < Size(t) /\ Size(b) <= Size(t)
             /\ Placed(t, o, w) /\ Held(t) = Held(b)
<1>1. CASE index > b.mask
  BY <1>1, GrowKeeps DEF EnsureSize
<1>2. CASE ~(index > b.mask)
  BY <1>2, RingFacts DEF EnsureSize
<1> QED BY <1>1, <1>2

-----------------------------------------------------------------------------
(* The sending socket                                                      *)

OutPacket == [seq: SeqNrs, data: Seq(Nat), length: Nat, sent: BOOLEAN]
Data == [seq: SeqNrs, data: Seq(Nat), length: Nat]

LEMMA BothNumbered == Numbered(OutPacket) /\ Numbered(Data)
<1>1. SeqNrs \subseteq Nat
  BY Counts DEF SeqNrs
<1>2. OutPacket \subseteq Packet /\ Data \subseteq Message
  BY <1>1 DEF OutPacket, Data, Packet, Message
<1>3. \A p \in OutPacket : p.seq \in SeqNrs
  BY DEF OutPacket
<1>4. \A p \in Data : p.seq \in SeqNrs
  BY DEF Data
<1> QED BY <1>2, <1>3, <1>4, NullAssumption DEF Numbered

Sender ==
  [seq_nr: SeqNrs, window: Nat, outbuf: Ring(OutPacket), duplicate_ack: Nat, written: Nat,
   sent: SUBSET Data, udp_mtu: UdpMtus, mtu_floor: Nat, mtu_ceiling: Nat, mtu_last: Nat,
   mtu_probe_seq: SeqNrs, mtu_probe_size: Nat, due: BOOLEAN, resets: Nat]

(* The interval of the search is one, and a probe is within it.            *)
Bounds(s) ==
  /\ LeastMtu <= s.mtu_floor /\ s.mtu_floor <= s.mtu_ceiling /\ s.mtu_ceiling <= s.udp_mtu
  /\ s.mtu_probe_size <= s.udp_mtu

Probing(s) ==
  s.mtu_probe_seq # 0 => s.mtu_floor < s.mtu_probe_size /\ s.mtu_probe_size <= s.mtu_ceiling

Searching(s) ==
  Bounds(s) /\ Probing(s) /\ s.mtu_floor <= s.mtu_last /\ s.mtu_last <= s.mtu_ceiling

(* Sockets whose ring holds packets of the window and whose search is one  *)
Sane == {s \in Sender : /\ Placed(s.outbuf, Oldest(s), s.window) /\ s.window <= OutMax - 1
                        /\ Searching(s)}

LEMMA SaneFacts ==
  ASSUME NEW s \in Sane
  PROVE  /\ s \in Sender /\ s.seq_nr \in SeqNrs /\ s.seq_nr \in Int /\ s.window \in Nat
         /\ s.window <= OutMax - 1 /\ s.window < Modulus /\ s.window <= Size(s.outbuf)
         /\ s.outbuf \in Ring(OutPacket) /\ Size(s.outbuf) \in Nat
         /\ Oldest(s) \in SeqNrs /\ Oldest(s) \in Int
         /\ Placed(s.outbuf, Oldest(s), s.window) /\ Searching(s)
<1>1. s \in Sender /\ s.seq_nr \in SeqNrs /\ s.window \in Nat /\ s.outbuf \in Ring(OutPacket)
      /\ s.window <= OutMax - 1 /\ Placed(s.outbuf, Oldest(s), s.window) /\ Searching(s)
  BY DEF Sane, Sender
<1>2. s.seq_nr \in Int /\ s.window < Modulus
  BY <1>1, Counts DEF SeqNrs
<1>3. Oldest(s) \in SeqNrs /\ Oldest(s) \in Int
  BY <1>1, <1>2, ModSeqNr DEF Oldest
<1>4. s.window <= Size(s.outbuf) /\ Size(s.outbuf) \in Nat
  BY <1>1, RingFacts DEF Placed
<1> QED BY <1>1, <1>2, <1>3, <1>4

LEMMA MtuFacts ==
  /\ LeastMtu \in Nat /\ 1 < LeastMtu /\ Near \in Nat
  /\ \A mtu \in UdpMtus : mtu \in Nat /\ LeastMtu <= mtu
BY MtuAssumption

LEMMA SizesOf ==
  ASSUME NEW s \in Sender
  PROVE  /\ {s.mtu_floor, s.mtu_ceiling, s.mtu_last, s.mtu_probe_size, s.udp_mtu} \subseteq Nat
         /\ LeastMtu <= s.udp_mtu /\ s.mtu_probe_seq \in SeqNrs /\ s.due \in BOOLEAN
BY MtuFacts DEF Sender

(* What changes the search leaves the packets alone.                       *)
SamePackets(s, t) ==
  /\ t.seq_nr = s.seq_nr /\ t.window = s.window /\ t.outbuf = s.outbuf
  /\ t.written = s.written /\ t.sent = s.sent

SameSearch(s, t) ==
  /\ t.mtu_floor = s.mtu_floor
  /\ t.mtu_probe_seq = s.mtu_probe_seq /\ t.mtu_probe_size = s.mtu_probe_size

(* The floor stays or falls back, and no probe is new.                     *)
Lowered(s, t) ==
  /\ t.mtu_floor \in {s.mtu_floor, LeastMtu}
  /\ \/ t.mtu_probe_seq = 0
     \/ t.mtu_probe_seq = s.mtu_probe_seq /\ t.mtu_probe_size = s.mtu_probe_size

LEMMA SaneTuned ==
  ASSUME NEW s \in Sane, NEW t \in Sender, SamePackets(s, t), Searching(t) PROVE t \in Sane
<1>1. Oldest(t) = Oldest(s)
  BY DEF SamePackets, Oldest
<1> QED BY <1>1 DEF Sane, SamePackets

LEMMA NoProbeShape ==
  ASSUME NEW s \in Sender
  PROVE  LET t == NoProbe(s)
         IN  /\ t \in Sender /\ SamePackets(s, t) /\ t.mtu_floor = s.mtu_floor
             /\ t.mtu_ceiling = s.mtu_ceiling /\ t.mtu_last = s.mtu_last /\ t.udp_mtu = s.udp_mtu
             /\ t.mtu_probe_seq = 0 /\ t.mtu_probe_size = 0 /\ t.due = s.due
<1>1. 0 \in SeqNrs
  BY Counts DEF SeqNrs
<1> QED BY <1>1 DEF NoProbe, Sender, SamePackets

(* The search narrows an interval to one half of it, or to its floor.      *)
LEMMA MtuSearchUpdateSearches ==
  ASSUME NEW s \in Sender, Bounds(s)
  PROVE  LET t == MtuSearchUpdate(s)
         IN  /\ t \in Sender /\ SamePackets(s, t) /\ t.mtu_floor = s.mtu_floor
             /\ t.mtu_probe_seq = 0 /\ Searching(t)
<1> DEFINE u == NoProbe(s)
           half == (s.mtu_floor + s.mtu_ceiling) \div 2
           a == [u EXCEPT !.mtu_last = s.mtu_floor, !.mtu_ceiling = s.mtu_floor, !.due = FALSE]
           b == [u EXCEPT !.mtu_last = half]
<1>1. /\ u \in Sender /\ SamePackets(s, u) /\ u.mtu_floor = s.mtu_floor
      /\ u.mtu_ceiling = s.mtu_ceiling /\ u.udp_mtu = s.udp_mtu
      /\ u.mtu_probe_seq = 0 /\ u.mtu_probe_size = 0
  BY NoProbeShape
<1>2. /\ {s.mtu_floor, s.mtu_ceiling, s.mtu_last, s.mtu_probe_size, s.udp_mtu} \subseteq Nat
      /\ s.mtu_floor <= s.mtu_ceiling
  BY SizesOf DEF Bounds
<1>3. half \in Nat /\ s.mtu_floor <= half /\ half <= s.mtu_ceiling
  BY <1>2
<1> HIDE DEF u, half
<1>4. a \in Sender /\ b \in Sender
  BY <1>1, <1>2, <1>3 DEF Sender
<1>5. SamePackets(s, a) /\ SamePackets(s, b)
  BY <1>1 DEF SamePackets, Sender
<1>6. /\ a.mtu_floor = s.mtu_floor /\ a.mtu_ceiling = s.mtu_floor /\ a.mtu_last = s.mtu_floor
      /\ a.udp_mtu = s.udp_mtu /\ a.mtu_probe_seq = 0 /\ a.mtu_probe_size = 0
  BY <1>1 DEF Sender
<1>7. /\ b.mtu_floor = s.mtu_floor /\ b.mtu_ceiling = s.mtu_ceiling /\ b.mtu_last = half
      /\ b.udp_mtu = s.udp_mtu /\ b.mtu_probe_seq = 0 /\ b.mtu_probe_size = 0
  BY <1>1 DEF Sender
<1> HIDE DEF a, b
<1>8. Searching(a) /\ Searching(b)
  BY <1>2, <1>3, <1>6, <1>7 DEF Searching, Bounds, Probing
<1>9. MtuSearchUpdate(s) \in {a, b}
  BY DEF MtuSearchUpdate, a, b, u, half
<1> QED BY <1>4, <1>5, <1>6, <1>7, <1>8, <1>9

LEMMA ProbeArrivedSearches ==
  ASSUME NEW s \in Sane, s.mtu_probe_seq # 0
  PROVE  LET t == ProbeArrived(s)
         IN  t \in Sane /\ SamePackets(s, t) /\ t.mtu_floor = s.mtu_probe_size /\ t.mtu_probe_seq = 0
<1> DEFINE u == [s EXCEPT !.mtu_floor = s.mtu_probe_size]
           t == MtuSearchUpdate(u)
<1>1. s \in Sender /\ Searching(s)
  BY SaneFacts
<1>2. u \in Sender /\ SamePackets(s, u) /\ u.mtu_floor = s.mtu_probe_size
      /\ u.mtu_ceiling = s.mtu_ceiling /\ u.udp_mtu = s.udp_mtu /\ u.mtu_probe_size = s.mtu_probe_size
  BY <1>1 DEF Sender, SamePackets
<1> HIDE DEF u
<1>3. Bounds(u)
  BY <1>1, <1>2, SizesOf, MtuFacts DEF Searching, Bounds, Probing
<1>4. t \in Sender /\ SamePackets(u, t) /\ t.mtu_floor = u.mtu_floor /\ t.mtu_probe_seq = 0 /\ Searching(t)
  BY <1>2, <1>3, MtuSearchUpdateSearches
<1>5. ProbeArrived(s) = t
  BY DEF ProbeArrived, u
<1> HIDE DEF t
<1>6. SamePackets(s, t)
  BY <1>2, <1>4 DEF SamePackets
<1> QED BY <1>2, <1>4, <1>5, <1>6, SaneTuned

LEMMA ProbeLostSearches ==
  ASSUME NEW s \in Sane, s.mtu_probe_seq # 0
  PROVE  LET t == ProbeLost(s)
         IN  t \in Sane /\ SamePackets(s, t) /\ t.mtu_floor = s.mtu_floor /\ t.mtu_probe_seq = 0
<1> DEFINE u == [s EXCEPT !.mtu_ceiling = s.mtu_probe_size - 1]
           t == MtuSearchUpdate(u)
<1>1. s \in Sender /\ Searching(s)
  BY SaneFacts
<1>2. /\ {s.mtu_floor, s.mtu_ceiling, s.mtu_last, s.mtu_probe_size, s.udp_mtu} \subseteq Nat
      /\ s.mtu_floor < s.mtu_probe_size
  BY <1>1, SizesOf DEF Searching, Probing
<1>3. u \in Sender /\ SamePackets(s, u) /\ u.mtu_floor = s.mtu_floor
      /\ u.mtu_ceiling = s.mtu_probe_size - 1 /\ u.udp_mtu = s.udp_mtu
      /\ u.mtu_probe_size = s.mtu_probe_size
  BY <1>1, <1>2 DEF Sender, SamePackets
<1> HIDE DEF u
<1>4. Bounds(u)
  BY <1>1, <1>2, <1>3 DEF Searching, Bounds, Probing
<1>5. t \in Sender /\ SamePackets(u, t) /\ t.mtu_floor = u.mtu_floor /\ t.mtu_probe_seq = 0 /\ Searching(t)
  BY <1>3, <1>4, MtuSearchUpdateSearches
<1>6. ProbeLost(s) = t
  BY DEF ProbeLost, u
<1> HIDE DEF t
<1>7. SamePackets(s, t)
  BY <1>3, <1>5 DEF SamePackets
<1> QED BY <1>3, <1>5, <1>6, <1>7, SaneTuned

LEMMA NoProbeSearches ==
  ASSUME NEW s \in Sane
  PROVE  LET t == NoProbe(s)
         IN  t \in Sane /\ SamePackets(s, t) /\ t.mtu_floor = s.mtu_floor /\ t.mtu_probe_seq = 0
<1> DEFINE t == NoProbe(s)
<1>1. s \in Sender /\ Searching(s)
  BY SaneFacts
<1>2. /\ t \in Sender /\ SamePackets(s, t) /\ t.mtu_floor = s.mtu_floor
      /\ t.mtu_ceiling = s.mtu_ceiling /\ t.mtu_last = s.mtu_last /\ t.udp_mtu = s.udp_mtu
      /\ t.mtu_probe_seq = 0 /\ t.mtu_probe_size = 0
  BY <1>1, NoProbeShape
<1> HIDE DEF t
<1>3. Searching(t)
  BY <1>1, <1>2, SizesOf DEF Searching, Bounds, Probing
<1> QED BY <1>2, <1>3, SaneTuned DEF t

LEMMA MtuResetSearches ==
  ASSUME NEW s \in Sane
  PROVE  LET t == MtuReset(s)
         IN  t \in Sane /\ SamePackets(s, t) /\ Lowered(s, t)
             /\ t.mtu_probe_seq = s.mtu_probe_seq /\ t.mtu_probe_size = s.mtu_probe_size
<1> DEFINE t == [s EXCEPT !.mtu_ceiling = s.udp_mtu, !.mtu_floor = LeastMtu, !.due = FALSE]
<1>1. s \in Sender /\ Searching(s)
  BY SaneFacts
<1>2. /\ {s.mtu_floor, s.mtu_ceiling, s.mtu_last, s.mtu_probe_size, s.udp_mtu} \subseteq Nat
      /\ LeastMtu \in Nat /\ LeastMtu <= s.udp_mtu
  BY <1>1, SizesOf, MtuFacts
<1>3. /\ t \in Sender /\ SamePackets(s, t) /\ t.mtu_floor = LeastMtu
      /\ t.mtu_ceiling = s.udp_mtu /\ t.mtu_last = s.mtu_last /\ t.udp_mtu = s.udp_mtu
      /\ t.mtu_probe_seq = s.mtu_probe_seq /\ t.mtu_probe_size = s.mtu_probe_size
  BY <1>1, <1>2 DEF Sender, SamePackets
<1> HIDE DEF t
<1>4. Searching(t)
  BY <1>1, <1>2, <1>3 DEF Searching, Bounds, Probing
<1>5. t \in Sane /\ Lowered(s, t)
  BY <1>3, <1>4, SaneTuned DEF Lowered
<1>6. SamePackets(s, s) /\ Lowered(s, s)
  BY DEF SamePackets, Lowered
<1>7. MtuReset(s) \in {s, t}
  BY DEF MtuReset, t
<1> QED BY <1>3, <1>5, <1>6, <1>7

(* What one step of a function does to the sender: it changes the search,  *)
(* learns that the probe was acknowledged (its number is in A), sends a    *)
(* packet of the window, or drops one whose number is in K.                *)
Tuned(s, t) == SamePackets(s, t) /\ Lowered(s, t)

Arrived(s, t, A) ==
  /\ SamePackets(s, t) /\ s.mtu_probe_seq # 0 /\ s.mtu_probe_seq \in A
  /\ t.mtu_floor = s.mtu_probe_size /\ t.mtu_probe_seq = 0

SameNumbers(s, t) == t.seq_nr = s.seq_nr /\ t.window = s.window /\ t.written = s.written

DataOf(p) == [seq |-> p.seq, data |-> p.data, length |-> p.length]

Transmitted(s, t, p) ==
  /\ SameNumbers(s, t)
  /\ Held(t.outbuf) = (Held(s.outbuf) \ {p}) \cup {[p EXCEPT !.sent = TRUE]}
  /\ t.sent = s.sent \cup {DataOf(p)}
  /\ t.mtu_floor \in {s.mtu_floor, LeastMtu}
  /\ \/ t.mtu_probe_seq = s.mtu_probe_seq /\ t.mtu_probe_size = s.mtu_probe_size
     \/ t.mtu_probe_seq = Mod(s.seq_nr - 1) /\ t.mtu_probe_size = p.length

Removed(s, t, p) ==
  /\ SameNumbers(s, t) /\ SameSearch(s, t) /\ t.sent = s.sent
  /\ p.sent /\ Held(t.outbuf) = Held(s.outbuf) \ {p}

Shrunk(s, t) ==
  /\ t.seq_nr = s.seq_nr /\ t.window = s.window - 1 /\ t.outbuf = s.outbuf
  /\ t.written = s.written /\ t.sent = s.sent /\ SameSearch(s, t)

(* Sets of sane sockets that such steps do not leave                       *)
Closed(S, A, K) ==
  /\ S \subseteq Sane
  /\ \A s \in S : \A t \in Sane :
       \/ Tuned(s, t) \/ Arrived(s, t, A)
       \/ \E p \in Held(s.outbuf) : Transmitted(s, t, p)
       \/ \E p \in Held(s.outbuf) : p.seq \in K /\ Removed(s, t, p)
       => t \in S

Shrinking(S) == \A s \in S : \A t \in Sane : Shrunk(s, t) => t \in S

LEMMA ClosedSane == \A A, K : Closed(Sane, A, K) /\ Shrinking(Sane)
BY DEF Closed, Shrinking

(* A packet of the window                                                  *)
LEMMA WindowPacket ==
  ASSUME NEW s \in Sane, NEW v \in Int, Mod(v - Oldest(s)) < s.window, Get(s.outbuf, v) # NULL
  PROVE  LET p == Get(s.outbuf, v)
         IN  /\ p \in Held(s.outbuf) /\ p \in OutPacket /\ p.seq = Mod(v)
             /\ Mod(p.seq - Oldest(s)) < s.window
<1> DEFINE p == Get(s.outbuf, v)
           b == s.outbuf
           o == Oldest(s)
           w == s.window
<1>1. b \in Ring(OutPacket) /\ Placed(b, o, w) /\ o \in Int /\ w \in Nat /\ w <= Size(b) /\ Size(b) \in Nat
  BY SaneFacts
<1>2. Mod(v - o) < Size(b)
  <2>1. v - o \in Int
    BY <1>1
  <2>2. Mod(v - o) \in Int
    BY <2>1, ModSeqNr
  <2> HIDE DEF o, w, b
  <2> QED BY <1>1, <2>2 DEF o, w
<1> HIDE DEF b, o, w
<1>3. Get(b, v) # NULL
  BY DEF b
<1>4. Get(b, v) \in Held(b) /\ Get(b, v).seq = Mod(v)
  BY <1>1, <1>2, <1>3, BothNumbered, GetOf
<1>5. Get(b, v) \in OutPacket /\ Mod(Get(b, v).seq - o) < w
  BY <1>1, <1>4, BothNumbered, HeldFacts
<1> QED BY <1>4, <1>5 DEF b, o, w

LEMMA SendPacketSends ==
  ASSUME NEW s \in Sane, NEW v \in Int, Mod(v - Oldest(s)) < s.window, Get(s.outbuf, v) # NULL
  PROVE  LET t == SendPacket(s, v)
         IN  t \in Sane /\ Transmitted(s, t, Get(s.outbuf, v)) /\ Oldest(t) = Oldest(s)
<1> DEFINE p == Get(s.outbuf, v)
           q == [p EXCEPT !.sent = TRUE]
           m == DataOf(p)
           r == MtuReset(s)
           g == [r EXCEPT !.mtu_probe_seq = Mod(r.seq_nr - 1), !.mtu_probe_size = p.length]
           u == IF UseAsProbe(r, p) THEN g ELSE r
           b == Put(s.outbuf, v, q)
           t == [u EXCEPT !.outbuf = b, !.sent = @ \cup {m}]
<1>1. p \in Held(s.outbuf) /\ p \in OutPacket /\ p.seq = Mod(v) /\ Mod(p.seq - Oldest(s)) < s.window
  BY WindowPacket
<1>2. r \in Sane /\ SamePackets(s, r) /\ r.mtu_floor \in {s.mtu_floor, LeastMtu}
      /\ r.mtu_probe_seq = s.mtu_probe_seq /\ r.mtu_probe_size = s.mtu_probe_size
  BY MtuResetSearches DEF Lowered
<1>3. q \in OutPacket /\ q.seq = p.seq /\ m \in Data
  <2> HIDE DEF p
  <2> QED BY <1>1 DEF OutPacket, Data, DataOf
<1>4. s.outbuf \in Ring(OutPacket) /\ Placed(s.outbuf, Oldest(s), s.window) /\ Oldest(s) \in Int
  BY SaneFacts
<1>5. /\ b \in Ring(OutPacket) /\ Size(b) = Size(s.outbuf) /\ Placed(b, Oldest(s), s.window)
      /\ Held(b) = (Held(s.outbuf) \ {p}) \cup {q}
  <2> HIDE DEF q
  <2> QED BY <1>1, <1>3, <1>4, BothNumbered, PutElement
<1>6. SendPacket(s, v) = t
  BY <1>2 DEF SendPacket, SamePackets, DataOf
<1> HIDE DEF p, q, m, r, b
<1>7. r \in Sender /\ Searching(r) /\ r.seq_nr \in Int
  BY <1>2, SaneFacts
<1>8. /\ u \in Sender /\ SamePackets(r, u) /\ u.mtu_floor = r.mtu_floor /\ Searching(u)
      /\ \/ u.mtu_probe_seq = r.mtu_probe_seq /\ u.mtu_probe_size = r.mtu_probe_size
         \/ u.mtu_probe_seq = Mod(s.seq_nr - 1) /\ u.mtu_probe_size = p.length
  <2>1. CASE ~UseAsProbe(r, p)
    BY <1>7, <2>1 DEF SamePackets
  <2>2. CASE UseAsProbe(r, p)
    <3>1. Mod(r.seq_nr - 1) \in SeqNrs /\ p.length \in Nat
      <4>1. r.seq_nr - 1 \in Int
        BY <1>7
      <4> QED BY <1>1, <4>1, ModSeqNr DEF OutPacket
    <3>2. /\ g \in Sender /\ SamePackets(r, g) /\ g.mtu_floor = r.mtu_floor
          /\ g.mtu_ceiling = r.mtu_ceiling /\ g.mtu_last = r.mtu_last /\ g.udp_mtu = r.udp_mtu
          /\ g.mtu_probe_seq = Mod(r.seq_nr - 1) /\ g.mtu_probe_size = p.length
      BY <1>7, <3>1 DEF Sender, SamePackets
    <3> HIDE DEF g
    <3>3. r.mtu_floor < p.length /\ p.length <= r.mtu_ceiling
      BY <1>7, <2>2, <3>1, SizesOf DEF UseAsProbe
    <3>4. Searching(g)
      BY <1>7, <3>1, <3>2, <3>3, SizesOf DEF Searching, Bounds, Probing
    <3>5. u = g
      BY <2>2
    <3>6. r.seq_nr = s.seq_nr
      BY <1>2 DEF SamePackets
    <3> QED BY <3>2, <3>4, <3>5, <3>6
  <2> QED BY <2>1, <2>2
<1> HIDE DEF u
<1>9. /\ t \in Sender /\ t.seq_nr = u.seq_nr /\ t.window = u.window /\ t.written = u.written
      /\ t.outbuf = b /\ t.sent = u.sent \cup {m} /\ t.mtu_floor = u.mtu_floor
      /\ t.mtu_ceiling = u.mtu_ceiling /\ t.mtu_last = u.mtu_last /\ t.udp_mtu = u.udp_mtu
      /\ t.mtu_probe_seq = u.mtu_probe_seq /\ t.mtu_probe_size = u.mtu_probe_size
  BY <1>3, <1>5, <1>8 DEF Sender
<1> HIDE DEF t
<1>10. Searching(t)
  BY <1>8, <1>9 DEF Searching, Bounds, Probing
<1>11. t.seq_nr = s.seq_nr /\ t.window = s.window /\ t.written = s.written /\ t.sent = s.sent \cup {m}
  BY <1>2, <1>8, <1>9 DEF SamePackets
<1>12. Oldest(t) = Oldest(s)
  BY <1>11 DEF Oldest
<1>13. t \in Sane
  BY <1>5, <1>9, <1>10, <1>11, <1>12, SaneFacts DEF Sane
<1>14. Transmitted(s, t, p)
  BY <1>2, <1>5, <1>8, <1>9, <1>11 DEF Transmitted, SameNumbers, q, m
<1> QED BY <1>6, <1>12, <1>13, <1>14 DEF p

(* What is acknowledged leaves the ring, if it was sent.                   *)
LEMMA AckPacketRemoves ==
  ASSUME NEW s \in Sane, NEW v \in Int, Mod(v - Oldest(s)) < s.window
  PROVE  LET t == AckPacket(s, v)
             p == Get(s.outbuf, v)
         IN  /\ t \in Sane /\ t.seq_nr = s.seq_nr /\ t.window = s.window /\ Oldest(t) = Oldest(s)
             /\ \/ t = s /\ (p = NULL \/ ~p.sent)
                \/ /\ p \in Held(s.outbuf) /\ p.seq = Mod(v) /\ Removed(s, t, p)
                   /\ Get(t.outbuf, v) = NULL
<1> DEFINE p == Get(s.outbuf, v)
           b == Put(s.outbuf, v, NULL)
           t == [s EXCEPT !.outbuf = b]
<1>1. CASE p = NULL \/ ~p.sent
  BY <1>1 DEF AckPacket
<1>2. CASE ~(p = NULL \/ ~p.sent)
  <2>1. p \in Held(s.outbuf) /\ p \in OutPacket /\ p.seq = Mod(v) /\ p.sent
    BY <1>2, WindowPacket
  <2>2. s.outbuf \in Ring(OutPacket) /\ Placed(s.outbuf, Oldest(s), s.window) /\ Oldest(s) \in Int
        /\ s \in Sender
    BY SaneFacts
  <2>3. /\ b \in Ring(OutPacket) /\ Size(b) = Size(s.outbuf) /\ Placed(b, Oldest(s), s.window)
        /\ Held(b) = Held(s.outbuf) \ {p}
    BY <2>2, BothNumbered, PutNull
  <2>4. Get(b, v) = NULL
    <3>1. NULL \in OutPacket \cup {NULL}
      OBVIOUS
    <3>2. Size(b) = Size(s.outbuf) /\ b.elements = [s.outbuf.elements EXCEPT ![Slot(s.outbuf, v)] = NULL]
      <4> DEFINE c == s.outbuf
      <4>1. c \in Ring(OutPacket)
        BY <2>2
      <4> HIDE DEF c
      <4>2. LET d == Put(c, v, NULL)
            IN  Size(d) = Size(c) /\ d.elements = [c.elements EXCEPT ![Slot(c, v)] = NULL]
        BY <3>1, <4>1, PutShape
      <4> QED BY <4>2 DEF c
    <3>3. Slot(s.outbuf, v) \in DOMAIN s.outbuf.elements
      BY <2>2, RingFacts
    <3> HIDE DEF b
    <3> QED BY <3>2, <3>3 DEF Get, Slot
  <2>5. AckPacket(s, v) = t
    BY <1>2 DEF AckPacket
  <2> HIDE DEF p, b
  <2>6. /\ t \in Sender /\ t.outbuf = b /\ SameSearch(s, t) /\ SameNumbers(s, t) /\ t.sent = s.sent
        /\ t.mtu_ceiling = s.mtu_ceiling /\ t.mtu_last = s.mtu_last /\ t.udp_mtu = s.udp_mtu
    BY <2>2, <2>3 DEF Sender, SameSearch, SameNumbers
  <2> HIDE DEF t
  <2>7. Oldest(t) = Oldest(s)
    BY <2>6 DEF SameNumbers, Oldest
  <2>8. Searching(t)
    BY <2>6, SaneFacts DEF Searching, Bounds, Probing, SameSearch
  <2>9. t \in Sane
    BY <2>3, <2>6, <2>7, <2>8, SaneFacts DEF Sane, SameNumbers
  <2>10. Removed(s, t, p)
    BY <2>1, <2>3, <2>6 DEF Removed
  <2> QED BY <2>1, <2>4, <2>5, <2>6, <2>7, <2>9, <2>10 DEF p, SameNumbers
<1> QED BY <1>1, <1>2

(* The places of the window: the i-th packet, the oldest and the newest    *)
LEMMA NumberFacts ==
  ASSUME NEW s \in Sane
  PROVE  /\ \A i \in 1..s.window : /\ Number(s, i) \in Int /\ Number(s, i) \in SeqNrs
                                   /\ Mod(Number(s, i) - Oldest(s)) = i - 1
         /\ Mod(Oldest(s) - Oldest(s)) = 0 /\ Mod(Oldest(s)) = Oldest(s)
         /\ s.seq_nr - 1 \in Int
         /\ s.window > 0 => Mod((s.seq_nr - 1) - Oldest(s)) = s.window - 1
<1>0. /\ s.seq_nr \in Int /\ s.window \in Nat /\ s.window < Modulus
      /\ Oldest(s) \in SeqNrs /\ Oldest(s) \in Int /\ Modulus \in Nat
  BY SaneFacts, Counts
<1>1. ASSUME NEW i \in 1..s.window
      PROVE /\ Number(s, i) \in Int /\ Number(s, i) \in SeqNrs
            /\ Mod(Number(s, i) - Oldest(s)) = i - 1
  <2> DEFINE o == Oldest(s)
             d == i - 1
  <2>1. o \in Int /\ d \in 0..(Modulus - 1) /\ d \in Int /\ Number(s, i) = Mod(o + d)
    BY <1>0 DEF Number
  <2> HIDE DEF o, d
  <2>2. Mod(Mod(o + d) - o) = d /\ Mod(o + d) \in SeqNrs /\ Mod(o + d) \in Int
    <3>1. o + d \in Int
      BY <2>1
    <3> QED BY <2>1, <3>1, DistanceOf, ModSeqNr
  <2> QED BY <2>1, <2>2 DEF o, d
<1>2. Mod(Oldest(s) - Oldest(s)) = 0 /\ Mod(Oldest(s)) = Oldest(s)
  <2>1. Oldest(s) - Oldest(s) = 0 /\ 0 \in 0..(Modulus - 1)
    BY <1>0, Counts
  <2> QED BY <1>0, <2>1, Small DEF SeqNrs
<1>3. ASSUME s.window > 0 PROVE Mod((s.seq_nr - 1) - Oldest(s)) = s.window - 1
  <2> DEFINE a == s.seq_nr - s.window
             b == s.seq_nr - 1
  <2>1. a \in Int /\ b \in Int /\ Oldest(s) = Mod(a) /\ b - a = s.window - 1
        /\ s.window - 1 \in 0..(Modulus - 1)
    BY <1>0, <1>3 DEF Oldest
  <2> HIDE DEF a, b
  <2>2. Mod(b - Mod(a)) = Mod(b - a)
    BY <2>1, ModSum
  <2> QED BY <2>1, <2>2, Small DEF b
<1> QED BY <1>0, <1>1, <1>2, <1>3

(* Sending keeps a socket in a closed set.                                 *)
LEMMA SendPacketStays ==
  ASSUME NEW S, NEW A, NEW K, Closed(S, A, K), NEW s \in S, NEW v \in Int,
         Mod(v - Oldest(s)) < s.window, Get(s.outbuf, v) # NULL
  PROVE  LET t == SendPacket(s, v) IN t \in S /\ SameNumbers(s, t) /\ Oldest(t) = Oldest(s)
<1> DEFINE t == SendPacket(s, v)
           p == Get(s.outbuf, v)
<1>1. s \in Sane
  BY DEF Closed
<1>2. t \in Sane /\ Transmitted(s, t, p) /\ Oldest(t) = Oldest(s)
  BY <1>1, SendPacketSends
<1>3. p \in Held(s.outbuf)
  BY <1>1, WindowPacket
<1> HIDE DEF t, p
<1>4. t \in S
  BY <1>2, <1>3 DEF Closed
<1> QED BY <1>2, <1>4 DEF Transmitted, t

(* What each turn of a loop keeps, the loop keeps.                         *)
LEMMA FlushTurns ==
  ASSUME NEW s, NEW quota, s.window \in Nat, NEW S, [sock |-> s, quota |-> quota] \in S,
         \A x \in S : \A i \in 1..s.window : FlushPacket(x, i) \in S
  PROVE  \E f \in S : FlushPackets(s, quota) = f.sock
<1> DEFINE op(x, i) == FlushPacket(x, i)
           n == s.window
           base == [sock |-> s, quota |-> quota]
           seq == [i \in 1..n |-> i]
           F == [q \in S \X (1..n) |-> op(q[1], q[2])]
           IsFold(h) == h = [t \in SUBSET (DOMAIN seq) |->
                              IF t = {} THEN base ELSE op(h[t \ {Max(t)}], seq[Max(t)])]
           iter == CHOOSE h : IsFold(h)
<1>1. n \in Nat /\ DOMAIN seq = 1..n /\ \A i \in 1..n : seq[i] = i
  OBVIOUS
<1> HIDE DEF seq
<1>2. FlushPackets(s, quota) = iter[1..n].sock
  BY <1>1 DEF FlushPackets, FoldLeft, MapThenFoldSet, seq
<1>3. base \in S /\ \A x \in S, i \in 1..n : op(x, i) \in S
  OBVIOUS
<1> HIDE DEF op, n, base
<1>4. \A x \in S, i \in 1..n : F[<<x, i>>] = op(x, i)
  OBVIOUS
<1> HIDE DEF F
<1>5. PICK g : /\ g = [t \in SUBSET (1..n) |-> IF t = {} THEN base ELSE F[<<g[t \ {Max(t)}], Max(t)>>]]
               /\ \A t \in SUBSET (1..n) : t # {} => Max(t) \in 1..n /\ g[t \ {Max(t)}] \in S
  <2>1. base \in S /\ \A k \in 1..n : \A x \in S : F[<<x, k>>] \in S
    BY <1>3, <1>4
  <2>2. HasFoldIn(n, S, base, F)
    BY ONLY <1>1, <2>1, FoldWithin
  <2> QED BY <2>2 DEF HasFoldIn
<1>6. ASSUME NEW t \in SUBSET (1..n), t # {}
      PROVE F[<<g[t \ {Max(t)}], Max(t)>>] = op(g[t \ {Max(t)}], seq[Max(t)])
  <2> DEFINE k == Max(t)
             x == g[t \ {k}]
  <2>1. k \in 1..n /\ x \in S
    BY <1>5, <1>6
  <2> HIDE DEF k, x
  <2>2. F[<<x, k>>] = op(x, seq[k])
    BY <1>1, <1>4, <2>1
  <2> QED BY <2>2 DEF k, x
<1>7. IsFold(g)
  BY <1>1, <1>5, <1>6
<1>8. IsFold(iter)
  BY <1>7
<1> HIDE DEF iter
<1>9. iter[{}] \in S
  BY <1>1, <1>3, <1>8
<1>10. ASSUME NEW k \in 1..n, iter[1..k-1] \in S PROVE iter[1..k] \in S
  <2>1. 1..k # {} /\ 1..k \in SUBSET (1..n) /\ Max(1..k) = k /\ (1..k) \ {k} = 1..k-1
    BY <1>1, Prefix
  <2>2. iter[1..k] = op(iter[(1..k) \ {Max(1..k)}], seq[Max(1..k)])
    BY <1>1, <1>8, <2>1
  <2> HIDE DEF IsFold
  <2>3. iter[1..k] = op(iter[1..k-1], k)
    BY <1>1, <2>1, <2>2
  <2> QED BY <1>3, <1>10, <2>3
<1>11. iter[1..n] \in S
  BY <1>1, <1>9, <1>10, FoldStaysIn
<1> QED BY <1>2, <1>11

LEMMA FlushPacketsStays ==
  ASSUME NEW S, NEW A, NEW K, Closed(S, A, K), NEW s \in S, NEW quota \in Nat
  PROVE  LET t == FlushPackets(s, quota) IN t \in S /\ SameNumbers(s, t) /\ Oldest(t) = Oldest(s)
<1> DEFINE Same == {t \in S : SameNumbers(s, t) /\ Oldest(t) = Oldest(s)}
           Turn == [sock: Same, quota: Int]
           base == [sock |-> s, quota |-> quota]
<1>1. s \in Sane /\ s.window \in Nat
  BY SaneFacts DEF Closed
<1>2. base \in Turn
  BY DEF SameNumbers
<1>3. ASSUME NEW f \in Turn, NEW i \in 1..s.window PROVE FlushPacket(f, i) \in Turn
  <2> DEFINE r == f.sock
             v == Number(r, i)
             t == SendPacket(r, v)
             q == f.quota - 1
  <2>1. r \in S /\ SameNumbers(s, r) /\ Oldest(r) = Oldest(s) /\ q \in Int
    BY <1>3
  <2>2. r \in Sane /\ i \in 1..r.window
    BY <2>1 DEF Closed, SameNumbers
  <2>3. v \in Int /\ Mod(v - Oldest(r)) < r.window
    <3>1. v \in Int /\ Mod(v - Oldest(r)) = i - 1 /\ r.window \in Nat
      BY <2>2, NumberFacts, SaneFacts
    <3> QED BY <2>2, <3>1
  <2> HIDE DEF r, v
  <2>4. ASSUME Unsent(Get(r.outbuf, v)) PROVE [sock |-> t, quota |-> q] \in Turn
    <3>1. Get(r.outbuf, v) # NULL
      BY <2>4 DEF Unsent
    <3>2. t \in S /\ SameNumbers(r, t) /\ Oldest(t) = Oldest(r)
      BY <2>1, <2>3, <3>1, SendPacketStays
    <3> HIDE DEF t
    <3> QED BY <2>1, <3>2 DEF SameNumbers
  <2>5. \/ FlushPacket(f, i) = f
        \/ Unsent(Get(r.outbuf, v)) /\ FlushPacket(f, i) = [sock |-> t, quota |-> q]
    BY DEF FlushPacket, r, v
  <2> QED BY <1>3, <2>4, <2>5
<1> HIDE DEF Turn
<1>4. PICK f \in Turn : FlushPackets(s, quota) = f.sock
  BY <1>1, <1>2, <1>3, FlushTurns
<1>5. f.sock \in Same
  BY DEF Turn
<1> QED BY <1>4, <1>5

LEMMA QuotasNat == ASSUME NEW s \in Sane PROVE Quotas(s) \subseteq Nat
BY SaneFacts DEF Quotas

-----------------------------------------------------------------------------
(* Writing                                                                 *)

Refilled(p, n, length) == [p EXCEPT !.data = Append(@, n), !.length = length]

NewOf(s, length) == [seq |-> s.seq_nr, data |-> <<s.written + 1>>, length |-> length, sent |-> FALSE]

(* The last packet takes one more write, or the write has one of its own.  *)
Filled(s, t) ==
  /\ t.seq_nr = s.seq_nr /\ t.window = s.window /\ t.written = s.written + 1
  /\ t.sent = s.sent /\ SameSearch(s, t)
  /\ \E p \in Held(s.outbuf), length \in Nat :
       /\ ~p.sent /\ p.seq = Mod(s.seq_nr - 1)
       /\ Held(t.outbuf) = (Held(s.outbuf) \ {p}) \cup {Refilled(p, s.written + 1, length)}

Appended(s, t) ==
  /\ t.seq_nr = Mod(s.seq_nr + 1) /\ t.window = s.window + 1 /\ t.written = s.written + 1
  /\ t.sent = s.sent /\ SameSearch(s, t)
  /\ \E length \in Nat : Held(t.outbuf) = Held(s.outbuf) \cup {NewOf(s, length)}

LEMMA FillLastFills ==
  ASSUME NEW s \in Sane, Unsent(Newest(s)), NEW length \in Nat
  PROVE  LET t == FillLast(s, length)
         IN  t \in Sane /\ Filled(s, t) /\ Oldest(t) = Oldest(s) /\ t.mtu_last = s.mtu_last
<1> DEFINE v == s.seq_nr - 1
           p == Get(s.outbuf, v)
           q == Refilled(p, s.written + 1, length)
           b == Put(s.outbuf, v, q)
           e == [s EXCEPT !.written = @ + 1]
           t == [e EXCEPT !.outbuf = b]
<1>1. s.window > 0 /\ Newest(s) = p /\ p # NULL /\ ~p.sent
  BY SaneFacts DEF Newest, Unsent
<1>2. v \in Int /\ Mod(v - Oldest(s)) < s.window /\ s.seq_nr \in Int
  <2>1. v \in Int /\ Mod(v - Oldest(s)) = s.window - 1 /\ s.window \in Nat
    BY <1>1, NumberFacts, SaneFacts
  <2> HIDE DEF v
  <2> QED BY <2>1, SaneFacts
<1>3. p \in Held(s.outbuf) /\ p \in OutPacket /\ p.seq = Mod(v) /\ Mod(p.seq - Oldest(s)) < s.window
  <2> HIDE DEF v
  <2> QED BY <1>1, <1>2, WindowPacket
<1>4. s \in Sender /\ s.written \in Nat
  BY SaneFacts DEF Sender
<1>5. q \in OutPacket /\ q.seq = p.seq
  <2> HIDE DEF p
  <2>1. \A d \in Seq(Nat) : Append(d, s.written + 1) \in Seq(Nat)
    BY <1>4
  <2> QED BY <1>3, <2>1 DEF OutPacket, Refilled
<1>6. s.outbuf \in Ring(OutPacket) /\ Placed(s.outbuf, Oldest(s), s.window) /\ Oldest(s) \in Int
  BY SaneFacts
<1>7. /\ b \in Ring(OutPacket) /\ Size(b) = Size(s.outbuf) /\ Placed(b, Oldest(s), s.window)
      /\ Held(b) = (Held(s.outbuf) \ {p}) \cup {q}
  <2> HIDE DEF q, v
  <2> QED BY <1>2, <1>3, <1>5, <1>6, BothNumbered, PutElement DEF p
<1>8. FillLast(s, length) = t
  BY <1>1 DEF FillLast, Refilled
<1> HIDE DEF p, q, b, v
<1>9. /\ t \in Sender /\ t.seq_nr = s.seq_nr /\ t.window = s.window /\ t.written = s.written + 1
      /\ t.outbuf = b /\ t.sent = s.sent /\ SameSearch(s, t)
      /\ t.mtu_ceiling = s.mtu_ceiling /\ t.mtu_last = s.mtu_last /\ t.udp_mtu = s.udp_mtu
  <2>1. /\ e \in Sender /\ e.seq_nr = s.seq_nr /\ e.window = s.window /\ e.written = s.written + 1
        /\ e.sent = s.sent /\ SameSearch(s, e)
        /\ e.mtu_ceiling = s.mtu_ceiling /\ e.mtu_last = s.mtu_last /\ e.udp_mtu = s.udp_mtu
    BY <1>4 DEF Sender, SameSearch
  <2> HIDE DEF e
  <2> QED BY <1>7, <2>1 DEF Sender, SameSearch
<1> HIDE DEF t
<1>10. Oldest(t) = Oldest(s)
  BY <1>9 DEF Oldest
<1>11. Searching(t)
  BY <1>9, SaneFacts DEF Searching, Bounds, Probing, SameSearch
<1>12. t \in Sane
  BY <1>7, <1>9, <1>10, <1>11, SaneFacts DEF Sane
<1>13. Filled(s, t)
  BY <1>1, <1>3, <1>7, <1>9 DEF Filled, q, v
<1> QED BY <1>8, <1>9, <1>10, <1>12, <1>13

LEMMA NewPacketAppends ==
  ASSUME NEW s \in Sane, s.window < OutMax - 1, NEW length \in Nat
  PROVE  LET t == NewPacket(s, length) IN t \in Sane /\ Appended(s, t) /\ Oldest(t) = Oldest(s)
<1> DEFINE n == s.seq_nr
           w == s.window
           o == Oldest(s)
           p == NewOf(s, length)
           b == EnsureSize(s.outbuf, n, w)
           c == Put(b, n, p)
           d == [s EXCEPT !.outbuf = c]
           e == [d EXCEPT !.seq_nr = Mod(n + 1)]
           a == [e EXCEPT !.window = w + 1]
           t == [a EXCEPT !.written = s.written + 1]
<1>1. /\ s \in Sender /\ s.written \in Nat /\ n \in Int /\ n \in SeqNrs /\ w \in Nat /\ o \in Int
      /\ s.outbuf \in Ring(OutPacket) /\ Placed(s.outbuf, o, w) /\ w < Modulus
  BY SaneFacts DEF Sender
<1>2. w <= ReorderMax /\ w + 1 <= OutMax - 1 /\ w \in 0..(Modulus - 1)
  BY <1>1, Counts
<1>3. o = Mod(n - w) /\ n - w \in Int
  BY <1>1 DEF Oldest
<1>4. Mod(n - o) = w /\ Mod((n - w) - o) = 0
  <2> DEFINE x == n - w
  <2>1. x \in Int /\ o = Mod(x) /\ n - x = w /\ x - x = 0 /\ 0 \in 0..(Modulus - 1)
    BY <1>1, <1>3, Counts
  <2> HIDE DEF x, o, n, w
  <2>2. Mod(n - Mod(x)) = Mod(n - x) /\ Mod(x - Mod(x)) = Mod(x - x)
    BY <1>1, <2>1, ModSum
  <2>3. Mod(n - o) = w /\ Mod(x - o) = 0
    BY <1>2, <2>1, <2>2, Small
  <2> QED BY <2>3 DEF x
<1>5. p \in OutPacket /\ p.seq = n /\ Mod(n) = n
  BY <1>1, Small DEF OutPacket, NewOf, SeqNrs
<1>6. NewPacket(s, length) = t
  BY DEF NewPacket, AppendPacket, NewOf
<1> HIDE DEF n, w, o, p
<1>7. /\ b \in Ring(OutPacket) /\ w < Size(b) /\ Placed(b, o, w) /\ Held(b) = Held(s.outbuf)
  BY <1>1, <1>2, <1>4, BothNumbered, EnsureKeeps
<1>8. Placed(b, o, w + 1)
  <2>1. Size(b) \in Nat /\ \A x \in Int : Mod(x) < w => Mod(x) < w + 1
    BY <1>1, <1>7, RingFacts, ModSeqNr
  <2>2. ASSUME NEW j \in Slots(Size(b)), b.elements[j] # NULL
        PROVE b.elements[j].seq % Size(b) = j /\ Mod(b.elements[j].seq - o) < w + 1
    <3>1. b.elements[j] \in OutPacket
      BY <1>7, <2>2, RingFacts
    <3>2. b.elements[j].seq \in Int
      BY <3>1, Counts DEF OutPacket, SeqNrs
    <3>3. b.elements[j].seq % Size(b) = j /\ Mod(b.elements[j].seq - o) < w
      BY <1>7, <2>2 DEF Placed
    <3> QED BY <1>1, <2>1, <3>2, <3>3
  <2> QED BY <1>1, <1>7, <2>1, <2>2 DEF Placed
<1>9. Get(b, n) = NULL
  <2> SUFFICES ASSUME Get(b, n) # NULL PROVE FALSE
    OBVIOUS
  <2>1. Get(b, n) \in Held(b) /\ Get(b, n).seq = n
    <3>1. Mod(n - o) < Size(b)
      BY <1>4, <1>7
    <3> QED BY <1>1, <1>5, <1>7, <3>1, BothNumbered, GetOf
  <2>2. Mod(Get(b, n).seq - o) < w
    BY <1>1, <1>7, <2>1, BothNumbered, HeldFacts
  <2> QED BY <1>1, <1>4, <2>1, <2>2
<1>10. /\ c \in Ring(OutPacket) /\ Size(c) = Size(b) /\ Placed(c, o, w + 1)
       /\ Held(c) = Held(s.outbuf) \cup {p}
  <2> HIDE DEF b
  <2>1. Mod(p.seq - o) < w + 1
    BY <1>1, <1>4, <1>5
  <2>2. /\ c \in Ring(OutPacket) /\ Size(c) = Size(b) /\ Placed(c, o, w + 1)
        /\ Held(c) = (Held(b) \ {Get(b, n)}) \cup {p}
    BY <1>1, <1>5, <1>7, <1>8, <2>1, BothNumbered, PutElement
  <2>3. NULL \notin Held(b)
    BY DEF Held
  <2> QED BY <1>7, <1>9, <2>2, <2>3
<1>11. Mod(n + 1) \in SeqNrs /\ n + 1 \in Int
  BY <1>1, ModSeqNr
<1> HIDE DEF b, c
<1>12. /\ a \in Sender /\ a.seq_nr = Mod(n + 1) /\ a.window = w + 1
       /\ a.outbuf = c /\ a.sent = s.sent /\ SameSearch(s, a)
       /\ a.mtu_ceiling = s.mtu_ceiling /\ a.mtu_last = s.mtu_last /\ a.udp_mtu = s.udp_mtu
  <2>1. /\ d \in Sender /\ d.outbuf = c /\ d.sent = s.sent /\ SameSearch(s, d)
        /\ d.mtu_ceiling = s.mtu_ceiling /\ d.mtu_last = s.mtu_last /\ d.udp_mtu = s.udp_mtu
    BY <1>1, <1>10 DEF Sender, SameSearch
  <2> HIDE DEF d
  <2>2. /\ e \in Sender /\ e.seq_nr = Mod(n + 1) /\ e.outbuf = c /\ e.sent = s.sent /\ SameSearch(s, e)
        /\ e.mtu_ceiling = s.mtu_ceiling /\ e.mtu_last = s.mtu_last /\ e.udp_mtu = s.udp_mtu
    BY <1>11, <2>1 DEF Sender, SameSearch
  <2> HIDE DEF e
  <2>3. w + 1 \in Nat
    BY <1>1
  <2> QED BY <2>2, <2>3 DEF Sender, SameSearch
<1> HIDE DEF a
<1>13. /\ t \in Sender /\ t.seq_nr = Mod(n + 1) /\ t.window = w + 1 /\ t.written = s.written + 1
       /\ t.outbuf = c /\ t.sent = s.sent /\ SameSearch(s, t)
       /\ t.mtu_ceiling = s.mtu_ceiling /\ t.mtu_last = s.mtu_last /\ t.udp_mtu = s.udp_mtu
  BY <1>1, <1>12 DEF Sender, SameSearch
<1> HIDE DEF t
<1>14. Oldest(t) = o
  <2>1. Mod(n + 1) - (w + 1) = Mod(n + 1) + (-(w + 1)) /\ n + 1 + (-(w + 1)) = n - w
        /\ -(w + 1) \in Int
    BY <1>1, <1>11, ModSeqNr
  <2>2. Mod(Mod(n + 1) + (-(w + 1))) = Mod(n + 1 + (-(w + 1)))
    BY <1>11, <2>1, ModSum
  <2> QED BY <1>3, <1>13, <2>1, <2>2 DEF Oldest
<1>15. Searching(t)
  BY <1>13, SaneFacts DEF Searching, Bounds, Probing, SameSearch
<1>16. t \in Sane
  BY <1>2, <1>10, <1>13, <1>14, <1>15 DEF Sane
<1>17. Appended(s, t)
  BY <1>10, <1>13 DEF Appended, n, w, p
<1> QED BY <1>6, <1>14, <1>16, <1>17 DEF o

(* A write fills the last packet, or appends one, or both.                 *)
LEMMA WrittenSteps ==
  ASSUME NEW s \in Sane, s.window < OutMax - 1, NEW t \in Written(s)
  PROVE  /\ t \in Sane /\ Oldest(t) = Oldest(s)
         /\ \/ Filled(s, t) \/ Appended(s, t)
            \/ \E u \in Sane : /\ Filled(s, u) /\ Oldest(u) = Oldest(s) /\ Appended(u, t)
                               /\ s.written + 2 <= NumWrites
<1>1. s.mtu_last \in Nat /\ 1 \in Nat
  BY SaneFacts, SizesOf
<1>2. CASE HasRoom(s)
  <2>1. Unsent(Newest(s))
    BY <1>2 DEF HasRoom
  <2>2. Newest(s).length \in Nat
    <3>1. s.window > 0 /\ Newest(s) = Get(s.outbuf, s.seq_nr - 1) /\ Newest(s) # NULL
      BY <2>1, SaneFacts DEF Newest, Unsent
    <3>2. s.seq_nr - 1 \in Int /\ Mod((s.seq_nr - 1) - Oldest(s)) = s.window - 1 /\ s.window \in Nat
      BY <3>1, NumberFacts, SaneFacts
    <3> DEFINE v == s.seq_nr - 1
    <3>3. v \in Int /\ Mod(v - Oldest(s)) < s.window /\ Get(s.outbuf, v) # NULL
          /\ Newest(s) = Get(s.outbuf, v)
      BY <3>1, <3>2
    <3> HIDE DEF v
    <3>4. Newest(s) \in OutPacket
      BY <3>3, WindowPacket
    <3> QED BY <3>4 DEF OutPacket
  <2> DEFINE u == FillLast(s, s.mtu_last)
             f == FillLast(s, Newest(s).length)
             g == NewPacket(u, 1)
  <2>3. f \in Sane /\ Filled(s, f) /\ Oldest(f) = Oldest(s)
    <3> DEFINE l == Newest(s).length
    <3>1. l \in Nat
      BY <2>2
    <3> HIDE DEF l
    <3>2. LET x == FillLast(s, l) IN x \in Sane /\ Filled(s, x) /\ Oldest(x) = Oldest(s)
      BY <2>1, <3>1, FillLastFills
    <3> QED BY <3>2 DEF l
  <2>4. u \in Sane /\ Filled(s, u) /\ Oldest(u) = Oldest(s)
    <3> DEFINE l == s.mtu_last
    <3>1. l \in Nat
      BY <1>1
    <3> HIDE DEF l
    <3>2. LET x == FillLast(s, l) IN x \in Sane /\ Filled(s, x) /\ Oldest(x) = Oldest(s)
      BY <2>1, <3>1, FillLastFills
    <3> QED BY <3>2 DEF l
  <2>5. t \in {f, u} \/ (t = g /\ s.written + 2 <= NumWrites)
    BY <1>2 DEF Written
  <2> HIDE DEF f, u
  <2>6. g \in Sane /\ Appended(u, g) /\ Oldest(g) = Oldest(u)
    <3>1. u.window < OutMax - 1
      BY <2>4 DEF Filled
    <3> QED BY <1>1, <2>4, <3>1, NewPacketAppends
  <2> HIDE DEF g
  <2> QED BY <2>3, <2>4, <2>5, <2>6
<1>3. CASE ~HasRoom(s)
  <2>1. PICK length \in Lengths(s) : t = NewPacket(s, length)
    BY <1>3 DEF Written
  <2>2. length \in Nat
    BY <1>1 DEF Lengths
  <2> QED BY <2>1, <2>2, NewPacketAppends
<1> QED BY <1>2, <1>3

-----------------------------------------------------------------------------
(* Acknowledging                                                           *)

(* The oldest packet of the window is in the ring.                         *)
Live(s) == s.window > 0 => Get(s.outbuf, Oldest(s)) # NULL

LEMMA FirstHeld ==
  ASSUME NEW s \in Sane, s.window > 0
  PROVE  Get(s.outbuf, Oldest(s)) # NULL <=> \E p \in Held(s.outbuf) : p.seq = Oldest(s)
<1> DEFINE v == Oldest(s)
<1>1. v \in Int /\ Mod(v - Oldest(s)) < s.window /\ Mod(v) = v
  BY NumberFacts, SaneFacts
<1>2. s.outbuf \in Ring(OutPacket) /\ Placed(s.outbuf, v, s.window)
  BY SaneFacts
<1> HIDE DEF v
<1>3. ASSUME Get(s.outbuf, v) # NULL PROVE \E p \in Held(s.outbuf) : p.seq = v
  BY <1>1, <1>3, WindowPacket
<1>4. ASSUME NEW p \in Held(s.outbuf), p.seq = v PROVE Get(s.outbuf, v) # NULL
  BY <1>1, <1>2, <1>4, BothNumbered, HeldFacts
<1> QED BY <1>3, <1>4 DEF v

(* Sockets with the window of s and its oldest packet                      *)
Headed(s) == {t \in Sane : /\ t.seq_nr = s.seq_nr /\ t.window = s.window
                           /\ \E p \in Held(t.outbuf) : p.seq = Oldest(s)}

LEMMA HeadedClosed ==
  ASSUME NEW s, NEW A, NEW K, Oldest(s) \notin K
  PROVE  Closed(Headed(s), A, K)
<1>1. ASSUME NEW r \in Headed(s), NEW t \in Sane, Tuned(r, t) \/ Arrived(r, t, A) PROVE t \in Headed(s)
  BY <1>1 DEF Headed, Tuned, Arrived, SamePackets
<1>2. ASSUME NEW r \in Headed(s), NEW t \in Sane, NEW p \in Held(r.outbuf), Transmitted(r, t, p)
      PROVE t \in Headed(s)
  <2>1. PICK q \in Held(r.outbuf) : q.seq = Oldest(s)
    BY DEF Headed
  <2>2. p \in OutPacket
    <3>1. r \in Sane
      BY DEF Headed
    <3> QED BY <3>1, SaneFacts, BothNumbered, HeldFacts
  <2>3. [p EXCEPT !.sent = TRUE].seq = p.seq
    BY <2>2 DEF OutPacket
  <2>4. \E x \in Held(t.outbuf) : x.seq = Oldest(s)
    BY <1>2, <2>1, <2>3 DEF Transmitted
  <2> QED BY <1>2, <2>4 DEF Headed, Transmitted, SameNumbers
<1>3. ASSUME NEW r \in Headed(s), NEW t \in Sane, NEW p \in Held(r.outbuf), p.seq \in K, Removed(r, t, p)
      PROVE t \in Headed(s)
  BY <1>3 DEF Headed, Removed, SameNumbers
<1>4. Headed(s) \subseteq Sane
  BY DEF Headed
<1> QED BY <1>1, <1>2, <1>3, <1>4 DEF Closed

LEMMA HeadedLive ==
  ASSUME NEW s \in Sane
  PROVE  /\ Live(s) /\ s.window > 0 => s \in Headed(s)
         /\ \A t \in Headed(s) : Live(t)
         /\ \A t \in Sane : s.window = 0 /\ SameNumbers(s, t) => Live(t)
<1>1. Live(s) /\ s.window > 0 => s \in Headed(s)
  BY FirstHeld DEF Live, Headed
<1>2. ASSUME NEW t \in Headed(s) PROVE Live(t)
  <2>1. t \in Sane /\ Oldest(t) = Oldest(s) /\ \E p \in Held(t.outbuf) : p.seq = Oldest(t)
    BY DEF Headed, Oldest
  <2> QED BY <2>1, FirstHeld DEF Live
<1>3. ASSUME NEW t \in Sane, s.window = 0, SameNumbers(s, t) PROVE Live(t)
  BY <1>3 DEF Live, SameNumbers
<1> QED BY <1>1, <1>2, <1>3

LEMMA TunedStays ==
  ASSUME NEW S, NEW A, NEW K, Closed(S, A, K), NEW s \in S, NEW t \in Sane, Tuned(s, t)
  PROVE  t \in S /\ SameNumbers(s, t) /\ Oldest(t) = Oldest(s)
<1>1. t \in S
  BY DEF Closed
<1> QED BY <1>1 DEF Tuned, SamePackets, SameNumbers, Oldest

(* The number past o                                                       *)
LEMMA DistanceNext ==
  ASSUME NEW o \in Int, NEW v \in Int, Mod(v - o) # 0 PROVE Mod(v - Mod(o + 1)) = Mod(v - o) - 1
<1> DEFINE x == v - o
           d == Mod(x)
<1>1. x \in Int /\ d \in Int /\ d \in 0..(Modulus - 1) /\ d # 0
  BY ModSeqNr DEF SeqNrs
<1>2. Mod(v - Mod(o + 1)) = Mod(v - (o + 1))
  <2>1. o + 1 \in Int
    OBVIOUS
  <2> QED BY <2>1, ModSum
<1>3. Mod(d + (-1)) = Mod(x + (-1))
  <2> HIDE DEF x
  <2> QED BY <1>1, ModSum
<1>4. x + (-1) = v - (o + 1) /\ d + (-1) = d - 1
  <2>1. x + (-1) = v - (o + 1)
    OBVIOUS
  <2> QED BY <1>1, <2>1
<1>5. d - 1 \in 0..(Modulus - 1)
  <2> HIDE DEF d
  <2> QED BY <1>1, Counts
<1>6. Mod(d - 1) = d - 1
  <2> HIDE DEF d
  <2> QED BY <1>5, Small
<1> QED BY <1>2, <1>3, <1>4, <1>6

(* A window whose oldest packet is gone may shrink.                        *)
LEMMA ShrinkSane ==
  ASSUME NEW s \in Sane, s.window > 0, Get(s.outbuf, Oldest(s)) = NULL
  PROVE  LET t == [s EXCEPT !.window = @ - 1]
         IN  t \in Sane /\ Shrunk(s, t)
<1> DEFINE t == [s EXCEPT !.window = @ - 1]
           o == Oldest(s)
           w == s.window
           b == s.outbuf
<1>1. /\ s \in Sender /\ o \in Int /\ o \in SeqNrs /\ w \in Nat /\ w > 0 /\ w <= OutMax - 1
      /\ b \in Ring(OutPacket) /\ Placed(b, o, w) /\ w <= Size(b) /\ Size(b) \in Nat
      /\ s.seq_nr \in Int /\ Searching(s) /\ w - 1 \in Nat
  BY SaneFacts
<1>2. /\ t \in Sender /\ t.seq_nr = s.seq_nr /\ t.window = w - 1 /\ t.written = s.written
      /\ t.outbuf = b /\ t.sent = s.sent /\ SameSearch(s, t)
      /\ t.mtu_ceiling = s.mtu_ceiling /\ t.mtu_last = s.mtu_last /\ t.udp_mtu = s.udp_mtu
  BY <1>1 DEF Sender, SameSearch
<1>3. o = Mod(s.seq_nr - w)
  BY DEF Oldest
<1> HIDE DEF t, o, w, b
<1>4. Oldest(t) = Mod(o + 1)
  <2> DEFINE a == s.seq_nr - w
  <2>1. a \in Int /\ s.seq_nr - (w - 1) = a + 1
    BY <1>1
  <2> HIDE DEF a
  <2>2. Mod(Mod(a) + 1) = Mod(a + 1)
    BY <2>1, ModSum
  <2> QED BY <1>2, <1>3, <2>1, <2>2 DEF Oldest, a
<1>5. Placed(b, Mod(o + 1), w - 1)
  <2>1. ASSUME NEW j \in Slots(Size(b)), b.elements[j] # NULL
        PROVE b.elements[j].seq % Size(b) = j /\ Mod(b.elements[j].seq - Mod(o + 1)) < w - 1
    <3> DEFINE v == b.elements[j].seq
    <3>1. v \in Int /\ v \in SeqNrs
      <4>1. b.elements[j] \in OutPacket
        BY <1>1, <2>1, RingFacts
      <4> QED BY <4>1, Counts DEF OutPacket, SeqNrs
    <3>2. v % Size(b) = j /\ Mod(v - o) < w
      BY <1>1, <2>1 DEF Placed
    <3>3. Mod(v - o) # 0
      <4> SUFFICES ASSUME Mod(v - o) = 0 PROVE FALSE
        OBVIOUS
      <4>1. v = o
        <5>1. Mod(o - o) = 0
          BY NumberFacts DEF o
        <5> HIDE DEF v
        <5> QED BY <1>1, <3>1, <5>1, SameDistance
      <4>2. Get(b, o) = b.elements[j]
        BY <3>2, <4>1 DEF Get, Slot
      <4> QED BY <2>1, <4>2 DEF b, o
    <3> HIDE DEF v
    <3>4. Mod(v - Mod(o + 1)) = Mod(v - o) - 1
      BY <1>1, <3>1, <3>3, DistanceNext
    <3>5. Mod(v - o) \in Int
      <4>1. v - o \in Int
        BY <1>1, <3>1
      <4> QED BY <4>1, ModSeqNr
    <3> QED BY <1>1, <3>2, <3>4, <3>5 DEF v
  <2> QED BY <1>1, <2>1 DEF Placed
<1>6. Searching(t)
  BY <1>1, <1>2 DEF Searching, Bounds, Probing, SameSearch
<1>7. t \in Sane
  BY <1>1, <1>2, <1>4, <1>5, <1>6, Counts DEF Sane
<1>8. Shrunk(s, t)
  BY <1>2 DEF Shrunk, w, b
<1> QED BY <1>7, <1>8 DEF t

LEMMA CountedNat == ASSUME NEW n \in Nat PROVE Counted(n) \in Nat
<1> DEFINE b == DupAcks + 1
<1>1. b \in Nat
  BY BufferAssumption
<1>2. \E x \in {n, b} : \A y \in {n, b} : x <= y
  <2> HIDE DEF b
  <2>1. n <= b \/ b <= n
    BY <1>1
  <2> QED BY <1>1, <2>1
<1>3. Min({n, b}) \in {n, b}
  <2> HIDE DEF b
  <2> QED BY <1>2 DEF Min
<1> QED BY <1>1, <1>3 DEF Counted

LEMMA DuplicatesTune ==
  ASSUME NEW s \in Sane, NEW d \in Nat
  PROVE  LET t == [s EXCEPT !.duplicate_ack = d]
         IN  t \in Sane /\ Tuned(s, t) /\ t.mtu_probe_seq = s.mtu_probe_seq
<1> DEFINE t == [s EXCEPT !.duplicate_ack = d]
<1>1. s \in Sender /\ Searching(s)
  BY SaneFacts
<1>2. /\ t \in Sender /\ SamePackets(s, t) /\ SameSearch(s, t)
      /\ t.mtu_ceiling = s.mtu_ceiling /\ t.mtu_last = s.mtu_last /\ t.udp_mtu = s.udp_mtu
  BY <1>1 DEF Sender, SamePackets, SameSearch
<1> HIDE DEF t
<1>3. Searching(t)
  BY <1>1, <1>2 DEF Searching, Bounds, Probing, SameSearch
<1> QED BY <1>2, <1>3, SaneTuned DEF Tuned, Lowered, SameSearch, t

LEMMA CountDuplicateTunes ==
  ASSUME NEW s \in Sane, NEW m PROVE CountDuplicate(s, m) \in Sane /\ Tuned(s, CountDuplicate(s, m))
<1>0. s \in Sender /\ s.duplicate_ack \in Nat /\ DupAcks \in Nat /\ Searching(s)
  BY SaneFacts, BufferAssumption DEF Sender
<1> DEFINE d == Counted(s.duplicate_ack + 1)
           t == [s EXCEPT !.duplicate_ack = d]
           z == [s EXCEPT !.duplicate_ack = 0]
<1>2. d \in Nat
  BY <1>0, CountedNat
<1>3. CountDuplicate(s, m) \in {s, z, t} \cup (IF t.mtu_probe_seq # 0 THEN {ProbeLost(t), NoProbe(t)} ELSE {})
  BY <1>0 DEF CountDuplicate, Sender
<1> HIDE DEF d
<1>4. t \in Sane /\ Tuned(s, t) /\ z \in Sane /\ Tuned(s, z)
  BY <1>2, DuplicatesTune
<1> HIDE DEF t, z
<1>5. t.mtu_probe_seq # 0 => ProbeLost(t) \in Sane /\ Tuned(s, ProbeLost(t))
  BY <1>4, ProbeLostSearches DEF Tuned, SamePackets, Lowered
<1>6. NoProbe(t) \in Sane /\ Tuned(s, NoProbe(t))
  BY <1>4, NoProbeSearches DEF Tuned, SamePackets, Lowered
<1>7. Tuned(s, s)
  BY DEF Tuned, SamePackets, Lowered
<1> QED BY <1>3, <1>4, <1>5, <1>6, <1>7

LEMMA AckProbeStays ==
  ASSUME NEW S, NEW A, NEW K, Closed(S, A, K), NEW s \in S, NEW n,
         \A v \in SeqNrs : Mod(v - Oldest(s)) < n => v \in A
  PROVE  LET t == AckProbe(s, n) IN t \in S /\ SameNumbers(s, t) /\ Oldest(t) = Oldest(s)
<1>1. s \in Sane /\ s.mtu_probe_seq \in SeqNrs
  BY SaneFacts, SizesOf DEF Closed
<1>2. CASE AckProbe(s, n) = s
  BY <1>2 DEF SameNumbers
<1>3. CASE AckProbe(s, n) # s
  <2> DEFINE t == ProbeArrived(s)
  <2>1. s.mtu_probe_seq # 0 /\ Mod(s.mtu_probe_seq - Oldest(s)) < n /\ AckProbe(s, n) = t
    BY <1>3 DEF AckProbe
  <2>2. t \in Sane /\ SamePackets(s, t) /\ t.mtu_floor = s.mtu_probe_size /\ t.mtu_probe_seq = 0
    BY <1>1, <2>1, ProbeArrivedSearches
  <2> HIDE DEF t
  <2>3. Arrived(s, t, A)
    BY <1>1, <2>1, <2>2 DEF Arrived
  <2>4. t \in S
    BY <2>2, <2>3 DEF Closed
  <2> QED BY <2>1, <2>2, <2>4 DEF SamePackets, SameNumbers, Oldest
<1> QED BY <1>2, <1>3

LEMMA ShrinkStays ==
  ASSUME NEW S, S \subseteq Sane, Shrinking(S), NEW s \in S, s.window > 0, Get(s.outbuf, Oldest(s)) = NULL
  PROVE  LET t == [s EXCEPT !.window = @ - 1]
         IN  t \in S /\ t.seq_nr = s.seq_nr /\ t.window = s.window - 1
<1> DEFINE t == [s EXCEPT !.window = @ - 1]
<1>1. t \in Sane /\ Shrunk(s, t)
  BY ShrinkSane
<1> HIDE DEF t
<1> QED BY <1>1 DEF Shrinking, Shrunk, t

(* A turn of the loop over the acknowledged packets                        *)
LEMMA AckOldestStays ==
  ASSUME NEW S, NEW A, NEW K, Closed(S, A, K), Shrinking(S), NEW s \in S, s.window > 0,
         Oldest(s) \in K, NEW i
  PROVE  LET t == AckOldest(s, i)
         IN  t \in S /\ t.seq_nr = s.seq_nr /\ t.window \in {s.window, s.window - 1}
<1> DEFINE v == Oldest(s)
           p == Get(s.outbuf, v)
           a == AckPacket(s, v)
           t == [a EXCEPT !.window = @ - 1]
<1>1. s \in Sane /\ v \in Int /\ Mod(v - Oldest(s)) < s.window /\ Mod(v) = v
  BY NumberFacts, SaneFacts DEF Closed
<1>2. /\ a \in Sane /\ a.seq_nr = s.seq_nr /\ a.window = s.window /\ Oldest(a) = Oldest(s)
      /\ \/ a = s /\ (p = NULL \/ ~p.sent)
         \/ p \in Held(s.outbuf) /\ p.seq = Mod(v) /\ Removed(s, a, p) /\ Get(a.outbuf, v) = NULL
  <2> HIDE DEF v
  <2> QED BY <1>1, AckPacketRemoves
<1>3. AckOldest(s, i) = IF Unsent(p) THEN s ELSE t
  BY DEF AckOldest
<1> HIDE DEF a, p
<1>4. ASSUME ~Unsent(p) PROVE a \in S /\ Get(a.outbuf, Oldest(a)) = NULL
  <2>1. CASE a = s /\ (p = NULL \/ ~p.sent)
    BY <1>4, <2>1 DEF Unsent, p
  <2>2. CASE p \in Held(s.outbuf) /\ p.seq = Mod(v) /\ Removed(s, a, p) /\ Get(a.outbuf, v) = NULL
    <3>1. p.seq \in K
      BY <1>1, <2>2
    <3>2. a \in S
      BY <1>2, <2>2, <3>1 DEF Closed
    <3> QED BY <1>2, <2>2, <3>2
  <2> QED BY <1>2, <2>1, <2>2
<1>5. ASSUME ~Unsent(p) PROVE t \in S /\ t.seq_nr = s.seq_nr /\ t.window = s.window - 1
  BY <1>2, <1>4, <1>5, ShrinkStays DEF Closed
<1> HIDE DEF t
<1> QED BY <1>3, <1>5

LEMMA AckLoopTurns ==
  ASSUME NEW s, NEW n \in Nat, NEW G, s \in G[0],
         \A j \in 0..n : \A k \in 0..n : j <= k => G[j] \subseteq G[k],
         \A k \in 1..n : \A x \in G[k-1] : AckOldest(x, k) \in G[k]
  PROVE  AckLoop(s, n) \in G[n]
<1> DEFINE op(x, k) == AckOldest(x, k)
           base == s
           seq == [i \in 1..n |-> i]
           F == [q \in G[n] \X (1..n) |-> op(q[1], q[2])]
           IsFold(h) == h = [t \in SUBSET (DOMAIN seq) |->
                              IF t = {} THEN base ELSE op(h[t \ {Max(t)}], seq[Max(t)])]
           iter == CHOOSE h : IsFold(h)
<1>1. n \in Nat /\ DOMAIN seq = 1..n /\ \A i \in 1..n : seq[i] = i
  OBVIOUS
<1> HIDE DEF seq
<1>2. AckLoop(s, n) = iter[1..n]
  BY <1>1 DEF AckLoop, FoldLeft, MapThenFoldSet, seq
<1>3. /\ base \in G[0] /\ \A k \in 1..n : \A x \in G[k-1] : op(x, k) \in G[k]
      /\ \A j \in 0..n : \A k \in 0..n : j <= k => G[j] \subseteq G[k]
  OBVIOUS
<1> HIDE DEF op, base
<1>4. \A k \in 1..n : \A x \in G[k-1] : x \in G[n]
  <2>1. \A k \in 1..n : k-1 \in 0..n /\ n \in 0..n /\ k-1 <= n
    BY <1>1
  <2> QED BY <1>3, <2>1
<1>5. ASSUME NEW k \in 1..n, NEW x \in G[k-1] PROVE F[<<x, k>>] = op(x, k) /\ F[<<x, k>>] \in G[k]
  <2>1. x \in G[n] /\ op(x, k) \in G[k]
    BY <1>3, <1>4
  <2> QED BY <2>1
<1> HIDE DEF F
<1>6. PICK g : /\ g = [t \in SUBSET (1..n) |-> IF t = {} THEN base ELSE F[<<g[t \ {Max(t)}], Max(t)>>]]
               /\ \A t \in SUBSET (1..n) : t # {} =>
                    Max(t) \in 1..n /\ t \ {Max(t)} \in SUBSET (1..n) /\ g[t \ {Max(t)}] \in G[Max(t)-1]
  <2>1. HasFold(n, G, base, F)
    BY ONLY <1>1, <1>3, <1>5, FoldExists
  <2> QED BY <2>1 DEF HasFold
<1>7. ASSUME NEW t \in SUBSET (1..n), t # {}
      PROVE F[<<g[t \ {Max(t)}], Max(t)>>] = op(g[t \ {Max(t)}], seq[Max(t)])
  <2> DEFINE k == Max(t)
             x == g[t \ {k}]
  <2>1. k \in 1..n /\ x \in G[k-1]
    BY <1>6, <1>7
  <2> HIDE DEF k, x
  <2>2. F[<<x, k>>] = op(x, seq[k])
    BY <1>1, <1>5, <2>1
  <2> QED BY <2>2 DEF k, x
<1>8. IsFold(g)
  BY <1>1, <1>6, <1>7
<1>9. IsFold(iter)
  BY <1>8
<1> HIDE DEF iter
<1>10. iter[{}] \in G[0]
  BY <1>1, <1>3, <1>9
<1>11. ASSUME NEW k \in 1..n, iter[1..k-1] \in G[k-1] PROVE iter[1..k] \in G[k]
  <2>1. 1..k # {} /\ 1..k \in SUBSET (1..n) /\ Max(1..k) = k /\ (1..k) \ {k} = 1..k-1
    BY <1>1, Prefix
  <2>2. iter[1..k] = op(iter[(1..k) \ {Max(1..k)}], seq[Max(1..k)])
    BY <1>1, <1>9, <2>1
  <2> HIDE DEF IsFold
  <2>3. iter[1..k] = op(iter[1..k-1], k)
    BY <1>1, <2>1, <2>2
  <2> QED BY <1>3, <1>11, <2>3
<1>12. iter[1..n] \in G[n]
  BY <1>1, <1>10, <1>11, FoldStays
<1> QED BY <1>2, <1>12

LEMMA AckLoopStays ==
  ASSUME NEW S, NEW A, NEW K, Closed(S, A, K), Shrinking(S), NEW s \in S, NEW n \in 0..s.window,
         \A v \in SeqNrs : Mod(v - Oldest(s)) < n => v \in K
  PROVE  AckLoop(s, n) \in S
<1> DEFINE G == [k \in 0..n |-> {x \in S : /\ x.seq_nr = s.seq_nr
                                           /\ s.window - k <= x.window /\ x.window <= s.window}]
<1>1. s \in Sane /\ s.window \in Nat /\ n \in Nat /\ s.seq_nr \in Int
  BY SaneFacts DEF Closed
<1>2. s \in G[0]
  BY <1>1
<1>3. \A j \in 0..n : \A k \in 0..n : j <= k => G[j] \subseteq G[k]
  <2>1. \A x \in S : x.window \in Nat
    BY SaneFacts DEF Closed
  <2> QED BY <1>1, <2>1
<1>4. ASSUME NEW k \in 1..n, NEW x \in G[k-1] PROVE AckOldest(x, k) \in G[k]
  <2>1. k-1 \in 0..n /\ k \in 0..n /\ k \in Int
    BY <1>1
  <2>2. /\ x \in S /\ x.seq_nr = s.seq_nr /\ s.window - (k - 1) <= x.window /\ x.window <= s.window
    BY <2>1
  <2>3. x \in Sane /\ x.window \in Nat /\ x.window > 0
    <3>1. x \in Sane /\ x.window \in Nat
      BY <2>2, SaneFacts DEF Closed
    <3> QED BY <1>1, <2>1, <2>2, <3>1
  <2>4. Oldest(x) \in K
    <3> DEFINE a == s.seq_nr - s.window
               b == x.seq_nr - x.window
               d == s.window - x.window
    <3>1. /\ a \in Int /\ b \in Int /\ Oldest(s) = Mod(a) /\ Oldest(x) = Mod(b)
          /\ b = a + d /\ d \in 0..(Modulus - 1) /\ d < n
      <4>1. s.window < Modulus
        BY <1>1, SaneFacts
      <4> QED BY <1>1, <2>1, <2>2, <2>3, <4>1, Counts DEF Oldest
    <3> HIDE DEF a, b, d
    <3>2. Mod(b - Mod(a)) = d
      <4>1. Mod(b - Mod(a)) = Mod(b - a) /\ b - a = d
        BY <3>1, ModSum
      <4> QED BY <3>1, <4>1, Small
    <3>3. Mod(Mod(b) - Mod(a)) = d
      <4> DEFINE e == Mod(a)
                 f == Mod(b)
                 c == -e
      <4>0. e \in Int /\ f \in Int
        BY <3>1, ModSeqNr
      <4>1. c \in Int /\ Mod(b) + c = Mod(b) - Mod(a) /\ b + c = b - Mod(a)
        <5>1. c \in Int /\ f + c = f - e /\ b + c = b - e
          <6> HIDE DEF e, f
          <6> QED BY <3>1, <4>0
        <5> QED BY <5>1
      <4> HIDE DEF c
      <4>2. Mod(Mod(b) + c) = Mod(b + c)
        BY <3>1, <4>1, ModSum
      <4> QED BY <3>2, <4>1, <4>2
    <3>4. Mod(b) \in SeqNrs
      BY <3>1, ModSeqNr
    <3> QED BY <3>1, <3>3, <3>4
  <2>5. LET t == AckOldest(x, k)
        IN  t \in S /\ t.seq_nr = x.seq_nr /\ t.window \in {x.window, x.window - 1}
    BY <2>2, <2>3, <2>4, AckOldestStays
  <2> QED BY <1>1, <2>1, <2>2, <2>3, <2>5
<1>5. n \in 0..n /\ G[n] \subseteq S
  BY <1>1
<1> HIDE DEF G
<1>6. AckLoop(s, n) \in G[n]
  BY <1>1, <1>2, <1>3, <1>4, AckLoopTurns
<1> QED BY <1>5, <1>6

LEMMA SkipTurns ==
  ASSUME NEW s, s.window \in Nat, NEW S, s \in S,
         \A x \in S : \A i \in 1..s.window : SkipOne(x, i) \in S,
         NEW G, s \in G[0], \A k \in 1..s.window : \A x \in S : x \in G[k-1] => SkipOne(x, k) \in G[k]
  PROVE  SkipAcked(s) \in S /\ SkipAcked(s) \in G[s.window]
<1> DEFINE op(x, i) == SkipOne(x, i)
           n == s.window
           base == s
           seq == [i \in 1..n |-> i]
           F == [q \in S \X (1..n) |-> op(q[1], q[2])]
           IsFold(h) == h = [t \in SUBSET (DOMAIN seq) |->
                              IF t = {} THEN base ELSE op(h[t \ {Max(t)}], seq[Max(t)])]
           iter == CHOOSE h : IsFold(h)
<1>1. n \in Nat /\ DOMAIN seq = 1..n /\ \A i \in 1..n : seq[i] = i
  OBVIOUS
<1> HIDE DEF seq
<1>2. SkipAcked(s) = iter[1..n]
  BY <1>1 DEF SkipAcked, FoldLeft, MapThenFoldSet, seq
<1>3. /\ base \in S /\ \A x \in S, i \in 1..n : op(x, i) \in S
      /\ base \in G[0] /\ \A k \in 1..n : \A x \in S : x \in G[k-1] => op(x, k) \in G[k]
  OBVIOUS
<1> HIDE DEF op, n, base
<1>4. \A x \in S, i \in 1..n : F[<<x, i>>] = op(x, i)
  OBVIOUS
<1> HIDE DEF F
<1>5. PICK g : /\ g = [t \in SUBSET (1..n) |-> IF t = {} THEN base ELSE F[<<g[t \ {Max(t)}], Max(t)>>]]
               /\ \A t \in SUBSET (1..n) : t # {} => Max(t) \in 1..n /\ g[t \ {Max(t)}] \in S
  <2>1. base \in S /\ \A k \in 1..n : \A x \in S : F[<<x, k>>] \in S
    BY <1>3, <1>4
  <2>2. HasFoldIn(n, S, base, F)
    BY ONLY <1>1, <2>1, FoldWithin
  <2> QED BY <2>2 DEF HasFoldIn
<1>6. ASSUME NEW t \in SUBSET (1..n), t # {}
      PROVE F[<<g[t \ {Max(t)}], Max(t)>>] = op(g[t \ {Max(t)}], seq[Max(t)])
  <2> DEFINE k == Max(t)
             x == g[t \ {k}]
  <2>1. k \in 1..n /\ x \in S
    BY <1>5, <1>6
  <2> HIDE DEF k, x
  <2>2. F[<<x, k>>] = op(x, seq[k])
    BY <1>1, <1>4, <2>1
  <2> QED BY <2>2 DEF k, x
<1>7. IsFold(g)
  BY <1>1, <1>5, <1>6
<1>8. IsFold(iter)
  BY <1>7
<1> HIDE DEF iter
<1> DEFINE H == [k \in 0..n |-> S \cap G[k]]
<1>9. iter[{}] \in S \cap G[0]
  BY <1>1, <1>3, <1>8
<1>10. ASSUME NEW k \in 1..n, iter[1..k-1] \in S \cap G[k-1] PROVE iter[1..k] \in S \cap G[k]
  <2>1. 1..k # {} /\ 1..k \in SUBSET (1..n) /\ Max(1..k) = k /\ (1..k) \ {k} = 1..k-1
    BY <1>1, Prefix
  <2>2. iter[1..k] = op(iter[(1..k) \ {Max(1..k)}], seq[Max(1..k)])
    BY <1>1, <1>8, <2>1
  <2> HIDE DEF IsFold
  <2>3. iter[1..k] = op(iter[1..k-1], k)
    BY <1>1, <2>1, <2>2
  <2> QED BY <1>3, <1>10, <2>3
<1>11. iter[1..n] \in S \cap G[n]
  <2>1. /\ \A k \in 0..n : H[k] = S \cap G[k]
        /\ 0 \in 0..n /\ n \in 0..n /\ \A k \in 1..n : k \in 0..n /\ k-1 \in 0..n
    BY <1>1
  <2> HIDE DEF H
  <2>2. iter[{}] \in H[0]
    BY <1>9, <2>1
  <2>3. ASSUME NEW k \in 1..n, iter[1..k-1] \in H[k-1] PROVE iter[1..k] \in H[k]
    BY <1>10, <2>1, <2>3
  <2>4. iter[1..n] \in H[n]
    BY <1>1, <2>2, <2>3, FoldStays
  <2> QED BY <2>1, <2>4
<1> QED BY <1>2, <1>11 DEF n


(* What was acknowledged by itself leaves the window when it is oldest.    *)
LEMMA SkipAckedStays ==
  ASSUME NEW S, S \subseteq Sane, Shrinking(S), NEW s \in S
  PROVE  SkipAcked(s) \in S /\ Live(SkipAcked(s))
<1> DEFINE n == s.window
           G == [k \in 0..n |-> {x \in S : Live(x) \/ x.window <= n - k}]
<1>1. n \in Nat /\ \A x \in S : x.window \in Nat
  BY SaneFacts
<1>2. \A k \in 0..n : \A x : x \in G[k] <=> x \in S /\ (Live(x) \/ x.window <= n - k)
  OBVIOUS
<1> HIDE DEF G
<1>3. s \in G[0]
  BY <1>1, <1>2
<1>4. ASSUME NEW x \in S, NEW k \in 1..n PROVE SkipOne(x, k) \in S
  BY ShrinkStays DEF SkipOne
<1>5. ASSUME NEW k \in 1..n, NEW x \in S, x \in G[k-1] PROVE SkipOne(x, k) \in G[k]
  <2> DEFINE t == [x EXCEPT !.window = @ - 1]
  <2>1. k-1 \in 0..n /\ k \in 0..n /\ k \in Int
    BY <1>1
  <2>2. x \in S /\ x.window \in Nat /\ (Live(x) \/ x.window <= n - (k - 1))
    BY <1>1, <1>2, <1>5, <2>1
  <2>3. CASE x.window > 0 /\ Get(x.outbuf, Oldest(x)) = NULL
    <3>1. SkipOne(x, k) = t
      BY <2>3 DEF SkipOne
    <3>2. t \in S /\ t.window = x.window - 1
      BY <2>2, <2>3, ShrinkStays
    <3>3. ~Live(x)
      BY <2>3 DEF Live
    <3> HIDE DEF t
    <3>4. t.window <= n - k
      BY <1>1, <2>1, <2>2, <3>2, <3>3
    <3> QED BY <1>2, <2>1, <3>1, <3>2, <3>4
  <2>4. CASE ~(x.window > 0 /\ Get(x.outbuf, Oldest(x)) = NULL)
    <3>1. SkipOne(x, k) = x /\ Live(x)
      BY <2>4 DEF SkipOne, Live
    <3> QED BY <1>2, <2>1, <2>2, <3>1
  <2> QED BY <2>3, <2>4
<1>6. SkipAcked(s) \in G[n]
  <2>1. s.window \in Nat
    BY <1>1
  <2> QED BY <1>3, <1>4, <1>5, <2>1, SkipTurns
<1>7. n \in 0..n
  BY <1>1
<1> DEFINE t == SkipAcked(s)
<1> HIDE DEF t
<1>8. t \in S /\ t.window \in Nat /\ (Live(t) \/ t.window <= n - n)
  BY <1>1, <1>2, <1>6, <1>7 DEF t
<1>9. Live(t)
  BY <1>1, <1>8 DEF Live
<1> QED BY <1>8, <1>9 DEF t

LEMMA NewestFacts ==
  ASSUME NEW s \in Sane, Newest(s) # NULL
  PROVE  LET v == s.seq_nr - 1
         IN  v \in Int /\ s.window > 0 /\ Mod(v - Oldest(s)) < s.window /\ Newest(s) = Get(s.outbuf, v)
<1>1. s.window > 0 /\ s.window \in Nat
  BY SaneFacts DEF Newest
<1>2. s.seq_nr - 1 \in Int /\ Mod((s.seq_nr - 1) - Oldest(s)) = s.window - 1
  BY <1>1, NumberFacts
<1> QED BY <1>1, <1>2 DEF Newest

LEMMA FlushNagleStays ==
  ASSUME NEW S, NEW A, NEW K, Closed(S, A, K), NEW s \in S
  PROVE  LET t == FlushNagle(s) IN t \in S /\ SameNumbers(s, t) /\ Oldest(t) = Oldest(s)
<1> DEFINE v == s.seq_nr - 1
           t == SendPacket(s, v)
<1>1. CASE s.window = 1 /\ Unsent(Newest(s))
  <2>1. s \in Sane /\ Newest(s) # NULL
    BY <1>1 DEF Closed, Unsent
  <2>2. v \in Int /\ Mod(v - Oldest(s)) < s.window /\ Get(s.outbuf, v) # NULL
    BY <2>1, NewestFacts
  <2>3. FlushNagle(s) = t
    BY <1>1 DEF FlushNagle
  <2> HIDE DEF v
  <2>4. t \in S /\ SameNumbers(s, t) /\ Oldest(t) = Oldest(s)
    BY <2>2, SendPacketStays
  <2> QED BY <2>3, <2>4
<1>2. CASE ~(s.window = 1 /\ Unsent(Newest(s)))
  BY <1>2 DEF FlushNagle, SameNumbers
<1> QED BY <1>1, <1>2

LEMMA SelectiveTurns ==
  ASSUME NEW s, NEW m, s.window \in Nat, NEW S, s \in S,
         \A x \in S : \A i \in 1..s.window : (IF i > 1 /\ Number(s, i) \in m.sack THEN AckPacket(x, Number(s, i)) ELSE x) \in S
  PROVE  AckBits(s, m) \in S
<1> DEFINE op(x, i) == (IF i > 1 /\ Number(s, i) \in m.sack THEN AckPacket(x, Number(s, i)) ELSE x)
           n == s.window
           base == s
           seq == [i \in 1..n |-> i]
           F == [q \in S \X (1..n) |-> op(q[1], q[2])]
           IsFold(h) == h = [t \in SUBSET (DOMAIN seq) |->
                              IF t = {} THEN base ELSE op(h[t \ {Max(t)}], seq[Max(t)])]
           iter == CHOOSE h : IsFold(h)
<1>1. n \in Nat /\ DOMAIN seq = 1..n /\ \A i \in 1..n : seq[i] = i
  OBVIOUS
<1> HIDE DEF seq
<1>2. AckBits(s, m) = iter[1..n]
  BY <1>1 DEF AckBits, FoldLeft, MapThenFoldSet, seq
<1>3. base \in S /\ \A x \in S, i \in 1..n : op(x, i) \in S
  OBVIOUS
<1> HIDE DEF op, n, base
<1>4. \A x \in S, i \in 1..n : F[<<x, i>>] = op(x, i)
  OBVIOUS
<1> HIDE DEF F
<1>5. PICK g : /\ g = [t \in SUBSET (1..n) |-> IF t = {} THEN base ELSE F[<<g[t \ {Max(t)}], Max(t)>>]]
               /\ \A t \in SUBSET (1..n) : t # {} => Max(t) \in 1..n /\ g[t \ {Max(t)}] \in S
  <2>1. base \in S /\ \A k \in 1..n : \A x \in S : F[<<x, k>>] \in S
    BY <1>3, <1>4
  <2>2. HasFoldIn(n, S, base, F)
    BY ONLY <1>1, <2>1, FoldWithin
  <2> QED BY <2>2 DEF HasFoldIn
<1>6. ASSUME NEW t \in SUBSET (1..n), t # {}
      PROVE F[<<g[t \ {Max(t)}], Max(t)>>] = op(g[t \ {Max(t)}], seq[Max(t)])
  <2> DEFINE k == Max(t)
             x == g[t \ {k}]
  <2>1. k \in 1..n /\ x \in S
    BY <1>5, <1>6
  <2> HIDE DEF k, x
  <2>2. F[<<x, k>>] = op(x, seq[k])
    BY <1>1, <1>4, <2>1
  <2> QED BY <2>2 DEF k, x
<1>7. IsFold(g)
  BY <1>1, <1>5, <1>6
<1>8. IsFold(iter)
  BY <1>7
<1> HIDE DEF iter
<1>9. iter[{}] \in S
  BY <1>1, <1>3, <1>8
<1>10. ASSUME NEW k \in 1..n, iter[1..k-1] \in S PROVE iter[1..k] \in S
  <2>1. 1..k # {} /\ 1..k \in SUBSET (1..n) /\ Max(1..k) = k /\ (1..k) \ {k} = 1..k-1
    BY <1>1, Prefix
  <2>2. iter[1..k] = op(iter[(1..k) \ {Max(1..k)}], seq[Max(1..k)])
    BY <1>1, <1>8, <2>1
  <2> HIDE DEF IsFold
  <2>3. iter[1..k] = op(iter[1..k-1], k)
    BY <1>1, <2>1, <2>2
  <2> QED BY <1>3, <1>10, <2>3
<1>11. iter[1..n] \in S
  BY <1>1, <1>9, <1>10, FoldStaysIn
<1> QED BY <1>2, <1>11

LEMMA AckBitsStay ==
  ASSUME NEW S, NEW A, NEW K, Closed(S, A, K), NEW s \in S, NEW m,
         \A i \in 2..s.window : Number(s, i) \in m.sack => Number(s, i) \in K
  PROVE  LET t == AckBits(s, m) IN t \in S /\ SameNumbers(s, t) /\ Oldest(t) = Oldest(s)
<1> DEFINE Same == {t \in S : SameNumbers(s, t) /\ Oldest(t) = Oldest(s)}
<1>1. s \in Sane /\ s.window \in Nat /\ s \in Same
  BY SaneFacts DEF Closed, SameNumbers
<1>2. ASSUME NEW x \in Same, NEW i \in 1..s.window, i > 1, Number(s, i) \in m.sack
      PROVE AckPacket(x, Number(s, i)) \in Same
  <2> DEFINE v == Number(s, i)
             t == AckPacket(x, v)
             p == Get(x.outbuf, v)
  <2>1. v \in Int /\ v \in SeqNrs /\ Mod(v - Oldest(s)) = i - 1 /\ v \in K
    <3>1. i \in 2..s.window
      BY <1>1, <1>2
    <3> QED BY <1>1, <1>2, <3>1, NumberFacts
  <2>2. x \in Sane /\ Oldest(x) = Oldest(s) /\ x.window = s.window /\ Mod(v) = v
    BY <2>1, Small DEF Closed, SameNumbers, SeqNrs
  <2> HIDE DEF v
  <2>3. Mod(v - Oldest(x)) < x.window
    BY <1>1, <2>1, <2>2
  <2>4. /\ t \in Sane /\ Oldest(t) = Oldest(x)
        /\ t = x \/ (p \in Held(x.outbuf) /\ p.seq = Mod(v) /\ Removed(x, t, p))
    BY <2>1, <2>2, <2>3, AckPacketRemoves
  <2> HIDE DEF t, p
  <2>5. t \in S
    BY <1>2, <2>1, <2>2, <2>4 DEF Closed
  <2>6. SameNumbers(s, t)
    BY <2>4 DEF Removed, SameNumbers
  <2> QED BY <2>2, <2>4, <2>5, <2>6 DEF t, v
<1>3. AckBits(s, m) \in Same
  <2>1. \A x \in Same : \A i \in 1..s.window :
          (IF i > 1 /\ Number(s, i) \in m.sack THEN AckPacket(x, Number(s, i)) ELSE x) \in Same
    BY <1>2
  <2> HIDE DEF Same
  <2> QED BY <1>1, <2>1, SelectiveTurns
<1> QED BY <1>3

LEMMA SelectiveAckStays ==
  ASSUME NEW S, NEW A, NEW K, Closed(S, A, K), NEW s \in S, NEW m,
         \A i \in 2..s.window : Number(s, i) \in m.sack => Number(s, i) \in K
  PROVE  LET t == SelectiveAck(s, m) IN t \in S /\ SameNumbers(s, t) /\ Oldest(t) = Oldest(s)
<1> DEFINE bits == {i \in 2..s.window : Number(s, i) \in m.sack}
           x == AckBits(s, m)
           n == Counted(Cardinality(bits))
           t == [x EXCEPT !.duplicate_ack = n]
<1>1. x \in S /\ SameNumbers(s, x) /\ Oldest(x) = Oldest(s)
  BY AckBitsStay
<1>2. n \in Nat
  <2>1. IsFiniteSet(bits)
    <3>1. 2 \in Int /\ s.window \in Int
      BY SaneFacts DEF Closed
    <3>2. IsFiniteSet(2..s.window) /\ bits \in SUBSET (2..s.window)
      BY <3>1, FS_Interval
    <3> QED BY <3>2, FS_Subset
  <2> HIDE DEF bits
  <2> QED BY <2>1, FS_CardinalityType, CountedNat
<1> HIDE DEF x, n
<1>3. t \in S /\ SameNumbers(x, t) /\ Oldest(t) = Oldest(x)
  <2>1. x \in Sane
    BY <1>1 DEF Closed
  <2>2. t \in Sane /\ Tuned(x, t)
    BY <1>2, <2>1, DuplicatesTune
  <2> HIDE DEF t
  <2> QED BY <1>1, <2>2, TunedStays
<1>4. SelectiveAck(s, m) \in {s, t}
  BY DEF SelectiveAck, x, n
<1>5. SameNumbers(s, s)
  BY DEF SameNumbers
<1> HIDE DEF t
<1> QED BY <1>1, <1>3, <1>4, <1>5 DEF SameNumbers

LEMMA AcksBound ==
  ASSUME NEW s \in Sane, NEW m, m.ack \in Int PROVE Acks(s, m) \in 0..s.window
<1> DEFINE x == m.ack - (s.seq_nr - 1 - s.window)
<1>1. s.window \in Nat /\ s.seq_nr \in Int
  BY SaneFacts
<1>2. x \in Int
  BY <1>1
<1>3. Mod(x) \in Nat
  <2> HIDE DEF x
  <2> QED BY <1>2, ModSeqNr, Counts DEF SeqNrs
<1>4. Acks(s, m) = IF Mod(x) > s.window THEN 0 ELSE Mod(x)
  BY DEF Acks
<1> HIDE DEF x
<1> QED BY <1>1, <1>3, <1>4

(* Numbers below n from the oldest packet of s on                          *)
Cumulated(s, n, A) == \A v \in SeqNrs : Mod(v - Oldest(s)) < n => v \in A

LEMMA AcknowledgeStays ==
  ASSUME NEW S, NEW A, NEW K, Closed(S, A, K), Shrinking(S), A \subseteq K, NEW s \in S, NEW m,
         m.ack \in Int, m.sack \subseteq K, Cumulated(s, Acks(s, m), A)
  PROVE  LET t == Acknowledge(s, m) IN t \in S /\ Live(t)
<1> DEFINE n == Acks(s, m)
           a == CountDuplicate(s, m)
           b == AckProbe(a, n)
           c == AckLoop(b, n)
           d == SkipAcked(c)
           e == FlushNagle(d)
           t == SelectiveAck(e, m)
<1>0. Acknowledge(s, m) = t
  BY DEF Acknowledge
<1>1. s \in Sane /\ n \in 0..s.window
  BY AcksBound DEF Closed
<1>2. a \in S /\ SameNumbers(s, a) /\ Oldest(a) = Oldest(s)
  BY <1>1, CountDuplicateTunes, TunedStays
<1> HIDE DEF n, a, b, c, d, e
<1>3. b \in S /\ SameNumbers(a, b) /\ Oldest(b) = Oldest(a)
  <2>1. \A v \in SeqNrs : Mod(v - Oldest(a)) < n => v \in A
    BY <1>2 DEF Cumulated, n
  <2> QED BY <1>2, <2>1, AckProbeStays DEF b
<1>4. c \in S
  <2>1. \A v \in SeqNrs : Mod(v - Oldest(b)) < n => v \in K
    BY <1>2, <1>3 DEF Cumulated, n
  <2>2. n \in 0..b.window
    BY <1>1, <1>2, <1>3 DEF SameNumbers
  <2> QED BY <1>3, <2>1, <2>2, AckLoopStays DEF c
<1>5. d \in S /\ Live(d)
  BY <1>4, SkipAckedStays DEF Closed, d
<1>6. e \in S /\ SameNumbers(d, e) /\ Oldest(e) = Oldest(d)
  BY <1>5, FlushNagleStays DEF e
<1>7. t \in S /\ SameNumbers(e, t)
  <2>1. \A i \in 2..e.window : Number(e, i) \in m.sack => Number(e, i) \in K
    OBVIOUS
  <2> QED BY <1>6, <2>1, SelectiveAckStays
<1>8. Live(t)
  <2>1. d \in Sane /\ e \in Sane /\ t \in Sane /\ d.window \in Nat
    BY <1>5, <1>6, <1>7, SaneFacts DEF Closed
  <2>2. CASE d.window = 0
    <3>1. SameNumbers(d, t)
      BY <1>6, <1>7 DEF SameNumbers
    <3> HIDE DEF t
    <3> QED BY <2>1, <2>2, <3>1, HeadedLive
  <2>3. CASE d.window > 0
    <3> DEFINE H == Headed(d)
               L == SeqNrs \ {Oldest(d)}
    <3>1. Closed(H, {}, L)
      BY HeadedClosed
    <3>2. d \in H
      BY <1>5, <2>1, <2>3, HeadedLive
    <3> HIDE DEF H
    <3>3. e \in H
      BY <3>1, <3>2, FlushNagleStays DEF e
    <3>4. \A i \in 2..e.window : Number(e, i) \in L
      <4>1. ASSUME NEW i \in 2..e.window PROVE Number(e, i) \in SeqNrs /\ Number(e, i) # Oldest(e)
        <5>1. i \in 1..e.window /\ i \in Int /\ i - 1 # 0
          BY <2>1, SaneFacts
        <5> QED BY <2>1, <5>1, NumberFacts
      <4> QED BY <1>6, <4>1
    <3>5. t \in H
      BY <3>1, <3>3, <3>4, SelectiveAckStays
    <3> HIDE DEF t
    <3> QED BY <2>1, <3>5, HeadedLive DEF H
  <2> QED BY <2>1, <2>2, <2>3
<1> QED BY <1>0, <1>7, <1>8

LEMMA FastResendStays ==
  ASSUME NEW S, NEW A, NEW K, Closed(S, A, K), NEW s \in S, Live(s), NEW t \in FastResend(s)
  PROVE  t \in S /\ Live(t)
<1>1. s \in Sane
  BY DEF Closed
<1>2. CASE t = s
  BY <1>2
<1>3. CASE t = MtuReset(s)
  <2>1. t \in Sane /\ Tuned(s, t) /\ SamePackets(s, t)
    BY <1>1, <1>3, MtuResetSearches DEF Tuned
  <2>2. t \in S
    BY <2>1, TunedStays
  <2> QED BY <2>1, <2>2 DEF Live, SamePackets, Oldest
<1> QED BY <1>2, <1>3 DEF FastResend

LEMMA FlushPacketsLive ==
  ASSUME NEW s \in Sane, Live(s), NEW quota \in Nat PROVE Live(FlushPackets(s, quota))
<1> DEFINE t == FlushPackets(s, quota)
<1>1. t \in Sane /\ SameNumbers(s, t)
  BY ClosedSane, FlushPacketsStays
<1> HIDE DEF t
<1>2. ASSUME s.window = 0 PROVE Live(t)
  <2> QED BY <1>1, <1>2, HeadedLive
<1>3. ASSUME s.window > 0 PROVE Live(t)
  <2> DEFINE H == Headed(s)
  <2>1. Closed(H, {}, {}) /\ s \in H
    BY <1>3, HeadedClosed, HeadedLive
  <2> HIDE DEF H
  <2>2. t \in H
    BY <2>1, FlushPacketsStays DEF t
  <2> QED BY <2>2, HeadedLive DEF H
<1>4. s.window \in Nat
  BY SaneFacts
<1> QED BY <1>2, <1>3, <1>4 DEF t

(* The retransmission timer                                                *)
LEMMA TimedOutTunes ==
  ASSUME NEW s \in Sane
  PROVE  LET alone == s.window = 1 /\ Mod(s.seq_nr - 1) = s.mtu_probe_seq /\ s.mtu_probe_seq # 0
             t == IF alone THEN ProbeLost(s) ELSE [NoProbe(s) EXCEPT !.duplicate_ack = 0]
         IN  t \in Sane /\ Tuned(s, t) /\ TimedOut(s) = IF s.window > 0 THEN SendPacket(t, Oldest(s)) ELSE t
<1> DEFINE alone == s.window = 1 /\ Mod(s.seq_nr - 1) = s.mtu_probe_seq /\ s.mtu_probe_seq # 0
           u == NoProbe(s)
           z == [u EXCEPT !.duplicate_ack = 0]
           t == IF alone THEN ProbeLost(s) ELSE z
<1>1. CASE alone
  <2>1. t = ProbeLost(s) /\ s.mtu_probe_seq # 0
    BY <1>1
  <2>2. t \in Sane /\ SamePackets(s, t) /\ t.mtu_floor = s.mtu_floor /\ t.mtu_probe_seq = 0
    BY <2>1, ProbeLostSearches
  <2> QED BY <2>2 DEF TimedOut, Tuned, Lowered
<1>2. CASE ~alone
  <2>1. u \in Sane /\ SamePackets(s, u) /\ u.mtu_floor = s.mtu_floor /\ u.mtu_probe_seq = 0
    BY NoProbeSearches
  <2> HIDE DEF u
  <2>2. u \in Sender /\ Searching(u)
    BY <2>1, SaneFacts
  <2>3. /\ z \in Sender /\ SamePackets(u, z) /\ SameSearch(u, z)
        /\ z.mtu_ceiling = u.mtu_ceiling /\ z.mtu_last = u.mtu_last /\ z.udp_mtu = u.udp_mtu
    BY <2>2 DEF Sender, SamePackets, SameSearch
  <2>4. t = z
    BY <1>2
  <2> HIDE DEF z
  <2>5. Searching(z)
    BY <2>2, <2>3 DEF Searching, Bounds, Probing, SameSearch
  <2>6. z \in Sane
    BY <2>1, <2>3, <2>5, SaneTuned
  <2>7. Tuned(s, z)
    BY <2>1, <2>3 DEF Tuned, Lowered, SamePackets, SameSearch
  <2> QED BY <2>4, <2>6, <2>7 DEF TimedOut, z, u
<1> QED BY <1>1, <1>2

LEMMA TimedOutStays ==
  ASSUME NEW S, NEW A, NEW K, Closed(S, A, K), NEW s \in S, Live(s)
  PROVE  TimedOut(s) \in S /\ SameNumbers(s, TimedOut(s))
<1> DEFINE alone == s.window = 1 /\ Mod(s.seq_nr - 1) = s.mtu_probe_seq /\ s.mtu_probe_seq # 0
           t == IF alone THEN ProbeLost(s) ELSE [NoProbe(s) EXCEPT !.duplicate_ack = 0]
           v == Oldest(s)
<1>1. s \in Sane /\ s.window \in Nat
  BY SaneFacts DEF Closed
<1>2. t \in Sane /\ Tuned(s, t) /\ TimedOut(s) = IF s.window > 0 THEN SendPacket(t, v) ELSE t
  BY <1>1, TimedOutTunes
<1> HIDE DEF t
<1>3. t \in S /\ SameNumbers(s, t) /\ Oldest(t) = v
  BY <1>2, TunedStays
<1>4. CASE s.window > 0
  <2>1. t.outbuf = s.outbuf /\ t.window = s.window
    BY <1>2 DEF Tuned, SamePackets
  <2>2. v \in Int /\ Mod(v - Oldest(t)) < t.window /\ Get(t.outbuf, v) # NULL
    <3>1. v \in Int /\ Mod(v - v) = 0
      BY <1>1, NumberFacts, SaneFacts
    <3> HIDE DEF v
    <3>2. Get(t.outbuf, v) # NULL
      BY <1>4, <2>1 DEF Live, v
    <3> QED BY <1>3, <1>4, <2>1, <3>1, <3>2
  <2> DEFINE u == SendPacket(t, v)
  <2> HIDE DEF v
  <2>3. u \in S /\ SameNumbers(t, u)
    BY <1>3, <2>2, SendPacketStays
  <2> HIDE DEF u
  <2> QED BY <1>2, <1>3, <1>4, <2>3 DEF SameNumbers, u
<1>5. CASE ~(s.window > 0)
  BY <1>2, <1>3, <1>5
<1> QED BY <1>4, <1>5

LEMMA TimedOutLive ==
  ASSUME NEW s \in Sane, Live(s) PROVE Live(TimedOut(s))
<1> DEFINE t == TimedOut(s)
<1>1. t \in Sane /\ SameNumbers(s, t)
  BY ClosedSane, TimedOutStays
<1> HIDE DEF t
<1>2. ASSUME s.window = 0 PROVE Live(t)
  <2> QED BY <1>1, <1>2, HeadedLive
<1>3. ASSUME s.window > 0 PROVE Live(t)
  <2> DEFINE H == Headed(s)
  <2>1. Closed(H, {}, {}) /\ s \in H
    BY <1>3, HeadedClosed, HeadedLive
  <2> HIDE DEF H
  <2>2. t \in H
    BY <2>1, TimedOutStays DEF t
  <2> QED BY <2>2, HeadedLive DEF H
<1>4. s.window \in Nat
  BY SaneFacts
<1> QED BY <1>2, <1>3, <1>4 DEF t

-----------------------------------------------------------------------------
(* The receiving socket                                                    *)

Receiver == [ack_nr: SeqNrs, inbuf: Ring(Data), reorder_count: Nat, ack_due: BOOLEAN, read: Seq(Nat)]

(* Sockets whose ring holds packets ahead of what was delivered, as many   *)
(* as they count, ...                                                      *)
Receiving ==
  {r \in Receiver : /\ Placed(r.inbuf, r.ack_nr + 1, r.inbuf.mask)
                    /\ \A p \in Held(r.inbuf) : Mod(p.seq - (r.ack_nr + 1)) < ReorderMax
                    /\ IsFiniteSet(Held(r.inbuf)) /\ Cardinality(Held(r.inbuf)) = r.reorder_count}

(* ... and not the packet that is next.                                    *)
Settled(r) == \A p \in Held(r.inbuf) : p.seq # Mod(r.ack_nr + 1)

SameStream(r, t) == t.ack_nr = r.ack_nr /\ t.read = r.read /\ Held(t.inbuf) = Held(r.inbuf)

Taken(r, t, m) ==
  /\ m.seq = Mod(r.ack_nr + 1) /\ t.ack_nr = Mod(r.ack_nr + 1) /\ t.read = r.read \o m.data
  /\ Held(t.inbuf) = Held(r.inbuf) \ {m}

Kept(r, t, m) ==
  t.ack_nr = r.ack_nr /\ t.read = r.read /\ Held(t.inbuf) = Held(r.inbuf) \cup {m}

LEMMA ReceivingFacts ==
  ASSUME NEW r \in Receiving
  PROVE  /\ r \in Receiver /\ r.ack_nr \in SeqNrs /\ r.ack_nr \in Int /\ r.ack_nr + 1 \in Int
         /\ r.inbuf \in Ring(Data) /\ Size(r.inbuf) \in Nat /\ Size(r.inbuf) > 1
         /\ r.inbuf.mask \in Nat /\ r.inbuf.mask = Size(r.inbuf) - 1
         /\ Placed(r.inbuf, r.ack_nr + 1, r.inbuf.mask)
         /\ r.reorder_count \in Nat /\ r.read \in Seq(Nat)
<1>1. r \in Receiver /\ r.inbuf \in Ring(Data)
  BY DEF Receiving, Receiver
<1>2. Size(r.inbuf) \in Sizes /\ r.inbuf.mask = Size(r.inbuf) - 1 /\ r.inbuf.mask \in Nat
  BY <1>1, RingFacts
<1> QED BY <1>1, <1>2, SizeFacts, Counts DEF Receiving, Receiver, SeqNrs

(* The packets of the ring                                                 *)
LEMMA ReceivingHeld ==
  ASSUME NEW r \in Receiving
  PROVE  /\ \A p \in Held(r.inbuf) :
              /\ p \in Data /\ p # NULL /\ p.seq \in SeqNrs /\ p.seq \in Int
              /\ Get(r.inbuf, p.seq) = p /\ Mod(p.seq - (r.ack_nr + 1)) < r.inbuf.mask
              /\ Mod(p.seq - (r.ack_nr + 1)) < ReorderMax
         /\ \A p \in Held(r.inbuf) : \A q \in Held(r.inbuf) : p.seq = q.seq => p = q
         /\ IsFiniteSet(Held(r.inbuf)) /\ Cardinality(Held(r.inbuf)) = r.reorder_count
<1> DEFINE b == r.inbuf
           o == r.ack_nr + 1
           w == r.inbuf.mask
<1>1. b \in Ring(Data) /\ o \in Int /\ Placed(b, o, w) /\ Numbered(Data)
  BY ReceivingFacts, BothNumbered
<1>2. /\ \A p \in Held(b) : Mod(p.seq - o) < ReorderMax
      /\ IsFiniteSet(Held(b)) /\ Cardinality(Held(b)) = r.reorder_count
  BY DEF Receiving
<1> HIDE DEF b, o, w
<1>3. /\ \A p \in Held(b) : /\ p \in Data /\ p # NULL /\ p.seq \in SeqNrs /\ p.seq \in Int
                            /\ Get(b, p.seq) = p /\ Mod(p.seq - o) < w
      /\ \A p \in Held(b) : \A q \in Held(b) : p.seq = q.seq => p = q
  BY <1>1, HeldFacts
<1> QED BY <1>2, <1>3 DEF b, o, w

(* No more packets than the limit                                          *)
LEMMA ReorderBound == ASSUME NEW r \in Receiving PROVE r.reorder_count <= ReorderMax
<1> DEFINE H == Held(r.inbuf)
           f == [p \in H |-> Mod(p.seq - (r.ack_nr + 1))]
           D == {d \in Nat : d < ReorderMax}
<1>1. ReorderMax \in Nat /\ r.ack_nr + 1 \in Int /\ r.reorder_count \in Nat
  BY Counts, ReceivingFacts
<1>2. ASSUME NEW p \in H PROVE p.seq \in SeqNrs /\ Mod(p.seq - (r.ack_nr + 1)) \in D
  <2>1. p.seq \in SeqNrs /\ p.seq \in Int /\ Mod(p.seq - (r.ack_nr + 1)) < ReorderMax
    BY ReceivingHeld
  <2>2. p.seq - (r.ack_nr + 1) \in Int
    BY <1>1, <2>1
  <2>3. Mod(p.seq - (r.ack_nr + 1)) \in Nat
    BY <2>2, ModSeqNr, Counts DEF SeqNrs
  <2> QED BY <2>1, <2>3
<1>3. ASSUME NEW p \in H, NEW q \in H, f[p] = f[q] PROVE p = q
  <2>1. Mod(p.seq - (r.ack_nr + 1)) = Mod(q.seq - (r.ack_nr + 1))
    BY <1>3
  <2>2. p.seq = q.seq
    BY <1>1, <1>2, <2>1, SameDistance
  <2> QED BY <2>2, ReceivingHeld
<1>4. IsFiniteSet(D) /\ Cardinality(D) <= ReorderMax
  <2>1. D = 0..(ReorderMax - 1)
    BY <1>1
  <2>2. 0 \in Int /\ ReorderMax - 1 \in Int
    BY <1>1
  <2>3. IsFiniteSet(0..(ReorderMax - 1)) /\
        Cardinality(0..(ReorderMax - 1)) = IF 0 > ReorderMax - 1 THEN 0 ELSE (ReorderMax - 1) - 0 + 1
    BY <2>2, FS_Interval
  <2> HIDE DEF D
  <2> QED BY <1>1, <2>1, <2>3
<1>5. f \in Injection(H, D)
  BY <1>2, <1>3 DEF Injection, IsInjective
<1> HIDE DEF f, H, D
<1>6. Cardinality(H) <= Cardinality(D) /\ Cardinality(D) \in Nat /\ Cardinality(H) = r.reorder_count
  BY <1>4, <1>5, FS_Injection, FS_CardinalityType, ReceivingHeld DEF H
<1> QED BY <1>1, <1>4, <1>6

(* The numbers of a ring, seen from the next one                           *)
LEMMA NextDistance ==
  ASSUME NEW o \in Int, NEW v \in SeqNrs, v # Mod(o)
  PROVE  Mod(v - (Mod(o) + 1)) = Mod(v - o) - 1 /\ Mod(v - o) \in Int
<1>1. v \in Int /\ Mod(o) \in Int /\ Mod(o) \in SeqNrs /\ o + 1 \in Int /\ v - o \in Int
  BY ModSeqNr, Counts DEF SeqNrs
<1>2. Mod(v - o) # 0
  <2> SUFFICES ASSUME Mod(v - o) = 0 PROVE FALSE
    OBVIOUS
  <2>1. 0 \in 0..(Modulus - 1) /\ o + 0 = o
    BY Counts
  <2>2. Mod(Mod(o + 0) - o) = 0
    BY <2>1, DistanceOf
  <2>3. Mod(v - o) = Mod(Mod(o) - o)
    BY <2>1, <2>2
  <2> QED BY <1>1, <2>3, SameDistance
<1>3. Mod(v - Mod(o + 1)) = Mod(v - o) - 1
  BY <1>1, <1>2, DistanceNext
<1>4. Mod(v - Mod(o + 1)) = Mod(v - (Mod(o) + 1))
  <2> DEFINE a == Mod(o) + 1
  <2>1. a \in Int
    BY <1>1
  <2>2. Mod(o + 1) = Mod(a)
    <3>1. 1 \in Int
      OBVIOUS
    <3> QED BY <3>1, ModSum
  <2> HIDE DEF a
  <2>3. Mod(v - Mod(a)) = Mod(v - a)
    BY <1>1, <2>1, ModSum
  <2> QED BY <2>2, <2>3 DEF a
<1> QED BY <1>1, <1>3, <1>4, ModSeqNr

(* A packet in order is delivered.                                         *)
LEMMA DeliverTakes ==
  ASSUME NEW r \in Receiving, Settled(r), NEW data \in Seq(Nat)
  PROVE  LET t == Deliver(r, data)
         IN  /\ t \in Receiving /\ t.ack_nr = Mod(r.ack_nr + 1) /\ t.read = r.read \o data
             /\ t.inbuf = r.inbuf /\ t.reorder_count = r.reorder_count
<1> DEFINE u == [r EXCEPT !.read = @ \o data]
           t == [u EXCEPT !.ack_nr = Mod(@ + 1)]
           b == r.inbuf
           o == r.ack_nr + 1
           w == r.inbuf.mask
<1>0. Deliver(r, data) = t
  <2>1. r \in Receiver
    BY ReceivingFacts
  <2> QED BY <2>1 DEF Deliver, Receiver
<1>1. /\ r \in Receiver /\ r.ack_nr \in Int /\ o \in Int /\ b \in Ring(Data) /\ r.read \in Seq(Nat)
      /\ Placed(b, o, w) /\ r.read \o data \in Seq(Nat) /\ Mod(o) \in SeqNrs
  <2>1. r.read \in Seq(Nat) /\ o \in Int
    BY ReceivingFacts
  <2>2. r.read \o data \in Seq(Nat)
    BY <2>1
  <2> QED BY <2>1, <2>2, ReceivingFacts, ModSeqNr
<1>2. /\ u \in Receiver /\ u.read = r.read \o data /\ u.ack_nr = r.ack_nr /\ u.inbuf = b
      /\ u.reorder_count = r.reorder_count
  BY <1>1 DEF Receiver
<1> HIDE DEF u
<1>3. /\ t \in Receiver /\ t.read = r.read \o data /\ t.ack_nr = Mod(o) /\ t.inbuf = b
      /\ t.reorder_count = r.reorder_count
  BY <1>1, <1>2 DEF Receiver
<1> HIDE DEF t
<1>4. /\ \A p \in Held(b) : p \in Data /\ p.seq \in SeqNrs /\ p.seq # Mod(o)
                            /\ Mod(p.seq - o) < ReorderMax
      /\ IsFiniteSet(Held(b)) /\ Cardinality(Held(b)) = r.reorder_count
  BY ReceivingHeld DEF Settled
<1> HIDE DEF b, o
<1>5. \A p \in Held(b) : Mod(p.seq - (Mod(o) + 1)) = Mod(p.seq - o) - 1 /\ Mod(p.seq - o) \in Int
  BY <1>1, <1>4, NextDistance
<1>6. Placed(b, Mod(o) + 1, w)
  <2>1. ASSUME NEW j \in Slots(Size(b)), b.elements[j] # NULL
        PROVE b.elements[j].seq % Size(b) = j /\ Mod(b.elements[j].seq - (Mod(o) + 1)) < w
    <3> DEFINE p == b.elements[j]
    <3>1. p \in Held(b)
      BY <1>1, <2>1, RingFacts DEF Held
    <3>2. p.seq % Size(b) = j /\ Mod(p.seq - o) < w /\ w \in Nat
      BY <1>1, <2>1 DEF Placed
    <3> HIDE DEF p
    <3>3. Mod(p.seq - (Mod(o) + 1)) < w
      BY <1>5, <3>1, <3>2
    <3> QED BY <3>2, <3>3 DEF p
  <2> QED BY <1>1, <2>1 DEF Placed
<1>7. \A p \in Held(b) : Mod(p.seq - (Mod(o) + 1)) < ReorderMax
  BY <1>4, <1>5, Counts
<1>8. t \in Receiving
  BY <1>3, <1>4, <1>6, <1>7 DEF Receiving, b, w
<1> QED BY <1>0, <1>3, <1>8 DEF o, b

(* Sets of receivers that the delivery of what the ring holds stays in     *)
Draining(R) ==
  /\ R \subseteq Receiving
  /\ \A r \in R : \A t \in Receiving :
       SameStream(r, t) \/ (\E m \in Held(r.inbuf) : Taken(r, t, m)) => t \in R

(* A turn of the loop that drains the ring                                 *)
LEMMA DrainOneStays ==
  ASSUME NEW R, Draining(R), NEW r \in R, NEW i
  PROVE  LET t == DrainOne(r, i)
         IN  /\ t \in R
             /\ \/ t = r /\ Settled(r)
                \/ ~Settled(r) /\ t.reorder_count = r.reorder_count - 1
<1> DEFINE p == Get(r.inbuf, r.ack_nr + 1)
           b == r.inbuf
           o == r.ack_nr + 1
           w == r.inbuf.mask
<1>1. /\ r \in Receiving /\ r \in Receiver /\ o \in Int /\ b \in Ring(Data) /\ Placed(b, o, w)
      /\ Size(b) \in Nat /\ Size(b) > 1 /\ w = Size(b) - 1 /\ r.reorder_count \in Nat
  BY ReceivingFacts DEF Draining
<1>2. /\ \A q \in Held(b) : q \in Data /\ q # NULL /\ q.seq \in SeqNrs /\ Get(b, q.seq) = q
                            /\ Mod(q.seq - o) < ReorderMax
      /\ \A q \in Held(b) : \A x \in Held(b) : q.seq = x.seq => q = x
      /\ IsFiniteSet(Held(b)) /\ Cardinality(Held(b)) = r.reorder_count
  BY <1>1, ReceivingHeld
<1>3. CASE r.reorder_count = 0 \/ p = NULL
  <2>1. DrainOne(r, i) = r
    BY <1>3 DEF DrainOne
  <2>2. ASSUME NEW q \in Held(b), q.seq = Mod(o) PROVE FALSE
    <3>1. CASE r.reorder_count = 0
      <4> HIDE DEF b
      <4>1. Held(b) = {}
        BY <1>2, <3>1, FS_EmptySet
      <4> QED BY <2>2, <4>1
    <3>2. CASE p = NULL
      <4>1. Get(b, q.seq) = Get(b, o)
        <5>1. Size(b) \in Sizes
          BY <1>1, RingFacts
        <5> HIDE DEF b, o
        <5>2. Mod(o) % Size(b) = o % Size(b)
          BY <1>1, <5>1, SlotOfMod
        <5> QED BY <2>2, <5>2 DEF Get, Slot
      <4> QED BY <1>2, <2>2, <3>2, <4>1
    <3> QED BY <1>3, <3>1, <3>2
  <2> QED BY <2>1, <2>2 DEF Settled
<1>4. CASE ~(r.reorder_count = 0 \/ p = NULL)
  <2> DEFINE c == Put(b, o, NULL)
             u == [r EXCEPT !.inbuf = c]
             v == [u EXCEPT !.reorder_count = @ - 1]
             t == Deliver(v, p.data)
  <2>1. DrainOne(r, i) = t
    <3>1. v = [r EXCEPT !.inbuf = Put(@, r.ack_nr + 1, NULL), !.reorder_count = @ - 1]
      BY <1>1 DEF Receiver
    <3> HIDE DEF v
    <3> QED BY <1>4, <3>1 DEF DrainOne
  <2>2. p \in Held(b) /\ p.seq = Mod(o)
    <3>1. Mod(o - o) < Size(b)
      <4>1. o - o = 0 /\ 0 \in 0..(Modulus - 1)
        BY <1>1, Counts
      <4> QED BY <1>1, <4>1, Small
    <3> HIDE DEF b, o, w
    <3> QED BY <1>1, <1>4, <3>1, BothNumbered, GetOf DEF b, o
  <2>3. /\ c \in Ring(Data) /\ Size(c) = Size(b) /\ Placed(c, o, w) /\ Held(c) = Held(b) \ {p}
    <3> HIDE DEF b, o, w
    <3> QED BY <1>1, BothNumbered, PutNull DEF b, o
  <2> HIDE DEF c
  <2>4. u \in Receiver /\ u.inbuf = c /\ u.ack_nr = r.ack_nr /\ u.read = r.read /\ u.reorder_count = r.reorder_count
    BY <1>1, <2>3 DEF Receiver
  <2> HIDE DEF u
  <2>5. r.reorder_count - 1 \in Nat
    BY <1>1, <1>4
  <2>6. /\ v \in Receiver /\ v.inbuf = c /\ v.ack_nr = r.ack_nr /\ v.read = r.read
        /\ v.reorder_count = r.reorder_count - 1
    BY <2>4, <2>5 DEF Receiver
  <2> HIDE DEF v
  <2>7. c.mask = w
    BY <1>1, <2>3, RingFacts
  <2>8. IsFiniteSet(Held(c)) /\ Cardinality(Held(c)) = r.reorder_count - 1
    <3> HIDE DEF p, b
    <3> QED BY <1>2, <2>2, <2>3, FS_RemoveElement
  <2>9. v \in Receiving
    <3>1. Placed(v.inbuf, v.ack_nr + 1, v.inbuf.mask)
      BY <2>3, <2>6, <2>7
    <3>2. \A q \in Held(v.inbuf) : Mod(q.seq - (v.ack_nr + 1)) < ReorderMax
      BY <1>2, <2>3, <2>6
    <3> QED BY <2>6, <2>8, <3>1, <3>2 DEF Receiving
  <2>10. Settled(v)
    BY <1>2, <2>2, <2>3, <2>6 DEF Settled
  <2>11. p.data \in Seq(Nat)
    <3>1. p \in Data
      BY <1>2, <2>2
    <3> HIDE DEF p
    <3> QED BY <3>1 DEF Data
  <2>12. /\ t \in Receiving /\ t.ack_nr = Mod(v.ack_nr + 1) /\ t.read = v.read \o p.data
         /\ t.inbuf = v.inbuf /\ t.reorder_count = v.reorder_count
    <3> HIDE DEF p
    <3> QED BY <2>9, <2>10, <2>11, DeliverTakes
  <2> HIDE DEF t
  <2>13. Taken(r, t, p)
    BY <2>2, <2>3, <2>6, <2>12 DEF Taken
  <2>14. ~Settled(r)
    BY <2>2 DEF Settled
  <2> HIDE DEF p
  <2>15. t \in R
    BY <2>2, <2>12, <2>13 DEF Draining
  <2> QED BY <2>1, <2>6, <2>12, <2>14, <2>15
<1> QED BY <1>3, <1>4

LEMMA DrainTurns ==
  ASSUME NEW r, r.reorder_count \in Nat, NEW S, r \in S,
         \A x \in S : \A i \in 1..r.reorder_count : DrainOne(x, i) \in S,
         NEW G, r \in G[0], \A k \in 1..r.reorder_count : \A x \in S : x \in G[k-1] => DrainOne(x, k) \in G[k]
  PROVE  Drain(r) \in S /\ Drain(r) \in G[r.reorder_count]
<1> DEFINE op(x, i) == DrainOne(x, i)
           n == r.reorder_count
           base == r
           seq == [i \in 1..n |-> i]
           F == [q \in S \X (1..n) |-> op(q[1], q[2])]
           IsFold(h) == h = [t \in SUBSET (DOMAIN seq) |->
                              IF t = {} THEN base ELSE op(h[t \ {Max(t)}], seq[Max(t)])]
           iter == CHOOSE h : IsFold(h)
<1>1. n \in Nat /\ DOMAIN seq = 1..n /\ \A i \in 1..n : seq[i] = i
  OBVIOUS
<1> HIDE DEF seq
<1>2. Drain(r) = iter[1..n]
  BY <1>1 DEF Drain, FoldLeft, MapThenFoldSet, seq
<1>3. /\ base \in S /\ \A x \in S, i \in 1..n : op(x, i) \in S
      /\ base \in G[0] /\ \A k \in 1..n : \A x \in S : x \in G[k-1] => op(x, k) \in G[k]
  OBVIOUS
<1> HIDE DEF op, n, base
<1>4. \A x \in S, i \in 1..n : F[<<x, i>>] = op(x, i)
  OBVIOUS
<1> HIDE DEF F
<1>5. PICK g : /\ g = [t \in SUBSET (1..n) |-> IF t = {} THEN base ELSE F[<<g[t \ {Max(t)}], Max(t)>>]]
               /\ \A t \in SUBSET (1..n) : t # {} => Max(t) \in 1..n /\ g[t \ {Max(t)}] \in S
  <2>1. base \in S /\ \A k \in 1..n : \A x \in S : F[<<x, k>>] \in S
    BY <1>3, <1>4
  <2>2. HasFoldIn(n, S, base, F)
    BY ONLY <1>1, <2>1, FoldWithin
  <2> QED BY <2>2 DEF HasFoldIn
<1>6. ASSUME NEW t \in SUBSET (1..n), t # {}
      PROVE F[<<g[t \ {Max(t)}], Max(t)>>] = op(g[t \ {Max(t)}], seq[Max(t)])
  <2> DEFINE k == Max(t)
             x == g[t \ {k}]
  <2>1. k \in 1..n /\ x \in S
    BY <1>5, <1>6
  <2> HIDE DEF k, x
  <2>2. F[<<x, k>>] = op(x, seq[k])
    BY <1>1, <1>4, <2>1
  <2> QED BY <2>2 DEF k, x
<1>7. IsFold(g)
  BY <1>1, <1>5, <1>6
<1>8. IsFold(iter)
  BY <1>7
<1> HIDE DEF iter
<1> DEFINE H == [k \in 0..n |-> S \cap G[k]]
<1>9. iter[{}] \in S \cap G[0]
  BY <1>1, <1>3, <1>8
<1>10. ASSUME NEW k \in 1..n, iter[1..k-1] \in S \cap G[k-1] PROVE iter[1..k] \in S \cap G[k]
  <2>1. 1..k # {} /\ 1..k \in SUBSET (1..n) /\ Max(1..k) = k /\ (1..k) \ {k} = 1..k-1
    BY <1>1, Prefix
  <2>2. iter[1..k] = op(iter[(1..k) \ {Max(1..k)}], seq[Max(1..k)])
    BY <1>1, <1>8, <2>1
  <2> HIDE DEF IsFold
  <2>3. iter[1..k] = op(iter[1..k-1], k)
    BY <1>1, <2>1, <2>2
  <2> QED BY <1>3, <1>10, <2>3
<1>11. iter[1..n] \in S \cap G[n]
  <2>1. /\ \A k \in 0..n : H[k] = S \cap G[k]
        /\ 0 \in 0..n /\ n \in 0..n /\ \A k \in 1..n : k \in 0..n /\ k-1 \in 0..n
    BY <1>1
  <2> HIDE DEF H
  <2>2. iter[{}] \in H[0]
    BY <1>9, <2>1
  <2>3. ASSUME NEW k \in 1..n, iter[1..k-1] \in H[k-1] PROVE iter[1..k] \in H[k]
    BY <1>10, <2>1, <2>3
  <2>4. iter[1..n] \in H[n]
    BY <1>1, <2>2, <2>3, FoldStays
  <2> QED BY <2>1, <2>4
<1> QED BY <1>2, <1>11 DEF n

(* What drains the ring leaves it without the packet that is next.         *)
LEMMA DrainStays ==
  ASSUME NEW R, Draining(R), NEW r \in R
  PROVE  Drain(r) \in R /\ Settled(Drain(r))
<1> DEFINE n == r.reorder_count
           G == [k \in 0..n |-> {x \in R : Settled(x) \/ x.reorder_count <= n - k}]
<1>1. n \in Nat /\ \A x \in R : x.reorder_count \in Nat
  BY ReceivingFacts DEF Draining
<1>2. \A k \in 0..n : \A x : x \in G[k] <=> x \in R /\ (Settled(x) \/ x.reorder_count <= n - k)
  OBVIOUS
<1> HIDE DEF G
<1>3. r \in G[0]
  BY <1>1, <1>2
<1>4. ASSUME NEW x \in R, NEW k \in 1..n PROVE DrainOne(x, k) \in R
  BY DrainOneStays
<1>5. ASSUME NEW k \in 1..n, NEW x \in R, x \in G[k-1] PROVE DrainOne(x, k) \in G[k]
  <2> DEFINE t == DrainOne(x, k)
  <2>1. k-1 \in 0..n /\ k \in 0..n /\ k \in Int
    BY <1>1
  <2>2. t \in R /\ ((t = x /\ Settled(x)) \/ (~Settled(x) /\ t.reorder_count = x.reorder_count - 1))
    BY DrainOneStays
  <2> HIDE DEF t
  <2>3. CASE t = x /\ Settled(x)
    BY <1>2, <2>1, <2>2, <2>3 DEF t
  <2>4. CASE ~(t = x /\ Settled(x))
    <3>1. x \in R /\ x.reorder_count \in Nat /\ (Settled(x) \/ x.reorder_count <= n - (k - 1))
      BY <1>1, <1>2, <1>5, <2>1
    <3>2. t.reorder_count <= n - k
      BY <1>1, <2>1, <2>2, <2>4, <3>1
    <3> QED BY <1>2, <2>1, <2>2, <3>2 DEF t
  <2> QED BY <2>3, <2>4
<1>6. Drain(r) \in G[n]
  <2>1. r.reorder_count \in Nat
    BY <1>1
  <2> QED BY <1>3, <1>4, <1>5, <2>1, DrainTurns
<1>7. n \in 0..n
  BY <1>1
<1> DEFINE t == Drain(r)
<1> HIDE DEF t
<1>8. t \in R /\ t.reorder_count \in Nat /\ (Settled(t) \/ t.reorder_count <= n - n)
  BY <1>1, <1>2, <1>6, <1>7 DEF t
<1>9. Settled(t)
  <2> SUFFICES ASSUME ~Settled(t) PROVE FALSE
    OBVIOUS
  <2>1. t.reorder_count = 0 /\ t \in Receiving
    BY <1>1, <1>8 DEF Draining
  <2>2. Held(t.inbuf) = {}
    BY <2>1, ReceivingHeld, FS_EmptySet
  <2> QED BY <2>2 DEF Settled
<1> QED BY <1>8, <1>9 DEF t

(* An out-of-order packet is kept, if it is not yet.                       *)
LEMMA KeepKeeps ==
  ASSUME NEW r \in Receiving, Settled(r), NEW m \in Data, NEW ahead \in Nat, ahead # 0,
         ahead = Mod(m.seq - (r.ack_nr + 1)), ahead < ReorderMax
  PROVE  LET t == Keep(r, m, ahead) IN t \in Receiving /\ Settled(t) /\ (SameStream(r, t) \/ Kept(r, t, m))
<1> DEFINE b == r.inbuf
           o == r.ack_nr + 1
           w == r.inbuf.mask
           g == EnsureSize(b, m.seq + 1, ahead + 1)
           grown == [r EXCEPT !.inbuf = g]
<1>1. /\ r \in Receiver /\ o \in Int /\ b \in Ring(Data) /\ Placed(b, o, w) /\ w \in Nat
      /\ Size(b) \in Nat /\ Size(b) > 1 /\ w = Size(b) - 1 /\ r.reorder_count \in Nat
  BY ReceivingFacts
<1>2. /\ \A p \in Held(b) : p \in Data /\ p # NULL /\ p.seq # Mod(o) /\ Mod(p.seq - o) < ReorderMax
      /\ IsFiniteSet(Held(b)) /\ Cardinality(Held(b)) = r.reorder_count
  BY ReceivingHeld DEF Settled
<1>3. m.seq \in SeqNrs /\ m.seq \in Int /\ m # NULL
  BY BothNumbered, Counts DEF Data, SeqNrs, Numbered
<1>4. ReorderMax \in Nat
  BY Counts
<1>5. Mod((m.seq + 1) - (ahead + 1) - o) = 0
  <2> DEFINE x == m.seq - o
  <2>1. x \in Int /\ (m.seq + 1) - (ahead + 1) - o = x - ahead
    BY <1>1, <1>3
  <2>2. ahead = Mod(x)
    OBVIOUS
  <2> HIDE DEF x
  <2>3. Mod(x - Mod(x)) = Mod(x - x)
    BY <2>1, ModSum
  <2>4. x - x = 0 /\ 0 \in 0..(Modulus - 1)
    BY <2>1, Counts
  <2> QED BY <2>1, <2>2, <2>3, <2>4, Small
<1> HIDE DEF b, o, w
<1>6. /\ g \in Ring(Data) /\ ahead + 1 < Size(g) /\ Size(b) <= Size(g) /\ Placed(g, o, w)
      /\ Held(g) = Held(b)
  <2> DEFINE item == m.seq + 1
             index == ahead + 1
  <2>1. item \in Int /\ index \in Nat /\ index <= ReorderMax /\ Mod(item - index - o) = 0
    BY <1>3, <1>4, <1>5
  <2> HIDE DEF item, index
  <2>2. LET z == EnsureSize(b, item, index)
        IN  /\ z \in Ring(Data) /\ index < Size(z) /\ Size(b) <= Size(z)
            /\ Placed(z, o, w) /\ Held(z) = Held(b)
    BY <1>1, <2>1, BothNumbered, EnsureKeeps
  <2> QED BY <2>2 DEF item, index
<1> HIDE DEF g
<1>7. Size(g) \in Nat /\ g.mask = Size(g) - 1 /\ g.mask \in Nat
  BY <1>6, RingFacts
<1>8. Placed(g, o, g.mask) /\ ahead < g.mask
  <2>1. w <= g.mask /\ g.mask <= Size(g)
    BY <1>1, <1>6, <1>7
  <2>2. ASSUME NEW j \in Slots(Size(g)), g.elements[j] # NULL
        PROVE g.elements[j].seq % Size(g) = j /\ Mod(g.elements[j].seq - o) < g.mask
    <3> DEFINE p == g.elements[j]
    <3>1. p \in Data /\ p.seq % Size(g) = j /\ Mod(p.seq - o) < w
      BY <1>6, <2>2, RingFacts DEF Placed
    <3>2. p.seq - o \in Int
      <4> HIDE DEF p
      <4> QED BY <1>1, <3>1, Counts DEF Data, SeqNrs
    <3> HIDE DEF p
    <3>3. Mod(p.seq - o) \in Int
      BY <3>2, ModSeqNr
    <3>4. Mod(p.seq - o) < g.mask
      BY <1>1, <1>7, <2>1, <3>1, <3>3
    <3> QED BY <3>1, <3>4 DEF p
  <2> QED BY <1>6, <1>7, <2>1, <2>2 DEF Placed
<1>9. /\ grown \in Receiver /\ grown.inbuf = g /\ grown.ack_nr = r.ack_nr /\ grown.read = r.read
      /\ grown.reorder_count = r.reorder_count
  BY <1>1, <1>6 DEF Receiver
<1>10. Keep(r, m, ahead) =
         IF Get(grown.inbuf, m.seq) # NULL THEN grown
         ELSE ScheduleAck([grown EXCEPT !.inbuf = Put(@, m.seq, m), !.reorder_count = @ + 1])
  BY DEF Keep, g, b
<1> HIDE DEF grown
<1>11. CASE Get(g, m.seq) # NULL
  <2>1. Keep(r, m, ahead) = grown
    BY <1>9, <1>10, <1>11
  <2>2. grown \in Receiving
    BY <1>2, <1>6, <1>8, <1>9 DEF Receiving, o
  <2>3. Settled(grown) /\ SameStream(r, grown)
    BY <1>2, <1>6, <1>9 DEF Settled, SameStream, o, b
  <2> QED BY <2>1, <2>2, <2>3
<1>12. CASE Get(g, m.seq) = NULL
  <2> DEFINE h == Put(g, m.seq, m)
             u == [grown EXCEPT !.inbuf = h]
             v == [u EXCEPT !.reorder_count = @ + 1]
             t == [v EXCEPT !.ack_due = TRUE]
  <2>1. Keep(r, m, ahead) = t
    <3>1. v = [grown EXCEPT !.inbuf = Put(@, m.seq, m), !.reorder_count = @ + 1]
      BY <1>9 DEF Receiver
    <3> HIDE DEF v
    <3> QED BY <1>9, <1>10, <1>12, <3>1 DEF ScheduleAck
  <2>2. Mod(m.seq - o) < g.mask /\ m.seq = Mod(m.seq)
    BY <1>3, <1>8, Small DEF SeqNrs, o
  <2>3. h \in Ring(Data) /\ Size(h) = Size(g) /\ Placed(h, o, g.mask) /\ Held(h) = (Held(g) \ {NULL}) \cup {m}
    <3> DEFINE y == g.mask
    <3> HIDE DEF y
    <3>1. Placed(g, o, y) /\ Mod(m.seq - o) < y
      BY <1>8, <2>2 DEF y
    <3>2. LET z == Put(g, m.seq, m)
          IN  /\ z \in Ring(Data) /\ Size(z) = Size(g) /\ Placed(z, o, y)
              /\ Held(z) = (Held(g) \ {Get(g, m.seq)}) \cup {m}
      BY <1>1, <1>3, <1>6, <2>2, <3>1, BothNumbered, PutElement
    <3> QED BY <1>12, <3>2 DEF y
  <2> HIDE DEF h
  <2>4. Held(h) = Held(b) \cup {m}
    BY <1>2, <1>6, <2>3
  <2>5. u \in Receiver /\ u.inbuf = h /\ u.ack_nr = r.ack_nr /\ u.read = r.read /\ u.reorder_count = r.reorder_count
    BY <1>9, <2>3 DEF Receiver
  <2> HIDE DEF u
  <2>6. /\ v \in Receiver /\ v.inbuf = h /\ v.ack_nr = r.ack_nr /\ v.read = r.read
        /\ v.reorder_count = r.reorder_count + 1
    BY <1>1, <2>5 DEF Receiver
  <2> HIDE DEF v
  <2>7. /\ t \in Receiver /\ t.inbuf = h /\ t.ack_nr = r.ack_nr /\ t.read = r.read
        /\ t.reorder_count = r.reorder_count + 1
    BY <2>6 DEF Receiver
  <2> HIDE DEF t
  <2>8. m \notin Held(b)
    <3>1. \A p \in Held(g) : Get(g, p.seq) = p
      BY <1>1, <1>6, BothNumbered, HeldFacts
    <3> QED BY <1>3, <1>6, <1>12, <3>1
  <2>9. IsFiniteSet(Held(h)) /\ Cardinality(Held(h)) = t.reorder_count
    BY <1>2, <2>4, <2>7, <2>8, FS_AddElement
  <2>10. h.mask = g.mask
    BY <1>6, <1>7, <2>3, RingFacts
  <2>11. \A p \in Held(h) : Mod(p.seq - o) < ReorderMax
    BY <1>2, <2>4 DEF o
  <2>12. t \in Receiving
    BY <2>3, <2>7, <2>9, <2>10, <2>11 DEF Receiving, o
  <2>13. m.seq # Mod(o)
    <3> SUFFICES ASSUME m.seq = Mod(o) PROVE FALSE
      OBVIOUS
    <3>1. 0 \in 0..(Modulus - 1) /\ o + 0 = o
      BY <1>1, Counts
    <3>2. Mod(Mod(o + 0) - o) = 0
      BY <1>1, <3>1, DistanceOf
    <3> QED BY <3>1, <3>2 DEF o
  <2>14. Settled(t)
    BY <1>2, <2>4, <2>7, <2>13 DEF Settled, o
  <2>15. Kept(r, t, m)
    BY <2>4, <2>7 DEF Kept, b
  <2> QED BY <2>1, <2>12, <2>14, <2>15
<1> QED BY <1>11, <1>12

(* What a receiver does of a packet: nothing, keep it, or deliver it with  *)
(* those that follow it.                                                   *)
LEMMA AcceptStays ==
  ASSUME NEW R, Draining(R), NEW r \in R, Settled(r), NEW m \in Data,
         \A t \in Receiving : Taken(r, t, m) \/ Kept(r, t, m) => t \in R
  PROVE  Accept(r, m) \in R /\ Settled(Accept(r, m))
<1> DEFINE ahead == Mod(m.seq - (r.ack_nr + 1))
           t == Accept(r, m)
<1>1. r \in Receiving /\ r \in Receiver /\ r.ack_nr \in Int /\ r.ack_nr + 1 \in Int
  BY ReceivingFacts DEF Draining
<1>2. m.seq \in SeqNrs /\ m.seq \in Int /\ m.data \in Seq(Nat)
  BY Counts DEF Data, SeqNrs
<1>3. ahead \in Nat /\ Mod(m.seq - r.ack_nr - 1) = ahead
  <2>1. m.seq - r.ack_nr - 1 = m.seq - (r.ack_nr + 1) /\ m.seq - (r.ack_nr + 1) \in Int
    BY <1>1, <1>2
  <2> QED BY <2>1, ModSeqNr, Counts DEF SeqNrs
<1>4. t = CASE ahead >= ReorderMax -> IF ahead >= Modulus - ReorderMax THEN ScheduleAck(r) ELSE r
            [] ahead = 0           -> ScheduleAck(Drain(Deliver(r, m.data)))
            [] OTHER               -> Keep(r, m, ahead)
  BY <1>3 DEF Accept
<1> HIDE DEF t
<1>5. ASSUME NEW x \in R, Settled(x) PROVE ScheduleAck(x) \in R /\ Settled(ScheduleAck(x))
  <2> DEFINE y == ScheduleAck(x)
  <2>1. x \in Receiver /\ x \in Receiving
    BY ReceivingFacts DEF Draining
  <2>2. /\ y \in Receiver /\ y.ack_nr = x.ack_nr /\ y.read = x.read /\ y.inbuf = x.inbuf
        /\ y.reorder_count = x.reorder_count
    BY <2>1 DEF ScheduleAck, Receiver
  <2> HIDE DEF y
  <2>3. y \in Receiving /\ SameStream(x, y) /\ Settled(y)
    BY <1>5, <2>1, <2>2 DEF Receiving, SameStream, Settled
  <2>4. y \in R
    BY <2>3 DEF Draining
  <2> QED BY <2>3, <2>4 DEF y
<1>6. CASE ahead >= ReorderMax
  <2> HIDE DEF ahead
  <2>1. t = ScheduleAck(r) \/ t = r
    BY <1>3, <1>4, <1>6, Counts
  <2> QED BY <1>5, <2>1 DEF t
<1>7. CASE ahead = 0
  <2> DEFINE d == Deliver(r, m.data)
             e == Drain(d)
  <2>1. ReorderMax \in Nat /\ ReorderMax # 0
    BY Counts
  <2>2. t = ScheduleAck(e)
    BY <1>4, <1>7, <2>1
  <2>3. d \in Receiving /\ d.ack_nr = Mod(r.ack_nr + 1) /\ d.read = r.read \o m.data /\ d.inbuf = r.inbuf
    BY <1>1, <1>2, DeliverTakes
  <2> HIDE DEF d
  <2>4. m.seq = Mod(r.ack_nr + 1)
    <3> DEFINE o == r.ack_nr + 1
    <3>1. 0 \in 0..(Modulus - 1) /\ o + 0 = o /\ o \in Int /\ Mod(o) \in SeqNrs
      BY <1>1, Counts, ModSeqNr
    <3>2. Mod(Mod(o + 0) - o) = 0
      BY <3>1, DistanceOf
    <3>3. Mod(m.seq - o) = 0
      BY <1>7
    <3> HIDE DEF o
    <3>4. m.seq = Mod(o)
      BY <1>2, <3>1, <3>2, <3>3, SameDistance
    <3> QED BY <3>4 DEF o
  <2>5. Taken(r, d, m)
    BY <2>3, <2>4 DEF Taken, Settled
  <2>6. d \in R
    BY <2>3, <2>5
  <2>7. e \in R /\ Settled(e)
    BY <2>6, DrainStays
  <2> HIDE DEF e
  <2> QED BY <1>5, <2>2, <2>7 DEF t
<1>8. CASE ~(ahead >= ReorderMax) /\ ahead # 0
  <2>1. t = Keep(r, m, ahead) /\ ahead < ReorderMax
    BY <1>3, <1>4, <1>8, Counts
  <2>2. t \in Receiving /\ Settled(t) /\ (SameStream(r, t) \/ Kept(r, t, m))
    BY <1>1, <1>3, <1>8, <2>1, KeepKeeps
  <2> QED BY <2>2 DEF Draining, t
<1> QED BY <1>6, <1>7, <1>8

(* The oldest packet is there after a write.                               *)
LEMMA FilledLive ==
  ASSUME NEW s \in Sane, Live(s), NEW t \in Sane, Oldest(t) = Oldest(s), Filled(s, t) PROVE Live(t)
<1> SUFFICES ASSUME t.window > 0 PROVE \E q \in Held(t.outbuf) : q.seq = Oldest(t)
  BY FirstHeld DEF Live
<1>1. t.window = s.window
  BY DEF Filled
<1>2. PICK q \in Held(s.outbuf) : q.seq = Oldest(s)
  BY <1>1, FirstHeld DEF Live
<1>3. PICK p \in Held(s.outbuf), length \in Nat :
         /\ ~p.sent /\ p.seq = Mod(s.seq_nr - 1)
         /\ Held(t.outbuf) = (Held(s.outbuf) \ {p}) \cup {Refilled(p, s.written + 1, length)}
  BY DEF Filled
<1>4. Refilled(p, s.written + 1, length).seq = p.seq
  <2>1. p \in OutPacket
    BY SaneFacts, BothNumbered, HeldFacts
  <2> QED BY <2>1 DEF Refilled, OutPacket
<1> QED BY <1>2, <1>3, <1>4

LEMMA AppendedLive ==
  ASSUME NEW s \in Sane, Live(s), NEW t \in Sane, Oldest(t) = Oldest(s), Appended(s, t) PROVE Live(t)
<1> SUFFICES ASSUME t.window > 0 PROVE \E q \in Held(t.outbuf) : q.seq = Oldest(t)
  BY FirstHeld DEF Live
<1>1. PICK length \in Nat : Held(t.outbuf) = Held(s.outbuf) \cup {NewOf(s, length)}
  BY DEF Appended
<1>2. CASE s.window = 0
  <2>1. s.seq_nr \in SeqNrs /\ s.seq_nr \in Int
    BY SaneFacts
  <2>2. Oldest(s) = s.seq_nr
    BY <1>2, <2>1, Small DEF Oldest, SeqNrs
  <2>3. NewOf(s, length).seq = s.seq_nr
    BY DEF NewOf
  <2> QED BY <1>1, <2>2, <2>3
<1>3. CASE s.window # 0
  <2>1. s.window > 0
    BY <1>3, SaneFacts
  <2>2. PICK q \in Held(s.outbuf) : q.seq = Oldest(s)
    BY <2>1, FirstHeld DEF Live
  <2> QED BY <1>1, <2>2
<1> QED BY <1>2, <1>3

LEMMA WrittenLive ==
  ASSUME NEW s \in Sane, Live(s), s.window < OutMax - 1, NEW t \in Written(s)
  PROVE  t \in Sane /\ Live(t)
<1>1. /\ t \in Sane /\ Oldest(t) = Oldest(s)
      /\ \/ Filled(s, t) \/ Appended(s, t)
         \/ \E u \in Sane : /\ Filled(s, u) /\ Oldest(u) = Oldest(s) /\ Appended(u, t)
                            /\ s.written + 2 <= NumWrites
  BY WrittenSteps
<1> QED BY <1>1, FilledLive, AppendedLive

(* What was sent has left the socket.                                      *)
LEMMA EmptiedSane ==
  ASSUME NEW s \in Sane, Live(s)
  PROVE  LET t == [s EXCEPT !.sent = {}]
         IN  /\ t \in Sane /\ Live(t) /\ t.sent = {} /\ SameNumbers(s, t) /\ t.outbuf = s.outbuf
             /\ SameSearch(s, t)
<1> DEFINE t == [s EXCEPT !.sent = {}]
<1>1. s \in Sender /\ Searching(s) /\ Placed(s.outbuf, Oldest(s), s.window) /\ s.window <= OutMax - 1
  BY SaneFacts
<1>2. /\ t \in Sender /\ t.seq_nr = s.seq_nr /\ t.window = s.window /\ t.outbuf = s.outbuf
      /\ t.written = s.written /\ t.sent = {} /\ SameSearch(s, t)
      /\ t.mtu_ceiling = s.mtu_ceiling /\ t.mtu_last = s.mtu_last /\ t.udp_mtu = s.udp_mtu
  BY <1>1 DEF Sender, SameSearch
<1> HIDE DEF t
<1>3. Searching(t)
  BY <1>1, <1>2 DEF Searching, Bounds, Probing, SameSearch
<1>4. Oldest(t) = Oldest(s)
  BY <1>2 DEF Oldest
<1>5. t \in Sane
  BY <1>1, <1>2, <1>3, <1>4 DEF Sane
<1>6. Live(t)
  BY <1>2, <1>4 DEF Live
<1> QED BY <1>2, <1>5, <1>6 DEF t, SameNumbers

-----------------------------------------------------------------------------
(* The invariant                                                           *)

Safe ==
  /\ snd \in Sane /\ Live(snd) /\ snd.sent = {}
  /\ rcv \in Receiving /\ Settled(rcv)
  /\ net \subseteq Data /\ (ack # NULL => ack.ack \in SeqNrs)

LEMMA EmptyRing ==
  ASSUME NEW P
  PROVE  LET b == EmptyBuffer(InitialSize)
         IN  /\ b \in Ring(P) /\ Held(b) = {} /\ Size(b) = InitialSize /\ b.mask = InitialSize - 1
             /\ \A o \in Int : \A w \in Nat : w <= InitialSize => Placed(b, o, w)
<1> DEFINE n == InitialSize
           f == [i \in Slots(n) |-> NULL]
           b == EmptyBuffer(n)
<1>1. n \in Sizes /\ n \in Nat
  BY BufferAssumption, Counts DEF Sizes
<1>2. b = [mask |-> n - 1, elements |-> f]
  BY DEF EmptyBuffer
<1>3. f \in [Slots(n) -> P \cup {NULL}] /\ \A j \in Slots(n) : f[j] = NULL
  OBVIOUS
<1> HIDE DEF n, f
<1>4. LET z == [mask |-> n - 1, elements |-> f]
      IN  z \in Ring(P) /\ Size(z) = n /\ z.elements = f
  BY <1>1, <1>3, RingMade
<1>5. b \in Ring(P) /\ Size(b) = n /\ b.elements = f /\ b.mask = n - 1
  BY <1>2, <1>4
<1> HIDE DEF b
<1>6. Held(b) = {}
  BY <1>3, <1>5, RingFacts DEF Held
<1>7. \A o \in Int : \A w \in Nat : w <= n => Placed(b, o, w)
  BY <1>3, <1>5 DEF Placed
<1> QED BY <1>5, <1>6, <1>7 DEF b, n

LEMMA InitSane ==
  ASSUME Init
  PROVE  /\ snd \in Sane /\ Live(snd) /\ snd.sent = {} /\ snd.seq_nr = SeqNr /\ snd.window = 0
         /\ snd.written = 0 /\ Held(snd.outbuf) = {}
         /\ snd.mtu_probe_seq = 0 /\ snd.mtu_floor = LeastMtu
<1> DEFINE b == EmptyBuffer(InitialSize)
<1>1. b \in Ring(OutPacket) /\ Held(b) = {} /\ \A o \in Int : Placed(b, o, 0)
  <2>1. 0 \in Nat /\ 0 <= InitialSize
    BY Counts
  <2> QED BY <2>1, EmptyRing
<1> HIDE DEF b
<1>2. PICK mtu \in UdpMtus :
       snd = [seq_nr |-> SeqNr, window |-> 0, outbuf |-> b,
              duplicate_ack |-> 0, written |-> 0, sent |-> {}, udp_mtu |-> mtu,
              mtu_floor |-> LeastMtu, mtu_ceiling |-> mtu, mtu_last |-> mtu,
              mtu_probe_seq |-> 0, mtu_probe_size |-> 0, due |-> FALSE, resets |-> 0]
  BY DEF Init, b
<1>3. mtu \in Nat /\ LeastMtu \in Nat /\ LeastMtu <= mtu /\ SeqNr \in SeqNrs /\ 0 \in SeqNrs
  BY MtuFacts, Counts DEF SeqNrs
<1>4. snd \in Sender
  BY <1>1, <1>2, <1>3 DEF Sender
<1>5. Searching(snd)
  BY <1>2, <1>3 DEF Searching, Bounds, Probing
<1>6. Placed(snd.outbuf, Oldest(snd), snd.window)
  <2>1. Oldest(snd) \in Int
    BY <1>2, ModSeqNr, Counts DEF Oldest
  <2> QED BY <1>1, <1>2, <2>1
<1>7. snd.window <= OutMax - 1
  BY <1>2, Counts
<1>8. snd \in Sane
  BY <1>4, <1>5, <1>6, <1>7 DEF Sane
<1> QED BY <1>1, <1>2, <1>8 DEF Live

LEMMA InitReceiving ==
  ASSUME Init
  PROVE  /\ rcv \in Receiving /\ Settled(rcv) /\ Held(rcv.inbuf) = {} /\ rcv.read = << >>
         /\ rcv.ack_nr = Mod(SeqNr - 1)
<1> DEFINE b == EmptyBuffer(InitialSize)
<1>1. b \in Ring(Data) /\ Held(b) = {} /\ \A o \in Int : Placed(b, o, b.mask)
  <2>1. InitialSize - 1 \in Nat /\ InitialSize - 1 <= InitialSize
    BY Counts
  <2> QED BY <2>1, EmptyRing
<1> HIDE DEF b
<1>2. rcv = [ack_nr |-> Mod(SeqNr - 1), inbuf |-> b, reorder_count |-> 0, ack_due |-> FALSE, read |-> << >>]
  BY DEF Init, b
<1>3. Mod(SeqNr - 1) \in SeqNrs /\ Mod(SeqNr - 1) \in Int
  BY ModSeqNr, Counts
<1>4. rcv \in Receiver
  BY <1>1, <1>2, <1>3 DEF Receiver
<1>5. Placed(rcv.inbuf, rcv.ack_nr + 1, rcv.inbuf.mask)
  BY <1>1, <1>2, <1>3
<1>6. IsFiniteSet(Held(b)) /\ Cardinality(Held(b)) = 0
  BY <1>1, FS_EmptySet
<1>7. rcv \in Receiving
  BY <1>1, <1>2, <1>4, <1>5, <1>6 DEF Receiving
<1> QED BY <1>1, <1>2, <1>7 DEF Settled

LEMMA InitSafe == Init => Safe
BY InitSane, InitReceiving DEF Safe, Init

LEMMA SenderStepSafe ==
  ASSUME Safe, NEW s \in Sane, Live(s), SenderStep(s)
  PROVE  snd' \in Sane /\ Live(snd)' /\ snd'.sent = {} /\ net' \subseteq Data
<1> DEFINE t == [s EXCEPT !.sent = {}]
<1>1. t \in Sane /\ Live(t) /\ t.sent = {}
  BY EmptiedSane
<1>2. s.sent \subseteq Data
  BY SaneFacts DEF Sender
<1>3. snd' = t /\ net' = net \cup s.sent
  BY DEF SenderStep
<1> HIDE DEF t
<1>4. Live(snd)'
  BY <1>1, <1>3 DEF Live, Oldest
<1> QED BY <1>1, <1>2, <1>3, <1>4 DEF Safe

LEMMA WriteSafe == ASSUME Safe, Write PROVE Safe'
<1>1. snd \in Sane /\ Live(snd) /\ snd.window < OutMax - 1 /\ rcv' = rcv /\ ack' = ack
  BY DEF Safe, Write
<1>2. PICK s \in Written(snd) : \E n \in Quotas(s) : SenderStep(FlushPackets(s, n))
  BY DEF Write
<1>3. PICK n \in Quotas(s) : SenderStep(FlushPackets(s, n))
  BY <1>2
<1>4. s \in Sane /\ Live(s)
  BY <1>1, WrittenLive
<1>5. n \in Nat
  BY <1>4, QuotasNat
<1>6. FlushPackets(s, n) \in Sane /\ Live(FlushPackets(s, n))
  BY <1>4, <1>5, ClosedSane, FlushPacketsStays, FlushPacketsLive
<1>7. snd' \in Sane /\ Live(snd)' /\ snd'.sent = {} /\ net' \subseteq Data
  BY <1>3, <1>6, SenderStepSafe
<1> QED BY <1>1, <1>7 DEF Safe, Settled

LEMMA FlushSafe == ASSUME Safe, Flush PROVE Safe'
<1>1. snd \in Sane /\ Live(snd) /\ rcv' = rcv /\ ack' = ack
  BY DEF Safe, Flush
<1>2. PICK n \in Quotas(snd) : SenderStep(FlushPackets(snd, n))
  BY DEF Flush
<1>3. n \in Nat
  BY <1>1, QuotasNat
<1>4. FlushPackets(snd, n) \in Sane /\ Live(FlushPackets(snd, n))
  BY <1>1, <1>3, ClosedSane, FlushPacketsStays, FlushPacketsLive
<1>5. snd' \in Sane /\ Live(snd)' /\ snd'.sent = {} /\ net' \subseteq Data
  BY <1>2, <1>4, SenderStepSafe
<1> QED BY <1>1, <1>5 DEF Safe, Settled

LEMMA TimeoutSafe == ASSUME Safe, Timeout PROVE Safe'
<1>1. snd \in Sane /\ Live(snd) /\ rcv' = rcv /\ ack' = ack
  BY DEF Safe, Timeout
<1>2. PICK n \in Quotas(snd) : SenderStep(TimedOut(FlushPackets(snd, n)))
  BY DEF Timeout
<1>3. n \in Nat
  BY <1>1, QuotasNat
<1> DEFINE s == FlushPackets(snd, n)
<1>4. s \in Sane /\ Live(s)
  BY <1>1, <1>3, ClosedSane, FlushPacketsStays, FlushPacketsLive
<1>5. SenderStep(TimedOut(s))
  BY <1>2
<1> HIDE DEF s
<1>6. TimedOut(s) \in Sane /\ Live(TimedOut(s))
  BY <1>4, ClosedSane, TimedOutStays, TimedOutLive
<1>7. snd' \in Sane /\ Live(snd)' /\ snd'.sent = {} /\ net' \subseteq Data
  BY <1>5, <1>6, SenderStepSafe
<1> QED BY <1>1, <1>7 DEF Safe, Settled

(* The timer of the search leaves the packets alone.                       *)
LEMMA RediscoverKeeps ==
  ASSUME snd \in Sane, Live(snd), Rediscover
  PROVE  snd' \in Sane /\ Live(snd)' /\ SameNumbers(snd, snd') /\ snd'.outbuf = snd.outbuf
         /\ snd'.sent = snd.sent /\ SameSearch(snd, snd')
<1> DEFINE t == [snd EXCEPT !.due = TRUE]
           u == [t EXCEPT !.resets = @ + 1]
<1>1. snd \in Sender /\ Searching(snd) /\ snd.resets \in Nat
  BY SaneFacts DEF Sender
<1>2. snd' = u
  BY <1>1 DEF Rediscover, Sender
<1>3. t \in Sender /\ SamePackets(snd, t) /\ SameSearch(snd, t) /\ t.resets = snd.resets
      /\ t.mtu_ceiling = snd.mtu_ceiling /\ t.mtu_last = snd.mtu_last /\ t.udp_mtu = snd.udp_mtu
  BY <1>1 DEF Sender, SamePackets, SameSearch
<1> HIDE DEF t
<1>4. u \in Sender /\ SamePackets(snd, u) /\ SameSearch(snd, u)
      /\ u.mtu_ceiling = snd.mtu_ceiling /\ u.mtu_last = snd.mtu_last /\ u.udp_mtu = snd.udp_mtu
  BY <1>1, <1>3 DEF Sender, SamePackets, SameSearch
<1> HIDE DEF u
<1>5. Searching(u)
  BY <1>1, <1>4 DEF Searching, Bounds, Probing, SameSearch
<1>6. u \in Sane
  BY <1>4, <1>5, SaneTuned
<1> QED BY <1>2, <1>4, <1>6 DEF SamePackets, SameNumbers, Live, Oldest

LEMMA RediscoverSafe == ASSUME Safe, Rediscover PROVE Safe'
<1>1. snd \in Sane /\ Live(snd) /\ rcv' = rcv /\ ack' = ack /\ net' = net
  BY DEF Safe, Rediscover
<1>2. snd' \in Sane /\ Live(snd)' /\ snd'.sent = snd.sent
  BY <1>1, RediscoverKeeps
<1> QED BY <1>1, <1>2 DEF Safe, Settled

LEMMA ReceiveAckSafe == ASSUME Safe, ReceiveAck PROVE Safe'
<1>1. snd \in Sane /\ Live(snd) /\ rcv' = rcv /\ ack' \in {ack, NULL} /\ ack.ack \in SeqNrs /\ ack.ack \in Int
  BY Counts DEF Safe, ReceiveAck, SeqNrs
<1> DEFINE t == Acknowledge(snd, ack)
<1>2. PICK s \in FastResend(t) : SenderStep(s)
  BY DEF ReceiveAck
<1> DEFINE K == SeqNrs \cup ack.sack
<1>3. t \in Sane /\ Live(t)
  <2>1. Closed(Sane, K, K) /\ Shrinking(Sane) /\ K \subseteq K /\ ack.sack \subseteq K
    BY ClosedSane
  <2>2. Cumulated(snd, Acks(snd, ack), K)
    BY DEF Cumulated
  <2> HIDE DEF K
  <2> QED BY <1>1, <2>1, <2>2, AcknowledgeStays
<1> HIDE DEF t
<1>4. s \in Sane /\ Live(s)
  BY <1>3, ClosedSane, FastResendStays
<1>5. snd' \in Sane /\ Live(snd)' /\ snd'.sent = {} /\ net' \subseteq Data
  BY <1>2, <1>4, SenderStepSafe
<1> QED BY <1>1, <1>5 DEF Safe, Settled

LEMMA DrainingReceiving == Draining(Receiving)
BY DEF Draining

LEMMA ReceiveSafe == ASSUME Safe, NEW m \in net, Receive(m) PROVE Safe'
<1>1. rcv \in Receiving /\ Settled(rcv) /\ m \in Data /\ rcv' = Accept(rcv, m)
  BY DEF Safe, Receive
<1>2. snd' = snd /\ net' = net /\ ack' = ack
  BY DEF Receive
<1> DEFINE t == Accept(rcv, m)
<1>3. t \in Receiving /\ Settled(t)
  BY <1>1, DrainingReceiving, AcceptStays
<1> HIDE DEF t
<1>4. rcv' \in Receiving /\ Settled(rcv)'
  BY <1>1, <1>3 DEF t, Settled
<1>5. Live(snd)'
  BY <1>2 DEF Safe, Live, Oldest
<1> QED BY <1>2, <1>4, <1>5 DEF Safe

(* Sending an acknowledgement                                              *)
LEMMA AckSent ==
  ASSUME NEW r \in Receiving, Settled(r)
  PROVE  LET t == [r EXCEPT !.ack_due = FALSE]
         IN  t \in Receiving /\ Settled(t) /\ SameStream(r, t)
<1> DEFINE t == [r EXCEPT !.ack_due = FALSE]
<1>1. r \in Receiver
  BY ReceivingFacts
<1>2. /\ t \in Receiver /\ t.ack_nr = r.ack_nr /\ t.inbuf = r.inbuf /\ t.read = r.read
      /\ t.reorder_count = r.reorder_count
  BY <1>1 DEF Receiver
<1> HIDE DEF t
<1>3. t \in Receiving /\ Settled(t) /\ SameStream(r, t)
  BY <1>1, <1>2 DEF Receiving, Settled, SameStream
<1> QED BY <1>3 DEF t

LEMMA AckingSafe == ASSUME Safe, DeferredAck \/ KeepAlive PROVE Safe'
<1>1. rcv \in Receiving /\ Settled(rcv) /\ rcv.ack_nr \in SeqNrs /\ rcv.ack_nr \in Int /\ rcv \in Receiver
  BY ReceivingFacts DEF Safe
<1>2. rcv' = [rcv EXCEPT !.ack_due = FALSE] /\ snd' = snd /\ net' = net
  BY DEF DeferredAck, KeepAlive
<1>3. ack' # NULL => ack'.ack \in SeqNrs
  <2>1. SendAck(rcv).ack \in SeqNrs
    BY <1>1 DEF SendAck
  <2>2. SendAck([rcv EXCEPT !.ack_nr = Mod(@ - 1)]).ack \in SeqNrs
    <3>1. [rcv EXCEPT !.ack_nr = Mod(@ - 1)].ack_nr = Mod(rcv.ack_nr - 1)
      BY <1>1 DEF Receiver
    <3>2. Mod(rcv.ack_nr - 1) \in SeqNrs
      BY <1>1, ModSeqNr
    <3> QED BY <3>1, <3>2 DEF SendAck
  <2> QED BY <2>1, <2>2 DEF Safe, DeferredAck, KeepAlive
<1> DEFINE t == [rcv EXCEPT !.ack_due = FALSE]
<1>4. t \in Receiving /\ Settled(t)
  BY <1>1, AckSent
<1> HIDE DEF t
<1>5. rcv' \in Receiving /\ Settled(rcv)'
  BY <1>2, <1>4 DEF t, Settled
<1>6. Live(snd)'
  BY <1>2 DEF Safe, Live, Oldest
<1> QED BY <1>2, <1>3, <1>5, <1>6 DEF Safe

LEMMA SafeStays == Safe /\ [Next]_vars => Safe'
<1> SUFFICES ASSUME Safe, [Next]_vars PROVE Safe'
  OBVIOUS
<1>1. CASE Write
  BY <1>1, WriteSafe
<1>2. CASE Flush
  BY <1>2, FlushSafe
<1>3. CASE Timeout
  BY <1>3, TimeoutSafe
<1>4. CASE Rediscover
  BY <1>4, RediscoverSafe
<1>5. CASE ReceiveAck
  BY <1>5, ReceiveAckSafe
<1>6. CASE DeferredAck \/ KeepAlive
  BY <1>6, AckingSafe
<1>7. ASSUME NEW m \in net, Receive(m) PROVE Safe'
  BY <1>7, ReceiveSafe
<1>8. CASE UNCHANGED vars
  BY <1>8 DEF Safe, Live, Settled, Oldest, vars
<1> QED BY <1>1, <1>2, <1>3, <1>4, <1>5, <1>6, <1>7, <1>8 DEF Next

LEMMA AlwaysSafe == Spec => []Safe
BY InitSafe, SafeStays, PTL DEF Spec

LEMMA RingIsBuffer == ASSUME NEW P, NEW b \in Ring(P) PROVE IsBuffer(b)
<1>1. Size(b) \in Sizes /\ b.elements \in [Slots(Size(b)) -> P \cup {NULL}]
  BY RingFacts
<1> QED BY <1>1 DEF IsBuffer, Sizes

(* Windows, sequence numbers and packet sizes stay in their ranges, and a  *)
(* ring stays a power of two of slots, not more than there are sequence    *)
(* numbers, for every interleaving and however long the connection lasts.  *)
THEOREM TypeCorrect == Spec => []TypeOK
<1>1. Safe => TypeOK
  <2> SUFFICES ASSUME Safe PROVE TypeOK
    OBVIOUS
  <2>1. snd \in Sane /\ rcv \in Receiving
    BY DEF Safe
  <2>2. IsBuffer(snd.outbuf) /\ IsBuffer(rcv.inbuf)
    BY <2>1, SaneFacts, ReceivingFacts, RingIsBuffer
  <2>3. {snd.seq_nr, rcv.ack_nr, snd.mtu_probe_seq} \subseteq 0..(Modulus - 1)
    BY <2>1, SaneFacts, ReceivingFacts, SizesOf DEF SeqNrs
  <2>4. snd.window \in 0..(OutMax - 1)
    BY <2>1, SaneFacts, Counts
  <2>5. rcv.reorder_count \in 0..ReorderMax
    BY <2>1, ReceivingFacts, ReorderBound, Counts
  <2>6. /\ {snd.mtu_floor, snd.mtu_ceiling, snd.mtu_last} \subseteq LeastMtu..snd.udp_mtu
        /\ snd.mtu_probe_size \in 0..snd.udp_mtu
    <3>1. /\ snd.mtu_floor \in Nat /\ snd.mtu_ceiling \in Nat /\ snd.mtu_last \in Nat
          /\ snd.mtu_probe_size \in Nat /\ snd.udp_mtu \in Nat /\ LeastMtu \in Nat /\ Searching(snd)
      BY <2>1, SaneFacts, SizesOf, MtuFacts
    <3> QED BY <3>1 DEF Searching, Bounds
  <2> QED BY <2>2, <2>3, <2>4, <2>5, <2>6 DEF TypeOK
<1> QED BY <1>1, AlwaysSafe, PTL

-----------------------------------------------------------------------------
(* The stream.  A packet is told by its number from a later one that has   *)
(* the same sequence number only while fewer packets are sent than there   *)
(* are sequence numbers: each of the writes may have a packet of its own.  *)

NoWrap == NumWrites + 2 <= Modulus

Index(v) == Mod(v - SeqNr)      \* how many packets were before number v

Made(s) == Index(s.seq_nr)      \* the packets made, ...

Got(r) == Index(r.ack_nr + 1)   \* ... and those delivered

LEMMA IndexFacts ==
  /\ \A v \in Int : Index(v) \in Nat /\ Index(v) < Modulus /\ Index(Mod(v)) = Index(v)
  /\ \A v \in SeqNrs : \A w \in SeqNrs : Index(v) = Index(w) => v = w
  /\ \A k \in 0..(Modulus - 1) : Index(SeqNr + k) = k
<1>1. ASSUME NEW v \in Int
      PROVE  Index(v) \in Nat /\ Index(v) < Modulus /\ Index(Mod(v)) = Index(v)
  <2>1. v - SeqNr \in Int /\ -SeqNr \in Int /\ Mod(v) \in Int
    BY Counts, ModSeqNr
  <2>2. Mod(v - SeqNr) \in SeqNrs
    BY <2>1, ModSeqNr
  <2>3. Mod(Mod(v) + (-SeqNr)) = Mod(v + (-SeqNr))
    BY <2>1, ModSum
  <2>4. Mod(v) + (-SeqNr) = Mod(v) - SeqNr /\ v + (-SeqNr) = v - SeqNr
    BY <2>1, Counts
  <2> QED BY <2>2, <2>3, <2>4, Counts DEF Index, SeqNrs
<1>2. ASSUME NEW v \in SeqNrs, NEW w \in SeqNrs, Index(v) = Index(w) PROVE v = w
  BY <1>2, Counts, SameDistance DEF Index
<1>3. ASSUME NEW k \in 0..(Modulus - 1) PROVE Index(SeqNr + k) = k
  <2>1. (SeqNr + k) - SeqNr = k
    BY Counts
  <2> QED BY <2>1, Small DEF Index
<1> QED BY <1>1, <1>2, <1>3

LEMMA IndexNext ==
  ASSUME NEW v \in Int
  PROVE  /\ Index(v) + 1 < Modulus => Index(v + 1) = Index(v) + 1
         /\ Index(v) # 0 => Index(v - 1) = Index(v) - 1
<1> DEFINE x == v - SeqNr
           k == Mod(x)
<1>1. x \in Int /\ k \in Int /\ k \in 0..(Modulus - 1) /\ k = Index(v) /\ 1 \in Int /\ -1 \in Int
  BY Counts, ModSeqNr DEF Index, SeqNrs
<1>2. (v + 1) - SeqNr = x + 1 /\ (v - 1) - SeqNr = x + (-1)
  BY Counts
<1> HIDE DEF x
<1>3. Mod(k + 1) = Mod(x + 1) /\ Mod(k + (-1)) = Mod(x + (-1))
  BY <1>1, ModSum
<1> HIDE DEF k
<1>4. ASSUME k + 1 < Modulus PROVE Mod(k + 1) = k + 1
  <2>1. k + 1 \in 0..(Modulus - 1)
    BY <1>1, <1>4, Counts
  <2> QED BY <2>1, Small
<1>5. ASSUME k # 0 PROVE Mod(k + (-1)) = k - 1
  <2>1. k - 1 \in 0..(Modulus - 1) /\ k + (-1) = k - 1
    BY <1>1, <1>5, Counts
  <2> QED BY <2>1, Small
<1> QED BY <1>1, <1>2, <1>3, <1>4, <1>5 DEF Index

(* The packets of a stream cut the writes into runs, at c.                 *)
Cut(c, n, w) ==
  /\ c \in [0..n -> Nat] /\ c[0] = 0 /\ c[n] = w
  /\ \A j \in 0..n : \A k \in 0..n : j <= k => c[j] <= c[k]
  /\ \A k \in 0..n : k <= c[k]

Run(c, k) == [i \in 1..(c[k + 1] - c[k]) |-> c[k] + i]

Carries(c, n, m) == Index(m.seq) < n /\ m.data = Run(c, Index(m.seq))

(* The receiver has the k-th packet, delivered or in its ring.             *)
Has(r, k) == k < Got(r) \/ \E p \in Held(r.inbuf) : Index(p.seq) = k

(* What the sender has and what it sent (M) carry the runs, and a packet   *)
(* that may be filled further was not sent.                                *)
Supplies(c, M, s) ==
  /\ Cut(c, Made(s), s.written) /\ s.window <= Made(s)
  /\ \A p \in Held(s.outbuf) : /\ Carries(c, Made(s), p)
                               /\ p.sent => DataOf(p) \in M
                               /\ ~p.sent => \A m \in M : m.seq # p.seq
  /\ \A m \in M : m \in Data /\ Carries(c, Made(s), m)

(* No packet is gone that the receiver does not have.                      *)
Holds(r, s) ==
  \A k \in 0..(Made(s) - 1) : Has(r, k) \/ \E p \in Held(s.outbuf) : Index(p.seq) = k

(* A probe is a packet not after the one that names it, and a floor was    *)
(* raised for a packet that arrived.                                       *)
Probes(r, M, s) ==
  /\ s.mtu_probe_seq # 0 =>
       \E m \in M : m.length = s.mtu_probe_size /\ Index(m.seq) <= Index(s.mtu_probe_seq)
  /\ s.mtu_floor > LeastMtu => \E m \in M : m.length = s.mtu_floor /\ Has(r, Index(m.seq))

Supplying(c, r, N) ==
  {s \in Sane : Supplies(c, N \cup s.sent, s) /\ Holds(r, s) /\ Probes(r, N \cup s.sent, s)}

LEMMA MadeFacts ==
  ASSUME NEW s \in Sane
  PROVE  /\ Made(s) \in Nat /\ Made(s) < Modulus
         /\ Made(s) # 0 => Index(Mod(s.seq_nr - 1)) = Made(s) - 1
<1>1. s.seq_nr \in Int /\ s.seq_nr - 1 \in Int
  BY SaneFacts
<1> QED BY <1>1, IndexFacts, IndexNext DEF Made

LEMMA SenderHeld ==
  ASSUME NEW s \in Sane
  PROVE  /\ \A p \in Held(s.outbuf) : /\ p \in OutPacket /\ p.seq \in SeqNrs /\ p.seq \in Int
                                      /\ Index(p.seq) \in Nat
         /\ \A p \in Held(s.outbuf) : \A q \in Held(s.outbuf) : p.seq = q.seq => p = q
<1> DEFINE b == s.outbuf
           o == Oldest(s)
           w == s.window
<1>1. b \in Ring(OutPacket) /\ o \in Int /\ Placed(b, o, w) /\ Numbered(OutPacket)
  BY SaneFacts, BothNumbered
<1> HIDE DEF b, o, w
<1>2. /\ \A p \in Held(b) : p \in OutPacket /\ p.seq \in SeqNrs /\ p.seq \in Int
      /\ \A p \in Held(b) : \A q \in Held(b) : p.seq = q.seq => p = q
  BY <1>1, HeldFacts
<1> QED BY <1>2, IndexFacts DEF b

LEMMA SupplyingTransmitted ==
  ASSUME NEW c, NEW r, NEW N, NEW s \in Supplying(c, r, N), NEW t \in Sane,
         NEW p \in Held(s.outbuf), Transmitted(s, t, p)
  PROVE  t \in Supplying(c, r, N)
<1> DEFINE q == [p EXCEPT !.sent = TRUE]
           M == N \cup s.sent
           L == N \cup t.sent
           n == Made(s)
<1>1. /\ s \in Sane /\ Supplies(c, M, s) /\ Holds(r, s) /\ Probes(r, M, s)
  BY DEF Supplying
<1>2. /\ p \in OutPacket /\ p.seq \in SeqNrs
      /\ \A x \in Held(s.outbuf) : x.seq = p.seq => x = p
  BY <1>1, SenderHeld
<1>3. /\ q \in OutPacket /\ q.seq = p.seq /\ q.data = p.data /\ q.sent /\ DataOf(q) = DataOf(p)
      /\ DataOf(p) \in Data
      /\ DataOf(p).seq = p.seq /\ DataOf(p).data = p.data /\ DataOf(p).length = p.length
  BY <1>2 DEF OutPacket, Data, DataOf
<1>4. /\ t.seq_nr = s.seq_nr /\ t.window = s.window /\ t.written = s.written /\ Made(t) = n
      /\ Held(t.outbuf) = (Held(s.outbuf) \ {p}) \cup {q} /\ L = M \cup {DataOf(p)}
  BY DEF Transmitted, SameNumbers, Made
<1> HIDE DEF q, M, L, n
<1>5. Carries(c, n, p)
  BY <1>1 DEF Supplies, n
<1>6. Supplies(c, L, t)
  <2>1. Cut(c, n, t.written) /\ t.window <= n
    BY <1>1, <1>4 DEF Supplies, n
  <2>2. ASSUME NEW x \in Held(t.outbuf)
        PROVE  Carries(c, n, x) /\ (x.sent => DataOf(x) \in L) /\ (~x.sent => \A m \in L : m.seq # x.seq)
    <3>1. CASE x = q
      BY <1>3, <1>4, <1>5, <3>1 DEF Carries
    <3>2. CASE x # q
      <4>1. x \in Held(s.outbuf) /\ x # p
        BY <1>4, <3>2
      <4>2. x.seq # p.seq
        BY <1>2, <4>1
      <4> QED BY <1>1, <1>3, <1>4, <4>1, <4>2 DEF Supplies, n
    <3> QED BY <3>1, <3>2
  <2>3. \A m \in L : m \in Data /\ Carries(c, n, m)
    <3>1. Carries(c, n, DataOf(p))
      BY <1>3, <1>5 DEF Carries
    <3> QED BY <1>1, <1>3, <1>4, <3>1 DEF Supplies, n
  <2> QED BY <1>4, <2>1, <2>2, <2>3 DEF Supplies
<1>7. Holds(r, t)
  BY <1>1, <1>3, <1>4 DEF Holds, n
<1>8. Probes(r, L, t)
  <2>1. /\ t.mtu_floor \in {s.mtu_floor, LeastMtu}
        /\ \/ t.mtu_probe_seq = s.mtu_probe_seq /\ t.mtu_probe_size = s.mtu_probe_size
           \/ t.mtu_probe_seq = Mod(s.seq_nr - 1) /\ t.mtu_probe_size = p.length
    BY DEF Transmitted
  <2>2. LeastMtu \in Nat
    BY MtuFacts
  <2>3. n \in Nat /\ (n # 0 => Index(Mod(s.seq_nr - 1)) = n - 1) /\ Index(p.seq) \in Nat /\ Index(p.seq) < n
    BY <1>1, <1>5, MadeFacts, SenderHeld DEF n, Carries
  <2>4. Index(p.seq) <= Index(Mod(s.seq_nr - 1))
    BY <2>3
  <2> QED BY <1>1, <1>3, <1>4, <2>1, <2>2, <2>4 DEF Probes
<1> QED BY <1>6, <1>7, <1>8 DEF Supplying, L

(* What a function of libutp does to the sender leaves the stream as it is *)
(* as long as it believes no more than what was acknowledged: numbers of   *)
(* packets that were delivered (A), and that the receiver has (K).         *)
LEMMA SupplyingClosed ==
  ASSUME NEW c, NEW r, NEW N, NEW A, NEW K, Got(r) \in Nat,
         \A v \in A \cap SeqNrs : Index(v) < Got(r), \A v \in K \cap SeqNrs : Has(r, Index(v))
  PROVE  Closed(Supplying(c, r, N), A, K) /\ Shrinking(Supplying(c, r, N))
<1> DEFINE S == Supplying(c, r, N)
<1>1. ASSUME NEW s \in S
      PROVE  s \in Sane /\ Supplies(c, N \cup s.sent, s) /\ Holds(r, s) /\ Probes(r, N \cup s.sent, s)
  BY DEF Supplying
<1>2. ASSUME NEW s \in S, NEW t \in Sane, SamePackets(s, t)
      PROVE  Supplies(c, N \cup t.sent, t) /\ Holds(r, t) /\ Made(t) = Made(s) /\ t.sent = s.sent
  <2>1. /\ Made(t) = Made(s) /\ t.sent = s.sent /\ t.outbuf = s.outbuf /\ t.window = s.window
        /\ t.written = s.written
    BY <1>2 DEF SamePackets, Made
  <2>2. Supplies(c, N \cup s.sent, s) /\ Holds(r, s)
    BY <1>1
  <2>3. Supplies(c, N \cup s.sent, t)
    BY <2>1, <2>2 DEF Supplies
  <2>4. Holds(r, t)
    BY <2>1, <2>2 DEF Holds
  <2> QED BY <2>1, <2>3, <2>4
<1>3. ASSUME NEW s \in S, NEW t \in Sane, Tuned(s, t) PROVE t \in S
  <2>1. SamePackets(s, t) /\ Lowered(s, t)
    BY <1>3 DEF Tuned
  <2>2. Supplies(c, N \cup t.sent, t) /\ Holds(r, t) /\ t.sent = s.sent
    BY <1>2, <2>1
  <2>3. LeastMtu \in Nat
    BY MtuFacts
  <2>4. Probes(r, N \cup t.sent, t)
    BY <1>1, <2>1, <2>2, <2>3 DEF Probes, Lowered
  <2> QED BY <2>2, <2>4 DEF Supplying
<1>4. ASSUME NEW s \in S, NEW t \in Sane, Arrived(s, t, A) PROVE t \in S
  <2>1. /\ SamePackets(s, t) /\ s.mtu_probe_seq # 0 /\ s.mtu_probe_seq \in A
        /\ t.mtu_floor = s.mtu_probe_size /\ t.mtu_probe_seq = 0
    BY <1>4 DEF Arrived
  <2>2. Supplies(c, N \cup t.sent, t) /\ Holds(r, t) /\ t.sent = s.sent
    BY <1>2, <2>1
  <2>3. s.mtu_probe_seq \in SeqNrs
    BY <1>1, SaneFacts, SizesOf
  <2>4. PICK m \in N \cup s.sent : m.length = s.mtu_probe_size /\ Index(m.seq) <= Index(s.mtu_probe_seq)
    BY <1>1, <2>1 DEF Probes
  <2>5. Index(m.seq) \in Nat /\ Index(s.mtu_probe_seq) \in Nat /\ Index(s.mtu_probe_seq) < Got(r)
    <3>1. m \in Data
      BY <1>1 DEF Supplies
    <3>2. m.seq \in Int /\ s.mtu_probe_seq \in Int
      BY <2>3, <3>1, Counts DEF Data, SeqNrs
    <3> QED BY <2>1, <2>3, <3>2, IndexFacts
  <2>6. Has(r, Index(m.seq))
    BY <2>4, <2>5 DEF Has
  <2>7. Probes(r, N \cup t.sent, t)
    BY <2>1, <2>2, <2>4, <2>6 DEF Probes
  <2> QED BY <2>2, <2>7 DEF Supplying
<1>5. ASSUME NEW s \in S, NEW t \in Sane, NEW p \in Held(s.outbuf), Transmitted(s, t, p) PROVE t \in S
  BY <1>5, SupplyingTransmitted
<1>6. ASSUME NEW s \in S, NEW t \in Sane, NEW p \in Held(s.outbuf), p.seq \in K, Removed(s, t, p)
      PROVE  t \in S
  <2>1. /\ SameNumbers(s, t) /\ SameSearch(s, t) /\ t.sent = s.sent
        /\ Held(t.outbuf) = Held(s.outbuf) \ {p} /\ Made(t) = Made(s)
    BY <1>6 DEF Removed, SameNumbers, Made
  <2>2. Has(r, Index(p.seq))
    BY <1>1, <1>6, SenderHeld
  <2>3. Supplies(c, N \cup t.sent, t)
    BY <1>1, <2>1 DEF Supplies, SameNumbers
  <2>4. Holds(r, t)
    BY <1>1, <2>1, <2>2 DEF Holds
  <2>5. Probes(r, N \cup t.sent, t)
    BY <1>1, <2>1 DEF Probes, SameSearch
  <2> QED BY <2>3, <2>4, <2>5 DEF Supplying
<1>7. ASSUME NEW s \in S, NEW t \in Sane, Shrunk(s, t) PROVE t \in S
  <2>1. /\ t.seq_nr = s.seq_nr /\ t.window = s.window - 1 /\ t.outbuf = s.outbuf
        /\ t.written = s.written /\ t.sent = s.sent /\ SameSearch(s, t) /\ Made(t) = Made(s)
    BY <1>7 DEF Shrunk, Made
  <2>2. t.window <= Made(s)
    <3>1. s.window \in Nat /\ Made(s) \in Nat
      BY <1>1, SaneFacts, MadeFacts
    <3>2. s.window <= Made(s)
      BY <1>1 DEF Supplies
    <3> QED BY <2>1, <3>1, <3>2
  <2>3. Supplies(c, N \cup t.sent, t)
    BY <1>1, <2>1, <2>2 DEF Supplies
  <2>4. Holds(r, t) /\ Probes(r, N \cup t.sent, t)
    BY <1>1, <2>1 DEF Holds, Probes, SameSearch
  <2> QED BY <2>3, <2>4 DEF Supplying
<1>8. S \subseteq Sane
  BY <1>1
<1> QED BY <1>3, <1>4, <1>5, <1>6, <1>7, <1>8 DEF Closed, Shrinking

(* The receiver has read the runs of the packets it delivered.             *)
Reading(c, n, N) ==
  {r \in Receiving : /\ Got(r) <= n /\ r.read = [i \in 1..c[Got(r)] |-> i]
                     /\ Held(r.inbuf) \subseteq N
                     /\ \A k \in 0..(Got(r) - 1) : \E m \in N : Index(m.seq) = k}

LEMMA GotFacts == ASSUME NEW r \in Receiving PROVE Got(r) \in Nat /\ Got(r) < Modulus
BY ReceivingFacts, IndexFacts DEF Got

LEMMA CutFacts ==
  ASSUME NEW n \in Nat, NEW w, NEW c, Cut(c, n, w)
  PROVE  /\ w \in Nat /\ n <= w /\ c[0] = 0 /\ c[n] = w /\ \A k \in 0..n : c[k] \in Nat /\ c[k] <= w
         /\ \A j \in 0..n : \A k \in 0..n : j <= k => c[j] <= c[k]
<1>1. 0 \in 0..n /\ n \in 0..n
  OBVIOUS
<1>2. c \in [0..n -> Nat] /\ c[n] = w /\ c[0] = 0
  BY DEF Cut
<1>3. \A k \in 0..n : c[k] \in Nat
  BY <1>2
<1> QED BY <1>1, <1>2, <1>3 DEF Cut

(* A run grows with the last packet, ...                                   *)
LEMMA CutFilled ==
  ASSUME NEW n \in Nat \ {0}, NEW w, NEW c, Cut(c, n, w)
  PROVE  LET d == [c EXCEPT ![n] = w + 1]
         IN  /\ Cut(d, n, w + 1) /\ \A k \in 0..(n - 1) : d[k] = c[k]
             /\ \A k \in 0..(n - 2) : Run(d, k) = Run(c, k)
             /\ Run(d, n - 1) = Append(Run(c, n - 1), w + 1)
<1> DEFINE d == [c EXCEPT ![n] = w + 1]
<1>1. w \in Nat /\ n <= w /\ c[0] = 0 /\ c[n] = w /\ \A k \in 0..n : c[k] \in Nat /\ c[k] <= w
  BY CutFacts
<1>2. /\ c \in [0..n -> Nat] /\ \A k \in 0..n : k <= c[k]
      /\ \A j \in 0..n : \A k \in 0..n : j <= k => c[j] <= c[k]
  BY DEF Cut
<1>3. d \in [0..n -> Nat] /\ d[n] = w + 1 /\ \A k \in 0..(n - 1) : d[k] = c[k]
  BY <1>1, <1>2
<1> HIDE DEF d
<1>4. \A k \in 0..n : k <= d[k]
  BY <1>1, <1>2, <1>3
<1>5. ASSUME NEW j \in 0..n, NEW k \in 0..n, j <= k PROVE d[j] <= d[k]
  <2>1. CASE k = n
    <3>1. d[j] <= w + 1
      <4>1. CASE j = n
        BY <1>1, <1>3, <4>1
      <4>2. CASE j # n
        <5>1. j \in 0..(n - 1) /\ c[j] \in Nat /\ c[j] <= w
          BY <1>1, <4>2
        <5> QED BY <1>1, <1>3, <5>1
      <4> QED BY <4>1, <4>2
    <3> QED BY <1>3, <2>1, <3>1
  <2>2. CASE k # n
    <3>1. j \in 0..(n - 1) /\ k \in 0..(n - 1)
      BY <1>5, <2>2
    <3> QED BY <1>2, <1>3, <1>5, <3>1
  <2> QED BY <2>1, <2>2
<1>6. Cut(d, n, w + 1)
  <2>1. 0 \in 0..(n - 1)
    OBVIOUS
  <2> QED BY <1>1, <1>3, <1>4, <1>5, <2>1 DEF Cut
<1>7. ASSUME NEW k \in 0..(n - 2) PROVE Run(d, k) = Run(c, k)
  <2>1. k \in 0..(n - 1) /\ k + 1 \in 0..(n - 1)
    OBVIOUS
  <2> QED BY <1>3, <2>1 DEF Run
<1>8. Run(d, n - 1) = Append(Run(c, n - 1), w + 1)
  <2> DEFINE b == c[n - 1]
             l == w - b
             x == Run(c, n - 1)
  <2>1. n - 1 \in 0..n /\ n - 1 \in 0..(n - 1) /\ (n - 1) + 1 = n
    OBVIOUS
  <2>2. b \in Nat /\ b <= w /\ d[n - 1] = b
    BY <1>1, <1>3, <2>1
  <2>3. x = [i \in 1..l |-> b + i]
    BY <1>1, <2>1 DEF Run
  <2>4. Run(d, n - 1) = [i \in 1..((w + 1) - b) |-> b + i]
    <3> DEFINE j == n - 1
    <3>1. d[j + 1] = w + 1 /\ d[j] = b
      BY <1>3, <2>1, <2>2
    <3> HIDE DEF j, b
    <3>2. Run(d, j) = [i \in 1..((w + 1) - b) |-> b + i]
      BY <3>1 DEF Run
    <3> QED BY <3>2 DEF j
  <2> HIDE DEF b, l, x
  <2>5. l \in Nat /\ (w + 1) - b = l + 1 /\ b + (l + 1) = w + 1
    BY <1>1, <2>2 DEF l
  <2>6. x \in Seq(Nat) /\ Len(x) = l
    BY <2>2, <2>3, <2>5
  <2>7. Append(x, w + 1) = [i \in 1..(l + 1) |-> IF i = l + 1 THEN w + 1 ELSE x[i]]
    BY <2>6
  <2>8. \A i \in 1..(l + 1) : (IF i = l + 1 THEN w + 1 ELSE x[i]) = b + i
    BY <2>3, <2>5
  <2>9. [i \in 1..(l + 1) |-> b + i] = [i \in 1..(l + 1) |-> IF i = l + 1 THEN w + 1 ELSE x[i]]
    BY <2>8
  <2> QED BY <2>4, <2>5, <2>7, <2>9 DEF x
<1> QED BY <1>3, <1>6, <1>7, <1>8 DEF d

(* ... or the next packet begins one.                                      *)
Longer(c, n, w) == [k \in 0..(n + 1) |-> IF k = n + 1 THEN w ELSE c[k]]

LEMMA CutAppended ==
  ASSUME NEW n \in Nat, NEW w, NEW c, Cut(c, n, w)
  PROVE  LET d == Longer(c, n, w + 1)
         IN  /\ Cut(d, n + 1, w + 1) /\ \A k \in 0..n : d[k] = c[k]
             /\ \A k \in 0..(n - 1) : Run(d, k) = Run(c, k)
             /\ Run(d, n) = <<w + 1>>
<1> DEFINE d == Longer(c, n, w + 1)
<1>1. w \in Nat /\ n <= w /\ c[0] = 0 /\ c[n] = w /\ \A k \in 0..n : c[k] \in Nat /\ c[k] <= w
  BY CutFacts
<1>2. /\ \A k \in 0..n : k <= c[k]
      /\ \A j \in 0..n : \A k \in 0..n : j <= k => c[j] <= c[k]
  BY DEF Cut
<1>3. d[n + 1] = w + 1 /\ \A k \in 0..n : d[k] = c[k]
  BY DEF Longer
<1>4. d \in [0..(n + 1) -> Nat]
  <2>1. ASSUME NEW k \in 0..(n + 1) PROVE (IF k = n + 1 THEN w + 1 ELSE c[k]) \in Nat
    BY <1>1
  <2> QED BY <2>1 DEF Longer
<1> HIDE DEF d
<1>5. \A k \in 0..(n + 1) : k = n + 1 \/ k \in 0..n
  OBVIOUS
<1>6. \A k \in 0..(n + 1) : k <= d[k]
  BY <1>1, <1>2, <1>3, <1>5
<1>7. ASSUME NEW j \in 0..(n + 1), NEW k \in 0..(n + 1), j <= k PROVE d[j] <= d[k]
  <2>1. CASE k = n + 1
    <3>1. CASE j = n + 1
      BY <1>1, <1>3, <2>1, <3>1
    <3>2. CASE j # n + 1
      <4>1. j \in 0..n /\ c[j] \in Nat /\ c[j] <= w
        BY <1>1, <1>5, <3>2
      <4> QED BY <1>1, <1>3, <2>1, <4>1
    <3> QED BY <3>1, <3>2
  <2>2. CASE k # n + 1
    <3>1. j \in 0..n /\ k \in 0..n
      BY <1>7, <2>2
    <3> QED BY <1>2, <1>3, <1>7, <3>1
  <2> QED BY <2>1, <2>2
<1>8. Cut(d, n + 1, w + 1)
  <2>1. 0 \in 0..n
    OBVIOUS
  <2> QED BY <1>1, <1>3, <1>4, <1>6, <1>7, <2>1 DEF Cut
<1>9. ASSUME NEW k \in 0..(n - 1) PROVE Run(d, k) = Run(c, k)
  <2>1. k \in 0..n /\ k + 1 \in 0..n
    OBVIOUS
  <2> QED BY <1>3, <2>1 DEF Run
<1>10. Run(d, n) = <<w + 1>>
  <2>1. n \in 0..n /\ d[n] = w
    BY <1>1, <1>3
  <2>2. Run(d, n) = [i \in 1..((w + 1) - w) |-> w + i]
    BY <1>3, <2>1 DEF Run
  <2>3. (w + 1) - w = 1
    BY <1>1
  <2> QED BY <2>2, <2>3
<1> QED BY <1>3, <1>8, <1>9, <1>10 DEF d

LEMMA FilledSupplies ==
  ASSUME NEW c, NEW r, NEW N, NEW s \in Supplying(c, r, N), s.sent = {},
         NEW t \in Sane, Filled(s, t)
  PROVE  LET n == Made(s)
             d == [c EXCEPT ![n] = s.written + 1]
         IN  /\ t \in Supplying(d, r, N) /\ Made(t) = n /\ t.sent = {} /\ n # 0
             /\ \A k \in 0..(n - 1) : d[k] = c[k]
             /\ \A m \in N : Index(m.seq) \in Nat /\ Index(m.seq) < n - 1
<1> DEFINE n == Made(s)
           w == s.written
           d == [c EXCEPT ![n] = w + 1]
<1>1. s \in Sane /\ Supplies(c, N, s) /\ Holds(r, s) /\ Probes(r, N, s) /\ n \in Nat
  BY MadeFacts DEF Supplying
<1>2. /\ t.seq_nr = s.seq_nr /\ t.window = s.window /\ t.written = w + 1
      /\ t.sent = {} /\ SameSearch(s, t) /\ Made(t) = n
  BY DEF Filled, Made
<1>3. PICK p \in Held(s.outbuf), length \in Nat :
         /\ ~p.sent /\ p.seq = Mod(s.seq_nr - 1)
         /\ Held(t.outbuf) = (Held(s.outbuf) \ {p}) \cup {Refilled(p, w + 1, length)}
  BY DEF Filled
<1> DEFINE q == Refilled(p, w + 1, length)
<1>4. p \in OutPacket /\ p.seq \in SeqNrs /\ p.seq \in Int /\ Index(p.seq) \in Nat
  BY <1>1, SenderHeld
<1>5. q.seq = p.seq /\ q.data = Append(p.data, w + 1) /\ q.sent = p.sent
  BY <1>4 DEF Refilled, OutPacket
<1>6. Index(p.seq) = n - 1 /\ n # 0 /\ p.data = Run(c, n - 1)
  <2>1. Index(p.seq) < n
    BY <1>1 DEF Supplies, Carries
  <2>2. n # 0
    BY <1>1, <1>4, <2>1
  <2>3. Index(p.seq) = n - 1
    BY <1>1, <1>3, <2>2, MadeFacts
  <2> QED BY <1>1, <2>2, <2>3 DEF Supplies, Carries
<1>7. Cut(c, n, w) /\ s.window <= n
  BY <1>1 DEF Supplies
<1> HIDE DEF n, w, q
<1>8. /\ Cut(d, n, w + 1) /\ \A k \in 0..(n - 1) : d[k] = c[k]
      /\ \A k \in 0..(n - 2) : Run(d, k) = Run(c, k)
      /\ Run(d, n - 1) = Append(Run(c, n - 1), w + 1)
  <2>1. n \in Nat \ {0}
    BY <1>1, <1>6
  <2> QED BY <1>7, <2>1, CutFilled
<1> HIDE DEF d
<1>9. ASSUME NEW m \in N PROVE m \in Data /\ Index(m.seq) \in 0..(n - 2) /\ Carries(c, n, m)
  <2>1. m \in Data /\ Carries(c, n, m) /\ m.seq # p.seq
    BY <1>1, <1>3 DEF Supplies, n
  <2>2. m.seq \in SeqNrs /\ m.seq \in Int
    BY <2>1, Counts DEF Data, SeqNrs
  <2>3. Index(m.seq) # n - 1
    BY <1>4, <1>6, <2>1, <2>2, IndexFacts
  <2>4. Index(m.seq) \in Nat /\ Index(m.seq) < n
    BY <2>1, <2>2, IndexFacts DEF Carries
  <2>5. Index(m.seq) \in 0..(n - 2)
    BY <1>1, <2>3, <2>4
  <2> QED BY <2>1, <2>5
<1>10. Supplies(d, N, t)
  <2>1. ASSUME NEW x \in Held(t.outbuf)
        PROVE  Carries(d, n, x) /\ (x.sent => DataOf(x) \in N) /\ (~x.sent => \A m \in N : m.seq # x.seq)
    <3>1. CASE x = q
      <4>1. Carries(d, n, x)
        BY <1>1, <1>4, <1>5, <1>6, <1>8, <3>1 DEF Carries
      <4>2. ~x.sent /\ \A m \in N : m.seq # x.seq
        BY <1>1, <1>3, <1>5, <3>1 DEF Supplies
      <4> QED BY <4>1, <4>2
    <3>2. CASE x # q
      <4>1. x \in Held(s.outbuf) /\ x # p
        BY <1>3, <3>2 DEF q
      <4>2. x.seq \in SeqNrs /\ x.seq # p.seq /\ Index(x.seq) \in Nat
        BY <1>1, <4>1, SenderHeld
      <4>3. Carries(c, n, x) /\ (x.sent => DataOf(x) \in N) /\ (~x.sent => \A m \in N : m.seq # x.seq)
        BY <1>1, <4>1 DEF Supplies, n
      <4>4. Index(x.seq) # n - 1
        BY <1>4, <1>6, <4>2, IndexFacts
      <4>5. Index(x.seq) \in 0..(n - 2)
        BY <1>1, <4>2, <4>3, <4>4 DEF Carries
      <4>6. Carries(d, n, x)
        BY <1>8, <4>3, <4>5 DEF Carries
      <4> QED BY <4>3, <4>6
    <3> QED BY <3>1, <3>2
  <2>2. \A m \in N : m \in Data /\ Carries(d, n, m)
    BY <1>8, <1>9 DEF Carries
  <2> QED BY <1>2, <1>7, <1>8, <2>1, <2>2 DEF Supplies
<1>11. Holds(r, t)
  <2>1. ASSUME NEW k \in 0..(n - 1), NEW x \in Held(s.outbuf), Index(x.seq) = k
        PROVE  \E y \in Held(t.outbuf) : Index(y.seq) = k
    BY <1>3, <1>5, <2>1 DEF q
  <2> QED BY <1>1, <1>2, <2>1 DEF Holds, n
<1>12. Probes(r, N, t)
  BY <1>1, <1>2 DEF Probes, SameSearch
<1>13. N \cup t.sent = N
  BY <1>2
<1>14. t \in Supplying(d, r, N)
  BY <1>10, <1>11, <1>12, <1>13 DEF Supplying
<1>15. \A m \in N : Index(m.seq) \in Nat /\ Index(m.seq) < n - 1
  BY <1>1, <1>9
<1> QED BY <1>2, <1>6, <1>8, <1>14, <1>15 DEF d, n, w

LEMMA AppendedSupplies ==
  ASSUME NEW c, NEW r, NEW N, NEW s \in Supplying(c, r, N), s.sent = {}, Made(s) + 1 < Modulus,
         NEW t \in Sane, Appended(s, t)
  PROVE  LET n == Made(s)
             d == Longer(c, n, s.written + 1)
         IN  /\ t \in Supplying(d, r, N) /\ Made(t) = n + 1 /\ t.sent = {}
             /\ \A k \in 0..n : d[k] = c[k]
<1> DEFINE n == Made(s)
           w == s.written
           d == Longer(c, n, w + 1)
<1>1. s \in Sane /\ Supplies(c, N, s) /\ Holds(r, s) /\ Probes(r, N, s) /\ n \in Nat
  BY MadeFacts DEF Supplying
<1>2. /\ t.seq_nr = Mod(s.seq_nr + 1) /\ t.window = s.window + 1 /\ t.written = w + 1
      /\ t.sent = {} /\ SameSearch(s, t)
  BY DEF Appended
<1>3. Made(t) = n + 1
  <2>1. s.seq_nr \in Int /\ s.seq_nr + 1 \in Int
    BY <1>1, SaneFacts
  <2> QED BY <1>2, <2>1, IndexFacts, IndexNext DEF Made
<1>4. PICK length \in Nat : Held(t.outbuf) = Held(s.outbuf) \cup {NewOf(s, length)}
  BY DEF Appended
<1> DEFINE q == NewOf(s, length)
<1>5. q.seq = s.seq_nr /\ q.data = <<w + 1>> /\ ~q.sent /\ Index(q.seq) = n
  BY DEF NewOf, Made
<1>6. Cut(c, n, w) /\ s.window <= n /\ s.window \in Nat
  BY <1>1, SaneFacts DEF Supplies
<1> HIDE DEF n, w, q
<1>7. /\ Cut(d, n + 1, w + 1) /\ \A k \in 0..n : d[k] = c[k]
      /\ \A k \in 0..(n - 1) : Run(d, k) = Run(c, k)
      /\ Run(d, n) = <<w + 1>>
  BY <1>1, <1>6, CutAppended
<1> HIDE DEF d
<1>8. ASSUME NEW x, Index(x.seq) \in Nat, Carries(c, n, x) PROVE Carries(d, n + 1, x)
  <2>1. Index(x.seq) \in 0..(n - 1)
    BY <1>1, <1>8 DEF Carries
  <2> QED BY <1>1, <1>7, <1>8, <2>1 DEF Carries
<1>9. ASSUME NEW m \in N
      PROVE m \in Data /\ m.seq # s.seq_nr /\ Carries(d, n + 1, m)
  <2>1. m \in Data /\ Carries(c, n, m)
    BY <1>1 DEF Supplies, n
  <2>2. m.seq \in Int
    BY <2>1, Counts DEF Data, SeqNrs
  <2>3. Index(m.seq) \in Nat
    BY <2>2, IndexFacts
  <2>4. m.seq # s.seq_nr
    BY <1>1, <2>1 DEF Carries, n, Made
  <2> QED BY <1>8, <2>1, <2>3, <2>4
<1>10. Supplies(d, N, t)
  <2>1. ASSUME NEW x \in Held(t.outbuf)
        PROVE  Carries(d, n + 1, x) /\ (x.sent => DataOf(x) \in N) /\ (~x.sent => \A m \in N : m.seq # x.seq)
    <3>1. CASE x = q
      <4>1. Carries(d, n + 1, x)
        BY <1>1, <1>5, <1>7, <3>1 DEF Carries
      <4> QED BY <1>5, <1>9, <3>1, <4>1
    <3>2. CASE x # q
      <4>1. x \in Held(s.outbuf)
        BY <1>4, <3>2 DEF q
      <4>2. Index(x.seq) \in Nat
        BY <1>1, <4>1, SenderHeld
      <4>3. Carries(c, n, x) /\ (x.sent => DataOf(x) \in N) /\ (~x.sent => \A m \in N : m.seq # x.seq)
        BY <1>1, <4>1 DEF Supplies, n
      <4> QED BY <1>8, <4>2, <4>3
    <3> QED BY <3>1, <3>2
  <2>2. t.window <= n + 1
    BY <1>1, <1>2, <1>6
  <2> QED BY <1>2, <1>3, <1>7, <1>9, <2>1, <2>2 DEF Supplies
<1>11. Holds(r, t)
  <2>1. ASSUME NEW k \in 0..n PROVE Has(r, k) \/ \E y \in Held(t.outbuf) : Index(y.seq) = k
    <3>1. CASE k = n
      BY <1>4, <1>5, <3>1 DEF q
    <3>2. CASE k # n
      <4>1. k \in 0..(n - 1)
        BY <1>1, <3>2
      <4> QED BY <1>1, <1>4, <4>1 DEF Holds, n
    <3> QED BY <3>1, <3>2
  <2>2. (n + 1) - 1 = n
    BY <1>1
  <2> QED BY <1>3, <2>1, <2>2 DEF Holds
<1>12. Probes(r, N, t)
  BY <1>1, <1>2 DEF Probes, SameSearch
<1>13. N \cup t.sent = N
  BY <1>2
<1>14. t \in Supplying(d, r, N)
  BY <1>10, <1>11, <1>12, <1>13 DEF Supplying
<1> QED BY <1>2, <1>3, <1>7, <1>14 DEF d, n, w

(* A write fits the packets to what the receiver has read.                 *)
LEMMA FilledReads ==
  ASSUME NEW c, NEW N, NEW r, NEW s \in Supplying(c, r, N), r \in Reading(c, Made(s), N), s.sent = {},
         NEW t \in Sane, Filled(s, t)
  PROVE  /\ t.sent = {} /\ Made(t) = Made(s)
         /\ \E d : t \in Supplying(d, r, N) /\ r \in Reading(d, Made(t), N)
<1> DEFINE n == Made(s)
           d == [c EXCEPT ![n] = s.written + 1]
<1>1. /\ t \in Supplying(d, r, N) /\ Made(t) = n /\ t.sent = {} /\ n # 0
      /\ \A k \in 0..(n - 1) : d[k] = c[k]
      /\ \A m \in N : Index(m.seq) \in Nat /\ Index(m.seq) < n - 1
  BY FilledSupplies
<1>2. /\ r \in Receiving /\ Got(r) <= n /\ r.read = [i \in 1..c[Got(r)] |-> i]
      /\ Held(r.inbuf) \subseteq N
      /\ \A k \in 0..(Got(r) - 1) : \E m \in N : Index(m.seq) = k
  BY DEF Reading
<1>3. n \in Nat /\ Got(r) \in Nat
  BY <1>2, GotFacts, MadeFacts DEF Supplying
<1> HIDE DEF n, d
<1>4. Got(r) # n
  <2> SUFFICES ASSUME Got(r) = n PROVE FALSE
    OBVIOUS
  <2>1. n - 1 \in 0..(Got(r) - 1)
    BY <1>1, <1>3
  <2>2. PICK m \in N : Index(m.seq) = n - 1
    BY <1>2, <2>1
  <2> QED BY <1>1, <1>3, <2>2
<1>5. Got(r) \in 0..(n - 1)
  BY <1>2, <1>3, <1>4
<1>6. d[Got(r)] = c[Got(r)]
  BY <1>1, <1>5
<1>7. r \in Reading(d, n, N)
  BY <1>2, <1>6 DEF Reading
<1> QED BY <1>1, <1>7 DEF n

LEMMA AppendedReads ==
  ASSUME NEW c, NEW N, NEW r, NEW s \in Supplying(c, r, N), r \in Reading(c, Made(s), N), s.sent = {},
         Made(s) + 1 < Modulus, NEW t \in Sane, Appended(s, t)
  PROVE  t.sent = {} /\ \E d : t \in Supplying(d, r, N) /\ r \in Reading(d, Made(t), N)
<1> DEFINE n == Made(s)
           d == Longer(c, n, s.written + 1)
<1>1. /\ t \in Supplying(d, r, N) /\ Made(t) = n + 1 /\ t.sent = {}
      /\ \A k \in 0..n : d[k] = c[k]
  BY AppendedSupplies
<1>2. /\ r \in Receiving /\ Got(r) <= n /\ r.read = [i \in 1..c[Got(r)] |-> i]
      /\ Held(r.inbuf) \subseteq N
      /\ \A k \in 0..(Got(r) - 1) : \E m \in N : Index(m.seq) = k
  BY DEF Reading
<1>3. n \in Nat /\ Got(r) \in Nat
  BY <1>2, GotFacts, MadeFacts DEF Supplying
<1> HIDE DEF n, d
<1>4. Got(r) \in 0..n /\ Got(r) <= n + 1
  BY <1>2, <1>3
<1>5. d[Got(r)] = c[Got(r)]
  BY <1>1, <1>4
<1>6. r \in Reading(d, n + 1, N)
  BY <1>2, <1>4, <1>5 DEF Reading
<1> QED BY <1>1, <1>6

LEMMA MadeBound ==
  ASSUME NEW c, NEW r, NEW N, NEW s \in Supplying(c, r, N)
  PROVE  Made(s) \in Nat /\ s.written \in Nat /\ Made(s) <= s.written /\ Cut(c, Made(s), s.written)
<1>1. s \in Sane /\ Made(s) \in Nat /\ Cut(c, Made(s), s.written)
  BY MadeFacts DEF Supplying, Supplies
<1> QED BY <1>1, CutFacts

LEMMA WrittenStreams ==
  ASSUME NoWrap, NEW c, NEW N, NEW r, NEW s \in Supplying(c, r, N), r \in Reading(c, Made(s), N), s.sent = {},
         s.window < OutMax - 1, s.written < NumWrites, NEW t \in Written(s)
  PROVE  /\ t \in Sane /\ t.sent = {} /\ s.written <= t.written /\ t.written <= NumWrites
         /\ \E d : t \in Supplying(d, r, N) /\ r \in Reading(d, Made(t), N)
<1>1. s \in Sane /\ NumWrites \in Nat
  BY MtuAssumption DEF Supplying
<1>2. Made(s) \in Nat /\ s.written \in Nat /\ Made(s) <= s.written
  BY MadeBound
<1>3. Made(s) + 1 < Modulus
  BY <1>1, <1>2, Counts DEF NoWrap
<1>4. /\ t \in Sane /\ Oldest(t) = Oldest(s)
      /\ \/ Filled(s, t) \/ Appended(s, t)
         \/ \E u \in Sane : /\ Filled(s, u) /\ Oldest(u) = Oldest(s) /\ Appended(u, t)
                            /\ s.written + 2 <= NumWrites
  BY <1>1, WrittenSteps
<1>5. CASE Filled(s, t)
  <2>1. t.written = s.written + 1
    BY <1>5 DEF Filled
  <2>2. t.sent = {} /\ \E d : t \in Supplying(d, r, N) /\ r \in Reading(d, Made(t), N)
    BY <1>4, <1>5, FilledReads
  <2> QED BY <1>1, <1>2, <1>4, <2>1, <2>2
<1>6. CASE Appended(s, t)
  <2>1. t.written = s.written + 1
    BY <1>6 DEF Appended
  <2>2. t.sent = {} /\ \E d : t \in Supplying(d, r, N) /\ r \in Reading(d, Made(t), N)
    BY <1>3, <1>4, <1>6, AppendedReads
  <2> QED BY <1>1, <1>2, <1>4, <2>1, <2>2
<1>7. ASSUME NEW u \in Sane, Filled(s, u), Appended(u, t), s.written + 2 <= NumWrites
      PROVE /\ t.sent = {} /\ s.written <= t.written /\ t.written <= NumWrites
            /\ \E d : t \in Supplying(d, r, N) /\ r \in Reading(d, Made(t), N)
  <2>1. t.written = s.written + 1 + 1
    BY <1>7 DEF Filled, Appended
  <2>2. u.sent = {} /\ Made(u) = Made(s) /\ \E d : u \in Supplying(d, r, N) /\ r \in Reading(d, Made(u), N)
    BY <1>7, FilledReads
  <2>3. PICK d : u \in Supplying(d, r, N) /\ r \in Reading(d, Made(u), N)
    BY <2>2
  <2>4. t.sent = {} /\ \E e : t \in Supplying(e, r, N) /\ r \in Reading(e, Made(t), N)
    BY <1>3, <1>4, <1>7, <2>2, <2>3, AppendedReads
  <2> QED BY <1>1, <1>2, <1>7, <2>1, <2>4
<1> QED BY <1>4, <1>5, <1>6, <1>7

(* The receiver never loses what it has.                                   *)
Follows(r, t) == Got(r) <= Got(t) /\ \A k \in Nat : Has(r, k) => Has(t, k)

LEMMA RunsJoin ==
  ASSUME NEW a \in Nat, NEW b \in Nat, a <= b
  PROVE  [i \in 1..a |-> i] \o [i \in 1..(b - a) |-> a + i] = [i \in 1..b |-> i]
<1> DEFINE x == [i \in 1..a |-> i]
           y == [i \in 1..(b - a) |-> a + i]
           z == [i \in 1..b |-> i]
<1>1. b - a \in Nat
  OBVIOUS
<1>2. x \in Seq(Nat) /\ Len(x) = a /\ \A i \in 1..a : x[i] = i
  OBVIOUS
<1>3. y \in Seq(Nat) /\ Len(y) = b - a /\ \A i \in 1..(b - a) : y[i] = a + i
  BY <1>1
<1> HIDE DEF x, y
<1> DEFINE u == x \o y
<1>4. u \in Seq(Nat) /\ Len(u) = b
  <2>1. x \in Seq(Nat) /\ y \in Seq(Nat)
    BY <1>2, <1>3
  <2>2. u \in Seq(Nat) /\ Len(u) = Len(x) + Len(y)
    BY <2>1
  <2> QED BY <1>2, <1>3, <2>2
<1>5. ASSUME NEW i \in 1..b PROVE u[i] = i
  <2>1. CASE i <= a
    <3>1. i \in 1..Len(x)
      BY <1>2, <2>1
    <3>2. u[i] = x[i]
      BY <1>2, <1>3, <3>1
    <3> QED BY <1>2, <3>1, <3>2
  <2>2. CASE ~(i <= a)
    <3>1. i - a \in 1..(b - a) /\ a + (i - a) = i
      BY <2>2
    <3>2. i - Len(x) = i - a /\ i > Len(x) /\ i <= Len(x) + Len(y) /\ i \in Nat
      BY <1>2, <1>3, <2>2
    <3>3. u[i] = y[i - a]
      BY <1>2, <1>3, <3>2
    <3> QED BY <1>3, <3>1, <3>3
  <2> QED BY <2>1, <2>2
<1> HIDE DEF u
<1>6. u = [i \in 1..b |-> u[i]]
  BY <1>4
<1>7. u = z
  BY <1>5, <1>6
<1> QED BY <1>7 DEF u, x, y, z

(* Messages that carry the runs of the stream                              *)
Carried(c, n, w, N) ==
  n \in Nat /\ n < Modulus /\ Cut(c, n, w) /\ \A m \in N : m \in Data /\ Carries(c, n, m)

LEMMA TakenReads ==
  ASSUME NEW c, NEW n, NEW w, NEW N, Carried(c, n, w, N), NEW r \in Reading(c, n, N),
         NEW t \in Receiving, NEW m \in N, Taken(r, t, m)
  PROVE  t \in Reading(c, n, N) /\ Follows(r, t)
<1> DEFINE x == r.ack_nr + 1
           g == Got(r)
<1>1. /\ r \in Receiving /\ g <= n /\ r.read = [i \in 1..c[g] |-> i] /\ Held(r.inbuf) \subseteq N
      /\ \A k \in 0..(g - 1) : \E l \in N : Index(l.seq) = k
  BY DEF Reading
<1>2. x \in Int /\ g = Index(x) /\ g \in Nat /\ x + 1 \in Int /\ Mod(x) + 1 \in Int
  <2>1. r.ack_nr + 1 \in Int
    BY <1>1, ReceivingFacts
  <2>2. g \in Nat
    BY <1>1, GotFacts
  <2>3. Mod(x) \in Int
    BY <2>1, ModSeqNr
  <2>4. g = Index(x)
    BY DEF Got
  <2> HIDE DEF g
  <2> QED BY <2>1, <2>2, <2>3, <2>4
<1>3. n \in Nat /\ n < Modulus /\ Cut(c, n, w) /\ m \in Data /\ Carries(c, n, m)
  BY DEF Carried
<1>4. /\ m.seq = Mod(x) /\ t.ack_nr = Mod(x) /\ t.read = r.read \o m.data
      /\ Held(t.inbuf) = Held(r.inbuf) \ {m}
  BY DEF Taken
<1> HIDE DEF x, g
<1>5. Index(m.seq) = g /\ g < n /\ m.data = Run(c, g)
  BY <1>2, <1>3, <1>4, IndexFacts DEF Carries
<1>6. Got(t) = g + 1
  <2>1. Index(x + 1) = g + 1
    BY <1>2, <1>3, <1>5, IndexNext, Counts
  <2>2. Mod(Mod(x) + 1) = Mod(x + 1)
    <3>1. 1 \in Int
      OBVIOUS
    <3> QED BY <1>2, <3>1, ModSum
  <2>3. Index(Mod(x) + 1) = Index(x + 1)
    BY <1>2, <2>2, IndexFacts
  <2> QED BY <1>4, <2>1, <2>3 DEF Got
<1>7. t.read = [i \in 1..c[g + 1] |-> i]
  <2>1. g \in 0..n /\ g + 1 \in 0..n /\ g <= g + 1
    BY <1>2, <1>3, <1>5
  <2>2. c[g] \in Nat /\ c[g + 1] \in Nat /\ c[g] <= c[g + 1]
    BY <1>3, <2>1, CutFacts
  <2> DEFINE a == c[g]
             b == c[g + 1]
  <2> HIDE DEF a, b
  <2>3. [i \in 1..a |-> i] \o [i \in 1..(b - a) |-> a + i] = [i \in 1..b |-> i]
    BY <2>2, RunsJoin DEF a, b
  <2> QED BY <1>1, <1>4, <1>5, <2>3 DEF Run, a, b
<1>8. ASSUME NEW k \in 0..g PROVE \E l \in N : Index(l.seq) = k
  <2>1. CASE k = g
    BY <1>5, <2>1
  <2>2. CASE k # g
    <3>1. k \in 0..(g - 1)
      BY <1>2, <2>2
    <3> QED BY <1>1, <3>1
  <2> QED BY <2>1, <2>2
<1>9. (g + 1) - 1 = g /\ g + 1 <= n
  BY <1>2, <1>3, <1>5
<1>10. t \in Reading(c, n, N)
  BY <1>1, <1>4, <1>6, <1>7, <1>8, <1>9 DEF Reading
<1>11. ASSUME NEW k \in Nat, Has(r, k) PROVE Has(t, k)
  <2>1. CASE k < g
    BY <1>2, <1>6, <2>1 DEF Has
  <2>2. CASE ~(k < g)
    <3>1. PICK p \in Held(r.inbuf) : Index(p.seq) = k
      BY <1>11, <2>2 DEF Has, g
    <3>2. CASE p = m
      BY <1>2, <1>5, <1>6, <3>1, <3>2 DEF Has
    <3>3. CASE p # m
      BY <1>4, <3>1, <3>3 DEF Has
    <3> QED BY <3>2, <3>3
  <2> QED BY <2>1, <2>2
<1> QED BY <1>2, <1>6, <1>10, <1>11 DEF Follows, g

LEMMA KeptReads ==
  ASSUME NEW c, NEW n, NEW w, NEW N, Carried(c, n, w, N), NEW r \in Reading(c, n, N),
         NEW t \in Receiving, SameStream(r, t) \/ \E m \in N : Kept(r, t, m)
  PROVE  t \in Reading(c, n, N) /\ Follows(r, t)
<1>1. /\ r \in Receiving /\ Got(r) <= n /\ r.read = [i \in 1..c[Got(r)] |-> i]
      /\ Held(r.inbuf) \subseteq N
      /\ \A k \in 0..(Got(r) - 1) : \E l \in N : Index(l.seq) = k
  BY DEF Reading
<1>2. /\ t.ack_nr = r.ack_nr /\ t.read = r.read /\ Got(t) = Got(r)
      /\ Held(r.inbuf) \subseteq Held(t.inbuf) /\ Held(t.inbuf) \subseteq N
  BY <1>1 DEF SameStream, Kept, Got
<1>3. t \in Reading(c, n, N)
  BY <1>1, <1>2 DEF Reading
<1>4. Got(r) \in Nat
  BY <1>1, GotFacts
<1>5. Follows(r, t)
  BY <1>2, <1>4 DEF Follows, Has
<1> QED BY <1>3, <1>5

LEMMA FollowsOn ==
  ASSUME NEW r \in Receiving, NEW t \in Receiving, NEW u \in Receiving, Follows(r, t), Follows(t, u)
  PROVE  Follows(r, u)
<1>1. Got(r) \in Nat /\ Got(t) \in Nat /\ Got(u) \in Nat
  BY GotFacts
<1> QED BY <1>1 DEF Follows

LEMMA AcceptReads ==
  ASSUME NEW c, NEW n, NEW w, NEW N, Carried(c, n, w, N), NEW r \in Reading(c, n, N), Settled(r),
         NEW m \in N
  PROVE  LET t == Accept(r, m) IN t \in Reading(c, n, N) /\ Follows(r, t)
<1> DEFINE R == {x \in Reading(c, n, N) : Follows(r, x)}
<1>1. r \in Receiving /\ m \in Data
  BY DEF Reading, Carried
<1>2. \A x \in R : x \in Reading(c, n, N) /\ x \in Receiving /\ Follows(r, x) /\ Held(x.inbuf) \subseteq N
  BY DEF Reading
<1>3. r \in R
  <2>1. Got(r) \in Nat
    BY <1>1, GotFacts
  <2> QED BY <2>1 DEF Follows
<1>4. ASSUME NEW x \in R, NEW t \in Receiving,
             SameStream(x, t) \/ (\E l \in N : Kept(x, t, l)) \/ (\E l \in N : Taken(x, t, l))
      PROVE  t \in R
  <2>1. t \in Reading(c, n, N) /\ Follows(x, t)
    BY <1>2, <1>4, KeptReads, TakenReads
  <2>2. Follows(r, t)
    BY <1>1, <1>2, <2>1, FollowsOn
  <2> QED BY <2>1, <2>2
<1> HIDE DEF R
<1>5. Draining(R)
  BY <1>2, <1>4 DEF Draining
<1>6. Accept(r, m) \in R
  BY <1>1, <1>3, <1>4, <1>5, AcceptStays
<1> QED BY <1>2, <1>6

(* An acknowledgement names packets the receiver has: the bits of the EACK *)
(* do not run around the ring to the slot of the next packet.              *)
LEMMA EackHas ==
  ASSUME NEW r \in Receiving, Settled(r), NEW x, x.inbuf = r.inbuf,
         x.ack_nr = r.ack_nr \/ x.ack_nr = Mod(r.ack_nr - 1)
  PROVE  Eack(x) \subseteq {p.seq : p \in Held(r.inbuf)}
<1> DEFINE b == r.inbuf
           o == r.ack_nr + 1
           w == r.inbuf.mask
           size == Size(b)
           top == Min({EackBits, Size(x.inbuf)})
<1>1. /\ b \in Ring(Data) /\ o \in Int /\ Placed(b, o, w) /\ r.ack_nr \in Int /\ r.ack_nr \in SeqNrs
      /\ size \in Nat /\ size > 1 /\ size \in Sizes /\ size <= Modulus
  BY ReceivingFacts, RingFacts, SizeFacts
<1>2. top \in Int /\ top <= size
  <2>1. EackBits \in Nat /\ Size(x.inbuf) = size
    BY BufferAssumption
  <2>2. \E y \in {EackBits, size} : \A z \in {EackBits, size} : y <= z
    BY <1>1, <2>1
  <2>3. top \in {EackBits, size} /\ \A z \in {EackBits, size} : top <= z
    BY <2>1, <2>2 DEF Min
  <2> QED BY <1>1, <2>1, <2>3
<1>3. x.ack_nr \in Int
  <2>1. r.ack_nr - 1 \in Int
    BY <1>1
  <2> QED BY <1>1, <2>1, ModSeqNr
<1> HIDE DEF top
<1>4. ASSUME NEW i \in Slots(top), Get(x.inbuf, x.ack_nr + i + 2) # NULL
      PROVE  \E p \in Held(b) : p.seq = Mod(x.ack_nr + i + 2)
  <2> DEFINE j == x.ack_nr + i + 2
  <2>1. i \in Int /\ 0 <= i /\ i < size /\ j \in Int
    BY <1>1, <1>2, <1>3 DEF Slots
  <2>2. j - o = i + 1 \/ Mod(j - o) = Mod(i)
    <3>1. CASE x.ack_nr = r.ack_nr
      <4>1. j - o = i + 1
        BY <1>1, <2>1, <3>1
      <4> HIDE DEF j, o
      <4> QED BY <4>1
    <3>2. CASE x.ack_nr = Mod(r.ack_nr - 1)
      <4> DEFINE a == r.ack_nr - 1
                 e == (i + 2) - o
      <4>1. a \in Int /\ e \in Int /\ a + e = i
        BY <1>1, <2>1
      <4>2. j - o = Mod(a) + e
        <5>1. Mod(a) = x.ack_nr
          BY <3>2
        <5> HIDE DEF a
        <5> QED BY <1>1, <1>3, <2>1, <5>1
      <4> HIDE DEF a, e
      <4>3. Mod(Mod(a) + e) = Mod(a + e)
        BY <4>1, ModSum
      <4> QED BY <4>1, <4>2, <4>3
    <3> QED BY <3>1, <3>2
  <2>3. Get(b, j) # NULL
    BY <1>4
  <2> HIDE DEF j, b, o, w
  <2>4. CASE Mod(j - o) < size
    BY <1>1, <2>1, <2>3, <2>4, BothNumbered, GetOf DEF size, j
  <2>5. CASE ~(Mod(j - o) < size)
    <3>1. Modulus \in Nat /\ (i \in 0..(Modulus - 1) => Mod(i) = i)
      BY Counts, Small
    <3>2. Mod(i) = i
      <4>1. i \in 0..(Modulus - 1)
        BY <1>1, <2>1, <3>1
      <4> QED BY <3>1, <4>1
    <3>3. j - o = i + 1
      BY <2>1, <2>2, <2>5, <3>2
    <3>4. i + 1 = size
      <4> SUFFICES ASSUME i + 1 # size PROVE FALSE
        OBVIOUS
      <4>1. i + 1 < size
        BY <1>1, <2>1
      <4>2. i + 1 \in 0..(Modulus - 1)
        BY <1>1, <2>1, <3>1, <4>1
      <4> QED BY <2>5, <3>3, <4>1, <4>2, Small
    <3>5. j = o + size * 1
      BY <1>1, <2>1, <3>3, <3>4
    <3>6. j % size = o % size
      <4>1. size \in Nat \ {0} /\ 1 \in Int
        BY <1>1
      <4> QED BY <1>1, <2>1, <3>5, <4>1, CongruentMod
    <3>7. Get(b, o) # NULL
      BY <2>3, <3>6 DEF Get, Slot, size
    <3>8. Mod(o - o) < size
      <4>1. o - o = 0 /\ 0 \in 0..(Modulus - 1)
        BY <1>1, <3>1, Counts
      <4> QED BY <1>1, <4>1, Small
    <3>9. Get(b, o) \in Held(b) /\ Get(b, o).seq = Mod(o)
      BY <1>1, <3>7, <3>8, BothNumbered, GetOf DEF size
    <3> QED BY <3>9 DEF Settled, b, o
  <2> QED BY <2>4, <2>5
<1> QED BY <1>4 DEF Eack, b, top

(* The number of the k-th packet, seen from the next one to be made        *)
LEMMA IndexBelow ==
  ASSUME NEW s \in Sane, s.window <= Made(s), NEW v \in SeqNrs, Mod(v - Oldest(s)) < s.window
  PROVE  Index(v) = (Made(s) - s.window) + Mod(v - Oldest(s))
<1> DEFINE T == Made(s)
           W == s.window
           q == s.seq_nr
           o == Oldest(s)
           d == Mod(v - o)
<1>1. /\ T \in Nat /\ T < Modulus /\ W \in Nat /\ W <= T /\ q \in Int /\ o \in Int
      /\ v \in Int /\ SeqNr \in Int /\ Modulus \in Nat
  BY SaneFacts, MadeFacts, Counts DEF SeqNrs
<1>2. T = Mod(q - SeqNr) /\ o = Mod(q - W) /\ d < W
  BY DEF Made, Index, Oldest
<1>3. d \in Nat
  BY <1>1, ModSeqNr, Counts DEF SeqNrs
<1>4. Mod(v - SeqNr) = Mod(d + (o - SeqNr))
  <2> DEFINE x == v - o
             y == o - SeqNr
  <2>1. x \in Int /\ y \in Int /\ x + y = v - SeqNr
    BY <1>1
  <2> HIDE DEF x, y
  <2> QED BY <2>1, ModSum DEF x, y
<1> HIDE DEF T, W, q, o, d
<1>5. Mod(d + (o - SeqNr)) = Mod((q - SeqNr) + (d - W))
  <2> DEFINE x == q - W
             y == d - SeqNr
  <2>1. x \in Int /\ y \in Int /\ x + y = (q - SeqNr) + (d - W)
    BY <1>1, <1>3
  <2>2. Mod(x) + y = d + (o - SeqNr)
    <3>1. Mod(x) = o
      BY <1>2
    <3> HIDE DEF x
    <3> QED BY <1>1, <1>3, <3>1
  <2> HIDE DEF x, y
  <2> QED BY <2>1, <2>2, ModSum
<1>6. Mod((q - SeqNr) + (d - W)) = Mod(T + (d - W))
  <2> DEFINE x == q - SeqNr
             y == d - W
  <2>1. x \in Int /\ y \in Int /\ T = Mod(x)
    BY <1>1, <1>2, <1>3
  <2> HIDE DEF x, y
  <2> QED BY <2>1, ModSum DEF x, y
<1>7. T + (d - W) = (T - W) + d /\ (T - W) + d \in 0..(Modulus - 1)
  BY <1>1, <1>2, <1>3
<1>8. Mod((T - W) + d) = (T - W) + d
  BY <1>7, Small
<1> QED BY <1>4, <1>5, <1>6, <1>7, <1>8 DEF Index, T, W, d, o

(* An acknowledgement is taken for packets that were delivered, and for    *)
(* none when it is from before the window.                                 *)
LEMMA AcksDelivered ==
  ASSUME NoWrap, NEW s \in Sane, Made(s) <= NumWrites, s.window <= Made(s),
         NEW g \in Int, -1 <= g, g <= Made(s), NEW m, m.ack = Mod((SeqNr + g) - 1)
  PROVE  Cumulated(s, Acks(s, m), {v \in SeqNrs : Index(v) < g})
<1> DEFINE T == Made(s)
           W == s.window
           q == s.seq_nr
           e == g - (T - W)
           n == Mod(m.ack - (s.seq_nr - 1 - s.window))
<1>1. /\ T \in Nat /\ W \in Nat /\ W <= T /\ q \in Int /\ W < Modulus
      /\ SeqNr \in Int /\ Modulus \in Nat /\ T + 2 <= Modulus
  BY SaneFacts, MadeFacts, Counts, MtuAssumption DEF NoWrap
<1>2. T = Mod(q - SeqNr)
  BY DEF Made, Index
<1>3. n = Mod(e)
  <2> DEFINE x == (SeqNr + g) - 1
             y == (1 + W) - q
             a == q - SeqNr
             b == g + W
  <2>1. x \in Int /\ y \in Int /\ a \in Int /\ b \in Int /\ x + y = b - a /\ b - T = e
    BY <1>1
  <2>2. m.ack - (q - 1 - W) = Mod(x) + y
    <3>1. Mod(x) \in Int /\ m.ack = Mod(x)
      BY <2>1, ModSeqNr
    <3> HIDE DEF x
    <3> QED BY <1>1, <3>1
  <2>3. T = Mod(a)
    BY <1>2
  <2> HIDE DEF x, y, a, b, e, T
  <2>4. Mod(Mod(x) + y) = Mod(x + y) /\ Mod(b - Mod(a)) = Mod(b - a)
    BY <2>1, ModSum
  <2> QED BY <2>1, <2>2, <2>3, <2>4
<1>4. Acks(s, m) = IF n > W THEN 0 ELSE n
  BY DEF Acks
<1> HIDE DEF T, W, q, n
<1>5. Acks(s, m) = 0 \/ (Acks(s, m) = e /\ 0 <= e /\ e <= W)
  <2>1. e \in Int /\ -Modulus < e /\ e <= W
    BY <1>1 DEF T
  <2>2. CASE 0 <= e
    <3>1. e \in 0..(Modulus - 1)
      BY <1>1, <2>1, <2>2
    <3>2. n = e
      BY <1>3, <3>1, Small
    <3> QED BY <1>4, <2>1, <2>2, <3>2
  <2>3. CASE e < 0
    <3>1. e \in (-Modulus)..(-1)
      BY <1>1, <2>1, <2>3
    <3>2. n = e + Modulus
      BY <1>3, <3>1, Small
    <3>3. e + Modulus > W
      BY <1>1, <2>1
    <3> QED BY <1>4, <3>2, <3>3
  <2> QED BY <2>1, <2>2, <2>3
<1>6. ASSUME NEW v \in SeqNrs, Mod(v - Oldest(s)) < Acks(s, m) PROVE Index(v) < g
  <2> DEFINE d == Mod(v - Oldest(s))
  <2>1. d \in Nat
    <3>1. v - Oldest(s) \in Int
      BY SaneFacts, Counts DEF SeqNrs
    <3> QED BY <3>1, ModSeqNr, Counts DEF SeqNrs
  <2> HIDE DEF d
  <2>2. Acks(s, m) = e /\ d < e /\ e <= W
    BY <1>5, <1>6, <2>1 DEF d
  <2>3. d < W
    BY <1>1, <2>1, <2>2
  <2>4. Index(v) = (T - W) + d
    BY <2>3, IndexBelow DEF T, W, d
  <2> QED BY <1>1, <2>1, <2>2, <2>4
<1> QED BY <1>6 DEF Cumulated

-----------------------------------------------------------------------------
(* What the two sockets and the packets between them make of the stream    *)

Streams(s, r, N) == \E c : s \in Supplying(c, r, N) /\ r \in Reading(c, Made(s), N)

(* An acknowledgement says no more than the receiver has.                  *)
Acking(r, a) ==
  /\ \E g \in Int : -1 <= g /\ g <= Got(r) /\ a.ack = Mod((SeqNr + g) - 1)
  /\ a.sack \subseteq SeqNrs /\ \A v \in a.sack : Has(r, Index(v))

Faithful(s, r, N, a) ==
  s.written <= NumWrites /\ Streams(s, r, N) /\ (a # NULL => Acking(r, a))

(* A step of the sender writes more or nothing, one of the receiver reads  *)
(* on or nothing.                                                          *)
SendsOn == snd.written <= snd'.written /\ rcv'.read = rcv.read

ReadsOn == snd'.written = snd.written /\ Len(rcv.read) <= Len(rcv'.read)

LEMMA SendAckAcks ==
  ASSUME NEW r \in Receiving, Settled(r), NEW x, x.inbuf = r.inbuf,
         x.ack_nr = r.ack_nr \/ x.ack_nr = Mod(r.ack_nr - 1)
  PROVE  Acking(r, SendAck(x))
<1> DEFINE a == SendAck(x)
           g == Got(r)
<1>1. /\ r.ack_nr \in SeqNrs /\ r.ack_nr \in Int /\ SeqNr \in Int /\ g \in Nat
      /\ a.ack = x.ack_nr /\ a.sack = Eack(x)
  BY ReceivingFacts, GotFacts, Counts DEF SendAck
<1>2. g = Mod((r.ack_nr + 1) - SeqNr)
  BY DEF Got, Index
<1> HIDE DEF a, g
<1>3. ASSUME NEW j \in 0..1 PROVE Mod((SeqNr + (g - j)) - 1) = Mod(r.ack_nr - j)
  <2> DEFINE z == (r.ack_nr + 1) - SeqNr
             y == (SeqNr - j) - 1
  <2>1. z \in Int /\ y \in Int /\ z + y = r.ack_nr - j /\ (SeqNr + (g - j)) - 1 = g + y
    BY <1>1
  <2>2. g = Mod(z)
    BY <1>2
  <2> HIDE DEF z, y
  <2> QED BY <2>1, <2>2, ModSum
<1>4. \E h \in Int : -1 <= h /\ h <= g /\ a.ack = Mod((SeqNr + h) - 1)
  <2>1. CASE x.ack_nr = r.ack_nr
    <3>1. 0 \in 0..1 /\ g - 0 = g /\ r.ack_nr - 0 = r.ack_nr
      BY <1>1
    <3>2. Mod((SeqNr + g) - 1) = Mod(r.ack_nr)
      BY <1>3, <3>1
    <3>3. Mod(r.ack_nr) = r.ack_nr
      BY <1>1, Small DEF SeqNrs
    <3> QED BY <1>1, <2>1, <3>2, <3>3
  <2>2. CASE x.ack_nr = Mod(r.ack_nr - 1)
    <3>1. 1 \in 0..1 /\ g - 1 \in Int /\ -1 <= g - 1 /\ g - 1 <= g
      BY <1>1
    <3>2. Mod((SeqNr + (g - 1)) - 1) = Mod(r.ack_nr - 1)
      BY <1>3, <3>1
    <3> QED BY <1>1, <2>2, <3>1, <3>2
  <2> QED BY <2>1, <2>2
<1>5. a.sack \subseteq {p.seq : p \in Held(r.inbuf)}
  BY <1>1, EackHas
<1>6. ASSUME NEW v \in a.sack PROVE v \in SeqNrs /\ Has(r, Index(v))
  <2>1. PICK p \in Held(r.inbuf) : v = p.seq
    BY <1>5
  <2> QED BY <2>1, ReceivingHeld DEF Has
<1> QED BY <1>4, <1>6 DEF Acking, a, g

(* The sender is concerned with nothing but what the receiver has.         *)
LEMMA SupplyingFollows ==
  ASSUME NEW c, NEW N, NEW r \in Receiving, NEW t \in Receiving, Follows(r, t),
         NEW s \in Supplying(c, r, N)
  PROVE  s \in Supplying(c, t, N)
<1>1. s \in Sane /\ Supplies(c, N \cup s.sent, s) /\ Holds(r, s) /\ Probes(r, N \cup s.sent, s)
  BY DEF Supplying
<1>2. \A k \in Nat : Has(r, k) => Has(t, k)
  BY DEF Follows
<1>3. Holds(t, s)
  <2>1. Made(s) \in Nat
    BY <1>1, MadeFacts
  <2>2. \A k \in 0..(Made(s) - 1) : k \in Nat
    BY <2>1
  <2> QED BY <1>1, <1>2, <2>2 DEF Holds
<1>4. \A m \in N \cup s.sent : Index(m.seq) \in Nat
  <2>1. \A m \in N \cup s.sent : m.seq \in Int
    BY <1>1, Counts DEF Supplies, Data, SeqNrs
  <2> QED BY <2>1, IndexFacts
<1>5. Probes(t, N \cup s.sent, s)
  BY <1>1, <1>2, <1>4 DEF Probes
<1> QED BY <1>1, <1>3, <1>5 DEF Supplying

LEMMA AckingFollows ==
  ASSUME NEW r \in Receiving, NEW t \in Receiving, Follows(r, t), NEW a, Acking(r, a)
  PROVE  Acking(t, a)
<1>1. Got(r) \in Nat /\ Got(t) \in Nat /\ Got(r) <= Got(t) /\ \A k \in Nat : Has(r, k) => Has(t, k)
  BY GotFacts DEF Follows
<1>2. PICK g \in Int : -1 <= g /\ g <= Got(r) /\ a.ack = Mod((SeqNr + g) - 1)
  BY DEF Acking
<1>3. g <= Got(t)
  BY <1>1, <1>2
<1>4. ASSUME NEW v \in a.sack PROVE v \in SeqNrs /\ Has(t, Index(v))
  <2>1. v \in SeqNrs /\ Has(r, Index(v)) /\ v \in Int
    BY Counts DEF Acking, SeqNrs
  <2>2. Index(v) \in Nat
    BY <2>1, IndexFacts
  <2> QED BY <1>1, <2>1, <2>2
<1> QED BY <1>2, <1>3, <1>4 DEF Acking

(* What was sent is with the packets that may arrive.                      *)
LEMMA EmptiedStreams ==
  ASSUME NEW c, NEW r, NEW N, NEW s \in Supplying(c, r, N), Live(s), r \in Reading(c, Made(s), N)
  PROVE  LET t == [s EXCEPT !.sent = {}] IN t.written = s.written /\ Streams(t, r, N \cup s.sent)
<1> DEFINE t == [s EXCEPT !.sent = {}]
           M == N \cup s.sent
<1>1. s \in Sane /\ Supplies(c, M, s) /\ Holds(r, s) /\ Probes(r, M, s)
  BY DEF Supplying
<1>2. t \in Sane /\ t.sent = {} /\ SameNumbers(s, t) /\ t.outbuf = s.outbuf /\ SameSearch(s, t)
  BY <1>1, EmptiedSane
<1>3. N \subseteq M /\ M \cup t.sent = M
  BY <1>2
<1> HIDE DEF t, M
<1>4. Made(t) = Made(s) /\ t.window = s.window /\ t.written = s.written
  BY <1>2 DEF Made, SameNumbers
<1>5. Supplies(c, M, t)
  BY <1>1, <1>2, <1>4 DEF Supplies
<1>6. Holds(r, t)
  BY <1>1, <1>2, <1>4 DEF Holds
<1>7. Probes(r, M, t)
  BY <1>1, <1>2 DEF Probes, SameSearch
<1>8. t \in Supplying(c, r, M)
  BY <1>2, <1>3, <1>5, <1>6, <1>7 DEF Supplying
<1>9. r \in Reading(c, Made(t), M)
  BY <1>3, <1>4 DEF Reading
<1> QED BY <1>4, <1>8, <1>9 DEF Streams, t, M

LEMMA SenderStepFaithful ==
  ASSUME Faithful(snd, rcv, net, ack), NEW c, NEW s \in Supplying(c, rcv, net), Live(s),
         rcv \in Reading(c, Made(s), net), snd.written <= s.written, s.written <= NumWrites,
         SenderStep(s), rcv' = rcv, ack' \in {ack, NULL}
  PROVE  Faithful(snd', rcv', net', ack') /\ SendsOn
<1> DEFINE t == [s EXCEPT !.sent = {}]
<1>1. snd' = t /\ net' = net \cup s.sent
  BY DEF SenderStep
<1>2. t.written = s.written /\ Streams(t, rcv, net \cup s.sent)
  BY EmptiedStreams
<1> HIDE DEF t
<1> QED BY <1>1, <1>2 DEF Faithful, SendsOn

(* Sending leaves the stream as it is.                                     *)
LEMMA NothingAcked ==
  ASSUME NEW c, NEW r \in Receiving, NEW N
  PROVE  Closed(Supplying(c, r, N), {}, {}) /\ Shrinking(Supplying(c, r, N))
BY GotFacts, SupplyingClosed

LEMMA FlushedStreams ==
  ASSUME NEW c, NEW r, NEW N, NEW s \in Supplying(c, r, N), Live(s), r \in Reading(c, Made(s), N),
         NEW n \in Quotas(s)
  PROVE  LET t == FlushPackets(s, n)
         IN  t \in Supplying(c, r, N) /\ Live(t) /\ r \in Reading(c, Made(t), N) /\ t.written = s.written
<1> DEFINE t == FlushPackets(s, n)
<1>1. s \in Sane /\ r \in Receiving
  BY DEF Supplying, Reading
<1>2. n \in Nat
  BY <1>1, QuotasNat
<1>3. t \in Supplying(c, r, N) /\ SameNumbers(s, t)
  BY <1>1, <1>2, NothingAcked, FlushPacketsStays
<1>4. Live(t)
  BY <1>1, <1>2, FlushPacketsLive
<1> HIDE DEF t
<1>5. Made(t) = Made(s) /\ t.written = s.written
  BY <1>3 DEF SameNumbers, Made
<1> QED BY <1>3, <1>4, <1>5 DEF t

LEMMA WriteFaithful ==
  ASSUME NoWrap, Safe, Faithful(snd, rcv, net, ack), Write
  PROVE  Faithful(snd', rcv', net', ack') /\ SendsOn
<1>1. snd.written < NumWrites /\ snd.window < OutMax - 1 /\ rcv' = rcv /\ ack' = ack
  BY DEF Write
<1>2. PICK c : snd \in Supplying(c, rcv, net) /\ rcv \in Reading(c, Made(snd), net)
  BY DEF Faithful, Streams
<1>3. PICK s \in Written(snd) : \E n \in Quotas(s) : SenderStep(FlushPackets(s, n))
  BY DEF Write
<1>4. PICK n \in Quotas(s) : SenderStep(FlushPackets(s, n))
  BY <1>3
<1>5. snd \in Sane /\ Live(snd) /\ snd.sent = {}
  BY DEF Safe
<1>6. Live(s)
  BY <1>1, <1>5, WrittenLive
<1>7. /\ snd.written <= s.written /\ s.written <= NumWrites
      /\ \E d : s \in Supplying(d, rcv, net) /\ rcv \in Reading(d, Made(s), net)
  BY <1>1, <1>2, <1>5, WrittenStreams
<1>8. PICK d : s \in Supplying(d, rcv, net) /\ rcv \in Reading(d, Made(s), net)
  BY <1>7
<1> DEFINE t == FlushPackets(s, n)
<1>9. /\ t \in Supplying(d, rcv, net) /\ Live(t) /\ rcv \in Reading(d, Made(t), net)
      /\ t.written = s.written
  BY <1>6, <1>8, FlushedStreams
<1>10. SenderStep(t)
  BY <1>4
<1> HIDE DEF t
<1> QED BY <1>1, <1>7, <1>9, <1>10, SenderStepFaithful

LEMMA FlushFaithful ==
  ASSUME Safe, Faithful(snd, rcv, net, ack), Flush
  PROVE  Faithful(snd', rcv', net', ack') /\ SendsOn
<1>1. rcv' = rcv /\ ack' = ack /\ Live(snd) /\ snd.written <= NumWrites
  BY DEF Flush, Safe, Faithful
<1>2. PICK c : snd \in Supplying(c, rcv, net) /\ rcv \in Reading(c, Made(snd), net)
  BY DEF Faithful, Streams
<1>3. PICK n \in Quotas(snd) : SenderStep(FlushPackets(snd, n))
  BY DEF Flush
<1> DEFINE t == FlushPackets(snd, n)
<1>4. /\ t \in Supplying(c, rcv, net) /\ Live(t) /\ rcv \in Reading(c, Made(t), net)
      /\ t.written = snd.written
  BY <1>1, <1>2, FlushedStreams
<1>5. SenderStep(t)
  BY <1>3
<1>6. snd.written \in Nat
  BY <1>2, MadeBound
<1> HIDE DEF t
<1> QED BY <1>1, <1>2, <1>4, <1>5, <1>6, SenderStepFaithful

LEMMA TimeoutFaithful ==
  ASSUME Safe, Faithful(snd, rcv, net, ack), Timeout
  PROVE  Faithful(snd', rcv', net', ack') /\ SendsOn
<1>1. /\ rcv' = rcv /\ ack' = ack /\ Live(snd) /\ snd.written <= NumWrites /\ rcv \in Receiving
  BY DEF Timeout, Safe, Faithful
<1>2. PICK c : snd \in Supplying(c, rcv, net) /\ rcv \in Reading(c, Made(snd), net)
  BY DEF Faithful, Streams
<1>3. PICK n \in Quotas(snd) : SenderStep(TimedOut(FlushPackets(snd, n)))
  BY DEF Timeout
<1> DEFINE s == FlushPackets(snd, n)
<1>4. /\ s \in Supplying(c, rcv, net) /\ Live(s) /\ rcv \in Reading(c, Made(s), net)
      /\ s.written = snd.written
  BY <1>1, <1>2, FlushedStreams
<1>5. SenderStep(TimedOut(s))
  BY <1>3
<1> HIDE DEF s
<1> DEFINE t == TimedOut(s)
<1>6. t \in Supplying(c, rcv, net) /\ SameNumbers(s, t)
  BY <1>1, <1>4, NothingAcked, TimedOutStays
<1>7. Live(t)
  <2>1. s \in Sane
    BY <1>4 DEF Supplying
  <2> QED BY <1>4, <2>1, TimedOutLive
<1> HIDE DEF t
<1>8. t.written = s.written /\ Made(t) = Made(s)
  BY <1>6 DEF SameNumbers, Made
<1>9. rcv \in Reading(c, Made(t), net) /\ snd.written <= t.written /\ t.written <= NumWrites
  <2>1. snd.written \in Nat
    BY <1>2, MadeBound
  <2> QED BY <1>1, <1>4, <1>8, <2>1
<1> QED BY <1>1, <1>2, <1>5, <1>6, <1>7, <1>9, SenderStepFaithful DEF t

LEMMA RediscoverFaithful ==
  ASSUME Safe, Faithful(snd, rcv, net, ack), Rediscover
  PROVE  Faithful(snd', rcv', net', ack') /\ SendsOn
<1>1. rcv' = rcv /\ ack' = ack /\ net' = net
  BY DEF Rediscover
<1>2. PICK c : snd \in Supplying(c, rcv, net) /\ rcv \in Reading(c, Made(snd), net)
  BY DEF Faithful, Streams
<1>3. snd' \in Sane /\ SameNumbers(snd, snd') /\ snd'.outbuf = snd.outbuf
      /\ snd'.sent = snd.sent /\ SameSearch(snd, snd')
  BY RediscoverKeeps DEF Safe
<1>4. \A t : /\ t \in Sane /\ SameNumbers(snd, t) /\ t.outbuf = snd.outbuf
             /\ t.sent = snd.sent /\ SameSearch(snd, t)
             => t \in Supplying(c, rcv, net) /\ Made(t) = Made(snd) /\ t.written = snd.written
  <2> SUFFICES ASSUME NEW t, t \in Sane, SameNumbers(snd, t), t.outbuf = snd.outbuf,
                      t.sent = snd.sent, SameSearch(snd, t)
               PROVE  t \in Supplying(c, rcv, net) /\ Made(t) = Made(snd) /\ t.written = snd.written
    OBVIOUS
  <2>1. Made(t) = Made(snd) /\ t.window = snd.window /\ t.written = snd.written
    BY DEF Made, SameNumbers
  <2> DEFINE M == net \cup snd.sent
  <2>2. Supplies(c, M, snd) /\ Holds(rcv, snd) /\ Probes(rcv, M, snd)
    BY <1>2 DEF Supplying
  <2> HIDE DEF M
  <2>3. Supplies(c, M, t)
    BY <2>1, <2>2 DEF Supplies
  <2>4. Holds(rcv, t)
    BY <2>1, <2>2 DEF Holds
  <2>5. Probes(rcv, M, t)
    BY <2>2 DEF Probes, SameSearch
  <2> QED BY <2>1, <2>3, <2>4, <2>5 DEF Supplying, M
<1>5. snd' \in Supplying(c, rcv, net) /\ Made(snd') = Made(snd) /\ snd'.written = snd.written
  BY <1>3, <1>4
<1>6. snd.written \in Nat
  BY <1>2, MadeBound
<1> QED BY <1>1, <1>2, <1>5, <1>6 DEF Faithful, Streams, SendsOn

LEMMA ReceiveAckFaithful ==
  ASSUME NoWrap, Safe, Faithful(snd, rcv, net, ack), ReceiveAck
  PROVE  Faithful(snd', rcv', net', ack') /\ SendsOn
<1>1. /\ rcv' = rcv /\ ack' \in {ack, NULL} /\ snd \in Sane /\ rcv \in Receiving
      /\ ack.ack \in SeqNrs /\ ack.ack \in Int /\ snd.written <= NumWrites /\ Acking(rcv, ack)
  BY Counts DEF ReceiveAck, Safe, Faithful, SeqNrs
<1>2. PICK c : snd \in Supplying(c, rcv, net) /\ rcv \in Reading(c, Made(snd), net)
  BY DEF Faithful, Streams
<1> DEFINE A == {v \in SeqNrs : Index(v) < Got(rcv)}
           K == {v \in SeqNrs : Has(rcv, Index(v))}
           S == {x \in Supplying(c, rcv, net) : x.seq_nr = snd.seq_nr /\ x.written = snd.written}
           t == Acknowledge(snd, ack)
<1>3. PICK s \in FastResend(t) : SenderStep(s)
  BY DEF ReceiveAck
<1>4. A \subseteq K
  BY DEF Has
<1>5. Closed(S, A, K) /\ Shrinking(S) /\ snd \in S
  <2>1. Closed(Supplying(c, rcv, net), A, K) /\ Shrinking(Supplying(c, rcv, net))
    <3>1. Got(rcv) \in Nat /\ \A v \in A \cap SeqNrs : Index(v) < Got(rcv)
      BY <1>1, GotFacts
    <3>2. \A v \in K \cap SeqNrs : Has(rcv, Index(v))
      OBVIOUS
    <3> HIDE DEF A, K
    <3> QED BY <3>1, <3>2, SupplyingClosed
  <2> HIDE DEF A, K
  <2>2. ASSUME NEW x \in S, NEW y \in Sane,
               \/ Tuned(x, y) \/ Arrived(x, y, A)
               \/ \E p \in Held(x.outbuf) : Transmitted(x, y, p)
               \/ \E p \in Held(x.outbuf) : p.seq \in K /\ Removed(x, y, p)
        PROVE  y \in S
    <3>1. y \in Supplying(c, rcv, net)
      BY <2>1, <2>2 DEF Closed
    <3>2. y.seq_nr = x.seq_nr /\ y.written = x.written
      BY <2>2 DEF Tuned, Arrived, Transmitted, Removed, SamePackets, SameNumbers
    <3> QED BY <3>1, <3>2
  <2>3. ASSUME NEW x \in S, NEW y \in Sane, Shrunk(x, y) PROVE y \in S
    <3>1. y \in Supplying(c, rcv, net)
      BY <2>1, <2>3 DEF Shrinking
    <3>2. y.seq_nr = x.seq_nr /\ y.written = x.written
      BY <2>3 DEF Shrunk
    <3> QED BY <3>1, <3>2
  <2>4. S \subseteq Sane
    BY DEF Supplying
  <2> QED BY <1>2, <2>2, <2>3, <2>4 DEF Closed, Shrinking
<1>6. ack.sack \subseteq K
  BY <1>1 DEF Acking
<1>7. Cumulated(snd, Acks(snd, ack), A)
  <2>1. Made(snd) <= snd.written /\ Made(snd) \in Nat /\ snd.written \in Nat
    BY <1>2, MadeBound
  <2>2. Made(snd) <= NumWrites /\ snd.window <= Made(snd) /\ Got(rcv) <= Made(snd) /\ Got(rcv) \in Nat
    <3>1. NumWrites \in Nat
      BY MtuAssumption
    <3>2. snd.window <= Made(snd)
      BY <1>2 DEF Supplying, Supplies
    <3>3. Got(rcv) <= Made(snd)
      BY <1>2 DEF Reading
    <3>4. Got(rcv) \in Nat
      BY <1>1, GotFacts
    <3> QED BY <1>1, <2>1, <3>1, <3>2, <3>3, <3>4
  <2>3. PICK g \in Int : -1 <= g /\ g <= Got(rcv) /\ ack.ack = Mod((SeqNr + g) - 1)
    BY <1>1 DEF Acking
  <2>4. g <= Made(snd)
    BY <2>1, <2>2, <2>3
  <2>5. Cumulated(snd, Acks(snd, ack), {v \in SeqNrs : Index(v) < g})
    BY <1>1, <2>2, <2>3, <2>4, AcksDelivered
  <2>6. \A v \in SeqNrs : Index(v) < g => Index(v) < Got(rcv)
    BY <2>2, <2>3, IndexFacts, Counts DEF SeqNrs
  <2> QED BY <2>5, <2>6 DEF Cumulated
<1> HIDE DEF A, K, S
<1>8. t \in S /\ Live(t)
  BY <1>1, <1>4, <1>5, <1>6, <1>7, AcknowledgeStays
<1> HIDE DEF t
<1>9. s \in S /\ Live(s)
  BY <1>3, <1>5, <1>8, FastResendStays
<1>10. s \in Supplying(c, rcv, net) /\ Made(s) = Made(snd) /\ s.written = snd.written
  BY <1>9 DEF S, Made
<1>11. snd.written \in Nat
  BY <1>2, MadeBound
<1> QED BY <1>1, <1>2, <1>3, <1>9, <1>10, <1>11, SenderStepFaithful

LEMMA ReceiveFaithful ==
  ASSUME Safe, Faithful(snd, rcv, net, ack), NEW m \in net, Receive(m)
  PROVE  Faithful(snd', rcv', net', ack') /\ ReadsOn
<1>1. /\ rcv \in Receiving /\ Settled(rcv) /\ snd \in Sane /\ snd.sent = {}
      /\ rcv' = Accept(rcv, m) /\ snd' = snd /\ net' = net /\ ack' = ack
  BY DEF Safe, Receive
<1>2. PICK c : snd \in Supplying(c, rcv, net) /\ rcv \in Reading(c, Made(snd), net)
  BY DEF Faithful, Streams
<1> DEFINE n == Made(snd)
           t == Accept(rcv, m)
<1>3. Carried(c, n, snd.written, net)
  <2>1. Supplies(c, net, snd)
    <3>1. net \cup snd.sent = net
      BY <1>1
    <3> QED BY <1>2, <3>1 DEF Supplying
  <2>2. n \in Nat /\ n < Modulus
    BY <1>1, MadeFacts
  <2> QED BY <2>1, <2>2 DEF Supplies, Carried
<1> HIDE DEF n
<1>4. t \in Reading(c, n, net) /\ Follows(rcv, t)
  <2>1. rcv \in Reading(c, n, net)
    BY <1>2 DEF n
  <2> QED BY <1>1, <1>3, <2>1, AcceptReads
<1> HIDE DEF t
<1>5. t \in Receiving
  BY <1>4 DEF Reading
<1>6. snd \in Supplying(c, t, net)
  BY <1>1, <1>2, <1>4, <1>5, SupplyingFollows
<1>7. ack # NULL => Acking(t, ack)
  BY <1>1, <1>4, <1>5, AckingFollows DEF Faithful
<1>8. Faithful(snd, t, net, ack)
  BY <1>4, <1>6, <1>7 DEF Faithful, Streams, n
<1>9. Len(rcv.read) <= Len(t.read)
  <2> DEFINE g == Got(rcv)
             h == Got(t)
  <2>1. g \in Nat /\ h \in Nat /\ g <= h
    BY <1>1, <1>4, <1>5, GotFacts DEF Follows
  <2>2. n \in Nat /\ h <= n /\ rcv.read = [i \in 1..c[g] |-> i] /\ t.read = [i \in 1..c[h] |-> i]
    BY <1>2, <1>3, <1>4 DEF Reading, Carried, n
  <2> HIDE DEF g, h
  <2>3. g \in 0..n /\ h \in 0..n
    BY <2>1, <2>2
  <2>4. c[g] \in Nat /\ c[h] \in Nat /\ c[g] <= c[h]
    BY <1>3, <2>1, <2>2, <2>3, CutFacts DEF Carried
  <2>5. Len(rcv.read) = c[g] /\ Len(t.read) = c[h]
    BY <2>2, <2>4
  <2> QED BY <2>4, <2>5
<1> QED BY <1>1, <1>8, <1>9 DEF t, ReadsOn

LEMMA SendingAckFaithful ==
  ASSUME Safe, Faithful(snd, rcv, net, ack), DeferredAck \/ KeepAlive
  PROVE  Faithful(snd', rcv', net', ack') /\ SendsOn
<1> DEFINE t == [rcv EXCEPT !.ack_due = FALSE]
           x == [rcv EXCEPT !.ack_nr = Mod(@ - 1)]
<1>1. /\ rcv \in Receiving /\ Settled(rcv) /\ snd \in Sane /\ snd.sent = {}
      /\ rcv' = t /\ snd' = snd /\ net' = net
      /\ ack' \in {ack, SendAck(rcv), SendAck(x)}
  BY DEF Safe, DeferredAck, KeepAlive
<1>2. PICK c : snd \in Supplying(c, rcv, net) /\ rcv \in Reading(c, Made(snd), net)
  BY DEF Faithful, Streams
<1>3. t \in Receiving /\ SameStream(rcv, t)
  BY <1>1, AckSent
<1>4. x.ack_nr = Mod(rcv.ack_nr - 1) /\ x.inbuf = rcv.inbuf
  BY <1>1, ReceivingFacts DEF Receiver
<1> HIDE DEF t, x
<1>5. Acking(rcv, SendAck(rcv)) /\ Acking(rcv, SendAck(x))
  BY <1>1, <1>4, SendAckAcks
<1> DEFINE n == Made(snd)
<1>6. Carried(c, n, snd.written, net)
  <2>1. Supplies(c, net, snd)
    <3>1. net \cup snd.sent = net
      BY <1>1
    <3> QED BY <1>2, <3>1 DEF Supplying
  <2>2. n \in Nat /\ n < Modulus
    BY <1>1, MadeFacts
  <2> QED BY <2>1, <2>2 DEF Supplies, Carried
<1> HIDE DEF n
<1>7. t \in Reading(c, n, net) /\ Follows(rcv, t)
  <2>1. rcv \in Reading(c, n, net)
    BY <1>2 DEF n
  <2> QED BY <1>3, <1>6, <2>1, KeptReads
<1>8. snd \in Supplying(c, t, net)
  BY <1>1, <1>2, <1>3, <1>7, SupplyingFollows
<1>9. ack' # NULL => Acking(t, ack')
  <2>1. ack' # NULL => Acking(rcv, ack')
    BY <1>1, <1>5 DEF Faithful
  <2>2. \A a : Acking(rcv, a) => Acking(t, a)
    BY <1>1, <1>3, <1>7, AckingFollows
  <2> QED BY <2>1, <2>2
<1>10. Faithful(snd, t, net, ack')
  BY <1>7, <1>8, <1>9 DEF Faithful, Streams, n
<1>11. snd.written \in Nat
  BY <1>2, MadeBound
<1> QED BY <1>1, <1>3, <1>10, <1>11 DEF SameStream, SendsOn

LEMMA InitFaithful == ASSUME Init PROVE Faithful(snd, rcv, net, ack)
<1> DEFINE c == [k \in 0..0 |-> 0]
<1>1. /\ snd \in Sane /\ snd.sent = {} /\ snd.seq_nr = SeqNr /\ snd.window = 0
      /\ snd.written = 0 /\ Held(snd.outbuf) = {}
      /\ snd.mtu_probe_seq = 0 /\ snd.mtu_floor = LeastMtu
  BY InitSane
<1>2. /\ rcv \in Receiving /\ Held(rcv.inbuf) = {} /\ rcv.read = << >>
      /\ rcv.ack_nr = Mod(SeqNr - 1)
  BY InitReceiving
<1>3. net = {} /\ ack = NULL
  BY DEF Init
<1>4. SeqNr \in Int /\ Modulus \in Nat \ {0} /\ LeastMtu \in Nat /\ NumWrites \in Nat
  BY Counts, MtuAssumption
<1>5. Mod(0) = 0
  <2>1. 0 \in 0..(Modulus - 1)
    BY <1>4
  <2> QED BY <2>1, Small
<1>6. Made(snd) = 0
  <2>1. SeqNr - SeqNr = 0
    BY <1>4
  <2> QED BY <1>1, <1>5, <2>1 DEF Made, Index
<1>7. Got(rcv) = 0
  <2> DEFINE x == SeqNr - 1
             y == 1 - SeqNr
             z == Mod(x)
  <2>1. x \in Int /\ y \in Int /\ x + y = 0 /\ z \in Int
    BY <1>4, ModSeqNr
  <2>2. rcv.ack_nr = z
    BY <1>2
  <2> HIDE DEF x, z
  <2>3. (z + 1) - SeqNr = z + y
    BY <1>4, <2>1
  <2> HIDE DEF y
  <2>4. Mod(z + y) = Mod(x + y)
    BY <2>1, ModSum DEF z
  <2> QED BY <1>5, <2>1, <2>2, <2>3, <2>4 DEF Got, Index
<1>8. c \in [0..0 -> Nat] /\ \A k \in 0..0 : c[k] = 0 /\ k = 0
  OBVIOUS
<1> HIDE DEF c
<1>9. Cut(c, 0, 0)
  <2>1. 0 \in 0..0
    OBVIOUS
  <2> QED BY <1>8, <2>1 DEF Cut
<1>10. Supplies(c, net \cup snd.sent, snd)
  BY <1>1, <1>3, <1>6, <1>9 DEF Supplies
<1>11. Holds(rcv, snd)
  <2>1. 0..(0 - 1) = {}
    OBVIOUS
  <2> QED BY <1>6, <2>1 DEF Holds
<1>12. Probes(rcv, net \cup snd.sent, snd)
  BY <1>1, <1>4 DEF Probes
<1>13. snd \in Supplying(c, rcv, net)
  BY <1>1, <1>10, <1>11, <1>12 DEF Supplying
<1>14. rcv \in Reading(c, Made(snd), net)
  <2>1. 0..(0 - 1) = {} /\ 0 \in 0..0
    OBVIOUS
  <2>2. [i \in 1..0 |-> i] = << >>
    OBVIOUS
  <2>3. rcv.read = [i \in 1..c[Got(rcv)] |-> i]
    BY <1>2, <1>7, <1>8, <2>1, <2>2
  <2> QED BY <1>2, <1>6, <1>7, <2>1, <2>3 DEF Reading
<1> QED BY <1>1, <1>3, <1>4, <1>13, <1>14 DEF Faithful, Streams

LEMMA NextFaithful ==
  ASSUME NoWrap, Safe, Faithful(snd, rcv, net, ack), [Next]_vars
  PROVE  Faithful(snd', rcv', net', ack') /\ (SendsOn \/ ReadsOn)
<1>1. CASE Write
  BY <1>1, WriteFaithful
<1>2. CASE Flush
  BY <1>2, FlushFaithful
<1>3. CASE Timeout
  BY <1>3, TimeoutFaithful
<1>4. CASE Rediscover
  BY <1>4, RediscoverFaithful
<1>5. CASE ReceiveAck
  BY <1>5, ReceiveAckFaithful
<1>6. CASE DeferredAck \/ KeepAlive
  BY <1>6, SendingAckFaithful
<1>7. ASSUME NEW m \in net, Receive(m)
      PROVE  Faithful(snd', rcv', net', ack') /\ (SendsOn \/ ReadsOn)
  BY <1>7, ReceiveFaithful
<1>8. CASE UNCHANGED vars
  <2>1. snd' = snd /\ rcv' = rcv /\ net' = net /\ ack' = ack
    BY <1>8 DEF vars
  <2>2. PICK c : snd \in Supplying(c, rcv, net)
    BY DEF Faithful, Streams
  <2>3. snd.written \in Nat
    BY <2>2, MadeBound
  <2> QED BY <2>1, <2>3 DEF SendsOn
<1> QED BY <1>1, <1>2, <1>3, <1>4, <1>5, <1>6, <1>7, <1>8 DEF Next

(* The inductive invariant of the stream                                   *)
Streaming == Safe /\ \E s, r, N, a : vars = <<s, r, N, a>> /\ Faithful(s, r, N, a)

LEMMA StreamingFacts == Streaming => Safe /\ Faithful(snd, rcv, net, ack)
BY DEF Streaming, vars

LEMMA AlwaysStreaming == NoWrap => (Spec => []Streaming)
<1>1. Init => Streaming
  BY InitSafe, InitFaithful DEF Streaming, vars
<1>2. ASSUME NoWrap, Streaming, [Next]_vars PROVE Streaming'
  <2>1. Safe'
    BY <1>2, StreamingFacts, SafeStays
  <2>2. Faithful(snd', rcv', net', ack')
    BY <1>2, StreamingFacts, NextFaithful
  <2> QED BY <2>1, <2>2 DEF Streaming, vars
<1>3. ASSUME NoWrap PROVE Spec => []Streaming
  <2>1. Streaming /\ [Next]_vars => Streaming'
    BY <1>2, <1>3
  <2> QED BY <1>1, <2>1, PTL DEF Spec
<1> QED BY <1>3

-----------------------------------------------------------------------------
(* What the runs check of the buffers, the search and the stream           *)

(* What is read of the stream                                              *)
LEMMA ReadFacts ==
  ASSUME NEW s, NEW r, NEW N, NEW a, Faithful(s, r, N, a)
  PROVE  /\ s.written \in Nat /\ s.written <= NumWrites
         /\ \E n \in Nat : n <= s.written /\ r.read = [i \in 1..n |-> i] /\ Len(r.read) = n
<1>1. PICK c : s \in Supplying(c, r, N) /\ r \in Reading(c, Made(s), N)
  BY DEF Faithful, Streams
<1> DEFINE g == Got(r)
           n == Made(s)
<1>2. g \in Nat /\ n \in Nat /\ g <= n /\ r.read = [i \in 1..c[g] |-> i]
  BY <1>1, GotFacts, MadeFacts DEF Supplying, Reading
<1>3. Cut(c, n, s.written)
  BY <1>1 DEF Supplying, Supplies
<1> HIDE DEF g, n
<1>4. g \in 0..n
  BY <1>2
<1>5. s.written \in Nat /\ c[g] \in Nat /\ c[g] <= s.written
  BY <1>2, <1>3, <1>4, CutFacts
<1>6. Len(r.read) = c[g]
  BY <1>2, <1>5
<1> QED BY <1>2, <1>5, <1>6 DEF Faithful

(* A packet that the receiver has is read or in its ring.                  *)
LEMMA HasReceived ==
  ASSUME NEW c, NEW n \in Nat, NEW w, Cut(c, n, w), rcv \in Reading(c, n, net),
         \A m \in net : Carries(c, n, m), NEW k \in 0..(n - 1), Has(rcv, k)
  PROVE  ToSet(Run(c, k)) \subseteq Received
<1> DEFINE g == Got(rcv)
<1>1. /\ rcv \in Receiving /\ g <= n /\ rcv.read = [i \in 1..c[g] |-> i] /\ Held(rcv.inbuf) \subseteq net
      /\ g \in Nat
  BY GotFacts DEF Reading
<1> HIDE DEF g
<1>2. CASE k < g
  <2> DEFINE a == c[k]
             b == c[k + 1]
             e == c[g]
  <2>1. k \in 0..n /\ k + 1 \in 0..n /\ g \in 0..n /\ k + 1 <= g /\ k <= k + 1
    BY <1>1, <1>2
  <2>2. a \in Nat /\ b \in Nat /\ e \in Nat /\ b <= e
    BY <2>1, CutFacts
  <2>3. Run(c, k) = [i \in 1..(b - a) |-> a + i] /\ rcv.read = [i \in 1..e |-> i]
    BY <1>1 DEF Run
  <2> HIDE DEF a, b, e
  <2>4. ASSUME NEW v \in ToSet(Run(c, k)) PROVE v \in ToSet(rcv.read)
    <3>1. PICK i \in 1..(b - a) : v = a + i
      BY <2>3 DEF ToSet
    <3>2. v \in 1..e
      BY <2>2, <3>1
    <3> QED BY <2>3, <3>2 DEF ToSet
  <2> QED BY <2>4 DEF Received
<1>3. CASE ~(k < g)
  <2>1. PICK p \in Held(rcv.inbuf) : Index(p.seq) = k
    BY <1>3 DEF Has, g
  <2>2. p.data = Run(c, k)
    BY <1>1, <2>1 DEF Carries
  <2>3. ToSet(p.data) \subseteq UNION {ToSet(q.data) : q \in Held(rcv.inbuf)}
    BY <2>1
  <2> QED BY <2>2, <2>3 DEF Received
<1> QED BY <1>2, <1>3

(* A write has its run.                                                    *)
LEMMA RunOf ==
  ASSUME NEW n \in Nat, NEW w, NEW c, Cut(c, n, w), NEW v \in 1..w
  PROVE  \E k \in 0..(n - 1) : v \in ToSet(Run(c, k))
<1> DEFINE S == {k \in Nat : k <= n /\ v <= c[k]}
<1>1. w \in Nat /\ c[0] = 0 /\ c[n] = w /\ \A k \in 0..n : c[k] \in Nat
  BY CutFacts
<1>2. n \in S
  BY <1>1
<1>3. PICK k \in S : \A l \in S : k <= l
  BY <1>2, LeastOf
<1>4. v \in Nat /\ v # 0 /\ k \in Nat /\ k <= n /\ v <= c[k]
  BY <1>1, <1>3
<1>5. k # 0
  BY <1>1, <1>4
<1> DEFINE j == k - 1
<1>6. j \in 0..(n - 1) /\ j + 1 = k /\ j \in 0..n /\ k \in 0..n
  BY <1>4, <1>5
<1>7. j \notin S
  BY <1>3, <1>4, <1>5
<1> HIDE DEF j
<1>8. ~(v <= c[j])
  BY <1>6, <1>7
<1> HIDE DEF S
<1> DEFINE a == c[j]
           b == c[k]
<1>9. a \in Nat /\ b \in Nat /\ a < v /\ v <= b /\ Run(c, j) = [i \in 1..(b - a) |-> a + i]
  BY <1>1, <1>4, <1>6, <1>8 DEF Run
<1> HIDE DEF a, b
<1>10. v - a \in 1..(b - a) /\ a + (v - a) = v
  BY <1>4, <1>9
<1>11. v \in ToSet(Run(c, j))
  BY <1>9, <1>10 DEF ToSet
<1> QED BY <1>6, <1>11

(* The rings hold their packets at their numbers however they grew and     *)
(* wrapped, the slot of the next packet stays empty, and what leaves       *)
(* outbuf (ack_packet, selective_ack) is with the receiver: no write is    *)
(* lost.                                                                   *)
THEOREM NoWriteIsLost == NoWrap => (Spec => []BuffersAgree)
<1>1. ASSUME Streaming PROVE BuffersAgree
  <2>1. Safe /\ Faithful(snd, rcv, net, ack) /\ snd \in Sane /\ rcv \in Receiving /\ Settled(rcv)
    BY <1>1, StreamingFacts DEF Safe
  <2>2. PICK c : snd \in Supplying(c, rcv, net) /\ rcv \in Reading(c, Made(snd), net)
    BY <2>1 DEF Faithful, Streams
  <2> DEFINE n == Made(snd)
  <2>3. /\ Cut(c, n, snd.written) /\ n \in Nat /\ Holds(rcv, snd) /\ \A m \in net : Carries(c, n, m)
        /\ \A p \in Held(snd.outbuf) : Carries(c, n, p)
    BY <2>1, <2>2, MadeFacts DEF Supplying, Supplies
  <2>4. /\ \A p \in Held(snd.outbuf) : Get(snd.outbuf, p.seq) = p
        /\ \A p \in Held(snd.outbuf) : InWindow(snd, p.seq)
    <3> DEFINE b == snd.outbuf
               o == Oldest(snd)
               w == snd.window
    <3>1. b \in Ring(OutPacket) /\ o \in Int /\ Placed(b, o, w) /\ Numbered(OutPacket)
      BY <2>1, SaneFacts, BothNumbered
    <3> HIDE DEF b, o, w
    <3>2. \A p \in Held(b) : Get(b, p.seq) = p /\ Mod(p.seq - o) < w
      BY <3>1, HeldFacts
    <3> QED BY <3>2 DEF b, o, w, InWindow
  <2>5. \A b \in {snd.outbuf, rcv.inbuf} : \A p \in Held(b) : Get(b, p.seq) = p
    BY <2>1, <2>4, ReceivingHeld
  <2>6. snd.window > 0 => Get(snd.outbuf, Oldest(snd)) # NULL
    BY <2>1 DEF Safe, Live
  <2>7. Cardinality(Held(rcv.inbuf)) = rcv.reorder_count
    BY <2>1, ReceivingHeld
  <2>8. ASSUME NEW p \in Held(rcv.inbuf)
        PROVE  Mod(p.seq - rcv.ack_nr - 1) \in 1..(rcv.inbuf.mask - 1)
    <3> DEFINE v == p.seq
               o == rcv.ack_nr + 1
               d == Mod(v - o)
    <3>1. v \in SeqNrs /\ v \in Int /\ o \in Int /\ rcv.ack_nr \in Int /\ d < rcv.inbuf.mask
          /\ rcv.inbuf.mask \in Nat /\ v # Mod(o)
      BY <2>1, ReceivingHeld, ReceivingFacts DEF Settled
    <3>2. v - rcv.ack_nr - 1 = v - o
      BY <3>1
    <3>3. d \in Nat
      BY <3>1, ModSeqNr, Counts DEF SeqNrs
    <3>4. d # 0
      <4> SUFFICES ASSUME d = 0 PROVE FALSE
        OBVIOUS
      <4> HIDE DEF o, v
      <4>1. Mod(o) \in SeqNrs /\ Mod(o) \in Int /\ 0 \in Int /\ -o \in Int
        BY <3>1, ModSeqNr
      <4>2. Mod(Mod(o) + (-o)) = Mod(o + (-o))
        BY <3>1, <4>1, ModSum
      <4>3. Mod(o) + (-o) = Mod(o) - o /\ o + (-o) = 0
        BY <3>1, <4>1
      <4>4. Mod(0) = 0
        <5>1. 0 \in 0..(Modulus - 1)
          BY Counts
        <5> QED BY <5>1, Small
      <4>5. Mod(v - o) = Mod(Mod(o) - o)
        BY <4>2, <4>3, <4>4
      <4> QED BY <3>1, <4>1, <4>5, SameDistance
    <3> HIDE DEF d
    <3>5. d \in 1..(rcv.inbuf.mask - 1)
      BY <3>1, <3>3, <3>4
    <3> QED BY <3>2, <3>5 DEF d
  <2>9. ASSUME NEW v \in 1..snd.written,
               v \notin UNION {ToSet(p.data) : p \in Held(snd.outbuf)}
        PROVE  v \in Received
    <3> HIDE DEF n
    <3>1. PICK k \in 0..(n - 1) : v \in ToSet(Run(c, k))
      BY <2>3, RunOf
    <3>2. Has(rcv, k)
      <4> SUFFICES ASSUME ~Has(rcv, k) PROVE FALSE
        OBVIOUS
      <4>1. PICK p \in Held(snd.outbuf) : Index(p.seq) = k
        BY <2>3 DEF Holds, n
      <4>2. p.data = Run(c, k)
        BY <2>3, <4>1 DEF Carries
      <4> QED BY <2>9, <3>1, <4>1, <4>2
    <3>3. rcv \in Reading(c, n, net)
      BY <2>2 DEF n
    <3>4. ToSet(Run(c, k)) \subseteq Received
      BY <2>3, <3>2, <3>3, HasReceived
    <3> QED BY <3>1, <3>4
  <2> QED BY <2>4, <2>5, <2>6, <2>7, <2>8, <2>9 DEF BuffersAgree
<1>2. ASSUME NoWrap PROVE Spec => []BuffersAgree
  <2>1. Streaming => BuffersAgree
    BY <1>1
  <2>2. Spec => []Streaming
    BY <1>2, AlwaysStreaming
  <2> QED BY <2>1, <2>2, PTL
<1> QED BY <1>2

(* The interval of mtu_search_update never turns over, a probe is within   *)
(* it, and a floor above the least MTU is the size of a packet that        *)
(* arrived.                                                                *)
THEOREM FloorWentThrough == NoWrap => (Spec => []SearchInterval)
<1>1. ASSUME Streaming PROVE SearchInterval
  <2>1. Safe /\ Faithful(snd, rcv, net, ack) /\ snd \in Sane /\ rcv \in Receiving /\ snd.sent = {}
    BY <1>1, StreamingFacts DEF Safe
  <2>2. PICK c : snd \in Supplying(c, rcv, net) /\ rcv \in Reading(c, Made(snd), net)
    BY <2>1 DEF Faithful, Streams
  <2>3. Searching(snd)
    BY <2>1, SaneFacts
  <2> DEFINE n == Made(snd)
  <2>4. /\ Cut(c, n, snd.written) /\ n \in Nat
        /\ \A m \in net : m \in Data /\ Carries(c, n, m)
    BY <2>1, <2>2, MadeFacts DEF Supplying, Supplies
  <2>5. snd.mtu_floor > LeastMtu =>
          \E m \in net : m.length = snd.mtu_floor /\ Has(rcv, Index(m.seq))
    <3>1. net \cup snd.sent = net
      BY <2>1
    <3> QED BY <2>2, <3>1 DEF Supplying, Probes
  <2>6. ASSUME NEW m \in net, Has(rcv, Index(m.seq)) PROVE ToSet(m.data) \subseteq Received
    <3> DEFINE k == Index(m.seq)
    <3>1. m.seq \in Int /\ k < n /\ m.data = Run(c, k)
      BY <2>4, Counts DEF Data, SeqNrs, Carries
    <3>2. k \in Nat
      BY <3>1, IndexFacts
    <3> HIDE DEF k, n
    <3>3. k \in 0..(n - 1)
      BY <2>4, <3>1, <3>2
    <3>4. Has(rcv, k) /\ rcv \in Reading(c, n, net)
      BY <2>2, <2>6 DEF k, n
    <3>5. ToSet(Run(c, k)) \subseteq Received
      BY <2>4, <3>3, <3>4, HasReceived
    <3> QED BY <3>1, <3>5
  <2> QED BY <2>3, <2>5, <2>6 DEF SearchInterval, Searching, Probing
<1>2. ASSUME NoWrap PROVE Spec => []SearchInterval
  <2>1. Streaming => SearchInterval
    BY <1>1
  <2>2. Spec => []Streaming
    BY <1>2, AlwaysStreaming
  <2> QED BY <2>1, <2>2, PTL
<1> QED BY <1>2

-----------------------------------------------------------------------------
(* The refinement of ReliableStream                                        *)

Both == {"snd", "rcv"}

Pair(a, b) == [snd |-> a, rcv |-> b]

LEMMA Pairs ==
  /\ \A a, b : Pair(a, b) = [e \in Both |-> IF e = "snd" THEN a ELSE b]
  /\ \A a, b, x : [Pair(a, b) EXCEPT !["snd"] = x] = Pair(x, b)
  /\ \A a, b, x : [Pair(a, b) EXCEPT !["rcv"] = x] = Pair(a, x)
  /\ \A a, b : Pair(a, b)["snd"] = a /\ Pair(a, b)["rcv"] = b
BY DEF Pair, Both

LEMMA Others ==
  (CHOOSE f \in Both : f # "snd") = "rcv" /\ (CHOOSE f \in Both : f # "rcv") = "snd"
<1>1. "snd" \in Both /\ "rcv" \in Both /\ "snd" # "rcv" /\ \A f \in Both : f = "snd" \/ f = "rcv"
  BY DEF Both
<1>2. \E f \in Both : f # "snd"
  BY <1>1
<1>3. \E f \in Both : f # "rcv"
  BY <1>1
<1> QED BY <1>1, <1>2, <1>3

Eofs == Pair(FALSE, FALSE)

Stati == Pair("open", "open")

LEMMA PromiseInit == Init => Promise!Init
<1> SUFFICES ASSUME Init PROVE Promise!Init
  OBVIOUS
<1>1. snd.written = 0 /\ rcv.read = << >>
  BY InitSane, InitReceiving
<1>2. ASSUME NEW x PROVE Pair(x, x) = [e \in Both |-> x]
  BY Pairs
<1>3. Pair(snd.written, 0) = [e \in Both |-> 0]
  BY <1>1, <1>2
<1>4. Pair(<< >>, rcv.read) = [e \in Both |-> << >>]
  BY <1>1, <1>2
<1>5. Eofs = [e \in Both |-> FALSE] /\ Stati = [e \in Both |-> "open"]
  BY <1>2 DEF Eofs, Stati
<1> QED BY <1>3, <1>4, <1>5 DEF Promise!Init, Pair, Both, Eofs, Stati

(* The sender writes on: a step of its application.                        *)
LEMMA SendsTalk ==
  ASSUME SendsOn, snd.written \in Nat, snd'.written \in Nat, snd'.written <= NumWrites
  PROVE  Promise!Talk("snd")
<1> DEFINE n == snd'.written
<1>1. n \in snd.written..NumWrites
  BY MtuAssumption DEF SendsOn
<1>2. Pair(snd'.written, 0) = [Pair(snd.written, 0) EXCEPT !["snd"] = n]
  BY Pairs
<1>3. Pair(<< >>, rcv'.read) = [Pair(<< >>, rcv.read) EXCEPT !["snd"] = [i \in 1..0 |-> i]]
  <2>1. [i \in 1..0 |-> i] = << >>
    OBVIOUS
  <2> QED BY <2>1, Pairs DEF SendsOn
<1>4. Stati = [Stati EXCEPT !["snd"] = "open"] /\ Stati["snd"] = "open"
  BY Pairs DEF Stati
<1>5. Pair(snd.written, 0)["snd"] = snd.written /\ Pair(NumWrites, 0)["snd"] = NumWrites
  BY Pairs
<1>6. Pair(<< >>, rcv.read)["snd"] = << >> /\ Pair(snd.written, 0)["rcv"] = 0 /\ Len(<< >>) = 0
  BY Pairs
<1>7. Promise!Writes("snd")
  BY <1>1, <1>2, <1>5 DEF Promise!Writes, Pair
<1>8. Promise!Reads("snd")
  <2>1. Promise!Other("snd") = "rcv"
    BY Others DEF Promise!Other, Both
  <2>2. 0 \in 0..0 /\ Promise!Stream(0) = [i \in 1..0 |-> i]
    BY DEF Promise!Stream
  <2> QED BY <1>3, <1>6, <2>1, <2>2 DEF Promise!Reads, Pair
<1> QED BY <1>4, <1>7, <1>8 DEF Promise!Talk, Stati, Pair

(* The receiver reads on in what was written.                              *)
LEMMA ReadsTalk ==
  ASSUME ReadsOn, NEW n \in Nat, Len(rcv.read) \in Nat, Len(rcv.read) <= n,
         snd.written \in Nat, n <= snd.written, rcv'.read = [i \in 1..n |-> i]
  PROVE  Promise!Talk("rcv")
<1>1. n \in Len(rcv.read)..snd.written
  OBVIOUS
<1>2. Pair(snd'.written, 0) = [Pair(snd.written, 0) EXCEPT !["rcv"] = 0]
  BY Pairs DEF ReadsOn
<1>3. Pair(<< >>, rcv'.read) = [Pair(<< >>, rcv.read) EXCEPT !["rcv"] = [i \in 1..n |-> i]]
  BY Pairs
<1>4. Stati = [Stati EXCEPT !["rcv"] = "open"] /\ Stati["rcv"] = "open"
  BY Pairs DEF Stati
<1>5. Pair(snd.written, 0)["rcv"] = 0 /\ Pair(NumWrites, 0)["rcv"] = 0 /\ 0 \in 0..0
  BY Pairs
<1>6. Pair(<< >>, rcv.read)["rcv"] = rcv.read /\ Pair(snd.written, 0)["snd"] = snd.written
  BY Pairs
<1>7. Promise!Writes("rcv")
  BY <1>2, <1>5 DEF Promise!Writes, Pair
<1>8. Promise!Reads("rcv")
  <2>1. Promise!Other("rcv") = "snd"
    BY Others DEF Promise!Other, Both
  <2>2. Promise!Stream(n) = [i \in 1..n |-> i]
    BY DEF Promise!Stream
  <2> QED BY <1>1, <1>3, <1>6, <2>1, <2>2 DEF Promise!Reads, Pair
<1> QED BY <1>4, <1>7, <1>8 DEF Promise!Talk, Stati, Pair

LEMMA PromiseNext ==
  ASSUME NoWrap, Streaming, [Next]_vars
  PROVE  Promise!Next
<1>1. Safe /\ Faithful(snd, rcv, net, ack)
  BY StreamingFacts
<1>2. Faithful(snd', rcv', net', ack') /\ (SendsOn \/ ReadsOn)
  BY <1>1, NextFaithful
<1>3. /\ snd.written \in Nat
      /\ \E n \in Nat : n <= snd.written /\ rcv.read = [i \in 1..n |-> i] /\ Len(rcv.read) = n
  BY <1>1, ReadFacts
<1>4. /\ snd'.written \in Nat /\ snd'.written <= NumWrites
      /\ \E n \in Nat : n <= snd'.written /\ rcv'.read = [i \in 1..n |-> i] /\ Len(rcv'.read) = n
  BY <1>2, ReadFacts
<1>5. CASE SendsOn
  <2>1. Promise!Talk("snd")
    BY <1>3, <1>4, <1>5, SendsTalk
  <2> QED BY <2>1 DEF Promise!Next
<1>6. CASE ReadsOn
  <2>1. Promise!Talk("rcv")
    BY <1>3, <1>4, <1>6, ReadsTalk DEF ReadsOn
  <2> QED BY <2>1 DEF Promise!Next
<1> QED BY <1>2, <1>5, <1>6

(* Whatever the network loses, repeats and reorders, on_read is given the  *)
(* writes in order, none twice and none left out: through the rings as     *)
(* they grow and wrap, the EACKs read off them and the packets that        *)
(* write_outgoing_packet fills further before they are sent.               *)
THEOREM RingsCarryTheStream == NoWrap => (Spec => ReliableDelivery)
<1>1. ASSUME NoWrap PROVE Spec => ReliableDelivery
  <2>1. Spec => []Streaming
    BY <1>1, AlwaysStreaming
  <2>2. Init => Promise!Init
    BY PromiseInit
  <2> DEFINE w == Pair(snd.written, 0)
             d == Pair(<< >>, rcv.read)
  <2>3. Streaming /\ [Next]_vars => [Promise!Next]_<<w, d, Eofs, Stati>>
    BY <1>1, PromiseNext
  <2>4. Promise!Spec <=> Promise!Init /\ [][Promise!Next]_<<w, d, Eofs, Stati>>
    BY DEF Promise!Spec, Pair, Eofs, Stati
  <2> QED BY <2>1, <2>2, <2>3, <2>4, PTL DEF Spec, ReliableDelivery
<1> QED BY <1>1
=============================================================================
