-------------------------- MODULE UtpContext_proofs --------------------------
(***************************************************************************)
(* Proofs about a utp_context.  First its hash table: while its chains and *)
(* free list share its elements, additions, deletions, lookups and         *)
(* iterators do what a set of pairs of a key and a value would.  Then the  *)
(* table, the ack list, the cache and the iterators, which agree about the *)
(* sockets whatever is opened, sent, ended and deleted in whatever order,  *)
(* and implement the directory.                                            *)
(***************************************************************************)
EXTENDS UtpContext, FiniteSetTheorems, SequenceTheorems, TLAPS

LEMMA LeastOf == ASSUME NEW S \in SUBSET Nat, S # {}
                 PROVE Min(S) \in S /\ \A x \in S : Min(S) <= x
<1>1. PICK x \in S : \A y \in S : <<y, x>> \notin OpToRel(<, Nat)
  BY NatLessThanWellFounded, WFMin
<1>2. ASSUME NEW y \in S, y < x PROVE FALSE
  <2>1. <<y, x>> \in Nat \X Nat /\ <<y, x>>[1] < <<y, x>>[2]
    BY <1>2
  <2> QED BY <1>1, <2>1 DEF OpToRel
<1>3. \A y \in S : x <= y
  BY <1>2
<1> QED BY <1>3 DEF Min

LEMMA Interval == ASSUME NEW n \in Nat
                  PROVE /\ IsFiniteSet(1..n) /\ Cardinality(1..n) = n
                        /\ IsFiniteSet(0..n-1) /\ Cardinality(0..n-1) = n
<1>1. 0 \in Int /\ 1 \in Int /\ n \in Int /\ n - 1 \in Int
  OBVIOUS
<1>2. IsFiniteSet(1..n) /\ Cardinality(1..n) = IF 1 > n THEN 0 ELSE n - 1 + 1
  BY <1>1, FS_Interval
<1>3. IsFiniteSet(0..n-1) /\ Cardinality(0..n-1) = IF 0 > n - 1 THEN 0 ELSE n - 1 - 0 + 1
  BY <1>1, FS_Interval
<1> QED BY <1>2, <1>3

-----------------------------------------------------------------------------
(* Paths                                                                   *)

Elements(hash) == 0..hash.used-1

Links(hash) == Elements(hash) \cup {UNUSED}

(* The links lead from a link on along the elements of a sequence, once to *)
(* each, and then to nothing.                                              *)
Path(hash, p, link) ==
  /\ p \in Seq(Elements(hash)) /\ IsInjective(p)
  /\ link = IF p = << >> THEN UNUSED ELSE p[1]
  /\ \A k \in 1..Len(p) :
       hash.elems[p[k]].link = IF k < Len(p) THEN p[k + 1] ELSE UNUSED

LEMMA PathLength == ASSUME NEW hash, hash.used \in Nat, NEW p, NEW link, Path(hash, p, link)
                    PROVE Len(p) <= hash.used
<1> DEFINE S == 1..Len(p)
           T == Elements(hash)
<1>1. Len(p) \in Nat /\ p \in [S -> T] /\ \A x, y \in S : p[x] = p[y] => x = y
  BY DEF Path, IsInjective
<1>2. IsFiniteSet(S) /\ Cardinality(S) = Len(p)
  BY <1>1, Interval
<1>3. IsFiniteSet(T) /\ Cardinality(T) = hash.used
  BY Interval DEF Elements
<1>4. p \in [S -> T] /\ ~ \E x, y \in S : x # y /\ p[x] = p[y]
  BY <1>1
<1> HIDE DEF S, T
<1>5. ASSUME Cardinality(T) < Cardinality(S) PROVE FALSE
  BY <1>2, <1>3, <1>4, <1>5, FS_PigeonHole
<1> QED BY <1>1, <1>2, <1>3, <1>5

LEMMA PathElements == ASSUME NEW hash, NEW p, NEW link, Path(hash, p, link)
                      PROVE IsInjective(p) /\ ToSet(p) \subseteq Elements(hash)
<1>1. \A k \in DOMAIN p : p[k] \in Elements(hash)
  BY DEF Path
<1> QED BY <1>1 DEF Path, ToSet

(* Chain finds a path.                                                     *)
LEMMA ChainOfPath == ASSUME NEW hash, hash.used \in Nat, NEW p, NEW link, Path(hash, p, link)
                     PROVE Chain(hash, link) = p
<1> DEFINE N == 0..hash.used
           f == [n \in N |-> IF n < Len(p) THEN p[n + 1] ELSE UNUSED]
           Onward(g, n) == IF n = 0 THEN link
                         ELSE IF g[n - 1] = UNUSED THEN UNUSED ELSE hash.elems[g[n - 1]].link
<1>1. Len(p) \in Nat /\ Len(p) <= hash.used /\ \A k \in 1..Len(p) : p[k] \in Elements(hash)
  BY PathLength DEF Path
<1>2. \A k \in 1..Len(p) : p[k] # UNUSED
  BY <1>1 DEF Elements, UNUSED
<1>3. \A n \in N : f[n] = Onward(f, n)
  <2> TAKE n \in N
  <2>1. CASE n = 0
    BY <2>1, <1>1 DEF Path
  <2>2. CASE n > 0 /\ n - 1 < Len(p)
    <3>1. f[n - 1] = p[n] /\ n \in 1..Len(p)
      BY <2>2, <1>1
    <3>2. hash.elems[p[n]].link = IF n < Len(p) THEN p[n + 1] ELSE UNUSED
      BY <3>1 DEF Path
    <3> QED BY <3>1, <3>2, <1>2, <2>2
  <2>3. CASE n > 0 /\ ~(n - 1 < Len(p))
    BY <2>3, <1>1
  <2> QED BY <2>1, <2>2, <2>3
<1>4. f = [n \in N |-> Onward(f, n)]
  BY <1>3
<1> HIDE DEF f
<1>5. ASSUME NEW g, g = [n \in N |-> Onward(g, n)] PROVE g = f
  <2> DEFINE D == {n \in N : g[n] # f[n]}
  <2>1. ASSUME NEW n \in D, \A x \in D : n <= x PROVE FALSE
    <3>1. CASE n = 0
      BY <3>1, <2>1, <1>5, <1>3
    <3>2. CASE n > 0
      <4>1. n - 1 \in N /\ n - 1 \notin D
        BY <2>1, <3>2
      <4>2. g[n - 1] = f[n - 1]
        BY <4>1
      <4> QED BY <4>2, <2>1, <1>5, <1>3, <3>2
    <3> QED BY <3>1, <3>2
  <2>2. D \in SUBSET Nat
    OBVIOUS
  <2> HIDE DEF D
  <2>3. D = {}
    BY <2>1, <2>2, LeastOf
  <2>4. \A n \in N : g[n] = f[n]
    BY <2>3 DEF D
  <2> QED BY <2>4, <1>4, <1>5
<1>6. Walk(hash, link) = f
  BY <1>4, <1>5 DEF Walk
<1>7. {n \in DOMAIN f : f[n] # UNUSED} = 0..(Len(p) - 1)
  BY <1>1, <1>2 DEF f
<1>8. Cardinality(0..(Len(p) - 1)) = Len(p)
  BY <1>1, Interval
<1>9. Chain(hash, link) = [n \in 1..Len(p) |-> f[n - 1]]
  BY <1>6, <1>7, <1>8 DEF Chain
<1>10. \A n \in 1..Len(p) : f[n - 1] = p[n]
  BY <1>1 DEF f
<1> QED BY <1>9, <1>10 DEF Path

(* A path does not depend on the links of other elements.                  *)
LEMMA PathFrame ==
  ASSUME NEW hash, NEW h, NEW p, NEW link, Path(hash, p, link),
         hash.used \in Nat, h.used \in Nat, hash.used <= h.used,
         \A k \in 1..Len(p) : h.elems[p[k]].link = hash.elems[p[k]].link
  PROVE  Path(h, p, link)
<1>1. p \in Seq(Elements(h))
  BY DEF Path, Elements
<1>2. \A k \in 1..Len(p) : h.elems[p[k]].link = IF k < Len(p) THEN p[k + 1] ELSE UNUSED
  BY DEF Path
<1> QED BY <1>1, <1>2 DEF Path

(* A sequence with an element in front                                     *)
Pushed(e, p) == [k \in 1..Len(p) + 1 |-> IF k = 1 THEN e ELSE p[k - 1]]

LEMMA PathCons ==
  ASSUME NEW hash, NEW p, NEW link, Path(hash, p, link), hash.used \in Nat,
         NEW e \in Elements(hash), e \notin ToSet(p), hash.elems[e].link = link
  PROVE  Path(hash, Pushed(e, p), e) /\ ToSet(Pushed(e, p)) = ToSet(p) \cup {e}
<1> DEFINE q == Pushed(e, p)
<1>1. Len(p) \in Nat /\ p \in [1..Len(p) -> Elements(hash)] /\ \A k \in 1..Len(p) : p[k] # e
  BY DEF Path, ToSet
<1>2. DOMAIN q = 1..Len(p) + 1 /\ q[1] = e /\ \A k \in 1..Len(p) + 1 : k # 1 => q[k] = p[k - 1]
  BY <1>1 DEF Pushed
<1>3. q \in Seq(Elements(hash)) /\ Len(q) = Len(p) + 1
  BY <1>1 DEF Pushed
<1>4. \A k \in 1..Len(p) : q[k + 1] = p[k]
  BY <1>1, <1>2
<1> HIDE DEF q
<1>5. IsInjective(q)
  <2>1. ASSUME NEW x \in 1..Len(p) + 1, NEW y \in 1..Len(p) + 1, q[x] = q[y] PROVE x = y
    <3>1. CASE x = 1 \/ y = 1
      BY <3>1, <2>1, <1>1, <1>2
    <3>2. CASE x # 1 /\ y # 1
      <4>1. x - 1 \in 1..Len(p) /\ y - 1 \in 1..Len(p) /\ p[x - 1] = p[y - 1]
        BY <3>2, <2>1, <1>1, <1>2
      <4> QED BY <4>1 DEF Path, IsInjective
    <3> QED BY <3>1, <3>2
  <2> QED BY <2>1, <1>2 DEF IsInjective
<1>6. ASSUME NEW k \in 1..Len(q)
      PROVE hash.elems[q[k]].link = IF k < Len(q) THEN q[k + 1] ELSE UNUSED
  <2>1. CASE k = 1
    <3>1. link = IF Len(p) = 0 THEN UNUSED ELSE p[1]
      BY <1>1 DEF Path
    <3> QED BY <2>1, <3>1, <1>1, <1>2, <1>3, <1>4
  <2>2. CASE k # 1
    <3>1. k - 1 \in 1..Len(p) /\ q[k] = p[k - 1]
      BY <2>2, <1>1, <1>2, <1>3
    <3>2. hash.elems[p[k - 1]].link = IF k - 1 < Len(p) THEN p[k - 1 + 1] ELSE UNUSED
      BY <3>1 DEF Path
    <3>3. k < Len(q) => q[k + 1] = p[k]
      BY <1>1, <1>3, <1>4
    <3> QED BY <3>1, <3>2, <3>3, <1>1, <1>3
  <2> QED BY <2>1, <2>2
<1>7. Path(hash, q, e)
  <2>1. q # << >>
    BY <1>3, <1>1
  <2> QED BY <2>1, <1>2, <1>3, <1>5, <1>6 DEF Path
<1>8. ToSet(q) = ToSet(p) \cup {e}
  <2>1. ASSUME NEW x \in ToSet(q) PROVE x \in ToSet(p) \cup {e}
    <3>1. PICK k \in 1..Len(p) + 1 : x = q[k]
      BY <1>2 DEF ToSet
    <3>2. k # 1 => k - 1 \in 1..Len(p) /\ x = p[k - 1]
      BY <3>1, <1>1, <1>2
    <3>3. DOMAIN p = 1..Len(p)
      BY <1>1
    <3> QED BY <3>1, <3>2, <3>3, <1>2 DEF ToSet
  <2>2. ASSUME NEW x \in ToSet(p) PROVE x \in ToSet(q)
    <3>1. PICK k \in 1..Len(p) : x = p[k]
      BY <1>1 DEF ToSet
    <3>2. k + 1 \in 1..Len(p) + 1 /\ q[k + 1] = x
      BY <3>1, <1>1, <1>4
    <3> QED BY <3>2, <1>2 DEF ToSet
  <2>3. e \in ToSet(q)
    BY <1>1, <1>2 DEF ToSet
  <2> QED BY <2>1, <2>2, <2>3
<1> QED BY <1>7, <1>8 DEF q

(* A sequence without its k-th element                                     *)
Cut(p, k) == [j \in 1..Len(p) - 1 |-> IF j < k THEN p[j] ELSE p[j + 1]]

(* The links of a second table skip it.                                    *)
Skips(hash, h, p, k, link, first) ==
  /\ h.used = hash.used
  /\ \A j \in 1..Len(p) : j # k /\ j + 1 # k => h.elems[p[j]].link = hash.elems[p[j]].link
  /\ k > 1 => h.elems[p[k - 1]].link = hash.elems[p[k]].link
  /\ first = IF k = 1 THEN hash.elems[p[k]].link ELSE link

LEMMA PathCut ==
  ASSUME NEW hash, NEW h, NEW p, NEW link, NEW first, Path(hash, p, link),
         hash.used \in Nat, NEW k \in DOMAIN p, Skips(hash, h, p, k, link, first)
  PROVE  Path(h, Cut(p, k), first) /\ ToSet(Cut(p, k)) = ToSet(p) \ {p[k]}
<1> DEFINE q == Cut(p, k)
           n == Len(p) - 1
<1>1. n \in Nat /\ Len(p) = n + 1 /\ p \in [1..n + 1 -> Elements(hash)] /\ k \in 1..n + 1
  BY DEF Path
<1>2. \A x, y \in 1..n + 1 : p[x] = p[y] => x = y
  BY <1>1 DEF Path, IsInjective
<1>3. \A j \in 1..n + 1 : hash.elems[p[j]].link = IF j < n + 1 THEN p[j + 1] ELSE UNUSED
  BY <1>1 DEF Path
<1>4. link = p[1] /\ h.used = hash.used /\ first = IF k = 1 THEN hash.elems[p[k]].link ELSE link
  BY <1>1 DEF Path, Skips
<1>5. /\ \A j \in 1..n + 1 : j # k /\ j + 1 # k => h.elems[p[j]].link = hash.elems[p[j]].link
      /\ k > 1 => h.elems[p[k - 1]].link = hash.elems[p[k]].link
  BY <1>1 DEF Skips
<1>6. q = [j \in 1..n |-> IF j < k THEN p[j] ELSE p[j + 1]]
  BY DEF Cut
<1> HIDE DEF q, n
<1>7. DOMAIN q = 1..n /\ \A j \in 1..n : q[j] = IF j < k THEN p[j] ELSE p[j + 1]
  BY <1>6
<1>8. q \in Seq(Elements(h)) /\ Len(q) = n
  BY <1>1, <1>4, <1>6 DEF Elements
<1>9. IsInjective(q)
  <2>1. ASSUME NEW x \in 1..n, NEW y \in 1..n, q[x] = q[y] PROVE x = y
    <3>1. /\ x \in 1..n + 1 /\ x + 1 \in 1..n + 1
          /\ y \in 1..n + 1 /\ y + 1 \in 1..n + 1
      BY <1>1
    <3>2. CASE x < k /\ y < k
      BY <3>2, <3>1, <2>1, <1>7, <1>2
    <3>3. CASE x < k /\ ~(y < k)
      <4>1. p[x] = p[y + 1]
        BY <3>3, <2>1, <1>7
      <4> QED BY <4>1, <3>1, <3>3, <1>2, <1>1
    <3>4. CASE ~(x < k) /\ y < k
      <4>1. p[x + 1] = p[y]
        BY <3>4, <2>1, <1>7
      <4> QED BY <4>1, <3>1, <3>4, <1>2, <1>1
    <3>5. CASE ~(x < k) /\ ~(y < k)
      <4>1. p[x + 1] = p[y + 1]
        BY <3>5, <2>1, <1>7
      <4>2. x + 1 = y + 1
        BY <4>1, <3>1, <1>2
      <4> QED BY <4>2, <1>1
    <3> QED BY <3>2, <3>3, <3>4, <3>5
  <2> QED BY <2>1, <1>7 DEF IsInjective
<1>10. first = IF q = << >> THEN UNUSED ELSE q[1]
  <2>1. CASE n = 0
    <3>1. q = << >> /\ k = 1
      BY <2>1, <1>8, <1>1
    <3> QED BY <3>1, <2>1, <1>1, <1>3, <1>4
  <2>2. CASE n # 0 /\ k = 1
    <3>1. q # << >> /\ q[1] = p[2]
      BY <2>2, <1>1, <1>7, <1>8
    <3> QED BY <3>1, <2>2, <1>1, <1>3, <1>4
  <2>3. CASE n # 0 /\ k # 1
    <3>1. q # << >> /\ q[1] = p[1]
      BY <2>3, <1>1, <1>7, <1>8
    <3> QED BY <3>1, <2>3, <1>4
  <2> QED BY <2>1, <2>2, <2>3
<1>11. ASSUME NEW j \in 1..n
       PROVE h.elems[q[j]].link = IF j < n THEN q[j + 1] ELSE UNUSED
  <2>1. j < n => q[j + 1] = IF j + 1 < k THEN p[j + 1] ELSE p[j + 2]
    <3>1. j < n => j + 1 \in 1..n /\ j + 1 + 1 = j + 2
      BY <1>1
    <3> QED BY <3>1, <1>7
  <2>2. CASE j + 1 < k
    <3>1. q[j] = p[j] /\ j < n /\ j \in 1..n + 1 /\ j # k /\ j + 1 # k
      BY <2>2, <1>1, <1>7
    <3>2. h.elems[p[j]].link = p[j + 1]
      BY <3>1, <1>1, <1>3, <1>5
    <3> QED BY <3>1, <3>2, <2>1, <2>2
  <2>3. CASE j + 1 = k
    <3>1. q[j] = p[j] /\ k > 1 /\ j = k - 1
      BY <2>3, <1>1, <1>7
    <3>2. h.elems[p[j]].link = IF k < n + 1 THEN p[k + 1] ELSE UNUSED
      BY <3>1, <1>1, <1>3, <1>5
    <3> QED BY <3>1, <3>2, <2>1, <2>3, <1>1
  <2>4. CASE j + 1 > k
    <3>1. q[j] = p[j + 1] /\ j + 1 \in 1..n + 1 /\ j + 1 # k /\ j + 1 + 1 # k
      BY <2>4, <1>1, <1>7
    <3>2. h.elems[p[j + 1]].link = IF j + 1 < n + 1 THEN p[j + 2] ELSE UNUSED
      <4>1. hash.elems[p[j + 1]].link = IF j + 1 < n + 1 THEN p[j + 1 + 1] ELSE UNUSED
        BY <3>1, <1>3
      <4> QED BY <4>1, <3>1, <1>5
    <3> QED BY <3>1, <3>2, <2>1, <2>4, <1>1
  <2> QED BY <2>2, <2>3, <2>4, <1>1
<1>12. Path(h, q, first)
  BY <1>8, <1>9, <1>10, <1>11 DEF Path
<1>13. ToSet(q) = ToSet(p) \ {p[k]}
  <2>1. ASSUME NEW x \in ToSet(q) PROVE x \in ToSet(p) \ {p[k]}
    <3>1. PICK j \in 1..n : x = q[j]
      BY <1>7 DEF ToSet
    <3>2. PICK l \in 1..n + 1 : x = p[l] /\ l # k
      <4>1. CASE j < k
        BY <4>1, <3>1, <1>1, <1>7
      <4>2. CASE ~(j < k)
        <5>1. j + 1 \in 1..n + 1 /\ j + 1 # k /\ x = p[j + 1]
          BY <4>2, <3>1, <1>1, <1>7
        <5> QED BY <5>1
      <4> QED BY <4>1, <4>2
    <3> QED BY <3>2, <1>1, <1>2 DEF ToSet
  <2>2. ASSUME NEW x \in ToSet(p), x # p[k] PROVE x \in ToSet(q)
    <3>1. PICK l \in 1..n + 1 : x = p[l]
      BY <1>1 DEF ToSet
    <3>2. l # k
      BY <3>1, <2>2
    <3>3. PICK j \in 1..n : x = q[j]
      <4>1. CASE l < k
        <5>1. l \in 1..n /\ q[l] = x
          BY <4>1, <3>1, <1>1, <1>7
        <5> QED BY <5>1
      <4>2. CASE l > k
        <5>1. l - 1 \in 1..n /\ ~(l - 1 < k) /\ l - 1 + 1 = l
          BY <4>2, <1>1
        <5>2. q[l - 1] = x
          BY <5>1, <3>1, <1>7
        <5> QED BY <5>1, <5>2
      <4> QED BY <4>1, <4>2, <3>2, <1>1
    <3> QED BY <3>3, <1>7 DEF ToSet
  <2> QED BY <2>1, <2>2
<1> QED BY <1>12, <1>13 DEF q

-----------------------------------------------------------------------------
(* Tables whose elements are split among the chains and the free list      *)

IsTable(hash, Values) ==
  hash \in [inits: [0..Buckets-1 -> Links(hash)],
            elems: [Elements(hash) -> [key: Nat, value: Values, link: Links(hash)]],
            used: Nat, allocated: Nat \ {0}, free: Links(hash), count: Nat]

(* Each bucket has its list, and there is a free list; each element is in  *)
(* the list of its key's bucket or in the free list.                       *)
Split(hash, lists, freed) ==
  /\ \A b \in 0..Buckets-1 :
       /\ Path(hash, lists[b], hash.inits[b])
       /\ \A e \in ToSet(lists[b]) : Idx(hash.elems[e].key) = b /\ e \notin ToSet(freed)
  /\ Path(hash, freed, hash.free)
  /\ \A e \in Elements(hash) : e \in ToSet(freed) \/ e \in ToSet(lists[Idx(hash.elems[e].key)])

(* The elements in use                                                     *)
Linked(hash) == Elements(hash) \ ToSet(Chain(hash, hash.free))

Intact(hash, Values) ==
  /\ IsTable(hash, Values) /\ hash.used <= hash.allocated
  /\ \E lists, freed : Split(hash, lists, freed)
  /\ hash.count = Cardinality(Linked(hash))

LEMMA IdxIsBucket == \A key \in Nat : Idx(key) \in 0..Buckets-1
<1>1. Buckets \in Nat \ {0}
  BY TableAssumption
<1> QED BY <1>1 DEF Idx

LEMMA SplitChains ==
  ASSUME NEW hash, NEW Values, IsTable(hash, Values), NEW lists, NEW freed,
         Split(hash, lists, freed)
  PROVE  /\ Chain(hash, hash.free) = freed
         /\ \A b \in 0..Buckets-1 : Bucket(hash, b) = lists[b]
<1>1. hash.used \in Nat
  BY DEF IsTable
<1>2. Chain(hash, hash.free) = freed
  BY <1>1, ChainOfPath DEF Split
<1>3. \A b \in 0..Buckets-1 : Path(hash, lists[b], hash.inits[b])
  BY DEF Split
<1>4. \A b \in 0..Buckets-1 : Chain(hash, hash.inits[b]) = lists[b]
  BY <1>1, <1>3, ChainOfPath
<1> QED BY <1>2, <1>4 DEF Bucket

(* The lists an intact table is split into are those that Chain finds.     *)
LEMMA IntactSplit ==
  ASSUME NEW hash, NEW Values, Intact(hash, Values)
  PROVE  /\ \A b \in 0..Buckets-1 :
              /\ Path(hash, Bucket(hash, b), hash.inits[b])
              /\ \A e \in ToSet(Bucket(hash, b)) : e \in Linked(hash) /\ Idx(hash.elems[e].key) = b
         /\ Path(hash, Chain(hash, hash.free), hash.free)
         /\ \A e \in Linked(hash) : /\ Idx(hash.elems[e].key) \in 0..Buckets-1
                                    /\ e \in ToSet(Bucket(hash, Idx(hash.elems[e].key)))
<1>1. PICK lists, freed : Split(hash, lists, freed)
  BY DEF Intact
<1>2. IsTable(hash, Values)
  BY DEF Intact
<1>3. Chain(hash, hash.free) = freed /\ \A b \in 0..Buckets-1 : Bucket(hash, b) = lists[b]
  BY <1>1, <1>2, SplitChains
<1>4. \A b \in 0..Buckets-1 : Path(hash, lists[b], hash.inits[b]) /\ ToSet(lists[b]) \subseteq Elements(hash)
  BY <1>1 DEF Split, Path, ToSet
<1>5. \A e \in Linked(hash) : /\ Idx(hash.elems[e].key) \in 0..Buckets-1
                              /\ e \in ToSet(lists[Idx(hash.elems[e].key)])
  <2> TAKE e \in Linked(hash)
  <2>1. e \in Elements(hash) /\ e \notin ToSet(freed)
    BY <1>3 DEF Linked
  <2>2. hash.elems[e].key \in Nat
    BY <1>2, <2>1 DEF IsTable
  <2> QED BY <2>1, <2>2, <1>1, IdxIsBucket DEF Split
<1>6. Path(hash, freed, hash.free)
  BY <1>1 DEF Split
<1>7. \A b \in 0..Buckets-1 : \A e \in ToSet(lists[b]) : e \in Linked(hash) /\ Idx(hash.elems[e].key) = b
  BY <1>1, <1>3, <1>4 DEF Split, Linked
<1> QED BY <1>3, <1>4, <1>5, <1>6, <1>7

LEMMA LinkedFinite ==
  ASSUME NEW hash, NEW Values, IsTable(hash, Values)
  PROVE  IsFiniteSet(Linked(hash)) /\ Cardinality(Linked(hash)) \in Nat
<1>1. IsFiniteSet(Elements(hash))
  BY Interval DEF IsTable, Elements
<1>2. Linked(hash) \in SUBSET Elements(hash)
  BY DEF Linked
<1>3. IsFiniteSet(Linked(hash))
  BY <1>1, <1>2, FS_Subset
<1> QED BY <1>3, FS_CardinalityType

(* An intact table is well linked.                                         *)
LEMMA IntactIsWellLinked ==
  ASSUME NEW hash, NEW Values, Intact(hash, Values)
  PROVE  WellLinked(hash)
<1> DEFINE lists == [b \in DOMAIN hash.inits |-> Bucket(hash, b)]
           linked == UNION {ToSet(lists[b]) : b \in DOMAIN lists}
           freed == Chain(hash, hash.free)
<1>1. DOMAIN hash.inits = 0..Buckets-1 /\ DOMAIN hash.elems = 0..hash.used-1
  BY DEF Intact, IsTable, Elements
<1>2. linked = Linked(hash)
  <2>1. linked \subseteq Linked(hash)
    BY <1>1, IntactSplit
  <2>2. Linked(hash) \subseteq linked
    BY <1>1, IntactSplit
  <2> QED BY <2>1, <2>2
<1>3. \A b \in DOMAIN lists :
        IsInjective(lists[b]) /\ \A e \in ToSet(lists[b]) : Idx(hash.elems[e].key) = b
  BY <1>1, IntactSplit DEF Path
<1>4. IsInjective(freed) /\ ToSet(freed) \subseteq 0..hash.used-1
  <2>1. Path(hash, freed, hash.free)
    BY IntactSplit
  <2> HIDE DEF freed
  <2> QED BY <2>1, PathElements DEF Elements
<1>5. hash.used <= hash.allocated /\ hash.count = Cardinality(Linked(hash))
  BY DEF Intact
<1>6. Linked(hash) \cup ToSet(freed) = 0..hash.used-1 /\ Linked(hash) \cap ToSet(freed) = {}
  BY <1>4 DEF Linked, Elements
<1> HIDE DEF linked, freed, lists
<1>7. /\ linked \cup ToSet(freed) = 0..hash.used-1 /\ linked \cap ToSet(freed) = {}
      /\ hash.count = Cardinality(linked)
  BY <1>2, <1>5, <1>6
<1> QED BY <1>1, <1>3, <1>4, <1>5, <1>7 DEF WellLinked, lists, linked, freed

LEMMA EmptyIsIntact ==
  ASSUME NEW Values
  PROVE  Intact(EmptyTable, Values) /\ Linked(EmptyTable) = {}
<1> DEFINE h == EmptyTable
           lists == [b \in 0..Buckets-1 |-> << >>]
<1>1. h.used = 0 /\ h.allocated = Allocated /\ h.free = UNUSED /\ h.count = 0
  BY DEF EmptyTable
<1>2. Elements(h) = {}
  BY <1>1 DEF Elements
<1>3. IsTable(h, Values) /\ h.inits = [b \in 0..Buckets-1 |-> UNUSED]
  BY <1>1, <1>2, TableAssumption DEF EmptyTable, IsTable, Links
<1>4. Path(h, << >>, UNUSED)
  BY DEF Path, IsInjective
<1>5. Split(h, lists, << >>)
  BY <1>1, <1>2, <1>3, <1>4 DEF Split, ToSet
<1>6. Linked(h) = {}
  BY <1>2 DEF Linked
<1>7. Cardinality({}) = 0
  BY FS_EmptySet
<1> QED BY <1>1, <1>3, <1>5, <1>6, <1>7, TableAssumption DEF Intact

(* Add puts one more element in use, with the key and the value.           *)
NewElem(hash) == IF hash.free = UNUSED THEN hash.used ELSE hash.free

LEMMA AddIntact ==
  ASSUME NEW hash, NEW Values, Intact(hash, Values), NEW key \in Nat, NEW value \in Values
  PROVE  LET h == Add(hash, key, value)
             e == NewElem(hash)
         IN  /\ Intact(h, Values)
             /\ e \notin Linked(hash) /\ Linked(h) = Linked(hash) \cup {e}
             /\ h.elems[e].key = key /\ h.elems[e].value = value
             /\ \A x \in Linked(hash) : h.elems[x] = hash.elems[x]
             /\ h.used \in Nat /\ hash.used <= h.used
<1> DEFINE h == Add(hash, key, value)
           e == NewElem(hash)
           b == Idx(key)
           freed == Chain(hash, hash.free)
           lists == [c \in 0..Buckets-1 |-> Bucket(hash, c)]
           lists2 == [lists EXCEPT ![b] = Pushed(e, lists[b])]
           freed2 == IF freed = << >> THEN << >> ELSE Cut(freed, 1)
<1>1. IsTable(hash, Values) /\ hash.used <= hash.allocated
  BY DEF Intact
<1>2. hash.used \in Nat /\ b \in 0..Buckets-1
  BY <1>1, IdxIsBucket DEF IsTable
<1>3. Path(hash, freed, hash.free)
  BY IntactSplit
<1>4. e \notin Linked(hash)
  <2>1. CASE freed = << >>
    <3>1. hash.free = UNUSED
      BY <2>1, <1>3 DEF Path
    <3> QED BY <3>1, <1>2 DEF NewElem, Linked, Elements
  <2>2. CASE freed # << >>
    <3>1. hash.free = freed[1] /\ 1 \in DOMAIN freed /\ freed \in Seq(Elements(hash))
      BY <2>2, <1>3 DEF Path
    <3>2. hash.free # UNUSED
      BY <3>1, <1>2 DEF Elements, UNUSED
    <3> QED BY <3>1, <3>2 DEF NewElem, Linked, ToSet
  <2> QED BY <2>1, <2>2
<1>5. /\ h.used = IF e = hash.used THEN hash.used + 1 ELSE hash.used
      /\ h.allocated = IF e = hash.allocated THEN 2 * hash.allocated ELSE hash.allocated
      /\ h.free = IF hash.free = UNUSED THEN UNUSED ELSE hash.elems[hash.free].link
      /\ h.elems = [j \in DOMAIN hash.elems \cup {e} |->
                      IF j = e THEN [key |-> key, value |-> value, link |-> hash.inits[b]]
                      ELSE hash.elems[j]]
      /\ h.inits = [hash.inits EXCEPT ![b] = e] /\ h.count = hash.count + 1
      /\ h = [inits |-> h.inits, elems |-> h.elems, used |-> h.used, allocated |-> h.allocated,
              free |-> h.free, count |-> h.count]
  <2> DEFINE elem == [key |-> key, value |-> value, link |-> hash.inits[b]]
             allocated == IF e = hash.allocated THEN 2 * hash.allocated ELSE hash.allocated
             used == IF e = hash.used THEN hash.used + 1 ELSE hash.used
             free == IF hash.free = UNUSED THEN UNUSED ELSE hash.elems[hash.free].link
             elems == [j \in DOMAIN hash.elems \cup {e} |-> IF j = e THEN elem ELSE hash.elems[j]]
             inits == [hash.inits EXCEPT ![b] = e]
  <2>1. hash = [inits |-> hash.inits, elems |-> hash.elems, used |-> hash.used,
                allocated |-> hash.allocated, free |-> hash.free, count |-> hash.count]
    BY <1>1 DEF IsTable
  <2>2. h = [hash EXCEPT !.allocated = allocated, !.used = used, !.free = free,
                         !.elems = elems, !.inits = inits, !.count = hash.count + 1]
    BY Zenon DEF Add, NewElem
  <2> HIDE DEF h, allocated, used, free, elems, inits
  <2>3. h = [inits |-> inits, elems |-> elems, used |-> used, allocated |-> allocated,
             free |-> free, count |-> hash.count + 1]
    BY <2>1, <2>2
  <2> QED BY <2>3 DEF allocated, used, free, elems, inits
<1> HIDE DEF h
<1>6. /\ e \in Elements(hash) \/ e = hash.used
      /\ hash.free = UNUSED <=> e = hash.used
      /\ hash.free # UNUSED => e = hash.free
  <2>1. hash.free \in Elements(hash) \cup {UNUSED}
    BY <1>1 DEF IsTable, Links
  <2> QED BY <2>1, <1>2 DEF NewElem, Elements, UNUSED
<1>7. /\ h.used \in Nat /\ hash.used <= h.used /\ Elements(h) = Elements(hash) \cup {e}
      /\ e \in Elements(h)
  BY <1>2, <1>5, <1>6 DEF Elements
<1> HIDE DEF e
<1>8. /\ DOMAIN hash.elems = Elements(hash)
      /\ \A x \in Elements(hash) : x # e => h.elems[x] = hash.elems[x]
      /\ h.elems[e] = [key |-> key, value |-> value, link |-> hash.inits[b]]
  BY <1>1, <1>5 DEF IsTable
<1>9. IsTable(h, Values) /\ h.used <= h.allocated
  <2>1. Links(hash) \subseteq Links(h) /\ e \in Links(h)
    BY <1>7 DEF Links
  <2>2. h.elems \in [Elements(h) -> [key: Nat, value: Values, link: Links(h)]]
    <3>1. \A x \in Elements(hash) : hash.elems[x] \in [key: Nat, value: Values, link: Links(h)]
      BY <1>1, <2>1 DEF IsTable
    <3>2. hash.inits[b] \in Links(h)
      BY <1>1, <1>2, <2>1 DEF IsTable
    <3> QED BY <1>5, <1>7, <1>8, <3>1, <3>2
  <2>3. h.inits \in [0..Buckets-1 -> Links(h)]
    BY <1>1, <1>2, <1>5, <2>1 DEF IsTable
  <2>4. h.free \in Links(h)
    <3>1. hash.free # UNUSED => hash.elems[hash.free].link \in Links(hash)
      BY <1>1 DEF IsTable, Links
    <3>2. UNUSED \in Links(h)
      BY DEF Links
    <3> QED BY <3>1, <3>2, <2>1, <1>5
  <2>5. h.allocated \in Nat \ {0} /\ h.count \in Nat /\ h.used <= h.allocated
    <3>1. hash.allocated \in Nat \ {0} /\ hash.count \in Nat
      BY <1>1 DEF IsTable
    <3>2. e \in 0..hash.used
      BY <1>2, <1>6 DEF Elements
    <3> QED BY <3>1, <3>2, <1>1, <1>2, <1>5
  <2> QED BY <2>2, <2>3, <2>4, <2>5, <1>5, <1>7 DEF IsTable
<1>10. Path(h, freed2, h.free) /\ ToSet(freed2) = ToSet(freed) \ {e}
  <2>1. CASE freed = << >>
    <3>1. hash.free = UNUSED
      BY <2>1, <1>3 DEF Path
    <3>2. Path(h, << >>, UNUSED)
      BY DEF Path, IsInjective
    <3> QED BY <2>1, <3>1, <3>2, <1>5 DEF ToSet
  <2>2. CASE freed # << >>
    <3>1. /\ hash.free = freed[1] /\ freed \in Seq(Elements(hash)) /\ 1 \in 1..Len(freed)
          /\ DOMAIN freed = 1..Len(freed) /\ \A k \in DOMAIN freed : freed[k] \in Elements(hash)
      BY <2>2, <1>3 DEF Path
    <3>2. hash.free # UNUSED /\ e = freed[1] /\ e # hash.used
      BY <3>1, <1>2, <1>6 DEF Elements, UNUSED
    <3>3. h.free = hash.elems[freed[1]].link /\ h.used = hash.used
      BY <3>1, <3>2, <1>5
    <3>4. PICK n \in DOMAIN freed : n = 1
      BY <3>1
    <3>5. \A j \in 1..Len(freed) : j # n /\ j + 1 # n => h.elems[freed[j]].link = hash.elems[freed[j]].link
      <4>1. \A j \in 1..Len(freed) : j # 1 => freed[j] # e
        BY <3>1, <3>2, <1>3 DEF Path, IsInjective
      <4> QED BY <4>1, <3>1, <3>4, <1>8
    <3>6. n > 1 => h.elems[freed[n - 1]].link = hash.elems[freed[n]].link
      BY <3>4
    <3>7. Skips(hash, h, freed, n, hash.free, h.free)
      BY <3>3, <3>4, <3>5, <3>6 DEF Skips
    <3> HIDE DEF freed
    <3>8. Path(h, Cut(freed, n), h.free) /\ ToSet(Cut(freed, n)) = ToSet(freed) \ {freed[n]}
      BY <1>2, <1>3, <3>7, PathCut
    <3> QED BY <3>2, <3>4, <3>8, <2>2
  <2> QED BY <2>1, <2>2
<1>11. \A c \in 0..Buckets-1 :
         /\ Path(hash, lists[c], hash.inits[c]) /\ ToSet(lists[c]) \subseteq Linked(hash)
         /\ \A x \in ToSet(lists[c]) : Idx(hash.elems[x].key) = c
  BY IntactSplit
<1>12. \A x \in Linked(hash) : x \in Elements(hash) /\ x # e /\ x \notin ToSet(freed)
  BY <1>4 DEF Linked
<1> HIDE DEF freed, freed2
<1>13. \A c \in 0..Buckets-1 : Path(h, lists[c], hash.inits[c])
  <2> TAKE c \in 0..Buckets-1
  <2> DEFINE p == lists[c]
             link == hash.inits[c]
  <2>1. Path(hash, p, link) /\ ToSet(p) \subseteq Linked(hash)
    BY <1>11
  <2> HIDE DEF p, link
  <2>2. \A k \in 1..Len(p) : p[k] \in ToSet(p)
    BY <2>1 DEF Path, ToSet
  <2>3. \A k \in 1..Len(p) : h.elems[p[k]].link = hash.elems[p[k]].link
    BY <2>1, <2>2, <1>8, <1>12
  <2>4. Path(h, p, link)
    BY <2>1, <2>3, <1>2, <1>7, PathFrame
  <2> QED BY <2>4 DEF p, link
<1>14. Path(h, Pushed(e, lists[b]), e) /\ ToSet(Pushed(e, lists[b])) = ToSet(lists[b]) \cup {e}
  <2> DEFINE p == lists[b]
             link == hash.inits[b]
  <2>1. Path(h, p, link) /\ e \notin ToSet(p) /\ h.elems[e].link = link
    BY <1>2, <1>13, <1>11, <1>12, <1>8
  <2> HIDE DEF p, link
  <2>2. Path(h, Pushed(e, p), e) /\ ToSet(Pushed(e, p)) = ToSet(p) \cup {e}
    BY <2>1, <1>7, PathCons
  <2> QED BY <2>2 DEF p
<1> HIDE DEF lists
<1>15. DOMAIN lists = 0..Buckets-1
  BY DEF lists
<1>16. lists2[b] = Pushed(e, lists[b]) /\ \A c \in 0..Buckets-1 : c # b => lists2[c] = lists[c]
  BY <1>2, <1>15
<1> HIDE DEF lists2
<1>17. h.inits[b] = e /\ \A c \in 0..Buckets-1 : c # b => h.inits[c] = hash.inits[c]
  BY <1>1, <1>2, <1>5 DEF IsTable
<1>18. h.elems[e].key = key /\ Idx(h.elems[e].key) = b
  BY <1>8
<1>19. Split(h, lists2, freed2)
  <2>1. ASSUME NEW c \in 0..Buckets-1
        PROVE /\ Path(h, lists2[c], h.inits[c])
              /\ \A x \in ToSet(lists2[c]) : Idx(h.elems[x].key) = c /\ x \notin ToSet(freed2)
    <3>1. \A x \in ToSet(lists[c]) : Idx(h.elems[x].key) = c /\ x \notin ToSet(freed2)
      BY <1>11, <1>12, <1>8, <1>10
    <3>2. CASE c = b
      BY <3>1, <3>2, <1>10, <1>14, <1>16, <1>17, <1>18
    <3>3. CASE c # b
      BY <3>1, <3>3, <1>13, <1>16, <1>17
    <3> QED BY <3>2, <3>3
  <2>2. ASSUME NEW x \in Elements(h)
        PROVE x \in ToSet(freed2) \/ x \in ToSet(lists2[Idx(h.elems[x].key)])
    <3>1. CASE x = e
      BY <3>1, <1>14, <1>16, <1>18
    <3>2. CASE x # e
      <4>1. x \in Elements(hash) /\ h.elems[x] = hash.elems[x]
        BY <3>2, <1>7, <1>8
      <4>2. CASE x \in ToSet(freed)
        BY <4>2, <3>2, <1>10
      <4>3. CASE x \notin ToSet(freed)
        <5>1. x \in Linked(hash)
          BY <4>1, <4>3 DEF Linked, freed
        <5>2. Idx(hash.elems[x].key) \in 0..Buckets-1 /\ x \in ToSet(lists[Idx(hash.elems[x].key)])
          BY <5>1, IntactSplit DEF lists
        <5> QED BY <5>2, <4>1, <1>14, <1>16
      <4> QED BY <4>2, <4>3
    <3> QED BY <3>1, <3>2
  <2> QED BY <2>1, <2>2, <1>10 DEF Split
<1>20. Linked(h) = Linked(hash) \cup {e}
  <2>1. Chain(h, h.free) = freed2
    BY <1>9, <1>19, SplitChains
  <2> QED BY <2>1, <1>7, <1>10, <1>4 DEF Linked, freed
<1>21. h.count = Cardinality(Linked(h))
  <2>1. IsFiniteSet(Linked(hash))
    BY <1>1, LinkedFinite
  <2>2. Cardinality(Linked(hash) \cup {e}) = Cardinality(Linked(hash)) + 1
    BY <2>1, <1>4, FS_AddElement DEF e
  <2> QED BY <2>2, <1>5, <1>20 DEF Intact
<1>22. Intact(h, Values)
  BY <1>9, <1>19, <1>21 DEF Intact
<1>23. \A x \in Linked(hash) : h.elems[x] = hash.elems[x]
  BY <1>8, <1>12
<1>24. h.elems[e].value = value
  BY <1>8
<1> QED BY <1>4, <1>7, <1>18, <1>20, <1>22, <1>23, <1>24 DEF h, e

(* Where a key is that one element in use has                              *)
LEMMA FoundPlace ==
  ASSUME NEW hash, NEW Values, Intact(hash, Values), NEW e \in Linked(hash),
         \A x \in Linked(hash) : hash.elems[x].key = hash.elems[e].key => x = e
  PROVE  LET key == hash.elems[e].key
             chain == Bucket(hash, Idx(key))
             n == Min(Found(hash, key))
         IN  /\ Found(hash, key) # {} /\ n \in DOMAIN chain /\ chain[n] = e
             /\ key \in Nat /\ Idx(key) \in 0..Buckets-1
<1> DEFINE key == hash.elems[e].key
           b == Idx(key)
           chain == Bucket(hash, b)
           found == Found(hash, key)
<1>1. b \in 0..Buckets-1 /\ e \in ToSet(chain) /\ ToSet(chain) \subseteq Linked(hash)
  BY IntactSplit
<1>2. PICK m \in DOMAIN chain : chain[m] = e
  BY <1>1 DEF ToSet
<1>3. found = {m}
  <2>1. \A k \in DOMAIN chain : chain[k] \in Linked(hash)
    BY <1>1 DEF ToSet
  <2>2. Path(hash, chain, hash.inits[b])
    BY <1>1, IntactSplit
  <2>3. IsInjective(chain)
    BY <2>2, PathElements
  <2> HIDE DEF chain
  <2>4. \A k \in DOMAIN chain : hash.elems[chain[k]].key = key <=> k = m
    BY <2>1, <2>3, <1>2 DEF IsInjective
  <2> QED BY <2>4, <1>2 DEF Found, chain
<1>4. DOMAIN chain \subseteq Nat
  <2>1. Path(hash, chain, hash.inits[b])
    BY <1>1, IntactSplit
  <2> HIDE DEF chain
  <2> QED BY <2>1 DEF Path
<1>5. Min(found) = m
  <2>1. found \in SUBSET Nat /\ found # {}
    BY <1>2, <1>3, <1>4
  <2> HIDE DEF found
  <2>2. Min(found) \in found
    BY <2>1, LeastOf
  <2> QED BY <2>2, <1>3
<1>6. key \in Nat
  BY DEF Intact, IsTable, Linked
<1> QED BY <1>1, <1>2, <1>3, <1>5, <1>6

(* Del takes the element of a key out of use.                              *)
LEMMA DelIntact ==
  ASSUME NEW hash, NEW Values, Intact(hash, Values), NEW e \in Linked(hash),
         \A x \in Linked(hash) : hash.elems[x].key = hash.elems[e].key => x = e
  PROVE  LET h == Del(hash, hash.elems[e].key)
         IN  /\ Intact(h, Values)
             /\ Linked(h) = Linked(hash) \ {e}
             /\ \A x \in Linked(h) :
                  /\ h.elems[x].key = hash.elems[x].key
                  /\ h.elems[x].value = hash.elems[x].value
                  /\ hash.elems[x].link # e => h.elems[x].link = hash.elems[x].link
             /\ h.used = hash.used
<1> DEFINE key == hash.elems[e].key
           h == Del(hash, key)
           b == Idx(key)
           chain == Bucket(hash, b)
           n == Min(Found(hash, key))
           after == hash.elems[e].link
           first == IF n = 1 THEN after ELSE hash.inits[b]
           freed == Chain(hash, hash.free)
           lists == [c \in 0..Buckets-1 |-> Bucket(hash, c)]
           lists2 == [lists EXCEPT ![b] = Cut(chain, n)]
           freed2 == Pushed(e, freed)
<1>1. IsTable(hash, Values) /\ hash.used \in Nat /\ hash.used <= hash.allocated
  BY DEF Intact, IsTable
<1>2. /\ Found(hash, key) # {} /\ n \in DOMAIN chain /\ chain[n] = e
      /\ b \in 0..Buckets-1
  BY FoundPlace
<1>3. \A c \in 0..Buckets-1 :
         /\ Path(hash, lists[c], hash.inits[c]) /\ ToSet(lists[c]) \subseteq Linked(hash)
         /\ \A x \in ToSet(lists[c]) : Idx(hash.elems[x].key) = c
  BY IntactSplit
<1>4. Path(hash, freed, hash.free)
  BY IntactSplit
<1>5. Path(hash, chain, hash.inits[b]) /\ lists[b] = chain
  BY <1>2, <1>3
<1>6. \A x \in Linked(hash) : x \in Elements(hash) /\ x \notin ToSet(freed)
  BY DEF Linked
<1> DEFINE prev == chain[n - 1]
<1>7. h = IF n = 1
          THEN [[hash EXCEPT !.elems[e].link = hash.free, !.free = e, !.count = @ - 1]
                  EXCEPT !.inits[b] = after]
          ELSE [[hash EXCEPT !.elems[e].link = hash.free, !.free = e, !.count = @ - 1]
                  EXCEPT !.elems[prev].link = after]
  BY <1>2 DEF Del
<1> HIDE DEF h, n, freed, chain, lists
<1>8. DOMAIN chain = 1..Len(chain) /\ Len(chain) \in Nat /\ \A k \in DOMAIN chain : chain[k] \in Elements(hash)
  BY <1>5 DEF Path
<1>9. n # 1 => prev \in Elements(hash) /\ prev # e /\ n - 1 \in DOMAIN chain /\ n > 1
  BY <1>2, <1>5, <1>8 DEF Path, IsInjective
<1> DEFINE elems == [x \in Elements(hash) |->
                       [hash.elems[x] EXCEPT !.link = IF x = e THEN hash.free
                                                      ELSE IF n # 1 /\ x = prev THEN after ELSE @]]
           inits == [hash.inits EXCEPT ![b] = first]
<1>10. /\ h.elems = elems /\ h.inits = inits /\ h.used = hash.used /\ h.free = e
       /\ h.count = hash.count - 1 /\ h.allocated = hash.allocated
       /\ h = [inits |-> inits, elems |-> elems, used |-> hash.used,
               allocated |-> hash.allocated, free |-> e, count |-> hash.count - 1]
  <2>1. /\ hash = [inits |-> hash.inits, elems |-> hash.elems, used |-> hash.used,
                   allocated |-> hash.allocated, free |-> hash.free, count |-> hash.count]
        /\ hash.elems \in [Elements(hash) -> [key: Nat, value: Values, link: Links(hash)]]
        /\ hash.inits \in [0..Buckets-1 -> Links(hash)]
    BY <1>1 DEF IsTable
  <2>2. CASE n = 1
    <3>1. h = [hash EXCEPT !.elems = [hash.elems EXCEPT ![e].link = hash.free],
                           !.free = e, !.count = hash.count - 1,
                           !.inits = [hash.inits EXCEPT ![b] = after]]
      BY <1>7, <2>1, <2>2
    <3>2. [hash.elems EXCEPT ![e].link = hash.free] = elems
      BY <2>1, <2>2
    <3>3. [hash.inits EXCEPT ![b] = after] = inits
      BY <2>2
    <3> HIDE DEF elems, inits
    <3> QED BY <3>1, <3>2, <3>3, <2>1
  <2>3. CASE n # 1
    <3>1. PICK ini, m, u, a, f, c : hash = [inits |-> ini, elems |-> m, used |-> u,
                                          allocated |-> a, free |-> f, count |-> c]
      BY <2>1
    <3>2. /\ hash.inits = ini /\ hash.elems = m /\ hash.used = u
          /\ hash.allocated = a /\ hash.free = f /\ hash.count = c
      BY <3>1
    <3> DEFINE m1 == [m EXCEPT ![e].link = f]
               m2 == [m1 EXCEPT ![prev].link = after]
               g == [hash EXCEPT !.elems[e].link = hash.free, !.free = e, !.count = @ - 1]
    <3>3. h = [g EXCEPT !.elems[prev].link = after]
      BY <1>7, <2>3
    <3>4. g = [hash EXCEPT !.elems = m1, !.free = e, !.count = c - 1]
      BY <3>2
    <3>5. m2 = elems
      <4>1. m \in [Elements(hash) -> [key: Nat, value: Values, link: Links(hash)]]
        BY <2>1, <3>2
      <4> QED BY <4>1, <3>2, <2>3, <1>9
    <3>6. hash.inits = inits
      BY <2>1, <2>3
    <3> HIDE DEF g, m1, prev, after, elems, inits
    <3>7. g = [inits |-> ini, elems |-> m1, used |-> u, allocated |-> a, free |-> e, count |-> c - 1]
      BY <3>1, <3>4
    <3>8. h = [inits |-> ini, elems |-> m2, used |-> u, allocated |-> a, free |-> e, count |-> c - 1]
      BY <3>3, <3>7
    <3> HIDE DEF m2
    <3>9. h = [inits |-> inits, elems |-> elems, used |-> hash.used,
               allocated |-> hash.allocated, free |-> e, count |-> hash.count - 1]
      BY <3>2, <3>5, <3>6, <3>8
    <3> QED BY <3>9
  <2> QED BY <2>2, <2>3
<1>11. h.used = hash.used /\ Elements(h) = Elements(hash) /\ Links(h) = Links(hash)
  BY <1>10 DEF Elements, Links
<1>12. /\ h.elems[e].link = hash.free
       /\ n # 1 => h.elems[prev].link = after
       /\ \A x \in Elements(hash) : x # e /\ (n = 1 \/ x # prev) => h.elems[x].link = hash.elems[x].link
       /\ \A x \in Elements(hash) :
            h.elems[x].key = hash.elems[x].key /\ h.elems[x].value = hash.elems[x].value
  <2>1. \A x \in Elements(hash) : hash.elems[x] \in [key: Nat, value: Values, link: Links(hash)]
    BY <1>1 DEF IsTable
  <2> QED BY <2>1, <1>6, <1>9, <1>10
<1>13. after \in Links(hash) /\ e \in Links(hash) /\ hash.free \in Links(hash) /\ e \in Elements(hash)
  BY <1>1, <1>6 DEF IsTable, Links
<1>14. IsTable(h, Values) /\ h.used <= h.allocated
  <2>1. h.elems \in [Elements(h) -> [key: Nat, value: Values, link: Links(h)]]
    BY <1>1, <1>10, <1>11, <1>13 DEF IsTable
  <2>2. h.inits \in [0..Buckets-1 -> Links(h)]
    BY <1>1, <1>2, <1>10, <1>11, <1>13 DEF IsTable
  <2>3. h.count \in Nat
    <3>1. IsFiniteSet(Linked(hash)) /\ Cardinality(Linked(hash)) \in Nat
      BY <1>1, LinkedFinite
    <3>2. Cardinality(Linked(hash)) # 0
      BY <3>1, FS_EmptySet
    <3>3. hash.count = Cardinality(Linked(hash)) /\ h.count = hash.count - 1
      BY <1>10 DEF Intact
    <3> QED BY <3>1, <3>2, <3>3
  <2> QED BY <2>1, <2>2, <2>3, <1>1, <1>10, <1>11, <1>13 DEF IsTable
<1>15. Path(h, Cut(chain, n), first) /\ ToSet(Cut(chain, n)) = ToSet(chain) \ {e}
  <2>1. \A j \in 1..Len(chain) : j # n /\ j + 1 # n => h.elems[chain[j]].link = hash.elems[chain[j]].link
    <3> TAKE j \in 1..Len(chain)
    <3> HAVE j # n /\ j + 1 # n
    <3>1. chain[j] \in Elements(hash) /\ chain[j] # e
      BY <1>2, <1>5, <1>8 DEF Path, IsInjective
    <3>2. ASSUME n # 1, chain[j] = prev PROVE FALSE
      <4>1. n - 1 \in DOMAIN chain /\ j \in DOMAIN chain /\ chain[j] = chain[n - 1]
        BY <3>2, <1>9, <1>8
      <4>2. j = n - 1
        BY <4>1, <1>5 DEF Path, IsInjective
      <4>3. n \in Nat
        BY <1>2, <1>8
      <4> QED BY <4>2, <4>3
    <3> QED BY <3>1, <3>2, <1>12
  <2>2. n > 1 => h.elems[chain[n - 1]].link = hash.elems[chain[n]].link
    BY <1>2, <1>12
  <2>3. first = IF n = 1 THEN hash.elems[chain[n]].link ELSE hash.inits[b]
    BY <1>2
  <2> HIDE DEF first, prev, after
  <2>4. Skips(hash, h, chain, n, hash.inits[b], first)
    BY <2>1, <2>2, <2>3, <1>11 DEF Skips
  <2> HIDE DEF b
  <2>5. Path(h, Cut(chain, n), first) /\ ToSet(Cut(chain, n)) = ToSet(chain) \ {chain[n]}
    BY <1>1, <1>2, <1>5, <2>4, PathCut
  <2> QED BY <2>5, <1>2
<1>16. Path(h, freed, hash.free)
  <2>1. \A k \in DOMAIN freed : freed[k] \in ToSet(freed) /\ freed[k] \in Elements(hash)
    BY <1>4 DEF Path, ToSet
  <2>2. n # 1 => prev \notin ToSet(freed)
    <3>1. n # 1 => prev \in ToSet(chain)
      BY <1>9 DEF ToSet
    <3>2. ToSet(chain) \subseteq Linked(hash)
      BY <1>2, <1>3, <1>5
    <3> QED BY <3>1, <3>2, <1>6
  <2>3. \A k \in DOMAIN freed : h.elems[freed[k]].link = hash.elems[freed[k]].link
    BY <2>1, <2>2, <1>6, <1>12
  <2>4. DOMAIN freed = 1..Len(freed)
    BY <1>4 DEF Path
  <2>5. hash.used <= h.used /\ h.used \in Nat
    BY <1>1, <1>11
  <2> QED BY <2>3, <2>4, <2>5, <1>1, <1>4, PathFrame
<1>17. Path(h, freed2, e) /\ ToSet(freed2) = ToSet(freed) \cup {e}
  BY <1>1, <1>6, <1>11, <1>12, <1>13, <1>16, PathCons
<1>18. \A c \in 0..Buckets-1 : c # b => Path(h, lists[c], hash.inits[c])
  <2> TAKE c \in 0..Buckets-1
  <2> HAVE c # b
  <2> DEFINE p == lists[c]
             link == hash.inits[c]
  <2>1. Path(hash, p, link) /\ ToSet(p) \subseteq Linked(hash) /\ \A x \in ToSet(p) : Idx(hash.elems[x].key) = c
    BY <1>3
  <2>2. \A x \in ToSet(chain) : Idx(hash.elems[x].key) = b
    BY <1>2, <1>3, <1>5
  <2>3. e \in ToSet(chain) /\ (n # 1 => prev \in ToSet(chain))
    BY <1>2, <1>9 DEF ToSet
  <2> HIDE DEF p, link, prev
  <2>4. \A k \in 1..Len(p) : p[k] \in ToSet(p)
    BY <2>1 DEF Path, ToSet
  <2>5. \A k \in 1..Len(p) : h.elems[p[k]].link = hash.elems[p[k]].link
    BY <2>1, <2>2, <2>3, <2>4, <1>6, <1>12
  <2>6. Path(h, p, link)
    BY <2>1, <2>5, <1>1, <1>11, PathFrame
  <2> QED BY <2>6 DEF p, link
<1>19. DOMAIN lists = 0..Buckets-1
  BY DEF lists
<1>20. lists2[b] = Cut(chain, n) /\ \A c \in 0..Buckets-1 : c # b => lists2[c] = lists[c]
  BY <1>2, <1>19
<1>21. h.inits[b] = first /\ \A c \in 0..Buckets-1 : c # b => h.inits[c] = hash.inits[c]
  BY <1>1, <1>2, <1>10 DEF IsTable
<1>22. Split(h, lists2, freed2)
  <2> HIDE DEF lists2, freed2, first, prev
  <2>1. ASSUME NEW c \in 0..Buckets-1
        PROVE /\ Path(h, lists2[c], h.inits[c])
              /\ \A x \in ToSet(lists2[c]) : Idx(h.elems[x].key) = c /\ x \notin ToSet(freed2)
    <3>1. CASE c = b
      <4>1. Path(h, lists2[c], h.inits[c]) /\ ToSet(lists2[c]) = ToSet(chain) \ {e}
        BY <3>1, <1>15, <1>20, <1>21
      <4>2. \A x \in ToSet(chain) : x \in Linked(hash) /\ Idx(hash.elems[x].key) = b
        BY <1>2, <1>3, <1>5
      <4> QED BY <4>1, <4>2, <3>1, <1>6, <1>12, <1>17
    <3>2. CASE c # b
      <4>1. Path(h, lists2[c], h.inits[c]) /\ lists2[c] = lists[c]
        BY <3>2, <1>18, <1>20, <1>21
      <4>2. \A x \in ToSet(lists[c]) : x \in Linked(hash) /\ Idx(hash.elems[x].key) = c
        BY <1>3
      <4>3. \A x \in ToSet(lists[c]) : x # e
        BY <4>2, <3>2
      <4> QED BY <4>1, <4>2, <4>3, <1>6, <1>12, <1>17
    <3> QED BY <3>1, <3>2
  <2>2. ASSUME NEW x \in Elements(h)
        PROVE x \in ToSet(freed2) \/ x \in ToSet(lists2[Idx(h.elems[x].key)])
    <3>1. x \in Elements(hash) /\ h.elems[x].key = hash.elems[x].key
      BY <1>11, <1>12
    <3>2. CASE x \in ToSet(freed) \/ x = e
      BY <3>2, <1>17
    <3>3. CASE x \notin ToSet(freed) /\ x # e
      <4>1. x \in Linked(hash)
        BY <3>1, <3>3 DEF Linked, freed
      <4>2. Idx(hash.elems[x].key) \in 0..Buckets-1 /\ x \in ToSet(lists[Idx(hash.elems[x].key)])
        BY <4>1, IntactSplit DEF lists
      <4> QED BY <4>2, <3>1, <3>3, <1>5, <1>15, <1>20
    <3> QED BY <3>2, <3>3
  <2> QED BY <2>1, <2>2, <1>10, <1>17 DEF Split
<1>23. Linked(h) = Linked(hash) \ {e}
  <2>1. Chain(h, h.free) = freed2
    BY <1>14, <1>22, SplitChains
  <2> HIDE DEF freed2
  <2> QED BY <2>1, <1>11, <1>17 DEF Linked, freed
<1>24. h.count = Cardinality(Linked(h))
  <2>1. IsFiniteSet(Linked(hash))
    BY <1>1, LinkedFinite
  <2>2. Cardinality(Linked(hash) \ {e}) = Cardinality(Linked(hash)) - 1
    BY <2>1, FS_RemoveElement
  <2> QED BY <2>2, <1>10, <1>23 DEF Intact
<1>25. Intact(h, Values)
  BY <1>14, <1>22, <1>24 DEF Intact
<1>26. \A x \in Linked(h) : /\ h.elems[x].key = hash.elems[x].key
                            /\ h.elems[x].value = hash.elems[x].value
  BY <1>6, <1>12, <1>23
<1>27. n # 1 => hash.elems[prev].link = e
  <2>1. \A k \in 1..Len(chain) :
          hash.elems[chain[k]].link = IF k < Len(chain) THEN chain[k + 1] ELSE UNUSED
    BY <1>5 DEF Path
  <2>2. n # 1 => n - 1 \in 1..Len(chain) /\ n - 1 < Len(chain) /\ n - 1 + 1 = n
    BY <1>2, <1>8, <1>9
  <2> QED BY <2>1, <2>2, <1>2
<1>28. \A x \in Linked(h) : hash.elems[x].link # e => h.elems[x].link = hash.elems[x].link
  BY <1>6, <1>12, <1>23, <1>27
<1> QED BY <1>11, <1>23, <1>25, <1>26, <1>28 DEF h

(* A lookup finds what is stored with a key.                               *)
LEMMA LookupIntact ==
  ASSUME NEW hash, NEW Values, Intact(hash, Values), NEW key \in Nat,
         \A x, y \in Linked(hash) : hash.elems[x].key = hash.elems[y].key => x = y
  PROVE  /\ \A x \in Linked(hash) : hash.elems[x].key = key => LookupKey(hash, key) = {hash.elems[x].value}
         /\ (\A x \in Linked(hash) : hash.elems[x].key # key) => LookupKey(hash, key) = {}
<1>1. ASSUME NEW x \in Linked(hash), hash.elems[x].key = key
      PROVE  LookupKey(hash, key) = {hash.elems[x].value}
  <2> DEFINE n == Min(Found(hash, key))
  <2>1. Found(hash, key) # {} /\ Bucket(hash, Idx(key))[n] = x
    BY <1>1, FoundPlace
  <2> HIDE DEF n
  <2> QED BY <2>1 DEF LookupKey, n
<1>2. ASSUME \A x \in Linked(hash) : hash.elems[x].key # key PROVE LookupKey(hash, key) = {}
  <2>1. \A x \in ToSet(Bucket(hash, Idx(key))) : x \in Linked(hash)
    BY IdxIsBucket, IntactSplit
  <2>2. \A n \in DOMAIN Bucket(hash, Idx(key)) : Bucket(hash, Idx(key))[n] \in Linked(hash)
    BY <2>1 DEF ToSet
  <2>3. Found(hash, key) = {}
    BY <2>2, <1>2 DEF Found
  <2> QED BY <2>3 DEF LookupKey
<1> QED BY <1>1, <1>2

-----------------------------------------------------------------------------
(* Iterators                                                               *)

BucketOf(hash, e) == Idx(hash.elems[e].key)

LEMMA BucketElements ==
  ASSUME NEW hash, NEW Values, Intact(hash, Values)
  PROVE  \A b \in 0..Buckets-1 :
           /\ ToSet(Bucket(hash, b)) = {x \in Linked(hash) : BucketOf(hash, x) = b}
           /\ hash.inits[b] = UNUSED => ToSet(Bucket(hash, b)) = {}
           /\ hash.inits[b] # UNUSED => hash.inits[b] \in ToSet(Bucket(hash, b))
<1> TAKE b \in 0..Buckets-1
<1> DEFINE p == Bucket(hash, b)
           link == hash.inits[b]
<1>1. ToSet(p) = {x \in Linked(hash) : BucketOf(hash, x) = b}
  BY IntactSplit DEF BucketOf
<1>2. Path(hash, p, link)
  BY IntactSplit
<1>3. hash.used \in Nat
  BY DEF Intact, IsTable
<1> HIDE DEF p, link
<1>4. CASE p = << >>
  <2>1. link = UNUSED /\ ToSet(p) = {}
    BY <1>2, <1>4 DEF Path, ToSet
  <2> QED BY <2>1, <1>1 DEF p, link
<1>5. CASE p # << >>
  <2>1. link = p[1] /\ 1 \in DOMAIN p /\ p[1] \in Elements(hash)
    BY <1>2, <1>5 DEF Path
  <2>2. link \in ToSet(p) /\ link # UNUSED
    BY <2>1, <1>3 DEF ToSet, Elements, UNUSED
  <2> QED BY <2>2, <1>1 DEF p, link
<1> QED BY <1>4, <1>5

(* What is linked from an element on: the rest of its bucket's chain       *)
LEMMA RestOfChain ==
  ASSUME NEW hash, NEW Values, Intact(hash, Values), NEW e \in Linked(hash)
  PROVE  /\ Path(hash, Chain(hash, e), e)
         /\ ToSet(Chain(hash, e)) \subseteq {x \in Linked(hash) : BucketOf(hash, x) = BucketOf(hash, e)}
         /\ e \in ToSet(Chain(hash, e)) /\ e # UNUSED
<1> DEFINE b == BucketOf(hash, e)
           c == Bucket(hash, b)
<1>1. b \in 0..Buckets-1 /\ e \in ToSet(c)
  BY IntactSplit DEF BucketOf
<1>2. Path(hash, c, hash.inits[b]) /\ ToSet(c) = {x \in Linked(hash) : BucketOf(hash, x) = b}
  BY <1>1, IntactSplit, BucketElements
<1>3. hash.used \in Nat /\ e \in Elements(hash)
  BY DEF Intact, IsTable, Linked
<1> HIDE DEF c
<1>4. PICK m \in DOMAIN c : c[m] = e
  BY <1>1 DEF ToSet
<1>5. /\ Len(c) \in Nat /\ DOMAIN c = 1..Len(c) /\ \A k \in DOMAIN c : c[k] \in Elements(hash)
      /\ \A x, y \in DOMAIN c : c[x] = c[y] => x = y
      /\ \A k \in 1..Len(c) : hash.elems[c[k]].link = IF k < Len(c) THEN c[k + 1] ELSE UNUSED
  BY <1>2 DEF Path, IsInjective
<1> DEFINE n == Len(c) - m + 1
           p == [k \in 1..n |-> c[k + m - 1]]
<1>6. n \in Nat /\ n > 0 /\ \A k \in 1..n : k + m - 1 \in DOMAIN c
  BY <1>5
<1>7. p \in Seq(Elements(hash)) /\ Len(p) = n /\ DOMAIN p = 1..n /\ p[1] = e
  <2>1. \A k \in 1..n : p[k] \in Elements(hash)
    BY <1>5, <1>6
  <2>2. 1 \in 1..n /\ 1 + m - 1 = m
    BY <1>5, <1>6
  <2>3. p[1] = e
    BY <2>2, <1>4
  <2>4. p = [k \in 1..n |-> p[k]]
    OBVIOUS
  <2> HIDE DEF p, n
  <2> QED BY <2>1, <2>3, <2>4, <1>6
<1>8. IsInjective(p)
  <2>1. ASSUME NEW x \in 1..n, NEW y \in 1..n, p[x] = p[y] PROVE x = y
    <3>1. x + m - 1 = y + m - 1
      BY <2>1, <1>5, <1>6
    <3> QED BY <3>1, <1>5, <1>6
  <2> HIDE DEF p
  <2> QED BY <2>1, <1>7 DEF IsInjective
<1>9. \A k \in 1..n : hash.elems[p[k]].link = IF k < n THEN p[k + 1] ELSE UNUSED
  <2> TAKE k \in 1..n
  <2>1. k + m - 1 \in 1..Len(c) /\ p[k] = c[k + m - 1]
    BY <1>5, <1>6
  <2>2. hash.elems[p[k]].link = IF k + m - 1 < Len(c) THEN c[k + m - 1 + 1] ELSE UNUSED
    BY <2>1, <1>5
  <2>3. k < n => k + 1 \in 1..n /\ p[k + 1] = c[k + m - 1 + 1]
    <3>1. k + 1 + m - 1 = k + m - 1 + 1
      BY <1>5
    <3>2. k < n => k + 1 \in 1..n
      BY <1>6
    <3> QED BY <3>1, <3>2
  <2>4. k < n <=> k + m - 1 < Len(c)
    BY <1>5
  <2> HIDE DEF p, n
  <2> QED BY <2>2, <2>3, <2>4
<1>10. \A x \in ToSet(p) : x \in ToSet(c)
  BY <1>6 DEF ToSet
<1> HIDE DEF p, n
<1>11. Path(hash, p, e) /\ e \in ToSet(p)
  <2>1. p # << >> /\ 1 \in DOMAIN p
    BY <1>6, <1>7
  <2> QED BY <2>1, <1>7, <1>8, <1>9 DEF Path, ToSet
<1>12. Chain(hash, e) = p
  BY <1>3, <1>11, ChainOfPath
<1>13. e # UNUSED
  BY <1>3 DEF Elements, UNUSED
<1> QED BY <1>2, <1>10, <1>11, <1>12, <1>13

LEMMA NoChain == ASSUME NEW hash, NEW Values, Intact(hash, Values)
                 PROVE Chain(hash, UNUSED) = << >>
<1>1. Path(hash, << >>, UNUSED) /\ hash.used \in Nat
  BY DEF Path, IsInjective, Intact, IsTable
<1> QED BY <1>1, ChainOfPath

(* One link further there is one element less.                             *)
LEMMA LinkStep ==
  ASSUME NEW hash, NEW Values, Intact(hash, Values), NEW e \in Linked(hash)
  PROVE  LET link == hash.elems[e].link
         IN  /\ ToSet(Chain(hash, link)) = ToSet(Chain(hash, e)) \ {e}
             /\ link # UNUSED => link \in Linked(hash) /\ BucketOf(hash, link) = BucketOf(hash, e)
<1> DEFINE p == Chain(hash, e)
           link == hash.elems[e].link
<1>1. /\ Path(hash, p, e) /\ e # UNUSED
      /\ ToSet(p) \subseteq {x \in Linked(hash) : BucketOf(hash, x) = BucketOf(hash, e)}
  BY RestOfChain
<1>2. hash.used \in Nat
  BY DEF Intact, IsTable
<1> HIDE DEF p
<1>3. p # << >> /\ p[1] = e /\ DOMAIN p = 1..Len(p) /\ Len(p) \in Nat
  BY <1>1 DEF Path
<1>4. PICK k \in DOMAIN p : k = 1
  BY <1>3, <1>1 DEF Path
<1>5. Skips(hash, hash, p, k, e, link)
  BY <1>3, <1>4 DEF Skips
<1>6. Path(hash, Cut(p, k), link) /\ ToSet(Cut(p, k)) = ToSet(p) \ {e}
  <2> HIDE DEF link
  <2>1. Path(hash, Cut(p, k), link) /\ ToSet(Cut(p, k)) = ToSet(p) \ {p[k]}
    BY <1>1, <1>2, <1>5, PathCut
  <2> QED BY <2>1, <1>3, <1>4
<1>7. Chain(hash, link) = Cut(p, k)
  BY <1>2, <1>6, ChainOfPath
<1>8. link # UNUSED => link \in ToSet(p)
  <2>1. link = IF 1 < Len(p) THEN p[2] ELSE UNUSED
    BY <1>3, <1>4, <1>1 DEF Path
  <2> HIDE DEF link
  <2> QED BY <2>1, <1>3 DEF ToSet
<1> QED BY <1>1, <1>6, <1>7, <1>8 DEF p

IsIterator(hash, iter) ==
  /\ iter \in [bucket: -1..Buckets-1, elem: Linked(hash) \cup {UNUSED}]
  /\ iter.elem # UNUSED => BucketOf(hash, iter.elem) = iter.bucket

(* An iterator has the rest of its bucket and the buckets after it to give. *)
LEMMA RemainingElements ==
  ASSUME NEW hash, NEW Values, Intact(hash, Values), NEW iter, IsIterator(hash, iter)
  PROVE  Remaining(hash, iter) = ToSet(Chain(hash, iter.elem))
                               \cup {x \in Linked(hash) : BucketOf(hash, x) > iter.bucket}
<1> DEFINE ahead == UNION {ToSet(Bucket(hash, b)) : b \in Ahead(hash, iter)}
           later == {x \in Linked(hash) : BucketOf(hash, x) > iter.bucket}
<1>1. DOMAIN hash.inits = 0..Buckets-1
  BY DEF Intact, IsTable
<1>2. ASSUME NEW x \in ahead PROVE x \in later
  <2>1. PICK b \in Ahead(hash, iter) : x \in ToSet(Bucket(hash, b))
    OBVIOUS
  <2>2. b \in 0..Buckets-1 /\ b > iter.bucket
    BY <1>1 DEF Ahead
  <2> QED BY <2>1, <2>2, BucketElements
<1>3. ASSUME NEW x \in later PROVE x \in ahead
  <2> DEFINE b == BucketOf(hash, x)
  <2>1. b \in 0..Buckets-1 /\ b > iter.bucket
    BY IntactSplit DEF BucketOf
  <2>2. x \in ToSet(Bucket(hash, b)) /\ hash.inits[b] # UNUSED
    BY <2>1, BucketElements
  <2>3. b \in Ahead(hash, iter)
    BY <2>1, <2>2, <1>1 DEF Ahead
  <2> QED BY <2>2, <2>3
<1>4. ahead = later
  BY <1>2, <1>3
<1> QED BY <1>4 DEF Remaining

(* What an iterator has left are elements of the table.                    *)
LEMMA RemainingLinked ==
  ASSUME NEW hash, NEW Values, Intact(hash, Values), NEW iter, IsIterator(hash, iter)
  PROVE  Remaining(hash, iter) \subseteq Linked(hash)
<1>1. ToSet(Chain(hash, iter.elem)) \subseteq Linked(hash)
  <2>1. CASE iter.elem = UNUSED
    BY <2>1, NoChain DEF ToSet
  <2>2. CASE iter.elem # UNUSED
    BY <2>2, RestOfChain DEF IsIterator
  <2> QED BY <2>1, <2>2
<1> QED BY <1>1, RemainingElements

LEMMA IteratorStart ==
  ASSUME NEW hash, NEW Values, Intact(hash, Values)
  PROVE  IsIterator(hash, Iterator) /\ Remaining(hash, Iterator) = Linked(hash)
<1>1. Buckets \in Nat /\ Iterator.bucket = -1 /\ Iterator.elem = UNUSED
  BY TableAssumption DEF Iterator
<1>2. IsIterator(hash, Iterator)
  BY <1>1 DEF Iterator, IsIterator
<1>3. ToSet(Chain(hash, UNUSED)) = {}
  BY NoChain DEF ToSet
<1>4. \A x \in Linked(hash) : BucketOf(hash, x) > -1
  BY IntactSplit DEF BucketOf
<1> QED BY <1>1, <1>2, <1>3, <1>4, RemainingElements

LEMMA IteratorEnd ==
  ASSUME NEW hash, NEW Values, Intact(hash, Values), NEW iter, AtEnd(hash, iter)
  PROVE  Remaining(hash, iter) = {}
<1>1. ToSet(Chain(hash, UNUSED)) = {}
  BY NoChain DEF ToSet
<1> QED BY <1>1 DEF Remaining, AtEnd

(* An iterator that is not at its end gives one of the elements it has to  *)
(* give, and then has the others left.                                     *)
LEMMA IteratorStep ==
  ASSUME NEW hash, NEW Values, Intact(hash, Values), NEW iter, IsIterator(hash, iter),
         ~AtEnd(hash, iter)
  PROVE  LET e == NextElem(hash, iter)
         IN  /\ e \in Linked(hash) /\ e \in Remaining(hash, iter)
             /\ IsIterator(hash, Iterate(hash, iter))
             /\ Remaining(hash, Iterate(hash, iter)) = Remaining(hash, iter) \ {e}
<1> DEFINE e == NextElem(hash, iter)
           next == Iterate(hash, iter)
           link == hash.elems[e].link
<1>1. iter.bucket \in -1..Buckets-1 /\ Buckets \in Nat
  BY TableAssumption DEF IsIterator
<1>2. /\ e \in Linked(hash) /\ next.bucket = BucketOf(hash, e) /\ next.bucket \in 0..Buckets-1
      /\ \A x \in Linked(hash) :
           x \in Remaining(hash, iter) <=> x \in ToSet(Chain(hash, e)) \/ BucketOf(hash, x) > next.bucket
  <2>1. CASE iter.elem # UNUSED
    <3>1. e = iter.elem /\ next.bucket = iter.bucket /\ e \in Linked(hash) /\ iter.bucket = BucketOf(hash, e)
      BY <2>1 DEF NextElem, Iterate, IsIterator
    <3>2. BucketOf(hash, e) \in 0..Buckets-1
      BY <3>1, IntactSplit DEF BucketOf
    <3> QED BY <3>1, <3>2, RemainingElements
  <2>2. CASE iter.elem = UNUSED
    <3> DEFINE b == Min(Ahead(hash, iter))
    <3>1. Ahead(hash, iter) \in SUBSET Nat /\ Ahead(hash, iter) # {}
      <4>1. DOMAIN hash.inits = 0..Buckets-1
        BY DEF Intact, IsTable
      <4>2. Ahead(hash, iter) \in SUBSET Nat
        BY <4>1 DEF Ahead
      <4> QED BY <4>2, <2>2 DEF AtEnd
    <3>2. b \in Ahead(hash, iter) /\ \A c \in Ahead(hash, iter) : b <= c
      BY <3>1, LeastOf
    <3>3. e = hash.inits[b] /\ next.bucket = b
      BY <2>2 DEF NextElem, Iterate
    <3> HIDE DEF b
    <3>4. b \in 0..Buckets-1 /\ b > iter.bucket /\ hash.inits[b] # UNUSED
      BY <3>2 DEF Ahead, Intact, IsTable
    <3>5. e \in Linked(hash) /\ BucketOf(hash, e) = b
      BY <3>3, <3>4, BucketElements
    <3>6. Path(hash, Bucket(hash, b), hash.inits[b])
      BY <3>4, IntactSplit
    <3>7. Chain(hash, e) = Bucket(hash, b)
      <4>1. hash.used \in Nat
        BY DEF Intact, IsTable
      <4>2. Chain(hash, hash.inits[b]) = Bucket(hash, b)
        BY <3>6, <4>1, ChainOfPath
      <4> QED BY <4>2, <3>3
    <3>8. ToSet(Chain(hash, e)) = {x \in Linked(hash) : BucketOf(hash, x) = b}
      BY <3>4, <3>7, BucketElements
    <3>9. ASSUME NEW x \in Linked(hash)
          PROVE  BucketOf(hash, x) > iter.bucket <=> BucketOf(hash, x) = b \/ BucketOf(hash, x) > b
      <4>1. BucketOf(hash, x) \in 0..Buckets-1 /\ x \in ToSet(Bucket(hash, BucketOf(hash, x)))
        BY IntactSplit DEF BucketOf
      <4>2. hash.inits[BucketOf(hash, x)] # UNUSED
        BY <4>1, BucketElements
      <4>3. BucketOf(hash, x) > iter.bucket => BucketOf(hash, x) \in Ahead(hash, iter)
        BY <4>1, <4>2 DEF Ahead, Intact, IsTable
      <4> QED BY <4>1, <4>3, <3>2, <3>4, <1>1
    <3>10. ToSet(Chain(hash, iter.elem)) = {}
      BY <2>2, NoChain DEF ToSet
    <3> QED BY <3>3, <3>4, <3>5, <3>8, <3>9, <3>10, RemainingElements
  <2> QED BY <2>1, <2>2
<1>3. /\ ToSet(Chain(hash, link)) = ToSet(Chain(hash, e)) \ {e} /\ e \in ToSet(Chain(hash, e))
      /\ ToSet(Chain(hash, e)) \subseteq {x \in Linked(hash) : BucketOf(hash, x) = BucketOf(hash, e)}
      /\ link # UNUSED => link \in Linked(hash) /\ BucketOf(hash, link) = BucketOf(hash, e)
  BY <1>2, LinkStep, RestOfChain
<1>4. next.elem = link /\ next = [bucket |-> next.bucket, elem |-> next.elem]
  BY DEF Iterate
<1> HIDE DEF e, next, link
<1>5. IsIterator(hash, next)
  <2>1. next.bucket \in -1..Buckets-1
    BY <1>2, <1>1
  <2> QED BY <2>1, <1>2, <1>3, <1>4 DEF IsIterator
<1>6. Remaining(hash, iter) \subseteq Linked(hash)
  <2>1. iter.elem # UNUSED => ToSet(Chain(hash, iter.elem)) \subseteq Linked(hash)
    BY RestOfChain DEF IsIterator
  <2>2. ToSet(Chain(hash, UNUSED)) = {}
    BY NoChain DEF ToSet
  <2> QED BY <2>1, <2>2, RemainingElements
<1>7. Remaining(hash, next) = ToSet(Chain(hash, link)) \cup {x \in Linked(hash) : BucketOf(hash, x) > next.bucket}
  BY <1>4, <1>5, RemainingElements
<1>8. BucketOf(hash, e) \in Int /\ ~(BucketOf(hash, e) > next.bucket)
  BY <1>2
<1>9. Remaining(hash, next) = Remaining(hash, iter) \ {e}
  BY <1>2, <1>3, <1>6, <1>7, <1>8
<1> QED BY <1>2, <1>3, <1>5, <1>9 DEF e, next

(* A table that adds or deletes other elements leaves the rest of a chain. *)
LEMMA ChainKept ==
  ASSUME NEW hash, NEW h, NEW Values, Intact(hash, Values), NEW link,
         link \in Linked(hash) \cup {UNUSED}, h.used \in Nat, hash.used <= h.used,
         \A x \in ToSet(Chain(hash, link)) : h.elems[x].link = hash.elems[x].link
  PROVE  Chain(h, link) = Chain(hash, link)
<1> DEFINE p == Chain(hash, link)
<1>1. hash.used \in Nat
  BY DEF Intact, IsTable
<1>2. Path(hash, p, link)
  <2>1. CASE link = UNUSED
    <3>1. p = << >>
      BY <2>1, NoChain
    <3> QED BY <3>1, <2>1 DEF Path, IsInjective
  <2>2. CASE link # UNUSED
    BY <2>2, RestOfChain
  <2> QED BY <2>1, <2>2
<1>3. \A x \in ToSet(p) : h.elems[x].link = hash.elems[x].link
  OBVIOUS
<1> HIDE DEF p
<1>4. \A k \in 1..Len(p) : p[k] \in ToSet(p)
  BY <1>2 DEF Path, ToSet
<1>5. Path(h, p, link)
  BY <1>1, <1>2, <1>3, <1>4, PathFrame
<1> QED BY <1>5, ChainOfPath DEF p

LEMMA AddRemaining ==
  ASSUME NEW hash, NEW Values, Intact(hash, Values), NEW key \in Nat, NEW value \in Values,
         NEW iter, IsIterator(hash, iter)
  PROVE  LET h == Add(hash, key, value)
         IN  /\ IsIterator(h, iter)
             /\ \/ Remaining(h, iter) = Remaining(hash, iter)
                \/ Remaining(h, iter) = Remaining(hash, iter) \cup {NewElem(hash)}
<1> DEFINE h == Add(hash, key, value)
           e == NewElem(hash)
<1>1. /\ Intact(h, Values) /\ e \notin Linked(hash) /\ Linked(h) = Linked(hash) \cup {e}
      /\ \A x \in Linked(hash) : h.elems[x] = hash.elems[x]
      /\ h.used \in Nat /\ hash.used <= h.used
  BY AddIntact
<1> HIDE DEF h, e
<1>2. \A x \in Linked(hash) : BucketOf(h, x) = BucketOf(hash, x)
  BY <1>1 DEF BucketOf
<1>3. IsIterator(h, iter)
  BY <1>1, <1>2 DEF IsIterator
<1>4. ToSet(Chain(hash, iter.elem)) \subseteq Linked(hash)
  <2>1. iter.elem # UNUSED => ToSet(Chain(hash, iter.elem)) \subseteq Linked(hash)
    BY RestOfChain DEF IsIterator
  <2>2. ToSet(Chain(hash, UNUSED)) = {}
    BY NoChain DEF ToSet
  <2> QED BY <2>1, <2>2
<1>5. iter.elem \in Linked(hash) \cup {UNUSED}
  BY DEF IsIterator
<1>6. Chain(h, iter.elem) = Chain(hash, iter.elem)
  BY <1>1, <1>4, <1>5, ChainKept
<1> DEFINE later == {x \in Linked(hash) : BucketOf(hash, x) > iter.bucket}
           laterNow == {x \in Linked(h) : BucketOf(h, x) > iter.bucket}
<1>7. laterNow = later \/ laterNow = later \cup {e}
  BY <1>1, <1>2
<1>8. /\ Remaining(h, iter) = ToSet(Chain(h, iter.elem)) \cup laterNow
      /\ Remaining(hash, iter) = ToSet(Chain(hash, iter.elem)) \cup later
  BY <1>1, <1>3, RemainingElements
<1> HIDE DEF later, laterNow
<1>9. Remaining(h, iter) = Remaining(hash, iter) \/ Remaining(h, iter) = Remaining(hash, iter) \cup {e}
  BY <1>6, <1>7, <1>8
<1> QED BY <1>3, <1>9 DEF h, e

(* To delete an element an iterator does not have to give any more does    *)
(* not disturb it.                                                         *)
LEMMA DelRemaining ==
  ASSUME NEW hash, NEW Values, Intact(hash, Values), NEW e \in Linked(hash),
         \A x \in Linked(hash) : hash.elems[x].key = hash.elems[e].key => x = e,
         NEW iter, IsIterator(hash, iter), e \notin Remaining(hash, iter)
  PROVE  LET h == Del(hash, hash.elems[e].key)
         IN  IsIterator(h, iter) /\ Remaining(h, iter) = Remaining(hash, iter)
<1> DEFINE h == Del(hash, hash.elems[e].key)
<1>1. /\ Intact(h, Values) /\ Linked(h) = Linked(hash) \ {e} /\ h.used = hash.used
      /\ \A x \in Linked(h) : h.elems[x].key = hash.elems[x].key
      /\ \A x \in Linked(h) : hash.elems[x].link # e => h.elems[x].link = hash.elems[x].link
  BY DelIntact
<1> HIDE DEF h
<1>2. \A x \in Linked(h) : BucketOf(h, x) = BucketOf(hash, x)
  BY <1>1 DEF BucketOf
<1>3. /\ Remaining(hash, iter) = ToSet(Chain(hash, iter.elem))
                               \cup {x \in Linked(hash) : BucketOf(hash, x) > iter.bucket}
      /\ e \notin ToSet(Chain(hash, iter.elem)) /\ ~(BucketOf(hash, e) > iter.bucket)
  BY RemainingElements
<1>4. iter.elem \in Linked(h) \cup {UNUSED} /\ iter.elem \in Linked(hash) \cup {UNUSED}
  <2>1. iter.elem # UNUSED => iter.elem \in ToSet(Chain(hash, iter.elem))
    BY RestOfChain DEF IsIterator
  <2> QED BY <2>1, <1>1, <1>3 DEF IsIterator
<1>5. IsIterator(h, iter)
  BY <1>2, <1>4 DEF IsIterator
<1>6. ASSUME NEW x \in ToSet(Chain(hash, iter.elem)) PROVE h.elems[x].link = hash.elems[x].link
  <2> DEFINE p == Chain(hash, iter.elem)
  <2>1. iter.elem # UNUSED
    BY NoChain DEF ToSet
  <2>2. Path(hash, p, iter.elem) /\ ToSet(p) \subseteq Linked(hash) /\ x \in ToSet(p) /\ e \notin ToSet(p)
    BY <2>1, <1>3, <1>4, RestOfChain
  <2>3. hash.used \in Nat
    BY DEF Intact, IsTable
  <2>4. e # UNUSED
    BY RestOfChain
  <2> HIDE DEF p
  <2>5. PICK k \in DOMAIN p : p[k] = x
    BY <2>2 DEF ToSet
  <2>6. hash.elems[x].link = IF k < Len(p) THEN p[k + 1] ELSE UNUSED
    BY <2>2, <2>5 DEF Path
  <2>7. k < Len(p) => p[k + 1] \in ToSet(p)
    BY <2>2, <2>5 DEF Path, ToSet
  <2>8. hash.elems[x].link # e
    BY <2>2, <2>4, <2>6, <2>7
  <2>9. x \in Linked(h)
    BY <2>2, <1>1
  <2> QED BY <2>8, <2>9, <1>1
<1>7. h.used \in Nat /\ hash.used <= h.used
  BY <1>1 DEF Intact, IsTable
<1>8. Chain(h, iter.elem) = Chain(hash, iter.elem)
  BY <1>4, <1>6, <1>7, ChainKept
<1>9. Remaining(h, iter) = ToSet(Chain(h, iter.elem))
                         \cup {x \in Linked(h) : BucketOf(h, x) > iter.bucket}
  BY <1>1, <1>5, RemainingElements
<1>10. {x \in Linked(h) : BucketOf(h, x) > iter.bucket} = {x \in Linked(hash) : BucketOf(hash, x) > iter.bucket}
  BY <1>1, <1>2, <1>3
<1>11. Remaining(h, iter) = Remaining(hash, iter)
  BY <1>3, <1>8, <1>9, <1>10
<1> QED BY <1>5, <1>11 DEF h

-----------------------------------------------------------------------------
(* The ack list                                                            *)

(* Sockets and a list of them that agree about the places                  *)
Listed(sk, ak) ==
  /\ sk \in [Sock -> UTPSocket \cup {NULL}] /\ ak \in Seq(Sock)
  /\ \A n \in DOMAIN ak : sk[ak[n]] # NULL /\ sk[ak[n]].ida = n - 1
  /\ \A s \in Sock : sk[s] # NULL =>
       sk[s].ida = -1 \/ (sk[s].ida + 1 \in DOMAIN ak /\ ak[sk[s].ida + 1] = s)

(* Sockets that differ in their places at most                             *)
SameSockets(sk, sk2) ==
  \A s \in Sock : /\ sk[s] = NULL <=> sk2[s] = NULL
                  /\ sk[s] # NULL => sk2[s].key = sk[s].key /\ sk2[s].over = sk[s].over

LEMMA IsSocket ==
  ASSUME NEW sk, sk \in [Sock -> UTPSocket \cup {NULL}]
  PROVE  \A s \in Sock : sk[s] # NULL =>
           sk[s] \in UTPSocket /\ sk[s].key \in Key /\ sk[s].over \in BOOLEAN /\ sk[s].ida \in Int
BY DEF UTPSocket

LEMMA SocketPlace ==
  ASSUME NEW x \in UTPSocket, NEW v \in Int
  PROVE  [x EXCEPT !.ida = v] \in UTPSocket
BY DEF UTPSocket

(* The ack list is as long as there are sockets, at most.                  *)
LEMMA ListedBound ==
  ASSUME NEW sk, NEW ak, Listed(sk, ak)
  PROVE  Len(ak) \in Nat /\ Len(ak) <= Cardinality(Sock) /\ Cardinality(Sock) \in Nat
<1> DEFINE S == 1..Len(ak)
<1>1. Len(ak) \in Nat /\ ak \in [S -> Sock] /\ DOMAIN ak = S
  BY DEF Listed
<1>2. IsFiniteSet(S) /\ Cardinality(S) = Len(ak)
  BY <1>1, Interval
<1>3. IsFiniteSet(Sock) /\ Cardinality(Sock) \in Nat
  BY ContextAssumption, FS_CardinalityType
<1>4. ak \in [S -> Sock] /\ ~ \E x, y \in S : x # y /\ ak[x] = ak[y]
  <2>1. \A x \in S : sk[ak[x]].ida = x - 1
    BY <1>1 DEF Listed
  <2> QED BY <2>1, <1>1
<1> HIDE DEF S
<1>5. ASSUME Cardinality(Sock) < Cardinality(S) PROVE FALSE
  BY <1>2, <1>3, <1>4, <1>5, FS_PigeonHole
<1> QED BY <1>1, <1>2, <1>3, <1>5

(* removeSocketFromAckList takes a socket off the list, and no other.      *)
LEMMA UnlistedAgrees ==
  ASSUME Listed(sock, ack_sockets), NEW s \in Live
  PROVE  LET sk == Unlisted(s)[1]
             ak == Unlisted(s)[2]
         IN  /\ Listed(sk, ak) /\ SameSockets(sock, sk)
             /\ sk[s].ida = -1
             /\ ToSet(ak) = ToSet(ack_sockets) \ {s}
<1> DEFINE sk == Unlisted(s)[1]
           ak == Unlisted(s)[2]
           n == Len(ack_sockets)
           m == sock[s].ida + 1
<1>1. /\ sock \in [Sock -> UTPSocket \cup {NULL}] /\ ack_sockets \in [1..n -> Sock] /\ n \in Nat
      /\ DOMAIN ack_sockets = 1..n
      /\ \A k \in 1..n : sock[ack_sockets[k]] # NULL /\ sock[ack_sockets[k]].ida = k - 1
      /\ \A x \in Sock : sock[x] # NULL =>
           sock[x].ida = -1 \/ (sock[x].ida + 1 \in 1..n /\ ack_sockets[sock[x].ida + 1] = x)
  BY DEF Listed
<1>2. s \in Sock /\ sock[s] # NULL /\ sock[s] \in UTPSocket /\ sock[s].ida \in Int
  BY <1>1 DEF Live, UTPSocket
<1>3. CASE sock[s].ida < 0
  <2>1. sk = sock /\ ak = ack_sockets
    BY <1>3 DEF Unlisted
  <2>2. sock[s].ida = -1
    BY <1>1, <1>2, <1>3
  <2>3. s \notin ToSet(ack_sockets)
    BY <2>2, <1>1 DEF ToSet
  <2>4. SameSockets(sock, sock)
    BY DEF SameSockets
  <2> HIDE DEF sk, ak
  <2>5. Listed(sk, ak) /\ SameSockets(sock, sk) /\ sk[s].ida = -1 /\ ToSet(ak) = ToSet(ack_sockets) \ {s}
    BY <2>1, <2>2, <2>3, <2>4
  <2> QED BY <2>5 DEF sk, ak
<1>4. CASE ~(sock[s].ida < 0)
  <2> DEFINE last == ack_sockets[n]
             moved == [ack_sockets EXCEPT ![m] = last]
  <2>1. sk = [sock EXCEPT ![last].ida = sock[s].ida, ![s].ida = -1] /\ ak = Front(moved)
    BY <1>4 DEF Unlisted
  <2>2. /\ m \in 1..n /\ ack_sockets[m] = s /\ n \in 1..n /\ last \in Sock /\ sock[last] # NULL
        /\ sock[last] \in UTPSocket /\ sock[last].ida = n - 1 /\ sock[s].ida = m - 1
    BY <1>1, <1>2, <1>4
  <2>3. moved \in [1..n -> Sock] /\ Len(moved) = n
    BY <1>1, <2>2
  <2>4. \A k \in 1..n : moved[k] = IF k = m THEN last ELSE ack_sockets[k]
    BY <1>1, <2>2
  <2>5. ak \in Seq(Sock) /\ Len(ak) = n - 1 /\ \A k \in 1..n-1 : ak[k] = moved[k]
    <3> HIDE DEF moved, ak
    <3>1. ak = SubSeq(moved, 1, n - 1)
      BY <2>1, <2>3 DEF Front
    <3>2. 1 \in Int /\ n - 1 \in Int /\ \A k \in 1..n-1 : moved[k] \in Sock
      BY <1>1, <2>3
    <3>3. /\ ak \in Seq(Sock) /\ Len(ak) = IF 1 <= n - 1 THEN n - 1 - 1 + 1 ELSE 0
          /\ \A k \in 1..n - 1 - 1 + 1 : ak[k] = moved[1 + k - 1]
      BY <3>1, <3>2, SubSeqProperties
    <3>4. n - 1 \in Nat /\ n - 1 - 1 + 1 = n - 1 /\ (~(1 <= n - 1) => n - 1 = 0)
      <4>1. n \in Nat /\ n # 0
        BY <2>2, <1>1
      <4> HIDE DEF n
      <4> QED BY <4>1
    <3>5. Len(ak) = n - 1
      BY <3>3, <3>4
    <3>6. ASSUME NEW k \in 1..n-1 PROVE ak[k] = moved[k]
      <4>1. k \in 1..n - 1 - 1 + 1 /\ 1 + k - 1 = k
        BY <3>4
      <4>2. ak[k] = moved[1 + k - 1]
        BY <3>3, <4>1
      <4> QED BY <4>1, <4>2
    <3> QED BY <3>3, <3>5, <3>6
  <2> HIDE DEF ak, moved, sk
  <2>6. DOMAIN ak = 1..n-1 /\ \A k \in 1..n-1 : ak[k] = IF k = m THEN last ELSE ack_sockets[k]
    BY <2>4, <2>5, <2>2
  <2>7. \A k \in 1..n : ack_sockets[k] = s <=> k = m
    BY <1>1, <2>2
  <2>8. \A k \in 1..n : ack_sockets[k] = last <=> k = n
    BY <1>1, <2>2
  <2>9. last = s <=> m = n
    BY <2>2, <2>7
  <2>10. /\ sk \in [Sock -> UTPSocket \cup {NULL}]
         /\ \A x \in Sock : sock[x] # NULL =>
              sk[x] = [sock[x] EXCEPT !.ida = IF x = s THEN -1 ELSE IF x = last THEN m - 1 ELSE @]
         /\ \A x \in Sock : sock[x] = NULL => sk[x] = NULL
    <3>1. m - 1 \in Int
      BY <2>2
    <3>2. /\ [sock[s] EXCEPT !.ida = -1] \in UTPSocket /\ [sock[last] EXCEPT !.ida = m - 1] \in UTPSocket
          /\ [[sock[last] EXCEPT !.ida = m - 1] EXCEPT !.ida = -1] = [sock[last] EXCEPT !.ida = -1]
      <4>1. -1 \in Int
        OBVIOUS
      <4>2. ASSUME NEW x \in UTPSocket, NEW v \in Int
            PROVE [[x EXCEPT !.ida = v] EXCEPT !.ida = -1] = [x EXCEPT !.ida = -1]
        BY DEF UTPSocket
      <4> HIDE DEF m, last
      <4> QED BY <4>1, <4>2, <3>1, <2>2, <1>2, SocketPlace
    <3>3. sk = [[sock EXCEPT ![last] = [sock[last] EXCEPT !.ida = m - 1]] EXCEPT ![s].ida = -1]
      BY <2>1, <2>2
    <3>4. \A x \in Sock : sk[x] = IF x = s THEN [sock[s] EXCEPT !.ida = -1]
                                  ELSE IF x = last THEN [sock[last] EXCEPT !.ida = m - 1] ELSE sock[x]
      <4>1. CASE last = s
        BY <4>1, <3>2, <3>3, <1>1, <1>2
      <4>2. CASE last # s
        BY <4>2, <3>3, <1>1, <1>2, <2>2
      <4> QED BY <4>1, <4>2
    <3>5. DOMAIN sk = Sock /\ sk = [x \in Sock |-> sk[x]]
      BY <3>3, <1>1
    <3>6. sk \in [Sock -> UTPSocket \cup {NULL}]
      BY <3>2, <3>4, <3>5, <1>1
    <3>7. \A x \in Sock : sock[x] # NULL => sock[x] \in UTPSocket
      BY <1>1
    <3>8. \A x \in UTPSocket : x = [x EXCEPT !.ida = @]
      BY DEF UTPSocket
    <3>9. \A x \in Sock : sock[x] = NULL => x # s /\ x # last
      BY <1>2, <2>2
    <3> HIDE DEF m, last
    <3> QED BY <3>4, <3>6, <3>7, <3>8, <3>9
  <2>11. \A x \in Sock : sock[x] # NULL =>
           /\ sk[x] # NULL /\ sk[x].key = sock[x].key /\ sk[x].over = sock[x].over
           /\ sk[x].ida = IF x = s THEN -1 ELSE IF x = last THEN m - 1 ELSE sock[x].ida
    <3> TAKE x \in Sock
    <3> HAVE sock[x] # NULL
    <3>1. sock[x] \in UTPSocket
      BY <1>1
    <3>2. sk[x] \in UTPSocket
      <4>1. sk[x] \in UTPSocket \cup {NULL}
        BY <2>10
      <4> DEFINE place == IF x = s THEN -1 ELSE IF x = last THEN m - 1 ELSE sock[x].ida
      <4>2. place \in Int /\ sk[x] = [sock[x] EXCEPT !.ida = place]
        BY <2>10, <2>2, <3>1 DEF UTPSocket
      <4> HIDE DEF place
      <4> QED BY <4>2, <3>1 DEF UTPSocket
    <3>3. sk[x] # NULL
      BY <3>2, ContextAssumption
    <3> QED BY <3>1, <3>3, <2>10 DEF UTPSocket
  <2>12. SameSockets(sock, sk)
    BY <2>10, <2>11 DEF SameSockets
  <2>13. \A k \in DOMAIN ak : sk[ak[k]] # NULL /\ sk[ak[k]].ida = k - 1
    <3> TAKE k \in DOMAIN ak
    <3>1. k \in 1..n /\ k # n
      BY <2>6, <1>1
    <3>2. CASE k = m
      BY <3>1, <3>2, <2>2, <2>6, <2>9, <2>11
    <3>3. CASE k # m
      <4>1. ak[k] = ack_sockets[k] /\ ak[k] # s /\ ak[k] # last /\ ak[k] \in Sock /\ sock[ak[k]] # NULL
        BY <3>1, <3>3, <2>6, <2>7, <2>8, <1>1
      <4> QED BY <4>1, <3>1, <2>11, <1>1
    <3> QED BY <3>2, <3>3
  <2>14. ASSUME NEW x \in Sock, sk[x] # NULL
         PROVE sk[x].ida = -1 \/ (sk[x].ida + 1 \in DOMAIN ak /\ ak[sk[x].ida + 1] = x)
    <3>1. sock[x] # NULL
      BY <2>14, <2>10
    <3>2. CASE x = s
      BY <3>1, <3>2, <2>11
    <3>3. CASE x # s /\ x = last
      <4>1. sk[x].ida = m - 1 /\ m \in 1..n-1
        BY <3>1, <3>3, <2>2, <2>9, <2>11
      <4> QED BY <4>1, <3>3, <2>6
    <3>4. CASE x # s /\ x # last
      <4>1. sk[x].ida = sock[x].ida
        BY <3>1, <3>4, <2>11
      <4>2. CASE sock[x].ida # -1
        <5>1. sock[x].ida + 1 \in 1..n /\ ack_sockets[sock[x].ida + 1] = x
          BY <3>1, <4>2, <1>1
        <5>2. sock[x].ida + 1 # m /\ sock[x].ida + 1 # n
          BY <5>1, <3>4, <2>7, <2>8
        <5> QED BY <4>1, <5>1, <5>2, <2>6
      <4> QED BY <4>1, <4>2
    <3> QED BY <3>2, <3>3, <3>4
  <2>15. ToSet(ak) = ToSet(ack_sockets) \ {s}
    <3>1. ASSUME NEW x \in ToSet(ak) PROVE x \in ToSet(ack_sockets) \ {s}
      <4>1. PICK k \in DOMAIN ak : x = ak[k]
        BY DEF ToSet
      <4>2. k \in 1..n /\ k # n
        BY <2>6, <1>1
      <4> QED BY <4>1, <4>2, <2>2, <2>6, <2>7, <2>9, <1>1 DEF ToSet
    <3>2. ASSUME NEW x \in ToSet(ack_sockets), x # s PROVE x \in ToSet(ak)
      <4>1. PICK k \in 1..n : x = ack_sockets[k]
        BY <1>1 DEF ToSet
      <4>2. CASE k = n
        <5>1. x = last /\ m \in 1..n-1
          BY <4>1, <4>2, <3>2, <2>2, <2>9
        <5> QED BY <5>1, <2>6 DEF ToSet
      <4>3. CASE k # n
        <5>1. k \in 1..n-1 /\ k # m
          BY <4>1, <4>3, <3>2, <2>2, <1>1
        <5> QED BY <5>1, <4>1, <2>6 DEF ToSet
      <4> QED BY <4>2, <4>3
    <3> QED BY <3>1, <3>2
  <2>16. Listed(sk, ak)
    BY <2>5, <2>10, <2>13, <2>14 DEF Listed
  <2>17. sk[s].ida = -1
    BY <1>2, <2>11
  <2> QED BY <2>12, <2>15, <2>16, <2>17 DEF sk, ak
<1> QED BY <1>3, <1>4

-----------------------------------------------------------------------------
(* The table                                                               *)

(* Each socket is in the table once, with its key, and nothing else is.    *)
Filed(sk, hash) ==
  /\ Intact(hash, Sock)
  /\ \A e \in Linked(hash) : /\ hash.elems[e].value \in Sock /\ sk[hash.elems[e].value] # NULL
                             /\ sk[hash.elems[e].value].key = hash.elems[e].key
  /\ \A e, f \in Linked(hash) : hash.elems[e].key = hash.elems[f].key => e = f
  /\ \A s \in Sock : sk[s] # NULL => \E e \in Linked(hash) : hash.elems[e].value = s

LEMMA FiledSame ==
  ASSUME NEW sk, NEW sk2, NEW hash, Filed(sk, hash), SameSockets(sk, sk2)
  PROVE  Filed(sk2, hash)
<1>1. \A s \in Sock : sk[s] # NULL => sk2[s] # NULL /\ sk2[s].key = sk[s].key
  BY DEF SameSockets
<1>2. \A s \in Sock : sk2[s] # NULL => sk[s] # NULL
  BY DEF SameSockets
<1> QED BY <1>1, <1>2 DEF Filed

(* The sockets found with a key                                            *)
LEMMA FiledLookup ==
  ASSUME NEW sk, NEW hash, Filed(sk, hash), NEW key \in Key
  PROVE  LookupKey(hash, key) = {s \in Sock : sk[s] # NULL /\ sk[s].key = key}
<1>1. key \in Nat /\ Intact(hash, Sock)
        /\ \A x, y \in Linked(hash) : hash.elems[x].key = hash.elems[y].key => x = y
  BY ContextAssumption DEF Filed
<1> DEFINE T == {s \in Sock : sk[s] # NULL /\ sk[s].key = key}
<1>2. CASE \E x \in Linked(hash) : hash.elems[x].key = key
  <2>1. PICK x \in Linked(hash) : hash.elems[x].key = key
    BY <1>2
  <2>2. LookupKey(hash, key) = {hash.elems[x].value}
    BY <1>1, <2>1, LookupIntact
  <2>3. hash.elems[x].value \in T
    BY <2>1 DEF Filed
  <2>4. ASSUME NEW s \in T PROVE s = hash.elems[x].value
    <3>1. PICK e \in Linked(hash) : hash.elems[e].value = s
      BY DEF Filed
    <3>2. hash.elems[e].key = key
      BY <3>1 DEF Filed
    <3> QED BY <3>1, <3>2, <2>1, <1>1
  <2> QED BY <2>2, <2>3, <2>4
<1>3. CASE \A x \in Linked(hash) : hash.elems[x].key # key
  <2>1. LookupKey(hash, key) = {}
    BY <1>1, <1>3, LookupIntact
  <2>2. T = {}
    BY <1>3 DEF Filed
  <2> QED BY <2>1, <2>2
<1> QED BY <1>2, <1>3

(* A new socket is added to the table.                                     *)
LEMMA FiledAdd ==
  ASSUME NEW sk, NEW sk2, NEW hash, Filed(sk, hash), NEW key \in Key, NEW s \in Sock,
         sk[s] = NULL, LookupKey(hash, key) = {}, sk2[s] # NULL, sk2[s].key = key,
         \A x \in Sock : x # s => sk2[x] = sk[x]
  PROVE  Filed(sk2, Add(hash, key, s))
<1> DEFINE h == Add(hash, key, s)
           e == NewElem(hash)
<1>1. key \in Nat /\ Intact(hash, Sock)
  BY ContextAssumption DEF Filed
<1>2. /\ Intact(h, Sock) /\ e \notin Linked(hash) /\ Linked(h) = Linked(hash) \cup {e}
      /\ h.elems[e].key = key /\ h.elems[e].value = s
      /\ \A x \in Linked(hash) : h.elems[x] = hash.elems[x]
  BY <1>1, AddIntact
<1> HIDE DEF h, e
<1>3. {x \in Sock : sk[x] # NULL /\ sk[x].key = key} = {}
  BY FiledLookup
<1>4. \A x \in Linked(hash) : hash.elems[x].key # key
  BY <1>3 DEF Filed
<1>5. \A x \in Linked(h) : /\ h.elems[x].value \in Sock /\ sk2[h.elems[x].value] # NULL
                           /\ sk2[h.elems[x].value].key = h.elems[x].key
  <2> TAKE x \in Linked(h)
  <2>1. CASE x = e
    BY <2>1, <1>2
  <2>2. CASE x # e
    <3>1. x \in Linked(hash) /\ h.elems[x] = hash.elems[x]
      BY <2>2, <1>2
    <3>2. hash.elems[x].value \in Sock /\ hash.elems[x].value # s
      BY <3>1 DEF Filed
    <3> QED BY <3>1, <3>2 DEF Filed
  <2> QED BY <2>1, <2>2
<1>6. \A x, y \in Linked(h) : h.elems[x].key = h.elems[y].key => x = y
  BY <1>2, <1>4 DEF Filed
<1>7. \A x \in Sock : sk2[x] # NULL => \E y \in Linked(h) : h.elems[y].value = x
  <2> TAKE x \in Sock
  <2> HAVE sk2[x] # NULL
  <2>1. CASE x = s
    BY <2>1, <1>2
  <2>2. CASE x # s
    <3>1. PICK y \in Linked(hash) : hash.elems[y].value = x
      BY <2>2 DEF Filed
    <3> QED BY <3>1, <1>2
  <2> QED BY <2>1, <2>2
<1> QED BY <1>2, <1>5, <1>6, <1>7 DEF Filed, h

(* A socket is taken from the table.                                       *)
LEMMA FiledDel ==
  ASSUME NEW sk, NEW sk2, NEW hash, Filed(sk, hash), NEW e \in Linked(hash),
         sk2[hash.elems[e].value] = NULL,
         \A x \in Sock : x # hash.elems[e].value =>
            /\ sk2[x] = NULL <=> sk[x] = NULL
            /\ sk[x] # NULL => sk2[x].key = sk[x].key
  PROVE  Filed(sk2, Del(hash, hash.elems[e].key))
<1> DEFINE h == Del(hash, hash.elems[e].key)
           s == hash.elems[e].value
<1>1. Intact(hash, Sock) /\ \A x \in Linked(hash) : hash.elems[x].key = hash.elems[e].key => x = e
  BY DEF Filed
<1>2. /\ Intact(h, Sock) /\ Linked(h) = Linked(hash) \ {e}
      /\ \A x \in Linked(h) :
           h.elems[x].key = hash.elems[x].key /\ h.elems[x].value = hash.elems[x].value
  BY <1>1, DelIntact
<1> HIDE DEF h
<1>3. ASSUME NEW x \in Linked(h)
      PROVE  /\ x \in Linked(hash) /\ hash.elems[x].value \in Sock /\ hash.elems[x].value # s
             /\ sk[hash.elems[x].value] # NULL /\ sk[hash.elems[x].value].key = hash.elems[x].key
  <2>1. x \in Linked(hash) /\ x # e
    BY <1>2
  <2>2. /\ hash.elems[x].value \in Sock /\ sk[hash.elems[x].value] # NULL
        /\ sk[hash.elems[x].value].key = hash.elems[x].key /\ sk[s].key = hash.elems[e].key
    BY <2>1 DEF Filed
  <2> QED BY <2>1, <2>2, <1>1
<1>4. \A x \in Linked(h) : /\ h.elems[x].value \in Sock /\ sk2[h.elems[x].value] # NULL
                           /\ sk2[h.elems[x].value].key = h.elems[x].key
  BY <1>2, <1>3
<1>5. \A x, y \in Linked(h) : h.elems[x].key = h.elems[y].key => x = y
  BY <1>2, <1>3 DEF Filed
<1>6. \A x \in Sock : sk2[x] # NULL => \E y \in Linked(h) : h.elems[y].value = x
  <2> TAKE x \in Sock
  <2> HAVE sk2[x] # NULL
  <2>1. x # s /\ sk[x] # NULL
    OBVIOUS
  <2>2. PICK y \in Linked(hash) : hash.elems[y].value = x
    BY <2>1 DEF Filed
  <2> QED BY <2>1, <2>2, <1>2
<1> QED BY <1>2, <1>4, <1>5, <1>6 DEF Filed, h

-----------------------------------------------------------------------------
(* The inductive invariant                                                 *)

(* The cache and the loop hold pointers to sockets in use only.  An        *)
(* iterator stays on the table, does not come back to the socket that is   *)
(* visited, and when all is freed it has to give all that is left.         *)
Pointers ==
  /\ at \in {"receive", "acks", "sweep", "free", "gone"} /\ i = 0
  /\ last_utp_socket \in Live \cup {NULL} /\ conn \in Live \cup {NULL}
  /\ conn # NULL => at = "sweep"
  /\ at \in {"sweep", "free"} => IsIterator(utp_sockets, it)
  /\ conn # NULL => \A e \in Remaining(utp_sockets, it) : ValueAt(e) # conn
  /\ at = "free" => Remaining(utp_sockets, it) = Linked(utp_sockets)

Consistent ==
  Listed(sock, ack_sockets) /\ Filed(sock, utp_sockets) /\ Pointers

LEMMA ConsistentTypeOK == Consistent => TypeOK
<1> SUFFICES ASSUME Consistent PROVE TypeOK
  OBVIOUS
<1>1. /\ Len(ack_sockets) \in Nat /\ Len(ack_sockets) <= Cardinality(Sock) /\ Cardinality(Sock) \in Nat
  BY ListedBound DEF Consistent
<1>2. ASSUME NEW s \in Live
      PROVE sock[s] \in [key: Key, over: BOOLEAN, ida: -1..Cardinality(Sock)-1]
  <2>1. s \in Sock /\ sock[s] # NULL
    BY DEF Live
  <2>2. sock[s] \in UTPSocket
    BY <2>1 DEF Consistent, Listed
  <2>3. DOMAIN ack_sockets = 1..Len(ack_sockets)
    BY DEF Consistent, Listed
  <2>4. sock[s].ida \in -1..Cardinality(Sock)-1
    BY <1>1, <2>1, <2>2, <2>3 DEF Consistent, Listed, UTPSocket
  <2> QED BY <2>2, <2>4 DEF UTPSocket
<1>3. i \in 0..Width-1
  BY ContextAssumption DEF Consistent, Pointers
<1> QED BY <1>2, <1>3 DEF TypeOK, Consistent, Pointers, Live

LEMMA ConsistentDispatch == Consistent => DispatchIsRight
<1> SUFFICES ASSUME Consistent PROVE DispatchIsRight
  OBVIOUS
<1>1. last_utp_socket \in Live \cup {NULL}
  BY DEF Consistent, Pointers
<1>2. ASSUME NEW key \in Key PROVE Dispatch(key) = {s \in Live : sock[s].key = key}
  <2>1. LookupKey(utp_sockets, key) = {s \in Sock : sock[s] # NULL /\ sock[s].key = key}
    BY FiledLookup DEF Consistent
  <2>2. {s \in Sock : sock[s] # NULL /\ sock[s].key = key} = {s \in Live : sock[s].key = key}
    BY DEF Live
  <2>3. CASE last_utp_socket # NULL /\ sock[last_utp_socket].key = key
    <3>1. last_utp_socket \in {s \in Sock : sock[s] # NULL /\ sock[s].key = key}
      BY <1>1, <2>3 DEF Live
    <3>2. ASSUME NEW s \in Sock, NEW t \in Sock, sock[s] # NULL, sock[t] # NULL, sock[s].key = sock[t].key
          PROVE s = t
      <4>1. PICK e \in Linked(utp_sockets) : utp_sockets.elems[e].value = s
        BY <3>2 DEF Consistent, Filed
      <4>2. PICK f \in Linked(utp_sockets) : utp_sockets.elems[f].value = t
        BY <3>2 DEF Consistent, Filed
      <4>3. utp_sockets.elems[e].key = utp_sockets.elems[f].key
        BY <3>2, <4>1, <4>2 DEF Consistent, Filed
      <4>4. e = f
        BY <4>3 DEF Consistent, Filed
      <4> QED BY <4>1, <4>2, <4>4
    <3>3. {s \in Sock : sock[s] # NULL /\ sock[s].key = key} = {last_utp_socket}
      BY <2>3, <3>1, <3>2
    <3> QED BY <2>2, <2>3, <3>3 DEF Dispatch
  <2>4. CASE ~(last_utp_socket # NULL /\ sock[last_utp_socket].key = key)
    BY <2>1, <2>2, <2>4 DEF Dispatch
  <2> QED BY <2>3, <2>4
<1> QED BY <1>1, <1>2 DEF DispatchIsRight

LEMMA ConsistentAckList == Consistent => AckListAgrees
<1> SUFFICES ASSUME Consistent PROVE AckListAgrees
  OBVIOUS
<1>1. ack_sockets \in Seq(Sock) /\ DOMAIN ack_sockets = 1..Len(ack_sockets) /\ Len(ack_sockets) \in Nat
  BY DEF Consistent, Listed
<1>2. \A n \in DOMAIN ack_sockets : ack_sockets[n] \in Live /\ sock[ack_sockets[n]].ida = n - 1
  BY <1>1 DEF Consistent, Listed, Live
<1>3. ASSUME NEW s \in Live
      PROVE sock[s].ida = -1 \/ (sock[s].ida + 1 \in 1..Len(ack_sockets) /\ ack_sockets[sock[s].ida + 1] = s)
  BY <1>1 DEF Consistent, Listed, Live
<1>4. \A s \in Live : sock[s].ida \in Int
  BY IsSocket DEF Consistent, Listed, Live
<1>5. ToSet(ack_sockets) \subseteq Live
  BY <1>2 DEF ToSet
<1>6. ASSUME NEW s \in Live, NEW n \in 1..Len(ack_sockets)
      PROVE ack_sockets[n] = s <=> sock[s].ida = n - 1
  <2>1. ack_sockets[n] = s => sock[s].ida = n - 1
    BY <1>1, <1>2
  <2>2. sock[s].ida = n - 1 => ack_sockets[n] = s
    <3>1. sock[s].ida = n - 1 => sock[s].ida # -1 /\ sock[s].ida + 1 = n
      OBVIOUS
    <3> QED BY <3>1, <1>3
  <2> QED BY <2>1, <2>2
<1>7. \A s \in Live : sock[s].ida < Len(ack_sockets)
  BY <1>1, <1>3, <1>4
<1> QED BY <1>5, <1>6, <1>7 DEF AckListAgrees

LEMMA ConsistentAcksShrink == Consistent => AcksShrink
<1> SUFFICES ASSUME Consistent PROVE AcksShrink
  OBVIOUS
<1>1. ToSet(ack_sockets) \subseteq Live
  BY DEF Consistent, Listed, Live, ToSet
<1>2. \A s \in Live : ToSet(Unlisted(s)[2]) = ToSet(ack_sockets) \ {s}
  BY UnlistedAgrees DEF Consistent
<1> QED BY <1>1, <1>2 DEF AcksShrink, Consistent, Pointers

LEMMA ConsistentTable == Consistent => TableIntact
BY IntactIsWellLinked DEF Consistent, Filed, TableIntact

-----------------------------------------------------------------------------
(* Every step keeps it                                                     *)

(* Two elements do not hold the same socket.                               *)
LEMMA FiledValues ==
  ASSUME NEW sk, NEW hash, Filed(sk, hash), NEW e \in Linked(hash), NEW f \in Linked(hash),
         hash.elems[e].value = hash.elems[f].value
  PROVE  e = f
<1>1. hash.elems[e].key = hash.elems[f].key
  BY DEF Filed
<1> QED BY <1>1 DEF Filed

LEMMA InitConsistent == Init => Consistent
<1> SUFFICES ASSUME Init PROVE Consistent
  OBVIOUS
<1>1. Listed(sock, ack_sockets)
  BY DEF Init, Listed
<1>2. Filed(sock, utp_sockets)
  BY EmptyIsIntact DEF Init, Filed
<1>3. Pointers
  BY DEF Init, Pointers
<1> QED BY <1>1, <1>2, <1>3 DEF Consistent

(* A step of which the table and the loop see nothing                      *)
LEMMA StepAtSockets ==
  ASSUME Consistent, Listed(sock', ack_sockets'), SameSockets(sock, sock'),
         UNCHANGED <<utp_sockets, control>>, last_utp_socket' \in Live \cup {NULL}
  PROVE  Consistent'
<1>1. Live' = Live
  BY DEF Live, SameSockets
<1>2. Filed(sock', utp_sockets')
  BY FiledSame DEF Consistent
<1>3. Pointers'
  BY <1>1 DEF Consistent, Pointers, control, ValueAt
<1> QED BY <1>2, <1>3 DEF Consistent

(* A step of the loop alone                                                *)
LEMMA StepOfLoop ==
  ASSUME Consistent, UNCHANGED <<sock, utp_sockets, ack_sockets, last_utp_socket>>, Pointers'
  PROVE  Consistent'
<1>1. Listed(sock', ack_sockets') /\ Filed(sock', utp_sockets')
  BY DEF Consistent
<1> QED BY <1>1 DEF Consistent

LEMMA SendDataSame ==
  ASSUME Consistent, NEW s \in Live, SendData(s)
  PROVE  /\ Listed(sock', ack_sockets') /\ SameSockets(sock, sock')
         /\ ToSet(ack_sockets') = ToSet(ack_sockets) \ {s}
BY UnlistedAgrees DEF Consistent, SendData

(* A socket is put at the end of the list.                                 *)
LEMMA ScheduleAckSame ==
  ASSUME Consistent, NEW s \in Live, ScheduleAck(s)
  PROVE  /\ Listed(sock', ack_sockets') /\ SameSockets(sock, sock')
         /\ \/ s \in ToSet(ack_sockets) /\ ack_sockets' = ack_sockets
            \/ ToSet(ack_sockets') = ToSet(ack_sockets) \cup {s}
<1> DEFINE n == Len(ack_sockets)
<1>1. /\ sock \in [Sock -> UTPSocket \cup {NULL}] /\ ack_sockets \in Seq(Sock) /\ n \in Nat
      /\ DOMAIN ack_sockets = 1..n
      /\ \A k \in 1..n : sock[ack_sockets[k]] # NULL /\ sock[ack_sockets[k]].ida = k - 1
      /\ \A x \in Sock : sock[x] # NULL =>
           sock[x].ida = -1 \/ (sock[x].ida + 1 \in 1..n /\ ack_sockets[sock[x].ida + 1] = x)
  BY DEF Consistent, Listed
<1>2. s \in Sock /\ sock[s] # NULL /\ sock[s] \in UTPSocket
  BY <1>1 DEF Live
<1>3. SameSockets(sock, sock)
  BY DEF SameSockets
<1>4. CASE sock[s].ida # -1
  <2>1. sock' = sock /\ ack_sockets' = ack_sockets
    BY <1>4 DEF ScheduleAck
  <2>2. s \in ToSet(ack_sockets)
    BY <1>1, <1>2, <1>4 DEF ToSet
  <2> QED BY <2>1, <2>2, <1>3 DEF Consistent
<1>5. CASE sock[s].ida = -1
  <2>1. sock' = [sock EXCEPT ![s].ida = n] /\ ack_sockets' = Append(ack_sockets, s)
    BY <1>5 DEF ScheduleAck
  <2>2. /\ ack_sockets' \in Seq(Sock) /\ DOMAIN ack_sockets' = 1..n+1 /\ ack_sockets'[n + 1] = s
        /\ \A k \in 1..n : ack_sockets'[k] = ack_sockets[k]
    BY <2>1, <1>1, <1>2, AppendProperties
  <2>3. /\ sock' \in [Sock -> UTPSocket \cup {NULL}] /\ \A x \in Sock : x # s => sock'[x] = sock[x]
        /\ sock'[s] \in UTPSocket /\ sock'[s].ida = n
        /\ sock'[s].key = sock[s].key /\ sock'[s].over = sock[s].over
    <3>1. sock' = [sock EXCEPT ![s] = [sock[s] EXCEPT !.ida = n]]
      BY <2>1
    <3>2. [sock[s] EXCEPT !.ida = n] \in UTPSocket /\ [sock[s] EXCEPT !.ida = n].ida = n
          /\ [sock[s] EXCEPT !.ida = n].key = sock[s].key
          /\ [sock[s] EXCEPT !.ida = n].over = sock[s].over
      BY <1>1, <1>2 DEF UTPSocket
    <3> QED BY <3>1, <3>2, <1>1, <1>2
  <2>4. sock'[s] # NULL
    BY <2>3, ContextAssumption
  <2>5. SameSockets(sock, sock')
    BY <2>3, <2>4, <1>2 DEF SameSockets
  <2>6. \A k \in 1..n : ack_sockets[k] # s
    BY <1>1, <1>5
  <2>7. \A k \in 1..n : k \in 1..n+1 /\ ack_sockets[k] \in Sock
    BY <1>1
  <2>8. ASSUME NEW k \in DOMAIN ack_sockets'
        PROVE sock'[ack_sockets'[k]] # NULL /\ sock'[ack_sockets'[k]].ida = k - 1
    <3>1. CASE k = n + 1
      BY <3>1, <2>2, <2>3, <2>4, <1>1
    <3>2. CASE k # n + 1
      <4>1. k \in 1..n
        BY <3>2, <2>2, <1>1
      <4> QED BY <4>1, <2>2, <2>3, <2>6, <2>7, <1>1
    <3> QED BY <3>1, <3>2
  <2>9. ASSUME NEW x \in Sock, sock'[x] # NULL
        PROVE sock'[x].ida = -1 \/ (sock'[x].ida + 1 \in DOMAIN ack_sockets' /\ ack_sockets'[sock'[x].ida + 1] = x)
    <3>1. CASE x = s
      BY <3>1, <2>2, <2>3, <1>1
    <3>2. CASE x # s
      <4>1. sock'[x] = sock[x]
        BY <3>2, <2>3
      <4>2. sock[x].ida = -1 \/ (sock[x].ida + 1 \in 1..n /\ ack_sockets[sock[x].ida + 1] = x)
        BY <4>1, <2>9, <1>1
      <4> QED BY <4>1, <4>2, <2>2, <2>7
    <3> QED BY <3>1, <3>2
  <2>10. Listed(sock', ack_sockets')
    BY <2>2, <2>3, <2>8, <2>9 DEF Listed
  <2>11. ToSet(ack_sockets') = ToSet(ack_sockets) \cup {s}
    <3>1. ASSUME NEW x \in ToSet(ack_sockets') PROVE x \in ToSet(ack_sockets) \cup {s}
      <4>1. PICK k \in 1..n+1 : x = ack_sockets'[k]
        BY <2>2 DEF ToSet
      <4>2. k = n + 1 \/ k \in 1..n
        BY <1>1
      <4> QED BY <4>1, <4>2, <2>2, <1>1 DEF ToSet
    <3>2. ASSUME NEW x \in ToSet(ack_sockets) PROVE x \in ToSet(ack_sockets')
      <4>1. PICK k \in 1..n : x = ack_sockets[k]
        BY <1>1 DEF ToSet
      <4> QED BY <4>1, <2>2, <2>7 DEF ToSet
    <3>3. s \in ToSet(ack_sockets')
      <4>1. n + 1 \in 1..n+1
        BY <1>1
      <4> QED BY <4>1, <2>2 DEF ToSet
    <3> QED BY <3>1, <3>2, <3>3
  <2> QED BY <2>5, <2>10, <2>11
<1> QED BY <1>4, <1>5

LEMMA SendConsistent == ASSUME Consistent, NEW s \in Sock, Send(s) PROVE Consistent'
<1>1. s \in Live /\ SendData(s) /\ UNCHANGED <<utp_sockets, last_utp_socket, control>>
  BY DEF Send
<1>2. last_utp_socket' \in Live \cup {NULL}
  BY <1>1 DEF Consistent, Pointers
<1> QED BY <1>1, <1>2, SendDataSame, StepAtSockets

LEMMA EndSame ==
  ASSUME Consistent, NEW s \in Sock, End(s)
  PROVE  /\ Listed(sock', ack_sockets') /\ s \in Live
         /\ \A x \in Sock : /\ sock[x] = NULL <=> sock'[x] = NULL
                            /\ sock[x] # NULL => sock'[x].key = sock[x].key
         /\ \A x \in Sock : x # s => sock'[x] = sock[x]
         /\ sock'[s].over = TRUE
<1>1. s \in Live /\ sock' = [sock EXCEPT ![s].over = TRUE] /\ ack_sockets' = ack_sockets
  BY DEF End
<1>2. /\ sock \in [Sock -> UTPSocket \cup {NULL}] /\ ack_sockets \in Seq(Sock)
      /\ sock[s] # NULL /\ sock[s] \in UTPSocket
  BY <1>1 DEF Consistent, Listed, Live
<1>3. LET x == [sock[s] EXCEPT !.over = TRUE]
      IN  x \in UTPSocket /\ x.over = TRUE /\ x.key = sock[s].key /\ x.ida = sock[s].ida
  BY <1>2 DEF UTPSocket
<1>4. sock' = [sock EXCEPT ![s] = [sock[s] EXCEPT !.over = TRUE]]
  BY <1>1
<1>5. /\ sock' \in [Sock -> UTPSocket \cup {NULL}] /\ \A x \in Sock : x # s => sock'[x] = sock[x]
      /\ sock'[s] \in UTPSocket /\ sock'[s].over = TRUE
      /\ sock'[s].key = sock[s].key /\ sock'[s].ida = sock[s].ida
  BY <1>2, <1>3, <1>4
<1>6. sock'[s] # NULL
  BY <1>5, ContextAssumption
<1>7. \A x \in Sock : /\ sock[x] = NULL <=> sock'[x] = NULL
                      /\ sock[x] # NULL => sock'[x].key = sock[x].key /\ sock'[x].ida = sock[x].ida
  BY <1>2, <1>5, <1>6
<1>8. \A n \in DOMAIN ack_sockets : ack_sockets[n] \in Sock
  BY <1>2
<1>9. Listed(sock', ack_sockets')
  <2>1. \A n \in DOMAIN ack_sockets : sock'[ack_sockets[n]] # NULL /\ sock'[ack_sockets[n]].ida = n - 1
    BY <1>7, <1>8 DEF Consistent, Listed
  <2>2. \A x \in Sock : sock'[x] # NULL =>
          sock'[x].ida = -1 \/ (sock'[x].ida + 1 \in DOMAIN ack_sockets /\ ack_sockets[sock'[x].ida + 1] = x)
    BY <1>7 DEF Consistent, Listed
  <2> QED BY <2>1, <2>2, <1>1, <1>2, <1>5 DEF Listed
<1> QED BY <1>1, <1>5, <1>7, <1>9

LEMMA EndConsistent == ASSUME Consistent, NEW s \in Sock, End(s) PROVE Consistent'
<1>1. UNCHANGED <<utp_sockets, last_utp_socket, control>>
  BY DEF End
<1>2. \A x \in Sock : /\ sock[x] = NULL <=> sock'[x] = NULL
                      /\ sock[x] # NULL => sock'[x].key = sock[x].key
  BY EndSame
<1>3. Filed(sock', utp_sockets)
  <2>1. \A x \in Sock : sock'[x] # NULL => sock[x] # NULL
    BY <1>2
  <2> QED BY <1>2, <2>1 DEF Consistent, Filed
<1>4. Live' = Live
  BY <1>2 DEF Live
<1>5. Pointers'
  BY <1>1, <1>4 DEF Consistent, Pointers, control, ValueAt
<1> QED BY <1>1, <1>3, <1>5, EndSame DEF Consistent

(* What a new socket changes                                               *)
LEMMA OpenSame ==
  ASSUME Consistent, NEW s \in Sock, NEW key \in Key, Open(s, key)
  PROVE  /\ Listed(sock', ack_sockets') /\ Filed(sock', utp_sockets')
         /\ sock[s] = NULL /\ sock'[s] = [key |-> key, over |-> FALSE, ida |-> -1]
         /\ \A x \in Sock : x # s => sock'[x] = sock[x]
         /\ Live' = Live \cup {s}
<1>1. /\ sock[s] = NULL /\ LookupKey(utp_sockets, key) = {}
      /\ sock' = [sock EXCEPT ![s] = [key |-> key, over |-> FALSE, ida |-> -1]]
      /\ utp_sockets' = Add(utp_sockets, key, s) /\ ack_sockets' = ack_sockets
  BY DEF Open
<1> DEFINE new == [key |-> key, over |-> FALSE, ida |-> -1]
<1>2. sock \in [Sock -> UTPSocket \cup {NULL}] /\ ack_sockets \in Seq(Sock)
  BY DEF Consistent, Listed
<1>3. new \in UTPSocket /\ new.key = key /\ new.ida = -1
  BY DEF UTPSocket
<1> HIDE DEF new
<1>4. new # NULL
  BY <1>3, ContextAssumption
<1>5. /\ sock' \in [Sock -> UTPSocket \cup {NULL}] /\ sock'[s] = new
      /\ \A x \in Sock : x # s => sock'[x] = sock[x]
  BY <1>1, <1>2, <1>3 DEF new
<1>6. \A n \in DOMAIN ack_sockets : ack_sockets[n] \in Sock /\ ack_sockets[n] # s
  BY <1>1, <1>2 DEF Consistent, Listed
<1>7. Listed(sock', ack_sockets')
  <2>1. \A n \in DOMAIN ack_sockets : sock'[ack_sockets[n]] # NULL /\ sock'[ack_sockets[n]].ida = n - 1
    BY <1>5, <1>6 DEF Consistent, Listed
  <2>2. \A x \in Sock : sock'[x] # NULL =>
          sock'[x].ida = -1 \/ (sock'[x].ida + 1 \in DOMAIN ack_sockets /\ ack_sockets[sock'[x].ida + 1] = x)
    BY <1>3, <1>5 DEF Consistent, Listed
  <2> QED BY <2>1, <2>2, <1>1, <1>2, <1>5 DEF Listed
<1>8. Filed(sock', utp_sockets')
  <2>1. Filed(sock, utp_sockets) /\ sock'[s] # NULL /\ sock'[s].key = key
    BY <1>3, <1>4, <1>5 DEF Consistent
  <2> QED BY <1>1, <1>5, <2>1, FiledAdd
<1>9. Live' = Live \cup {s}
  BY <1>4, <1>5 DEF Live
<1> QED BY <1>1, <1>5, <1>7, <1>8, <1>9 DEF new

LEMMA OpenRemaining ==
  ASSUME Consistent, NEW s \in Sock, NEW key \in Key, Open(s, key), at \in {"sweep", "free"}
  PROVE  LET e == NewElem(utp_sockets)
         IN  /\ IsIterator(utp_sockets', it')
             /\ \/ Remaining(utp_sockets', it') = Remaining(utp_sockets, it)
                \/ Remaining(utp_sockets', it') = Remaining(utp_sockets, it) \cup {e}
             /\ utp_sockets'.elems[e].value = s
             /\ \A x \in Remaining(utp_sockets, it) :
                  x \in Linked(utp_sockets) /\ utp_sockets'.elems[x].value = ValueAt(x)
<1>1. Intact(utp_sockets, Sock) /\ IsIterator(utp_sockets, it) /\ key \in Nat
  BY ContextAssumption DEF Consistent, Filed, Pointers
<1>2. utp_sockets' = Add(utp_sockets, key, s) /\ it' = it
  BY DEF Open, control
<1>3. /\ utp_sockets'.elems[NewElem(utp_sockets)].value = s
      /\ \A x \in Linked(utp_sockets) : utp_sockets'.elems[x] = utp_sockets.elems[x]
  BY <1>1, <1>2, AddIntact
<1>4. Remaining(utp_sockets, it) \subseteq Linked(utp_sockets)
  BY <1>1, RemainingLinked
<1>5. /\ IsIterator(utp_sockets', it)
      /\ \/ Remaining(utp_sockets', it) = Remaining(utp_sockets, it)
         \/ Remaining(utp_sockets', it) = Remaining(utp_sockets, it) \cup {NewElem(utp_sockets)}
  BY <1>1, <1>2, AddRemaining
<1> QED BY <1>2, <1>3, <1>4, <1>5 DEF ValueAt

LEMMA OpenConsistent ==
  ASSUME Consistent, NEW s \in Sock, NEW key \in Key, Open(s, key) PROVE Consistent'
<1>1. UNCHANGED <<last_utp_socket, at, i, it, conn>>
  BY DEF Open, control
<1>2. sock[s] = NULL /\ Live' = Live \cup {s} /\ s \notin Live
  BY OpenSame DEF Live
<1>3. at \in {"sweep", "free"} => IsIterator(utp_sockets', it')
  BY OpenRemaining
<1>4. ASSUME conn # NULL PROVE \A e \in Remaining(utp_sockets', it') : ValueAt(e)' # conn
  <2>1. at = "sweep" /\ conn \in Live /\ conn # s
    BY <1>2, <1>4 DEF Consistent, Pointers
  <2>2. \A e \in Remaining(utp_sockets, it) : ValueAt(e) # conn
    BY <1>4 DEF Consistent, Pointers
  <2> DEFINE new == NewElem(utp_sockets)
  <2>3. /\ \A x \in Remaining(utp_sockets', it') : x \in Remaining(utp_sockets, it) \/ x = new
        /\ utp_sockets'.elems[new].value = s
        /\ \A x \in Remaining(utp_sockets, it) : utp_sockets'.elems[x].value = ValueAt(x)
    BY <2>1, OpenRemaining
  <2> HIDE DEF new
  <2>4. \A e \in Remaining(utp_sockets', it') : utp_sockets'.elems[e].value # conn
    BY <2>1, <2>2, <2>3
  <2> QED BY <2>4 DEF ValueAt
<1>5. at # "free"
  BY <1>1 DEF Consistent, Pointers, Open, Busy
<1>6. Pointers'
  BY <1>1, <1>2, <1>3, <1>4, <1>5 DEF Consistent, Pointers
<1> QED BY <1>6, OpenSame DEF Consistent

LEMMA ReceiveConsistent == ASSUME Consistent, NEW key \in Key, Receive(key) PROVE Consistent'
<1>1. PICK s \in Dispatch(key) : /\ last_utp_socket' = s
                                 /\ ScheduleAck(s) \/ SendData(s) \/ UNCHANGED <<sock, ack_sockets>>
  BY DEF Receive
<1>2. s \in Live
  BY ConsistentDispatch DEF DispatchIsRight
<1>3. UNCHANGED <<utp_sockets, control>> /\ last_utp_socket' \in Live \cup {NULL}
  BY <1>1, <1>2 DEF Receive
<1>4. Listed(sock', ack_sockets') /\ SameSockets(sock, sock')
  <2>1. CASE ScheduleAck(s)
    BY <1>2, <2>1, ScheduleAckSame
  <2>2. CASE SendData(s)
    BY <1>2, <2>2, SendDataSame
  <2>3. CASE UNCHANGED <<sock, ack_sockets>>
    BY <2>3 DEF Consistent, SameSockets
  <2> QED BY <1>1, <2>1, <2>2, <2>3
<1> QED BY <1>3, <1>4, StepAtSockets

LEMMA AdvanceFromZero == Advance(0) = 0
<1>1. Width \in Nat /\ Width >= 2
  BY ContextAssumption
<1>2. (0 - 1) % Width = Width - 1
  BY <1>1, SMT
<1>3. (Width - 1) + 1 = Width /\ Width % Width = 0
  BY <1>1, SMT
<1> QED BY <1>2, <1>3 DEF Advance

LEMMA DeferredAckConsistent == ASSUME Consistent, DeferredAck PROVE Consistent'
<1> DEFINE s == ack_sockets[i + 1]
<1>1. i = 0 /\ 0 < Len(ack_sockets) /\ ack_sockets \in Seq(Sock) /\ DOMAIN ack_sockets = 1..Len(ack_sockets)
  BY DEF Consistent, Pointers, Listed, DeferredAck
<1>2. s \in Live /\ SendData(s)
  BY <1>1 DEF Consistent, Listed, Live, DeferredAck
<1>3. UNCHANGED <<utp_sockets, control>>
  BY <1>1, AdvanceFromZero DEF DeferredAck, control
<1>4. last_utp_socket' \in Live \cup {NULL}
  BY DEF DeferredAck, Consistent, Pointers
<1> HIDE DEF s
<1> QED BY <1>2, <1>3, <1>4, SendDataSame, StepAtSockets

LEMMA DrainedConsistent == ASSUME Consistent, Drained PROVE Consistent'
<1>1. /\ UNCHANGED <<sock, utp_sockets, ack_sockets, last_utp_socket, it, conn>>
      /\ at = "receive" /\ at' = "acks" /\ i' = 0
  BY DEF Drained
<1>2. Pointers'
  BY <1>1 DEF Consistent, Pointers, Live
<1> QED BY <1>1, <1>2, StepOfLoop

LEMMA CheckTimeoutsConsistent == ASSUME Consistent, CheckTimeouts PROVE Consistent'
<1>1. /\ UNCHANGED <<sock, utp_sockets, ack_sockets, last_utp_socket, i, conn>>
      /\ at \in {"receive", "acks"} /\ at' \in {"receive", "sweep"} /\ it' = Iterator
  BY DEF CheckTimeouts
<1>2. IsIterator(utp_sockets, Iterator) /\ conn = NULL
  BY <1>1, IteratorStart DEF Consistent, Filed, Pointers
<1>3. Pointers'
  BY <1>1, <1>2 DEF Consistent, Pointers, Live
<1> QED BY <1>1, <1>3, StepOfLoop

(* The socket an iterator gives next                                       *)
LEMMA NextSocket ==
  ASSUME Consistent, at \in {"sweep", "free"}, ~AtEnd(utp_sockets, it)
  PROVE  LET e == NextElem(utp_sockets, it)
         IN  /\ e \in Linked(utp_sockets) /\ e \in Remaining(utp_sockets, it)
             /\ ValueAt(e) \in Live /\ sock[ValueAt(e)].key = utp_sockets.elems[e].key
             /\ IsIterator(utp_sockets, Iterate(utp_sockets, it))
             /\ Remaining(utp_sockets, Iterate(utp_sockets, it)) = Remaining(utp_sockets, it) \ {e}
<1>1. Intact(utp_sockets, Sock) /\ IsIterator(utp_sockets, it)
  BY DEF Consistent, Filed, Pointers
<1> DEFINE e == NextElem(utp_sockets, it)
<1>2. /\ e \in Linked(utp_sockets) /\ e \in Remaining(utp_sockets, it)
      /\ IsIterator(utp_sockets, Iterate(utp_sockets, it))
      /\ Remaining(utp_sockets, Iterate(utp_sockets, it)) = Remaining(utp_sockets, it) \ {e}
  BY <1>1, IteratorStep
<1> HIDE DEF e
<1>3. ValueAt(e) \in Live /\ sock[ValueAt(e)].key = utp_sockets.elems[e].key
  BY <1>2 DEF Consistent, Filed, ValueAt, Live
<1> QED BY <1>2, <1>3 DEF e

LEMMA VisitConsistent == ASSUME Consistent, Visit PROVE Consistent'
<1> DEFINE e == NextElem(utp_sockets, it)
<1>1. /\ UNCHANGED <<sock, utp_sockets, ack_sockets, last_utp_socket, at, i>>
      /\ at = "sweep" /\ ~AtEnd(utp_sockets, it)
      /\ conn' = ValueAt(e) /\ it' = Iterate(utp_sockets, it)
  BY DEF Visit
<1>2. /\ e \in Linked(utp_sockets) /\ ValueAt(e) \in Live /\ IsIterator(utp_sockets, it')
      /\ Remaining(utp_sockets, it') = Remaining(utp_sockets, it) \ {e}
  BY <1>1, NextSocket
<1>3. Remaining(utp_sockets, it) \subseteq Linked(utp_sockets)
  BY <1>1, RemainingLinked DEF Consistent, Filed, Pointers
<1> HIDE DEF e
<1>4. \A x \in Remaining(utp_sockets, it') : utp_sockets.elems[x].value # conn'
  <2> TAKE x \in Remaining(utp_sockets, it')
  <2>1. x \in Linked(utp_sockets) /\ x # e
    BY <1>2, <1>3
  <2> QED BY <1>1, <1>2, <2>1, FiledValues DEF Consistent, ValueAt
<1>5. \A x \in Remaining(utp_sockets', it') : ValueAt(x)' # conn'
  BY <1>1, <1>4 DEF ValueAt
<1>6. Live' = Live
  BY <1>1 DEF Live
<1>7. Pointers'
  BY <1>1, <1>2, <1>5, <1>6 DEF Consistent, Pointers
<1> QED BY <1>1, <1>7, StepOfLoop

(* The destructor takes a socket from the table, the list and the cache.   *)
LEMMA ForgetSame ==
  ASSUME Consistent, NEW e \in Linked(utp_sockets), Forget(ValueAt(e))
  PROVE  LET s == ValueAt(e)
         IN  /\ Listed(sock', ack_sockets') /\ Filed(sock', utp_sockets')
             /\ s \in Live /\ Live' = Live \ {s} /\ last_utp_socket' \in Live' \cup {NULL}
             /\ \A x \in Live' : sock'[x].key = sock[x].key /\ sock'[x].over = sock[x].over
             /\ ToSet(ack_sockets') = ToSet(ack_sockets) \ {s}
             /\ utp_sockets' = Del(utp_sockets, utp_sockets.elems[e].key)
<1> DEFINE s == ValueAt(e)
           sk == Unlisted(s)[1]
           ak == Unlisted(s)[2]
<1>1. s \in Live /\ s \in Sock /\ sock[s] # NULL /\ sock[s].key = utp_sockets.elems[e].key
  BY DEF Consistent, Filed, ValueAt, Live
<1>2. /\ last_utp_socket' = IF last_utp_socket = s THEN NULL ELSE last_utp_socket
      /\ utp_sockets' = Del(utp_sockets, utp_sockets.elems[e].key)
      /\ sock' = [sk EXCEPT ![s] = NULL] /\ ack_sockets' = ak
  BY <1>1 DEF Forget
<1>3. Listed(sk, ak) /\ SameSockets(sock, sk) /\ sk[s].ida = -1 /\ ToSet(ak) = ToSet(ack_sockets) \ {s}
  BY <1>1, UnlistedAgrees DEF Consistent
<1>4. s = utp_sockets.elems[e].value
  BY DEF ValueAt
<1> HIDE DEF sk, ak, s
<1>5. /\ sock' \in [Sock -> UTPSocket \cup {NULL}] /\ sock'[s] = NULL
      /\ \A x \in Sock : x # s => sock'[x] = sk[x]
  BY <1>1, <1>2, <1>3 DEF Listed
<1>6. \A x \in Sock : x # s => /\ sock'[x] = NULL <=> sock[x] = NULL
                               /\ sock[x] # NULL => sock'[x].key = sock[x].key /\ sock'[x].over = sock[x].over
  BY <1>3, <1>5 DEF SameSockets
<1>7. Live' = Live \ {s}
  BY <1>5, <1>6 DEF Live
<1>8. last_utp_socket' \in Live' \cup {NULL}
  BY <1>2, <1>7 DEF Consistent, Pointers
<1>9. Listed(sock', ack_sockets')
  <2>1. \A n \in DOMAIN ak : ak[n] \in Sock /\ ak[n] # s
    <3>1. \A n \in DOMAIN ak : ak[n] \in ToSet(ak)
      BY DEF ToSet
    <3> QED BY <1>3, <3>1 DEF Listed
  <2>2. \A n \in DOMAIN ak : sock'[ak[n]] # NULL /\ sock'[ak[n]].ida = n - 1
    BY <1>3, <1>5, <2>1 DEF Listed
  <2>3. \A x \in Sock : sock'[x] # NULL =>
          sock'[x].ida = -1 \/ (sock'[x].ida + 1 \in DOMAIN ak /\ ak[sock'[x].ida + 1] = x)
    BY <1>3, <1>5 DEF Listed
  <2> QED BY <1>2, <1>3, <1>5, <2>2, <2>3 DEF Listed
<1>10. Filed(sock', utp_sockets')
  <2>1. Filed(sock, utp_sockets) /\ sock'[utp_sockets.elems[e].value] = NULL
    BY <1>4, <1>5 DEF Consistent
  <2>2. \A x \in Sock : x # utp_sockets.elems[e].value =>
          /\ sock'[x] = NULL <=> sock[x] = NULL
          /\ sock[x] # NULL => sock'[x].key = sock[x].key
    BY <1>4, <1>6
  <2>3. Filed(sock', Del(utp_sockets, utp_sockets.elems[e].key))
    BY <2>1, <2>2, FiledDel
  <2> QED BY <1>2, <2>3
<1>11. \A x \in Live' : sock'[x].key = sock[x].key /\ sock'[x].over = sock[x].over
  BY <1>6, <1>7 DEF Live
<1> QED BY <1>1, <1>2, <1>3, <1>7, <1>8, <1>9, <1>10, <1>11 DEF s

(* An iterator that has left an element behind does not see it go.         *)
LEMMA ForgetRemaining ==
  ASSUME Consistent, NEW e \in Linked(utp_sockets), Forget(ValueAt(e)),
         NEW iter, IsIterator(utp_sockets, iter), e \notin Remaining(utp_sockets, iter)
  PROVE  /\ IsIterator(utp_sockets', iter)
         /\ Remaining(utp_sockets', iter) = Remaining(utp_sockets, iter)
         /\ Linked(utp_sockets') = Linked(utp_sockets) \ {e}
         /\ \A x \in Linked(utp_sockets') : utp_sockets'.elems[x].value = ValueAt(x)
<1>1. /\ Intact(utp_sockets, Sock)
      /\ \A x \in Linked(utp_sockets) : utp_sockets.elems[x].key = utp_sockets.elems[e].key => x = e
  BY DEF Consistent, Filed
<1>2. utp_sockets' = Del(utp_sockets, utp_sockets.elems[e].key)
  BY ForgetSame
<1>3. /\ IsIterator(Del(utp_sockets, utp_sockets.elems[e].key), iter)
      /\ Remaining(Del(utp_sockets, utp_sockets.elems[e].key), iter) = Remaining(utp_sockets, iter)
  BY <1>1, DelRemaining
<1>4. LET h == Del(utp_sockets, utp_sockets.elems[e].key)
      IN  /\ Linked(h) = Linked(utp_sockets) \ {e}
          /\ \A x \in Linked(h) : h.elems[x].value = utp_sockets.elems[x].value
  BY <1>1, DelIntact
<1> QED BY <1>2, <1>3, <1>4 DEF ValueAt

(* The element of the socket that is visited                               *)
LEMMA VisitedElem ==
  ASSUME Consistent, conn # NULL
  PROVE  /\ at = "sweep" /\ IsIterator(utp_sockets, it)
         /\ \E e \in Linked(utp_sockets) : ValueAt(e) = conn /\ e \notin Remaining(utp_sockets, it)
<1>1. at = "sweep" /\ conn \in Live /\ IsIterator(utp_sockets, it)
  BY DEF Consistent, Pointers
<1>2. PICK e \in Linked(utp_sockets) : utp_sockets.elems[e].value = conn
  BY <1>1 DEF Consistent, Filed, Live
<1>3. e \notin Remaining(utp_sockets, it)
  BY <1>2 DEF Consistent, Pointers, ValueAt
<1> QED BY <1>1, <1>2, <1>3 DEF ValueAt

LEMMA VisitedConsistent == ASSUME Consistent, Visited PROVE Consistent'
<1>1. conn # NULL /\ conn' = NULL /\ UNCHANGED <<at, i, it>>
  BY DEF Visited
<1>2. PICK e \in Linked(utp_sockets) : ValueAt(e) = conn /\ e \notin Remaining(utp_sockets, it)
  BY <1>1, VisitedElem
<1>3. at = "sweep" /\ IsIterator(utp_sockets, it)
  BY <1>1, VisitedElem
<1>4. CASE sock[conn].over
  <2>1. Forget(ValueAt(e))
    BY <1>2, <1>4 DEF Visited
  <2>2. Listed(sock', ack_sockets') /\ Filed(sock', utp_sockets') /\ last_utp_socket' \in Live' \cup {NULL}
    BY <2>1, ForgetSame
  <2>3. IsIterator(utp_sockets', it)
    BY <1>2, <1>3, <2>1, ForgetRemaining
  <2>4. Pointers'
    BY <1>1, <1>3, <2>2, <2>3 DEF Consistent, Pointers
  <2> QED BY <2>2, <2>4 DEF Consistent
<1>5. CASE ~sock[conn].over
  <2>1. UNCHANGED <<sock, utp_sockets, ack_sockets, last_utp_socket>>
    BY <1>5 DEF Visited
  <2>2. Pointers'
    BY <1>1, <1>3, <2>1 DEF Consistent, Pointers, Live
  <2> QED BY <2>1, <2>2, StepOfLoop
<1> QED BY <1>4, <1>5

LEMMA SweepDoneConsistent == ASSUME Consistent, SweepDone PROVE Consistent'
<1>1. /\ UNCHANGED <<sock, utp_sockets, ack_sockets, last_utp_socket, i, conn>>
      /\ conn = NULL /\ at' = "receive"
  BY DEF SweepDone
<1>2. Pointers'
  BY <1>1 DEF Consistent, Pointers, Live
<1> QED BY <1>1, <1>2, StepOfLoop

LEMMA DestroyConsistent == ASSUME Consistent, Destroy PROVE Consistent'
<1>1. /\ UNCHANGED <<sock, utp_sockets, ack_sockets, last_utp_socket, i, conn>>
      /\ at = "receive" /\ at' = "free" /\ it' = Iterator
  BY DEF Destroy
<1>2. /\ IsIterator(utp_sockets, Iterator) /\ conn = NULL
      /\ Remaining(utp_sockets, Iterator) = Linked(utp_sockets)
  BY <1>1, IteratorStart DEF Consistent, Filed, Pointers
<1>3. Pointers'
  BY <1>1, <1>2 DEF Consistent, Pointers, Live
<1> QED BY <1>1, <1>3, StepOfLoop

LEMMA FreeNextSame ==
  ASSUME Consistent, FreeNext
  PROVE  LET e == NextElem(utp_sockets, it)
         IN  /\ e \in Linked(utp_sockets) /\ Forget(ValueAt(e))
             /\ IsIterator(utp_sockets', it')
             /\ Remaining(utp_sockets', it') = Remaining(utp_sockets, it) \ {e}
             /\ Remaining(utp_sockets, it) = Linked(utp_sockets)
             /\ Linked(utp_sockets') = Linked(utp_sockets) \ {e}
             /\ \A x \in Linked(utp_sockets') : utp_sockets'.elems[x].value = ValueAt(x)
<1> DEFINE e == NextElem(utp_sockets, it)
           next == Iterate(utp_sockets, it)
<1>1. at = "free" /\ ~AtEnd(utp_sockets, it) /\ Forget(ValueAt(e)) /\ it' = next
  BY DEF FreeNext
<1>2. /\ e \in Linked(utp_sockets) /\ IsIterator(utp_sockets, next)
      /\ Remaining(utp_sockets, next) = Remaining(utp_sockets, it) \ {e}
  BY <1>1, NextSocket
<1> HIDE DEF e, next
<1>3. /\ IsIterator(utp_sockets', next)
      /\ Remaining(utp_sockets', next) = Remaining(utp_sockets, next)
      /\ Linked(utp_sockets') = Linked(utp_sockets) \ {e}
      /\ \A x \in Linked(utp_sockets') : utp_sockets'.elems[x].value = ValueAt(x)
  BY <1>1, <1>2, ForgetRemaining
<1>4. Remaining(utp_sockets, it) = Linked(utp_sockets)
  BY <1>1 DEF Consistent, Pointers
<1> QED BY <1>1, <1>2, <1>3, <1>4 DEF e

LEMMA FreeNextConsistent == ASSUME Consistent, FreeNext PROVE Consistent'
<1>1. PICK e \in Linked(utp_sockets) :
        /\ Forget(ValueAt(e)) /\ IsIterator(utp_sockets', it')
        /\ Remaining(utp_sockets', it') = Linked(utp_sockets')
  BY FreeNextSame
<1>2. at = "free" /\ UNCHANGED <<at, i, conn>> /\ conn = NULL
  BY DEF FreeNext, Consistent, Pointers
<1>3. Listed(sock', ack_sockets') /\ Filed(sock', utp_sockets') /\ last_utp_socket' \in Live' \cup {NULL}
  BY <1>1, ForgetSame
<1>4. Pointers'
  BY <1>1, <1>2, <1>3 DEF Consistent, Pointers
<1> QED BY <1>3, <1>4 DEF Consistent

LEMMA FreedConsistent == ASSUME Consistent, Freed PROVE Consistent'
<1>1. /\ UNCHANGED <<sock, utp_sockets, ack_sockets, last_utp_socket, i, conn>>
      /\ at = "free" /\ at' = "gone"
  BY DEF Freed
<1>2. Pointers'
  BY <1>1 DEF Consistent, Pointers, Live
<1> QED BY <1>1, <1>2, StepOfLoop

LEMMA StepConsistent == Consistent /\ [Next]_vars => Consistent'
<1> SUFFICES ASSUME Consistent, [Next]_vars PROVE Consistent'
  OBVIOUS
<1>1. CASE UNCHANGED vars
  <2>1. UNCHANGED <<sock, utp_sockets, ack_sockets, last_utp_socket, at, i, it, conn>>
    BY <1>1 DEF vars, control
  <2>2. Pointers'
    BY <2>1 DEF Consistent, Pointers, Live, ValueAt
  <2> QED BY <2>1, <2>2, StepOfLoop
<1>2. CASE \E s \in Sock : Send(s) \/ End(s) \/ \E key \in Key : Open(s, key)
  BY <1>2, SendConsistent, EndConsistent, OpenConsistent
<1>3. CASE \E key \in Key : Receive(key)
  BY <1>3, ReceiveConsistent
<1>4. CASE Drained \/ DeferredAck \/ CheckTimeouts \/ Visit \/ Visited \/ SweepDone
  BY <1>4, DrainedConsistent, DeferredAckConsistent, CheckTimeoutsConsistent, VisitConsistent,
     VisitedConsistent, SweepDoneConsistent
<1>5. CASE Destroy \/ FreeNext \/ Freed
  BY <1>5, DestroyConsistent, FreeNextConsistent, FreedConsistent
<1> QED BY <1>1, <1>2, <1>3, <1>4, <1>5 DEF Next

LEMMA AlwaysConsistent == Spec => []Consistent
BY InitConsistent, StepConsistent, PTL DEF Spec

-----------------------------------------------------------------------------
(* The theorems                                                            *)

(* Every variable keeps its type; a socket's place in the ack list stays   *)
(* below the number of sockets, and the index of the loop that issues acks *)
(* is never left wrapped at the largest size_t.                            *)
THEOREM TypeCorrect == Spec => []TypeOK
BY AlwaysConsistent, ConsistentTypeOK, PTL

(* Each element ever used by utp_hash is in one bucket's chain, its key's, *)
(* or in the free list, and there once, after any additions and deletions. *)
THEOREM TableStaysIntact == Spec => []TableIntact
BY AlwaysConsistent, ConsistentTable, PTL

(* utp_process_udp gives a datagram to the socket in use that has its key, *)
(* and to no other, whether it finds it in last_utp_socket or the table.   *)
THEOREM DispatchStaysRight == Spec => []DispatchIsRight
BY AlwaysConsistent, ConsistentDispatch, PTL

(* A socket's ida and its place in ack_sockets are the same, and no socket *)
(* that was deleted is listed: the assertions of removeSocketFromAckList.  *)
THEOREM AckListStaysRight == Spec => []AckListAgrees
BY AlwaysConsistent, ConsistentAckList, PTL

(* With every round of utp_issue_deferred_acks the list gets shorter.      *)
THEOREM AcksAlwaysShrink == Spec => []AcksShrink
BY AlwaysConsistent, ConsistentAcksShrink, PTL

-----------------------------------------------------------------------------
(* The directory                                                           *)

LEMMA DirectoryLive == Directory!Live = Live
<1>1. \A p \in Entries : p[2] \in Live
  BY DEF Entries
<1>2. ASSUME NEW s \in Live PROVE \E p \in Entries : p[2] = s
  <2>1. <<sock[s].key, s>> \in Entries /\ <<sock[s].key, s>>[2] = s
    BY DEF Entries
  <2> QED BY <2>1
<1> QED BY <1>1, <1>2 DEF Directory!Live

(* The phases                                                              *)
LEMMA Phases ==
  /\ at = "receive" => Phase = "idle"
  /\ at = "acks" => Phase = "acks"
  /\ at = "sweep" => Phase = "pass"
  /\ at = "free" => Phase = "closing"
  /\ at = "gone" => Phase = "closed"
BY DEF Phase

LEMMA DirectoryBusy == Busy => Directory!Busy
BY Phases DEF Busy, Directory!Busy

(* All the sockets are to be come to when a pass starts.                   *)
LEMMA WholeTable ==
  ASSUME Consistent PROVE SocketsAt(Linked(utp_sockets)) = Live
<1>1. \A e \in Linked(utp_sockets) : ValueAt(e) \in Live
  BY DEF Consistent, Filed, ValueAt, Live
<1>2. \A s \in Live : \E e \in Linked(utp_sockets) : ValueAt(e) = s
  BY DEF Consistent, Filed, ValueAt, Live
<1> QED BY <1>1, <1>2 DEF SocketsAt

(* What the directory sees of a step that leaves table and loop alone      *)
LEMMA DirectoryAtSockets ==
  ASSUME SameSockets(sock, sock'), UNCHANGED <<utp_sockets, control>>
  PROVE  UNCHANGED <<Entries, Over, Phase, Todo, conn>>
<1>1. Live' = Live /\ \A s \in Live : sock'[s].key = sock[s].key /\ sock'[s].over = sock[s].over
  BY DEF Live, SameSockets
<1>2. Entries' = Entries
  BY <1>1 DEF Entries
<1>3. Over' = Over
  BY <1>1 DEF Over
<1>4. UNCHANGED <<Phase, Todo, conn>>
  BY DEF control, Phase, Todo, SocketsAt, ValueAt
<1> QED BY <1>2, <1>3, <1>4

(* What it sees of a step of the loop alone                                *)
LEMMA DirectoryAtLoop ==
  ASSUME UNCHANGED <<sock, utp_sockets, ack_sockets>>
  PROVE  /\ UNCHANGED <<Entries, Due, Over>>
         /\ Todo' = IF at' \in {"sweep", "free"} THEN SocketsAt(Remaining(utp_sockets, it')) ELSE {}
BY DEF Entries, Due, Over, Live, Todo, SocketsAt, ValueAt

LEMMA SendDirectory == ASSUME Consistent, NEW s \in Sock, Send(s) PROVE Directory!Use(s)
<1>1. Busy /\ s \in Live /\ SendData(s) /\ UNCHANGED <<utp_sockets, control>>
  BY DEF Send
<1>2. SameSockets(sock, sock') /\ Due' = Due \ {s}
  BY <1>1, SendDataSame DEF Due
<1>3. UNCHANGED <<Entries, Over, Phase, Todo, conn>>
  BY <1>1, <1>2, DirectoryAtSockets
<1> QED BY <1>1, <1>2, <1>3, DirectoryLive, DirectoryBusy DEF Directory!Use, Directory!Sent

LEMMA EndDirectory == ASSUME Consistent, NEW s \in Sock, End(s) PROVE Directory!Use(s)
<1>1. Busy /\ s \in Live /\ UNCHANGED <<utp_sockets, ack_sockets, control>>
  BY DEF End
<1>2. /\ \A x \in Sock : /\ sock[x] = NULL <=> sock'[x] = NULL
                         /\ sock[x] # NULL => sock'[x].key = sock[x].key
      /\ \A x \in Sock : x # s => sock'[x] = sock[x]
      /\ sock'[s].over = TRUE
  BY EndSame
<1>3. Live' = Live
  BY <1>2 DEF Live
<1>4. Entries' = Entries
  <2>1. \A x \in Live : sock'[x].key = sock[x].key
    BY <1>2 DEF Live
  <2> QED BY <1>3, <2>1 DEF Entries
<1>5. Over' = Over \cup {s}
  <2>1. \A x \in Live : sock'[x].over <=> sock[x].over \/ x = s
    BY <1>2 DEF Live
  <2> QED BY <1>1, <1>3, <2>1 DEF Over
<1>6. UNCHANGED <<Due, Phase, Todo, conn>>
  BY <1>1 DEF control, Due, Phase, Todo, SocketsAt, ValueAt
<1> QED BY <1>1, <1>4, <1>5, <1>6, DirectoryLive, DirectoryBusy DEF Directory!Use, Directory!End

LEMMA OpenDirectory ==
  ASSUME Consistent, NEW s \in Sock, NEW key \in Key, Open(s, key) PROVE Directory!Open(key, s)
<1>1. /\ Busy /\ LookupKey(utp_sockets, key) = {} /\ ack_sockets' = ack_sockets
      /\ UNCHANGED <<at, i, it, conn>>
  BY DEF Open, control
<1>2. /\ sock[s] = NULL /\ sock'[s].key = key /\ sock'[s].over = FALSE
      /\ \A x \in Sock : x # s => sock'[x] = sock[x]
      /\ Live' = Live \cup {s} /\ s \notin Live
  <2>1. sock[s] = NULL /\ sock'[s] = [key |-> key, over |-> FALSE, ida |-> -1]
    BY OpenSame
  <2>2. (\A x \in Sock : x # s => sock'[x] = sock[x]) /\ Live' = Live \cup {s}
    BY OpenSame
  <2>3. s \notin Live
    BY <2>1 DEF Live
  <2> QED BY <2>1, <2>2, <2>3
<1>3. {x \in Sock : sock[x] # NULL /\ sock[x].key = key} = {}
  BY <1>1, FiledLookup DEF Consistent
<1>4. \A p \in Entries : p[1] # key /\ p[2] # s
  BY <1>2, <1>3 DEF Entries, Live
<1>5. \A x \in Live : x # s /\ sock'[x] = sock[x]
  BY <1>2 DEF Live
<1>6. Entries' = Entries \cup {<<key, s>>}
  BY <1>2, <1>5 DEF Entries
<1>7. Over' = Over
  BY <1>2, <1>5 DEF Over
<1>8. UNCHANGED <<Due, Phase, conn>>
  BY <1>1 DEF Due, Phase
<1>9. Todo' \in IF Phase = "pass" THEN {Todo, Todo \cup {s}} ELSE {Todo}
  <2>1. CASE at = "sweep"
    <3> DEFINE new == NewElem(utp_sockets)
               R == Remaining(utp_sockets, it)
               R2 == Remaining(utp_sockets', it')
    <3>1. /\ R2 = R \/ R2 = R \cup {new}
          /\ utp_sockets'.elems[new].value = s
          /\ \A x \in R : utp_sockets'.elems[x].value = utp_sockets.elems[x].value
      BY <2>1, OpenRemaining DEF ValueAt
    <3>2. Todo = {utp_sockets.elems[x].value : x \in R} /\ Todo' = {utp_sockets'.elems[x].value : x \in R2}
      BY <2>1, <1>1 DEF Todo, SocketsAt, ValueAt
    <3> HIDE DEF new, R, R2
    <3>3. Todo' \in {Todo, Todo \cup {s}}
      BY <3>1, <3>2
    <3> QED BY <2>1, <3>3, Phases
  <2>2. CASE at = "receive"
    BY <2>2, <1>1, Phases DEF Todo
  <2> QED BY <1>1, <2>1, <2>2 DEF Consistent, Pointers, Busy
<1> QED BY <1>1, <1>4, <1>6, <1>7, <1>8, <1>9, DirectoryBusy DEF Directory!Open

LEMMA ReceiveDirectory ==
  ASSUME Consistent, NEW key \in Key, Receive(key)
  PROVE  (\E s \in Sock : Directory!Use(s)) \/ UNCHANGED <<Entries, Due, Over, Phase, Todo, conn>>
<1>1. PICK s \in Dispatch(key) : ScheduleAck(s) \/ SendData(s) \/ UNCHANGED <<sock, ack_sockets>>
  BY DEF Receive
<1>2. s \in Live /\ s \in Sock
  BY ConsistentDispatch DEF DispatchIsRight, Live
<1>3. Busy /\ UNCHANGED <<utp_sockets, control>>
  BY DEF Receive, Busy
<1>4. CASE ScheduleAck(s)
  <2>1. SameSockets(sock, sock') /\ Due' = Due \cup {s}
    BY <1>2, <1>4, ScheduleAckSame DEF Due
  <2>2. UNCHANGED <<Entries, Over, Phase, Todo, conn>>
    BY <1>3, <2>1, DirectoryAtSockets
  <2>3. Directory!Use(s)
    BY <1>2, <1>3, <2>1, <2>2, DirectoryLive, DirectoryBusy DEF Directory!Use, Directory!PutOff
  <2> QED BY <1>2, <2>3
<1>5. CASE SendData(s)
  <2>1. SameSockets(sock, sock') /\ Due' = Due \ {s}
    BY <1>2, <1>5, SendDataSame DEF Due
  <2>2. UNCHANGED <<Entries, Over, Phase, Todo, conn>>
    BY <1>3, <2>1, DirectoryAtSockets
  <2>3. Directory!Use(s)
    BY <1>2, <1>3, <2>1, <2>2, DirectoryLive, DirectoryBusy DEF Directory!Use, Directory!Sent
  <2> QED BY <1>2, <2>3
<1>6. CASE UNCHANGED <<sock, ack_sockets>>
  <2>1. SameSockets(sock, sock') /\ Due' = Due
    BY <1>6 DEF Due, SameSockets
  <2> QED BY <1>3, <2>1, DirectoryAtSockets
<1> QED BY <1>1, <1>4, <1>5, <1>6

LEMMA DrainedDirectory == ASSUME Consistent, Drained PROVE Directory!IssueAcks
<1>1. /\ UNCHANGED <<sock, utp_sockets, ack_sockets, conn>> /\ at = "receive" /\ at' = "acks"
  BY DEF Drained
<1>2. Phase = "idle" /\ Phase' = "acks"
  BY <1>1 DEF Phase
<1>3. UNCHANGED <<Entries, Due, Over, Todo>>
  BY <1>1, DirectoryAtLoop DEF Todo
<1> QED BY <1>1, <1>2, <1>3 DEF Directory!IssueAcks

LEMMA DeferredAckDirectory ==
  ASSUME Consistent, DeferredAck PROVE \E s \in Sock : Directory!Ack(s)
<1> DEFINE s == ack_sockets[i + 1]
<1>1. i = 0 /\ 0 < Len(ack_sockets) /\ ack_sockets \in Seq(Sock) /\ DOMAIN ack_sockets = 1..Len(ack_sockets)
  BY DEF Consistent, Pointers, Listed, DeferredAck
<1>2. s \in Live /\ s \in Due /\ SendData(s)
  BY <1>1 DEF Consistent, Listed, Live, DeferredAck, Due, ToSet
<1>3. UNCHANGED <<utp_sockets, control>> /\ at = "acks"
  BY <1>1, AdvanceFromZero DEF DeferredAck, control
<1> HIDE DEF s
<1>4. SameSockets(sock, sock') /\ Due' = Due \ {s}
  BY <1>2, SendDataSame DEF Due
<1>5. UNCHANGED <<Entries, Over, Phase, Todo, conn>>
  BY <1>3, <1>4, DirectoryAtSockets
<1>6. Directory!Ack(s)
  BY <1>2, <1>3, <1>4, <1>5, Phases DEF Directory!Ack, Directory!Sent
<1> QED BY <1>2, <1>6 DEF Live

LEMMA CheckTimeoutsDirectory ==
  ASSUME Consistent, CheckTimeouts
  PROVE  \/ Directory!Start("pass") \/ Directory!EndAcks
         \/ UNCHANGED <<Entries, Due, Over, Phase, Todo, conn>>
<1>1. /\ UNCHANGED <<sock, utp_sockets, ack_sockets, conn>> /\ it' = Iterator
      /\ at = "receive" \/ (at = "acks" /\ i >= Len(ack_sockets))
      /\ at' = "receive" \/ at' = "sweep"
  BY DEF CheckTimeouts
<1>2. UNCHANGED <<Entries, Due, Over>> /\ Todo = {}
  BY <1>1, DirectoryAtLoop DEF Todo
<1>3. /\ at' = "receive" => Phase' = "idle" /\ Todo' = {}
      /\ at' = "sweep" => Phase' = "pass"
  BY <1>1, DirectoryAtLoop DEF Phase
<1>4. ASSUME at' = "sweep" PROVE Todo' = Directory!Live
  <2>1. Remaining(utp_sockets, Iterator) = Linked(utp_sockets)
    BY IteratorStart DEF Consistent, Filed
  <2>2. Todo' = SocketsAt(Remaining(utp_sockets, Iterator))
    BY <1>1, <1>4, DirectoryAtLoop
  <2> QED BY <2>1, <2>2, WholeTable, DirectoryLive
<1>5. CASE at = "receive"
  <2>1. Phase = "idle"
    BY <1>5, Phases
  <2>2. CASE at' = "receive"
    BY <1>1, <1>2, <1>3, <2>1, <2>2
  <2>3. CASE at' = "sweep"
    BY <1>1, <1>2, <1>3, <1>4, <2>1, <2>3 DEF Directory!Start
  <2> QED BY <1>1, <2>2, <2>3
<1>6. CASE at = "acks" /\ i >= Len(ack_sockets)
  <2>1. Phase = "acks"
    BY <1>6, Phases
  <2>2. Due = {}
    <3>1. i = 0 /\ Len(ack_sockets) \in Nat /\ DOMAIN ack_sockets = 1..Len(ack_sockets)
      BY DEF Consistent, Pointers, Listed
    <3>2. DOMAIN ack_sockets = {}
      BY <1>6, <3>1
    <3> QED BY <3>2 DEF Due, ToSet
  <2>3. CASE at' = "receive"
    BY <1>1, <1>2, <1>3, <2>1, <2>2, <2>3 DEF Directory!EndAcks
  <2>4. CASE at' = "sweep"
    BY <1>1, <1>2, <1>3, <1>4, <2>1, <2>2, <2>4 DEF Directory!EndAcks
  <2> QED BY <1>1, <2>3, <2>4
<1> QED BY <1>1, <1>5, <1>6

LEMMA VisitDirectory == ASSUME Consistent, Visit PROVE \E s \in Sock : Directory!Visit(s)
<1> DEFINE e == NextElem(utp_sockets, it)
           R == Remaining(utp_sockets, it)
<1>1. /\ UNCHANGED <<sock, utp_sockets, ack_sockets, at>> /\ conn = NULL
      /\ at = "sweep" /\ ~AtEnd(utp_sockets, it)
      /\ conn' = ValueAt(e) /\ it' = Iterate(utp_sockets, it)
  BY DEF Visit
<1>2. /\ e \in Linked(utp_sockets) /\ e \in R /\ ValueAt(e) \in Live
      /\ Remaining(utp_sockets, it') = R \ {e}
  BY <1>1, NextSocket
<1>3. R \subseteq Linked(utp_sockets)
  BY <1>1, RemainingLinked DEF Consistent, Filed, Pointers
<1>4. Phase' = Phase /\ Phase = "pass"
  BY <1>1 DEF Phase
<1>5. UNCHANGED <<Entries, Due, Over>> /\ Todo' = SocketsAt(Remaining(utp_sockets, it')) /\ Todo = SocketsAt(R)
  BY <1>1, DirectoryAtLoop DEF Todo
<1> HIDE DEF e, R
<1>6. \A x \in R : ValueAt(x) = ValueAt(e) => x = e
  BY <1>2, <1>3, FiledValues DEF Consistent, ValueAt
<1>7. ValueAt(e) \in Todo /\ Todo' = Todo \ {ValueAt(e)}
  <2>1. SocketsAt(R \ {e}) = SocketsAt(R) \ {ValueAt(e)}
    BY <1>6 DEF SocketsAt
  <2>2. ValueAt(e) \in SocketsAt(R)
    BY <1>2 DEF SocketsAt
  <2> QED BY <1>2, <1>5, <2>1, <2>2
<1>8. Directory!Visit(ValueAt(e))
  BY <1>1, <1>4, <1>5, <1>7 DEF Directory!Visit
<1> QED BY <1>2, <1>8 DEF Live

(* The directory forgets the socket too.                                   *)
LEMMA ForgetDirectory ==
  ASSUME Consistent, NEW e \in Linked(utp_sockets), Forget(ValueAt(e))
  PROVE  Directory!Forget(ValueAt(e))
<1> DEFINE s == ValueAt(e)
<1>1. /\ Live' = Live \ {s} /\ ToSet(ack_sockets') = ToSet(ack_sockets) \ {s}
      /\ \A x \in Live' : sock'[x].key = sock[x].key /\ sock'[x].over = sock[x].over
  BY ForgetSame
<1> HIDE DEF s
<1>2. Entries' = {p \in Entries : p[2] # s}
  <2>1. Entries' = {<<sock[x].key, x>> : x \in Live \ {s}}
    BY <1>1 DEF Entries
  <2> QED BY <2>1 DEF Entries
<1>3. Over' = Over \ {s}
  BY <1>1 DEF Over
<1>4. Due' = Due \ {s}
  BY <1>1 DEF Due
<1> QED BY <1>2, <1>3, <1>4 DEF Directory!Forget, s

LEMMA VisitedDirectory == ASSUME Consistent, Visited PROVE Directory!Leave
<1>1. conn # NULL /\ conn' = NULL /\ UNCHANGED <<at, it>> /\ at = "sweep" /\ conn \in Live
  BY VisitedElem DEF Visited, Consistent, Pointers
<1>2. PICK e \in Linked(utp_sockets) : ValueAt(e) = conn /\ e \notin Remaining(utp_sockets, it)
  BY <1>1, VisitedElem
<1>3. IsIterator(utp_sockets, it) /\ Intact(utp_sockets, Sock)
  BY <1>1, VisitedElem DEF Consistent, Filed
<1>4. Phase' = Phase
  BY <1>1 DEF Phase
<1>5. conn \in Over <=> sock[conn].over
  BY <1>1 DEF Over
<1>6. CASE sock[conn].over
  <2>1. Forget(ValueAt(e))
    BY <1>2, <1>6 DEF Visited
  <2>2. Directory!Forget(conn)
    BY <1>2, <2>1, ForgetDirectory
  <2>3. Todo' = Todo
    <3> DEFINE R == Remaining(utp_sockets, it)
    <3>1. /\ Remaining(utp_sockets', it) = R /\ Linked(utp_sockets') = Linked(utp_sockets) \ {e}
          /\ \A x \in Linked(utp_sockets') : utp_sockets'.elems[x].value = ValueAt(x)
      BY <1>2, <1>3, <2>1, ForgetRemaining
    <3>2. R \subseteq Linked(utp_sockets)
      BY <1>3, RemainingLinked
    <3>3. Todo = {ValueAt(x) : x \in R} /\ Todo' = {utp_sockets'.elems[x].value : x \in R}
      BY <1>1, <3>1 DEF Todo, SocketsAt, ValueAt
    <3>4. \A x \in R : utp_sockets'.elems[x].value = ValueAt(x)
      BY <1>2, <3>1, <3>2
    <3> HIDE DEF R
    <3> QED BY <3>3, <3>4
  <2> QED BY <1>1, <1>4, <1>5, <1>6, <2>2, <2>3 DEF Directory!Leave
<1>7. CASE ~sock[conn].over
  <2>1. UNCHANGED <<sock, utp_sockets, ack_sockets>>
    BY <1>7 DEF Visited
  <2>2. UNCHANGED <<Entries, Due, Over, Todo>>
    BY <1>1, <2>1, DirectoryAtLoop DEF Todo
  <2> QED BY <1>1, <1>4, <1>5, <1>7, <2>2 DEF Directory!Leave
<1> QED BY <1>6, <1>7

LEMMA SweepDoneDirectory == ASSUME Consistent, SweepDone PROVE Directory!EndPass
<1>1. /\ UNCHANGED <<sock, utp_sockets, ack_sockets, conn>> /\ conn = NULL
      /\ at = "sweep" /\ at' = "receive" /\ AtEnd(utp_sockets, it)
  BY DEF SweepDone
<1>2. Remaining(utp_sockets, it) = {}
  BY <1>1, IteratorEnd DEF Consistent, Filed
<1>3. UNCHANGED <<Entries, Due, Over>> /\ Todo = {} /\ Todo' = {}
  BY <1>1, <1>2, DirectoryAtLoop DEF Todo, SocketsAt
<1>4. Phase = "pass" /\ Phase' = "idle"
  BY <1>1 DEF Phase
<1> QED BY <1>1, <1>3, <1>4 DEF Directory!EndPass

LEMMA DestroyDirectory == ASSUME Consistent, Destroy PROVE Directory!Start("closing")
<1>1. /\ UNCHANGED <<sock, utp_sockets, ack_sockets, conn>>
      /\ at = "receive" /\ at' = "free" /\ it' = Iterator
  BY DEF Destroy
<1>2. Remaining(utp_sockets, Iterator) = Linked(utp_sockets)
  BY IteratorStart DEF Consistent, Filed
<1>3. UNCHANGED <<Entries, Due, Over>> /\ Todo' = SocketsAt(Remaining(utp_sockets, Iterator))
  BY <1>1, DirectoryAtLoop
<1>4. Phase = "idle" /\ Phase' = "closing"
  BY <1>1 DEF Phase
<1> QED BY <1>1, <1>2, <1>3, <1>4, WholeTable, DirectoryLive DEF Directory!Start

LEMMA FreeNextDirectory == ASSUME Consistent, FreeNext PROVE \E s \in Sock : Directory!Free(s)
<1>1. PICK e \in Linked(utp_sockets) :
        /\ Forget(ValueAt(e)) /\ Remaining(utp_sockets, it) = Linked(utp_sockets)
        /\ Remaining(utp_sockets', it') = Linked(utp_sockets) \ {e}
        /\ \A x \in Linked(utp_sockets) \ {e} : utp_sockets'.elems[x].value = ValueAt(x)
  BY FreeNextSame
<1>2. at = "free" /\ UNCHANGED <<at, conn>>
  BY DEF FreeNext
<1>3. Phase' = Phase /\ Phase = "closing"
  BY <1>2 DEF Phase
<1>4. \A x \in Linked(utp_sockets) : ValueAt(x) = ValueAt(e) => x = e
  BY FiledValues DEF Consistent, ValueAt
<1>5. ValueAt(e) \in Todo /\ Todo' = Todo \ {ValueAt(e)}
  <2>1. /\ Todo = {ValueAt(x) : x \in Linked(utp_sockets)}
        /\ Todo' = {utp_sockets'.elems[x].value : x \in Linked(utp_sockets) \ {e}}
    BY <1>1, <1>2 DEF Todo, SocketsAt, ValueAt
  <2>2. Todo' = {ValueAt(x) : x \in Linked(utp_sockets) \ {e}}
    BY <1>1, <2>1
  <2> QED BY <1>4, <2>1, <2>2
<1>6. Directory!Free(ValueAt(e))
  BY <1>1, <1>2, <1>3, <1>5, ForgetDirectory DEF Directory!Free
<1>7. ValueAt(e) \in Sock
  BY DEF Consistent, Filed, ValueAt
<1> QED BY <1>6, <1>7

LEMMA FreedDirectory == ASSUME Consistent, Freed PROVE Directory!Closed
<1>1. /\ UNCHANGED <<sock, utp_sockets, ack_sockets, conn>>
      /\ at = "free" /\ at' = "gone" /\ AtEnd(utp_sockets, it)
  BY DEF Freed
<1>2. Remaining(utp_sockets, it) = {} /\ Remaining(utp_sockets, it) = Linked(utp_sockets)
  BY <1>1, IteratorEnd DEF Consistent, Filed, Pointers
<1>3. Live = {}
  BY <1>2, WholeTable DEF SocketsAt
<1>4. Entries = {}
  BY <1>3 DEF Entries
<1>5. UNCHANGED <<Entries, Due, Over>> /\ Todo = {} /\ Todo' = {}
  BY <1>1, <1>2, DirectoryAtLoop DEF Todo, SocketsAt
<1>6. Phase = "closing" /\ Phase' = "closed"
  BY <1>1 DEF Phase
<1> QED BY <1>1, <1>4, <1>5, <1>6 DEF Directory!Closed

LEMMA InitDirectory == Init => Directory!Init
<1> SUFFICES ASSUME Init PROVE Directory!Init
  OBVIOUS
<1>1. Live = {}
  BY DEF Init, Live
<1>2. Entries = {} /\ Over = {} /\ Due = {} /\ Todo = {} /\ Phase = "idle" /\ conn = NULL
  BY <1>1 DEF Init, Entries, Over, Due, Todo, Phase, ToSet
<1> QED BY <1>2 DEF Directory!Init

LEMMA StepDirectory ==
  Consistent /\ [Next]_vars => [Directory!Next]_<<Entries, Due, Over, Phase, Todo, conn>>
<1> SUFFICES ASSUME Consistent, [Next]_vars
             PROVE  Directory!Next \/ UNCHANGED <<Entries, Due, Over, Phase, Todo, conn>>
  OBVIOUS
<1>1. CASE UNCHANGED vars
  BY <1>1 DEF vars, control, Entries, Due, Over, Phase, Todo, Live, SocketsAt, ValueAt
<1>2. CASE \E s \in Sock : Send(s) \/ End(s) \/ \E key \in Key : Open(s, key)
  BY <1>2, SendDirectory, EndDirectory, OpenDirectory DEF Directory!Next
<1>3. CASE \E key \in Key : Receive(key)
  BY <1>3, ReceiveDirectory DEF Directory!Next
<1>4. CASE Drained \/ DeferredAck \/ CheckTimeouts
  BY <1>4, DrainedDirectory, DeferredAckDirectory, CheckTimeoutsDirectory DEF Directory!Next
<1>5. CASE Visit \/ Visited \/ SweepDone
  BY <1>5, VisitDirectory, VisitedDirectory, SweepDoneDirectory DEF Directory!Next
<1>6. CASE Destroy \/ FreeNext \/ Freed
  BY <1>6, DestroyDirectory, FreeNextDirectory, FreedDirectory DEF Directory!Next
<1> QED BY <1>1, <1>2, <1>3, <1>4, <1>5, <1>6 DEF Next

(* The hash table, the ack list, the cache and the iterators of a context  *)
(* do what the directory of SocketDirectory does: a key has one socket, a  *)
(* pass comes to each socket that is there throughout exactly once and to  *)
(* none that was deleted, and a destroyed context has none left.           *)
THEOREM DirectoryImplemented == Spec => ImplementsDirectory
BY AlwaysConsistent, InitDirectory, StepDirectory, PTL DEF Spec, ImplementsDirectory, Directory!Spec
=============================================================================
