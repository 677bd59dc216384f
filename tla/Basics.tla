------------------------------- MODULE Basics -------------------------------
(***************************************************************************)
(* What the proofs about libutp share: facts about remainders, and about   *)
(* the folds that the loops of libutp are written as.  What a fold keeps   *)
(* is found from a set that each of its steps stays in.                    *)
(***************************************************************************)
EXTENDS Integers, FiniteSetsExt, FiniteSetTheorems, WellFoundedInduction, TLAPS

-----------------------------------------------------------------------------
(* Least and greatest numbers                                              *)

LEMMA LeastOf == ASSUME NEW S \in SUBSET Nat, S # {}
                 PROVE \E x \in S : \A y \in S : x <= y
<1>1. PICK x \in S : \A y \in S : <<y, x>> \notin OpToRel(<, Nat)
  BY NatLessThanWellFounded, WFMin
<1>2. ASSUME NEW y \in S, y < x PROVE FALSE
  <2>1. <<y, x>> \in Nat \X Nat /\ <<y, x>>[1] < <<y, x>>[2]
    BY <1>2
  <2> QED BY <1>1, <2>1 DEF OpToRel
<1> QED BY <1>2

LEMMA Interval == ASSUME NEW n \in Nat
                  PROVE IsFiniteSet(1..n) /\ Cardinality(1..n) = n
<1>1. 1 \in Int /\ n \in Int
  OBVIOUS
<1>2. IsFiniteSet(1..n) /\ Cardinality(1..n) = IF 1 > n THEN 0 ELSE n - 1 + 1
  BY <1>1, FS_Interval
<1> QED BY <1>2

LEMMA GreatestOf ==
  ASSUME NEW n \in Nat, NEW t \in SUBSET (1..n), t # {}
  PROVE  /\ Max(t) \in t /\ \A y \in t : y <= Max(t)
         /\ \A k \in Nat : t \subseteq 1..k => Max(t) \in 1..k /\ t \ {Max(t)} \subseteq 1..k-1
<1> DEFINE B == {b \in Nat : \A y \in t : y <= b}
<1>1. n \in B
  OBVIOUS
<1>2. PICK b \in B : \A c \in B : b <= c
  BY <1>1, LeastOf
<1>3. b \in t
  <2> SUFFICES ASSUME b \notin t PROVE FALSE
    OBVIOUS
  <2>1. PICK y \in t : TRUE
    OBVIOUS
  <2>2. b - 1 \in Nat
    BY <1>2, <2>1
  <2>3. \A z \in t : z <= b - 1
    BY <1>2
  <2>4. b - 1 \in B
    BY <2>2, <2>3
  <2> QED BY <1>2, <2>4
<1>4. Max(t) \in t /\ \A y \in t : Max(t) >= y
  <2>1. \E x \in t : \A y \in t : x >= y
    BY <1>2, <1>3
  <2> QED BY <2>1 DEF Max
<1> HIDE DEF B
<1>5. Max(t) \in 1..n
  BY <1>4
<1>6. ASSUME NEW k \in Nat, t \subseteq 1..k
      PROVE Max(t) \in 1..k /\ t \ {Max(t)} \subseteq 1..k-1
  <2>1. ASSUME NEW y \in t \ {Max(t)} PROVE y \in 1..k-1
    BY <1>4, <1>5, <1>6
  <2> QED BY <1>4, <1>6, <2>1
<1> QED BY <1>4, <1>5, <1>6

LEMMA GreatestOfInterval ==
  ASSUME NEW k \in Nat, k # 0 PROVE Max(1..k) = k /\ (1..k) \ {k} = 1..k-1
<1>1. 1..k # {} /\ 1..k \subseteq 1..k /\ k \in 1..k
  OBVIOUS
<1>2. Max(1..k) \in 1..k /\ \A y \in 1..k : y <= Max(1..k)
  BY <1>1, GreatestOf
<1> QED BY <1>1, <1>2

LEMMA Prefix ==
  ASSUME NEW n \in Nat, NEW k \in 1..n
  PROVE  1..k # {} /\ 1..k \in SUBSET (1..n) /\ Max(1..k) = k /\ (1..k) \ {k} = 1..k-1
<1>1. k \in Nat /\ k # 0 /\ k <= n
  OBVIOUS
<1>2. 1 \in 1..k
  BY <1>1
<1>3. 1..k \subseteq 1..n
  BY <1>1
<1> QED BY <1>1, <1>2, <1>3, GreatestOfInterval

-----------------------------------------------------------------------------
(* Remainders                                                              *)

LEMMA Division ==
  ASSUME NEW n \in Nat \ {0}, NEW a \in Int
  PROVE  a % n \in 0..(n - 1) /\ \E q \in Int : a = n * q + (a % n)
<1>1. (a \div n) \in Int /\ a = n * (a \div n) + (a % n) /\ a % n \in 0..(n - 1)
  OBVIOUS
<1> QED BY <1>1

LEMMA NoMultiple ==
  ASSUME NEW n \in Nat \ {0}, NEW d \in Int, n * d < n, n * d > -n PROVE d = 0
<1>1. CASE d >= 1
  <2>1. n * d >= n
    BY <1>1
  <2> QED BY <2>1
<1>2. CASE d <= -1
  <2>1. n * d <= -n
    BY <1>2
  <2> QED BY <2>1
<1> QED BY <1>1, <1>2

(* Numbers that differ by a multiple of n have one remainder, ...          *)
LEMMA CongruentMod ==
  ASSUME NEW n \in Nat \ {0}, NEW a \in Int, NEW b \in Int, NEW q \in Int, a = b + n * q
  PROVE  a % n = b % n
<1>1. PICK p \in Int : a = n * p + (a % n)
  BY Division
<1>2. PICK r \in Int : b = n * r + (b % n)
  BY Division
<1> DEFINE c == a % n
           d == b % n
           k == r + q - p
<1>3. c \in 0..(n - 1) /\ d \in 0..(n - 1) /\ a = n * p + c /\ b = n * r + d
  BY <1>1, <1>2, Division
<1> HIDE DEF c, d
<1>4. c \in Int /\ d \in Int /\ k \in Int /\ c - d < n /\ c - d > -n
  BY <1>3
<1>5. n * k = c - d
  <2>1. n * k = n * r + n * q - n * p
    OBVIOUS
  <2>2. n * r \in Int /\ n * q \in Int /\ n * p \in Int
    OBVIOUS
  <2> HIDE DEF k
  <2> QED BY <1>3, <1>4, <2>1, <2>2
<1> HIDE DEF k
<1>6. k = 0
  BY <1>4, <1>5, NoMultiple
<1>7. c = d
  BY <1>4, <1>5, <1>6
<1> QED BY <1>7 DEF c, d

(* ... and close to each other only numbers that are equal do.             *)
LEMMA SameRemainder ==
  ASSUME NEW n \in Nat \ {0}, NEW a \in Int, NEW b \in Int, a % n = b % n, a - b < n, b - a < n
  PROVE  a = b
<1>1. PICK p \in Int : a = n * p + (a % n)
  BY Division
<1>2. PICK r \in Int : b = n * r + (b % n)
  BY Division
<1> DEFINE c == a % n
<1>3. c \in Int /\ a = n * p + c /\ b = n * r + c
  BY <1>1, <1>2, Division
<1> HIDE DEF c
<1>4. n * (p - r) = a - b
  <2>1. n * (p - r) = n * p - n * r
    OBVIOUS
  <2>2. n * r \in Int /\ n * p \in Int
    OBVIOUS
  <2> QED BY <1>3, <2>1, <2>2
<1>5. p - r = 0
  BY <1>4, NoMultiple
<1> QED BY <1>4, <1>5

LEMMA SmallMod ==
  ASSUME NEW n \in Nat \ {0}
  PROVE  /\ \A a \in 0..(n - 1) : a % n = a
         /\ \A a \in (-n)..(-1) : a % n = a + n
<1>1. ASSUME NEW a \in 0..(n - 1) PROVE a % n = a
  OBVIOUS
<1>2. ASSUME NEW a \in (-n)..(-1) PROVE a % n = a + n
  <2> DEFINE b == a + n
  <2>1. b \in 0..(n - 1) /\ a \in Int /\ b \in Int /\ 1 \in Int /\ b = a + n * 1
    OBVIOUS
  <2> HIDE DEF b
  <2>2. b % n = a % n
    BY <2>1, CongruentMod
  <2>3. b % n = b
    BY <1>1, <2>1
  <2> QED BY <2>2, <2>3 DEF b
<1> QED BY <1>1, <1>2

-----------------------------------------------------------------------------
(* Folds                                                                   *)

(* A fold over a set of numbers exists as a function of the set, if F      *)
(* leads from what turns before k may give (G[k-1]) to what k may (G[k]).  *)
HasFold(n, G, s, F) ==
  \E g : /\ g = [t \in SUBSET (1..n) |-> IF t = {} THEN s ELSE F[<<g[t \ {Max(t)}], Max(t)>>]]
         /\ \A t \in SUBSET (1..n) : t # {} =>
              Max(t) \in 1..n /\ t \ {Max(t)} \in SUBSET (1..n) /\ g[t \ {Max(t)}] \in G[Max(t)-1]

LEMMA FoldExists ==
  ASSUME NEW n \in Nat, NEW G, NEW s, s \in G[0], NEW F,
         \A j \in 0..n : \A k \in 0..n : j <= k => G[j] \subseteq G[k],
         \A k \in 1..n : \A x \in G[k-1] : F[<<x, k>>] \in G[k]
  PROVE  HasFold(n, G, s, F)
<1> DEFINE Fold(k, g) == g = [t \in SUBSET (1..k) |-> IF t = {} THEN s ELSE F[<<g[t \ {Max(t)}], Max(t)>>]]
           Levels(k, g) == \A t \in SUBSET (1..k) : g[t] \in G[IF t = {} THEN 0 ELSE Max(t)]
           Has(k) == \E g : Fold(k, g) /\ Levels(k, g)
           K == {k \in Nat : k <= n /\ ~Has(k)}
<1>0. ASSUME NEW k \in Nat, k <= n, NEW t \in SUBSET (1..k), t # {}
      PROVE  /\ Max(t) \in 1..n /\ Max(t) \in 1..k /\ t \ {Max(t)} \in SUBSET (1..k)
             /\ t \ {Max(t)} \in SUBSET (1..k-1)
             /\ t \ {Max(t)} # {} => Max(t \ {Max(t)}) \in 0..Max(t)-1
  <2> DEFINE m == Max(t)
             r == t \ {m}
  <2>0. 1..k \subseteq 1..n
    BY <1>0
  <2>1. t \in SUBSET (1..n) /\ r \in SUBSET (1..n) /\ t \subseteq 1..k
    BY <2>0
  <2>2. m \in t /\ m \in 1..k /\ r \subseteq 1..k-1 /\ \A y \in t : y <= m
    BY <1>0, <2>1, GreatestOf
  <2> HIDE DEF m
  <2>3. r # {} => Max(r) \in r
    BY <2>1, GreatestOf
  <2>4. r # {} => Max(r) \in 0..m-1
    <3> SUFFICES ASSUME r # {} PROVE Max(r) \in 0..m-1
      OBVIOUS
    <3>1. Max(r) \in t /\ Max(r) # m /\ Max(r) \in 1..n /\ m \in 1..n
      BY <2>1, <2>2, <2>3
    <3> HIDE DEF r
    <3> QED BY <2>2, <3>1
  <2> QED BY <1>0, <2>2, <2>4 DEF m
<1>1. Has(0)
  <2>1. SUBSET (1..0) = {{}}
    OBVIOUS
  <2> DEFINE g == [t \in SUBSET (1..0) |-> s]
  <2>2. \A t \in SUBSET (1..0) : t = {} /\ g[t] = s
    BY <2>1
  <2>3. Fold(0, g)
    BY <2>2
  <2>4. Levels(0, g)
    <3> HIDE DEF g
    <3> QED BY <2>2
  <2> HIDE DEF g, Fold, Levels
  <2> QED BY <2>3, <2>4
<1>2. ASSUME NEW k \in Nat, k < n, Has(k) PROVE Has(k + 1)
  <2>1. PICK g : Fold(k, g) /\ Levels(k, g)
    BY <1>2
  <2> DEFINE m == k + 1
             h == [t \in SUBSET (1..m) |-> IF t = {} THEN s ELSE F[<<g[t \ {Max(t)}], Max(t)>>]]
  <2>2. m \in Nat /\ m <= n /\ m - 1 = k
    BY <1>2
  <2>3. \A t \in SUBSET (1..k) : t \in SUBSET (1..m) /\ h[t] = g[t]
    <3>1. 1..k \subseteq 1..m
      OBVIOUS
    <3>2. \A t \in SUBSET (1..k) : g[t] = IF t = {} THEN s ELSE F[<<g[t \ {Max(t)}], Max(t)>>]
      BY <2>1
    <3>3. \A t \in SUBSET (1..m) : h[t] = IF t = {} THEN s ELSE F[<<g[t \ {Max(t)}], Max(t)>>]
      OBVIOUS
    <3> HIDE DEF h, m
    <3> QED BY <3>1, <3>2, <3>3
  <2> HIDE DEF m
  <2>4. ASSUME NEW t \in SUBSET (1..m), t # {}
        PROVE t \ {Max(t)} \in SUBSET (1..k) /\ F[<<g[t \ {Max(t)}], Max(t)>>] \in G[Max(t)]
    <3> DEFINE r == t \ {Max(t)}
               l == IF r = {} THEN 0 ELSE Max(r)
    <3>1. Max(t) \in 1..n /\ r \in SUBSET (1..k) /\ (r # {} => Max(r) \in 0..Max(t)-1)
      BY <1>0, <2>2, <2>4
    <3>2. g[r] \in G[l]
      BY <2>1, <3>1
    <3>3. l \in 0..Max(t)-1
      BY <3>1
    <3>4. G[l] \subseteq G[Max(t)-1]
      <4>1. l \in 0..n /\ Max(t)-1 \in 0..n /\ l <= Max(t)-1
        BY <3>1, <3>3
      <4> QED BY <4>1
    <3>5. F[<<g[r], Max(t)>>] \in G[Max(t)]
      BY <3>1, <3>2, <3>4
    <3> QED BY <3>1, <3>5
  <2>5. Fold(m, h)
    <3>1. \A t \in SUBSET (1..m) : t # {} => h[t \ {Max(t)}] = g[t \ {Max(t)}]
      BY <2>3, <2>4
    <3>2. \A t \in SUBSET (1..m) : h[t] = IF t = {} THEN s ELSE F[<<h[t \ {Max(t)}], Max(t)>>]
      BY <3>1
    <3>3. h = [t \in SUBSET (1..m) |-> h[t]]
      OBVIOUS
    <3> HIDE DEF h
    <3> QED BY <3>2, <3>3
  <2>6. Levels(m, h)
    <3>1. \A t \in SUBSET (1..m) : h[t] = IF t = {} THEN s ELSE F[<<g[t \ {Max(t)}], Max(t)>>]
      OBVIOUS
    <3> HIDE DEF h
    <3> QED BY <2>4, <3>1
  <2> HIDE DEF h, Fold, Levels
  <2>7. Has(m)
    BY <2>5, <2>6
  <2> QED BY <2>7 DEF m
<1> HIDE DEF Has
<1>3. K = {}
  <2> SUFFICES ASSUME K # {} PROVE FALSE
    OBVIOUS
  <2>1. PICK k \in K : \A l \in K : k <= l
    BY LeastOf
  <2>2. k # 0 /\ k - 1 \in Nat /\ k - 1 < n /\ k - 1 \notin K /\ k - 1 + 1 = k
    BY <1>1, <2>1
  <2>3. Has(k - 1)
    BY <2>2
  <2>4. Has(k - 1 + 1)
    BY <1>2, <2>2, <2>3
  <2> QED BY <2>2, <2>4
<1>4. PICK g : Fold(n, g) /\ Levels(n, g)
  <2>1. Has(n)
    BY <1>3
  <2> QED BY <2>1 DEF Has
<1>5. ASSUME NEW t \in SUBSET (1..n), t # {}
      PROVE Max(t) \in 1..n /\ t \ {Max(t)} \in SUBSET (1..n) /\ g[t \ {Max(t)}] \in G[Max(t)-1]
  <2> DEFINE r == t \ {Max(t)}
             l == IF r = {} THEN 0 ELSE Max(r)
  <2>1. Max(t) \in 1..n /\ r \in SUBSET (1..n) /\ (r # {} => Max(r) \in 0..Max(t)-1)
    BY <1>0, <1>5
  <2>2. g[r] \in G[l]
    BY <1>4, <2>1
  <2>3. l \in 0..n /\ Max(t)-1 \in 0..n /\ l <= Max(t)-1
    BY <2>1
  <2>4. G[l] \subseteq G[Max(t)-1]
    BY <2>3
  <2> QED BY <2>1, <2>2, <2>4
<1> QED BY <1>4, <1>5 DEF HasFold

(* The same when every turn stays in one set                               *)
HasFoldIn(n, S, s, F) ==
  \E g : /\ g = [t \in SUBSET (1..n) |-> IF t = {} THEN s ELSE F[<<g[t \ {Max(t)}], Max(t)>>]]
         /\ \A t \in SUBSET (1..n) : t # {} => Max(t) \in 1..n /\ g[t \ {Max(t)}] \in S

LEMMA FoldWithin ==
  ASSUME NEW n \in Nat, NEW S, NEW s \in S, NEW F, \A k \in 1..n : \A x \in S : F[<<x, k>>] \in S
  PROVE  HasFoldIn(n, S, s, F)
<1> DEFINE G == [k \in 0..n |-> S]
<1>1. \A k \in 0..n : G[k] = S
  OBVIOUS
<1>2. \A k \in 1..n : k \in 0..n /\ k-1 \in 0..n
  OBVIOUS
<1>3. 0 \in 0..n
  OBVIOUS
<1> HIDE DEF G
<1>4. HasFold(n, G, s, F)
  <2>1. s \in G[0]
    BY <1>1, <1>3
  <2>2. \A j \in 0..n : \A k \in 0..n : j <= k => G[j] \subseteq G[k]
    BY <1>1
  <2>3. \A k \in 1..n : \A x \in G[k-1] : F[<<x, k>>] \in G[k]
    BY <1>1, <1>2
  <2> QED BY <2>1, <2>2, <2>3, FoldExists
<1>5. \A k \in 1..n : G[k-1] = S
  BY <1>1, <1>2
<1>6. PICK g : /\ g = [t \in SUBSET (1..n) |-> IF t = {} THEN s ELSE F[<<g[t \ {Max(t)}], Max(t)>>]]
               /\ \A t \in SUBSET (1..n) : t # {} =>
                    Max(t) \in 1..n /\ t \ {Max(t)} \in SUBSET (1..n) /\ g[t \ {Max(t)}] \in G[Max(t)-1]
  BY <1>4 DEF HasFold
<1>7. \A t \in SUBSET (1..n) : t # {} => Max(t) \in 1..n /\ g[t \ {Max(t)}] \in S
  BY <1>5, <1>6
<1> QED BY <1>6, <1>7 DEF HasFoldIn

(* What holds of the empty prefix and is kept from a prefix to the next    *)
(* one, holds of the whole.                                                *)
LEMMA FoldStays ==
  ASSUME NEW n \in Nat, NEW G, NEW iter, iter[{}] \in G[0],
         \A k \in 1..n : iter[1..k-1] \in G[k-1] => iter[1..k] \in G[k]
  PROVE  iter[1..n] \in G[n]
<1> DEFINE K == {k \in Nat : k <= n /\ iter[1..k] \notin G[k]}
<1>1. K = {}
  <2> SUFFICES ASSUME K # {} PROVE FALSE
    OBVIOUS
  <2>1. PICK k \in K : \A l \in K : k <= l
    BY LeastOf
  <2>2. 1..0 = {}
    OBVIOUS
  <2>3. k # 0 /\ k \in 1..n /\ k - 1 \in Nat /\ k - 1 \notin K /\ k - 1 <= n
    BY <2>1, <2>2
  <2>4. iter[1..k-1] \in G[k-1]
    BY <2>3
  <2> QED BY <2>1, <2>3, <2>4
<1> QED BY <1>1

LEMMA FoldStaysIn ==
  ASSUME NEW n \in Nat, NEW S, NEW iter, iter[{}] \in S,
         \A k \in 1..n : iter[1..k-1] \in S => iter[1..k] \in S
  PROVE  iter[1..n] \in S
<1> DEFINE G == [k \in 0..n |-> S]
<1>1. \A k \in 0..n : G[k] = S
  OBVIOUS
<1> HIDE DEF G
<1>2. 0 \in 0..n /\ n \in 0..n /\ \A k \in 1..n : k \in 0..n /\ k-1 \in 0..n
  OBVIOUS
<1>3. iter[{}] \in G[0]
  BY <1>1, <1>2
<1>4. ASSUME NEW k \in 1..n, iter[1..k-1] \in G[k-1] PROVE iter[1..k] \in G[k]
  <2>1. iter[1..k-1] \in S
    BY <1>1, <1>2, <1>4
  <2> QED BY <1>1, <1>2, <2>1
<1>5. iter[1..n] \in G[n]
  BY <1>3, <1>4, FoldStays
<1> QED BY <1>1, <1>2, <1>5
=============================================================================
