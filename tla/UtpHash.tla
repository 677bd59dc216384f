------------------------------- MODULE UtpHash -------------------------------
(***************************************************************************)
(* The hash table of libutp, libutp/utp_hash.cpp, as operators on a record *)
(* that has the fields of utp_hash_t.  Elements lie in an array and hold a *)
(* link each; the links make one chain for each bucket and the list of     *)
(* free elements.  A key is a number, what compute_hash makes of it.       *)
(***************************************************************************)
EXTENDS Integers, FiniteSets, SequencesExt

CONSTANTS
  Buckets,    \* N, an odd number: UTP_SOCKET_BUCKETS
  Allocated   \* elements there is memory for at first: UTP_SOCKET_INIT

ASSUME TableAssumption == Buckets \in Nat /\ Buckets % 2 = 1 /\ Allocated \in Nat \ {0}

(* LIBUTP_HASH_UNUSED, the link to nothing                                 *)
UNUSED == -1

Idx(key) == key % Buckets

EmptyTable ==
  [inits |-> [b \in 0..Buckets-1 |-> UNUSED], elems |-> [e \in {} |-> 0],
   used |-> 0, allocated |-> Allocated, free |-> UNUSED, count |-> 0]

(* Where n links lead from a link on                                       *)
Walk(hash, link) ==
  LET follow(e) == IF e = UNUSED THEN UNUSED ELSE hash.elems[e].link
      nth[n \in 0..hash.used] == IF n = 0 THEN link ELSE follow(nth[n - 1])
  IN  nth

(* The elements that are linked together from a link on.                   *)
Chain(hash, link) ==
  LET walk == Walk(hash, link)
      len  == Cardinality({n \in DOMAIN walk : walk[n] # UNUSED})
  IN  [n \in 1..len |-> walk[n - 1]]

Bucket(hash, b) == Chain(hash, hash.inits[b])

(* The places of its bucket's chain at which a key is found                *)
Found(hash, key) ==
  LET chain == Bucket(hash, Idx(key))
  IN  {n \in DOMAIN chain : hash.elems[chain[n]].key = key}

(* The value stored with a key, or none                                    *)
LookupKey(hash, key) ==
  LET found == Found(hash, key)
  IN  IF found = {} THEN {}
      ELSE {hash.elems[Bucket(hash, Idx(key))[Min(found)]].value}

(* Mutant of Add: the first free element is used and left on the free list. *)
Add_StillFree(hash, key, value) ==
  LET e    == IF hash.free = UNUSED THEN hash.used ELSE hash.free
      elem == [key |-> key, value |-> value, link |-> hash.inits[Idx(key)]]
  IN  [hash EXCEPT !.allocated = IF e = @ THEN 2 * @ ELSE @,
                   !.used  = IF e = @ THEN @ + 1 ELSE @,
                   !.elems = [j \in DOMAIN @ \cup {e} |-> IF j = e THEN elem ELSE @[j]],
                   !.inits[Idx(key)] = e,
                   !.count = @ + 1]

(* A new element is the first one on the free list, or else the next one   *)
(* of the array, which grows.  It becomes the head of its bucket's chain.  *)
Add(hash, key, value) ==
  LET e    == IF hash.free = UNUSED THEN hash.used ELSE hash.free
      elem == [key |-> key, value |-> value, link |-> hash.inits[Idx(key)]]
  IN  [hash EXCEPT !.allocated = IF e = @ THEN 2 * @ ELSE @,
                   !.used  = IF e = @ THEN @ + 1 ELSE @,
                   !.free  = IF @ = UNUSED THEN UNUSED ELSE hash.elems[@].link,
                   !.elems = [j \in DOMAIN @ \cup {e} |-> IF j = e THEN elem ELSE @[j]],
                   !.inits[Idx(key)] = e,
                   !.count = @ + 1]

(* The element of a key is unlinked and becomes the head of the free list. *)
Del(hash, key) ==
  LET chain == Bucket(hash, Idx(key))
      found == Found(hash, key)
      n     == Min(found)
      after == hash.elems[chain[n]].link
      freed == [hash EXCEPT !.elems[chain[n]].link = hash.free,
                            !.free = chain[n], !.count = @ - 1]
  IN  IF found = {} THEN hash
      ELSE IF n = 1 THEN [freed EXCEPT !.inits[Idx(key)] = after]
      ELSE [freed EXCEPT !.elems[chain[n - 1]].link = after]

-----------------------------------------------------------------------------
(* Iteration: the bucket an iterator is in, and the element it is to give  *)
(* next, which was read before the one it gave last could be deleted.      *)
Iterator == [bucket |-> -1, elem |-> UNUSED]

(* The buckets an iterator has still to look into                          *)
Ahead(hash, it) == {b \in DOMAIN hash.inits : b > it.bucket /\ hash.inits[b] # UNUSED}

(* What it will give if nothing changes                                    *)
Remaining(hash, it) ==
  ToSet(Chain(hash, it.elem)) \cup UNION {ToSet(Bucket(hash, b)) : b \in Ahead(hash, it)}

AtEnd(hash, it) == it.elem = UNUSED /\ Ahead(hash, it) = {}

NextElem(hash, it) == IF it.elem # UNUSED THEN it.elem ELSE hash.inits[Min(Ahead(hash, it))]

Iterate(hash, it) ==
  [bucket |-> IF it.elem # UNUSED THEN it.bucket ELSE Min(Ahead(hash, it)),
   elem   |-> hash.elems[NextElem(hash, it)].link]

-----------------------------------------------------------------------------
(* The chains and the free list share the elements used so far among them: *)
(* each is in one of them, once.  count counts those in the chains.        *)
WellLinked(hash) ==
  LET lists  == [b \in DOMAIN hash.inits |-> Bucket(hash, b)]
      linked == UNION {ToSet(lists[b]) : b \in DOMAIN lists}
      freed  == Chain(hash, hash.free)
  IN  /\ hash.used <= hash.allocated /\ DOMAIN hash.elems = 0..hash.used-1
      /\ linked \cup ToSet(freed) = 0..hash.used-1 /\ linked \cap ToSet(freed) = {}
      /\ IsInjective(freed)
      /\ \A b \in DOMAIN lists :
           IsInjective(lists[b]) /\ \A e \in ToSet(lists[b]) : Idx(hash.elems[e].key) = b
      /\ hash.count = Cardinality(linked)
=============================================================================
