-------------------------------- MODULE Uthash --------------------------------
(***************************************************************************)
(* The intrusive hash table of lib/uthash.h, as far as the server uses it: *)
(* an element carries a UT_hash_handle that links it into the list of all  *)
(* elements and into the chain of one bucket.  The macros are operators on *)
(* a record [head, tbl, hh]: the head pointer of the caller, the           *)
(* UT_hash_table it leads to, and the handle of every element.             *)
(*                                                                         *)
(* A pointer to a handle and one to its element are the same pointer here. *)
(* Fields that only HASH_EXPAND_BUCKETS reads (ideal_chain_maxlen,         *)
(* nonideal_items) are local to it, and log2_num_buckets is left out.      *)
(***************************************************************************)
EXTENDS Naturals, FiniteSets, Sequences, FiniteSetsExt, SequencesExt

CONSTANTS
  Elements, Keys, NULL,
  HashOf,         \* HASH_FUNCTION on the keys
  InitialBuckets, \* HASH_INITIAL_NUM_BUCKETS, a power of two
  Threshold       \* HASH_BKT_CAPACITY_THRESH

ASSUME UthashAssumption ==
  /\ IsFiniteSet(Elements)
  /\ NULL \notin Elements /\ NULL \notin Keys
  /\ HashOf \in [Keys -> Nat]
  /\ InitialBuckets \in Nat \ {0}
  /\ \E k \in 0..16 : InitialBuckets = 2^k
  /\ Threshold \in Nat \ {0}

\* An element as calloc leaves it.
ZeroHandle == [prev |-> NULL, next |-> NULL, hh_prev |-> NULL, hh_next |-> NULL,
               key |-> NULL, hashv |-> 0]
EmptyBucket == [hh_head |-> NULL, count |-> 0, expand_mult |-> 0]
NoTable == [tail |-> NULL, num_buckets |-> 0, num_items |-> 0, ineff_expands |-> 0,
            noexpand |-> FALSE, buckets |-> <<>>]

MakeTable(e) ==
  [tail |-> e, num_buckets |-> InitialBuckets, num_items |-> 0, ineff_expands |-> 0,
   noexpand |-> FALSE, buckets |-> [b \in 0..InitialBuckets - 1 |-> EmptyBucket]]

\* HASH_TO_BKT: the mask num_bkts - 1 is a remainder, num_bkts being a power of two.
ToBucket(hashv, num_bkts) == hashv % num_bkts

\* One turn of a loop that follows the links from an element until NULL, and what such
\* a loop meets.  A walk longer than there are elements goes round in a circle.
Turn(link, from) ==
  [walk \in Seq(Elements) |->
     LET next == IF walk = <<>> THEN from ELSE link[walk[Len(walk)]]
     IN  IF next = NULL THEN walk ELSE Append(walk, next)]
Turns(link, from) ==
  LET met[i \in 0..Cardinality(Elements) + 1] ==
        IF i = 0 THEN <<>> ELSE Turn(link, from)[met[i - 1]]
  IN  met
Walk(link, from) == Turns(link, from)[Cardinality(Elements) + 1]
Ends(walk) == Len(walk) <= Cardinality(Elements)

Pointer == Elements \cup {NULL}
HhNext(T) == [p \in Pointer |-> IF p = NULL THEN NULL ELSE T.hh[p].hh_next]
NextLink(T) == [p \in Pointer |-> IF p = NULL THEN NULL ELSE T.hh[p].next]
Chain(T, b) == Walk(HhNext(T), T.tbl.buckets[b].hh_head)
ListOf(T) == Walk(NextLink(T), T.head)  \* HASH_ITER
Count(T) == IF T.head = NULL THEN 0 ELSE T.tbl.num_items

\* HASH_FIND_STR: the first element of the chain with that hash value and key.
KeyChain(T, k) == Chain(T, ToBucket(HashOf[k], T.tbl.num_buckets))
Search(T, k) ==
  [chain \in Seq(Elements) |->
     LET hits == {i \in DOMAIN chain : T.hh[chain[i]].hashv = HashOf[k] /\ T.hh[chain[i]].key = k}
     IN  IF hits = {} THEN NULL ELSE chain[Min(hits)]]
Find(T, k) == IF T.head = NULL THEN NULL ELSE Search(T, k)[KeyChain(T, k)]

\* The search comes to an end: it finds the key, or its chain has an end.
FindEnds(T, k) == T.head # NULL => Find(T, k) # NULL \/ Ends(KeyChain(T, k))
-------------------------------------------------------------------------------
\* expand_mult of a new bucket that has received c items: it goes up with each
\* item that comes in over a multiple of the ideal length.
ExpandMult(c, ideal) ==
  LET m[i \in 0..c] == IF i <= ideal THEN 0
                       ELSE m[i - 1] + (IF i > m[i - 1] * ideal THEN 1 ELSE 0)
  IN  m[c]

\* The old chain of the items that go to bucket b of twice as many, and their places
\* in it.
Old(T, b) == Chain(T, ToBucket(b, T.tbl.num_buckets))
Arrivals(T, b) ==
  LET old == Old(T, b)
  IN  {i \in DOMAIN old : ToBucket(T.hh[old[i]].hashv, 2 * T.tbl.num_buckets) = b}

\* Each item of an old chain, from its head, is put before those that are in its new
\* chain already.
Relinked(T, e) ==
  LET b == ToBucket(T.hh[e].hashv, 2 * T.tbl.num_buckets)
      old == Old(T, b)
      arrived == Arrivals(T, b)
      i == CHOOSE i \in arrived : old[i] = e
      earlier == {j \in arrived : j < i}
      later == {j \in arrived : j > i}
  IN  IF e \notin ToSet(old) THEN T.hh[e]
      ELSE [T.hh[e] EXCEPT !.hh_next = IF earlier = {} THEN NULL ELSE old[Max(earlier)],
                           !.hh_prev = IF later = {} THEN NULL ELSE old[Min(later)]]

Ideal(T) ==
  LET n == 2 * T.tbl.num_buckets
  IN  (T.tbl.num_items \div n) + (IF T.tbl.num_items % n # 0 THEN 1 ELSE 0)
Received(T, b) ==
  LET a == Arrivals(T, b)
  IN  [hh_head |-> IF a = {} THEN NULL ELSE Old(T, b)[Max(a)],
       count |-> Cardinality(a),
       expand_mult |-> ExpandMult(Cardinality(a), Ideal(T))]

\* The expansions in a row that left more than half of the items above the ideal.
Ineffective(T) ==
  LET above(b) == LET c == Cardinality(Arrivals(T, b))
                  IN  IF c > Ideal(T) THEN c - Ideal(T) ELSE 0
      nonideal == MapThenSumSet(above, 0..2 * T.tbl.num_buckets - 1)
  IN  IF nonideal > T.tbl.num_items \div 2 THEN T.tbl.ineff_expands + 1 ELSE 0

\* HASH_EXPAND_BUCKETS: twice the buckets.
Expand(T) ==
  [T EXCEPT
     !.hh = [e \in Elements |-> Relinked(T, e)],
     !.tbl.num_buckets = 2 * @,
     !.tbl.buckets = [b \in 0..2 * T.tbl.num_buckets - 1 |-> Received(T, b)],
     !.tbl.ineff_expands = Ineffective(T),
     !.tbl.noexpand = @ \/ Ineffective(T) > 1]

\* HASH_ADD_TO_BKT
Full(T, b) == T.tbl.buckets[b].count >= (T.tbl.buckets[b].expand_mult + 1) * Threshold
Insert(T, e) ==
  LET b == ToBucket(T.hh[e].hashv, T.tbl.num_buckets)
      old == T.tbl.buckets[b].hh_head
      linked == [T EXCEPT !.tbl.buckets[b].count = @ + 1,
                          !.tbl.buckets[b].hh_head = e,
                          !.hh[e].hh_next = old, !.hh[e].hh_prev = NULL]
  IN  IF old = NULL THEN linked ELSE [linked EXCEPT !.hh[old].hh_prev = e]
AddToBucket(T, e) ==
  LET b == ToBucket(T.hh[e].hashv, T.tbl.num_buckets)
      added == Insert(T, e)
  IN  IF Full(added, b) /\ ~added.tbl.noexpand THEN Expand(added) ELSE added

\* HASH_DEL_IN_BKT
DelInBucket_NoBackLink(T, e) ==
  LET b == ToBucket(T.hh[e].hashv, T.tbl.num_buckets)
      p == T.hh[e].hh_prev
      x == T.hh[e].hh_next
      headed == [T EXCEPT !.tbl.buckets[b].count = @ - 1,
                          !.tbl.buckets[b].hh_head = IF @ = e THEN x ELSE @]
  IN  IF p = NULL THEN headed ELSE [headed EXCEPT !.hh[p].hh_next = x]
DelInBucket(T, e) ==
  LET b == ToBucket(T.hh[e].hashv, T.tbl.num_buckets)
      p == T.hh[e].hh_prev
      x == T.hh[e].hh_next
      headed == [T EXCEPT !.tbl.buckets[b].count = @ - 1,
                          !.tbl.buckets[b].hh_head = IF @ = e THEN x ELSE @]
      ahead == IF p = NULL THEN headed ELSE [headed EXCEPT !.hh[p].hh_next = x]
  IN  IF x = NULL THEN ahead ELSE [ahead EXCEPT !.hh[x].hh_prev = p]

\* HASH_APPEND_LIST
AppendList_KeepsTail(T, e) ==
  [T EXCEPT !.hh[e].next = NULL, !.hh[e].prev = T.tbl.tail, !.hh[T.tbl.tail].next = e]
AppendList(T, e) ==
  [T EXCEPT !.hh[e].next = NULL, !.hh[e].prev = T.tbl.tail,
            !.hh[T.tbl.tail].next = e, !.tbl.tail = e]

\* HASH_ADD_KEYPTR: it does not look whether the key or the element is there.
Add(T, e, k) ==
  LET keyed == [T EXCEPT !.hh[e].hashv = HashOf[k], !.hh[e].key = k]
      listed == IF T.head = NULL
                THEN [keyed EXCEPT !.hh[e].next = NULL, !.hh[e].prev = NULL,
                                   !.head = e, !.tbl = MakeTable(e)]
                ELSE AppendList(keyed, e)
  IN  AddToBucket([listed EXCEPT !.tbl.num_items = @ + 1], e)

\* HASH_DEL, for a head that is not NULL: an element without neighbours is taken
\* for the only one, and the table is freed.
Delete(T, e) ==
  LET p == T.hh[e].prev
      x == T.hh[e].next
      tailed == [T EXCEPT !.tbl.tail = IF @ = e THEN p ELSE @]
      ahead == IF p = NULL THEN [tailed EXCEPT !.head = x] ELSE [tailed EXCEPT !.hh[p].next = x]
      unlisted == IF x = NULL THEN ahead ELSE [ahead EXCEPT !.hh[x].prev = p]
  IN  IF p = NULL /\ x = NULL
      THEN [T EXCEPT !.head = NULL, !.tbl = NoTable]
      ELSE [DelInBucket(unlisted, e) EXCEPT !.tbl.num_items = @ - 1]
===============================================================================
