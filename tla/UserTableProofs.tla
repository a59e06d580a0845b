---------------------------- MODULE UserTableProofs ----------------------------
(***************************************************************************)
(* Proofs about UserTable, for any users, nicknames, hash function, number *)
(* of buckets and threshold: clients that keep to the protocol leave the   *)
(* links of user_hash_table right, and an implementation of NickRegistry.  *)
(*                                                                         *)
(* The argument is about order.  A set of elements is linked when, in some *)
(* numbering of them, every link leads to the neighbour; each macro of     *)
(* uthash keeps that for the list and for the chains, with another         *)
(* numbering, and a walk along links that are so meets every element once. *)
(***************************************************************************)
EXTENDS UserTable, TLAPS, WellFoundedInduction, FiniteSetTheorems
-------------------------------------------------------------------------------
(* Linked lists *)

\* The members of S in the order of the numbers r: who is first, last, next and
\* previous, NULL where there is nobody.
Distinct(S, r) == \A x, y \in S : r[x] = r[y] => x = y
IsFirst(S, r, x) == IF x = NULL THEN S = {} ELSE x \in S /\ \A z \in S : r[x] <= r[z]
IsLast(S, r, x) == IF x = NULL THEN S = {} ELSE x \in S /\ \A z \in S : r[z] <= r[x]
IsNext(S, r, x, y) ==
  IF y = NULL THEN \A z \in S : r[z] <= r[x]
  ELSE /\ y \in S /\ r[x] < r[y]
       /\ \A z \in S : r[z] <= r[x] \/ r[y] <= r[z]
IsPrev(S, r, x, y) ==
  IF y = NULL THEN \A z \in S : r[x] <= r[z]
  ELSE /\ y \in S /\ r[y] < r[x]
       /\ \A z \in S : r[x] <= r[z] \/ r[z] <= r[y]

\* The links next and prev chain the members of S in that order.
Linked(S, r, first, next, prev) ==
  /\ Distinct(S, r)
  /\ IsFirst(S, r, first)
  /\ \A x \in S : IsNext(S, r, x, next[x])
  /\ \A x \in S : IsPrev(S, r, x, prev[x])

Numbers == [Elements -> Int]

\* Nothing depends on the links and numbers of those outside.
LEMMA LinkedAgrees ==
  ASSUME NEW S, NEW r, NEW first, NEW next, NEW prev, NEW q, NEW onward, NEW back,
         Linked(S, r, first, next, prev),
         \A x \in S : q[x] = r[x] /\ onward[x] = next[x] /\ back[x] = prev[x]
  PROVE  Linked(S, q, first, onward, back)
BY DEF Linked, Distinct, IsFirst, IsNext, IsPrev

\* A new head.
LEMMA LinkedPrepends ==
  ASSUME NEW S \in SUBSET Elements, NEW r \in Numbers, NEW first, NEW next, NEW prev,
         Linked(S, r, first, next, prev),
         NEW e \in Elements \ S, NEW q \in Numbers, NEW onward, NEW back,
         \A x \in S : q[x] = r[x], first # NULL => q[e] < r[first],
         \A x \in S : onward[x] = next[x], onward[e] = first,
         \A x \in S : back[x] = IF x = first THEN e ELSE prev[x], back[e] = NULL
  PROVE  Linked(S \cup {e}, q, e, onward, back)
<1> USE UthashAssumption DEF Numbers
<1>1. \A x \in S : q[e] < q[x]
  BY DEF Linked, IsFirst
<1>2. Distinct(S \cup {e}, q)
  BY <1>1 DEF Linked, Distinct
<1>3. IsFirst(S \cup {e}, q, e)
  BY <1>1 DEF IsFirst
<1>4. ASSUME NEW x \in S \cup {e} PROVE IsNext(S \cup {e}, q, x, onward[x])
  <2>1. CASE x = e
    BY <2>1, <1>1 DEF Linked, IsFirst, IsNext
  <2>2. CASE x \in S
    BY <2>2, <1>1 DEF Linked, IsNext
  <2> QED BY <2>1, <2>2
<1>5. ASSUME NEW x \in S \cup {e} PROVE IsPrev(S \cup {e}, q, x, back[x])
  <2>1. CASE x = e
    BY <2>1, <1>1 DEF IsPrev
  <2>2. CASE x \in S /\ x = first
    BY <2>2, <1>1 DEF Linked, IsFirst, IsPrev
  <2>3. CASE x \in S /\ x # first
    <3>1. prev[x] # NULL
      BY <2>3 DEF Linked, Distinct, IsFirst, IsPrev
    <3> QED BY <2>3, <3>1, <1>1 DEF Linked, IsPrev
  <2> QED BY <2>1, <2>2, <2>3
<1> QED BY <1>2, <1>3, <1>4, <1>5 DEF Linked

\* A new tail.
LEMMA LinkedAppends ==
  ASSUME NEW S \in SUBSET Elements, NEW r \in Numbers, NEW first, NEW next, NEW prev,
         Linked(S, r, first, next, prev), first # NULL,
         NEW last, IsLast(S, r, last),
         NEW e \in Elements \ S, NEW q \in Numbers, NEW onward, NEW back,
         \A x \in S : q[x] = r[x], r[last] < q[e],
         \A x \in S : onward[x] = IF x = last THEN e ELSE next[x], onward[e] = NULL,
         \A x \in S : back[x] = prev[x], back[e] = last
  PROVE  Linked(S \cup {e}, q, first, onward, back) /\ IsLast(S \cup {e}, q, e)
<1> USE UthashAssumption DEF Numbers
<1>0. first \in S /\ last \in S /\ last # NULL
  BY DEF Linked, IsFirst, IsLast
<1>1. \A x \in S : q[x] < q[e]
  BY <1>0 DEF IsLast
<1>2. Distinct(S \cup {e}, q)
  BY <1>1 DEF Linked, Distinct
<1>3. IsFirst(S \cup {e}, q, first)
  BY <1>0, <1>1 DEF Linked, IsFirst
<1>4. ASSUME NEW x \in S \cup {e} PROVE IsNext(S \cup {e}, q, x, onward[x])
  <2>1. CASE x = e
    BY <2>1, <1>1 DEF IsNext
  <2>2. CASE x \in S /\ x = last
    BY <2>2, <1>1 DEF IsLast, IsNext
  <2>3. CASE x \in S /\ x # last
    <3>1. next[x] # NULL
      BY <2>3, <1>0 DEF Linked, Distinct, IsLast, IsNext
    <3> QED BY <2>3, <3>1, <1>1 DEF Linked, IsNext
  <2> QED BY <2>1, <2>2, <2>3
<1>5. ASSUME NEW x \in S \cup {e} PROVE IsPrev(S \cup {e}, q, x, back[x])
  <2>1. CASE x = e
    BY <2>1, <1>0, <1>1 DEF IsLast, IsPrev
  <2>2. CASE x \in S
    BY <2>2, <1>1 DEF Linked, IsPrev
  <2> QED BY <2>1, <2>2
<1>6. IsLast(S \cup {e}, q, e)
  BY <1>1 DEF IsLast
<1> QED BY <1>2, <1>3, <1>4, <1>5, <1>6 DEF Linked

\* One taken out: its neighbours are linked to each other.
Unlinked(S, e, next, prev, onward, back) ==
  \A x \in S \ {e} : /\ onward[x] = IF x = prev[e] THEN next[e] ELSE next[x]
                     /\ back[x] = IF x = next[e] THEN prev[e] ELSE prev[x]
LEMMA LinkedRemoves ==
  ASSUME NEW S \in SUBSET Elements, NEW r \in Numbers, NEW first, NEW next, NEW prev,
         Linked(S, r, first, next, prev),
         NEW e \in S, NEW onward, NEW back, Unlinked(S, e, next, prev, onward, back),
         NEW left, left = IF first = e THEN next[e] ELSE first
  PROVE  Linked(S \ {e}, r, left, onward, back)
<1> USE UthashAssumption DEF Numbers, Unlinked
<1> DEFINE R == S \ {e}
<1>1. /\ \A x \in S : r[x] \in Int
      /\ \A x \in S : x # NULL
  OBVIOUS
<1>2. /\ IsNext(S, r, e, next[e]) /\ IsPrev(S, r, e, prev[e])
      /\ Distinct(S, r) /\ IsFirst(S, r, first)
      /\ \A x \in S : IsNext(S, r, x, next[x]) /\ IsPrev(S, r, x, prev[x])
  BY DEF Linked
<1>3. Distinct(R, r)
  BY <1>2 DEF Distinct
<1>4. IsFirst(R, r, left)
  <2>1. CASE first = e
    BY <1>1, <1>2, <2>1 DEF IsFirst, IsNext, Distinct
  <2>2. CASE first # e
    BY <1>1, <1>2, <2>2 DEF IsFirst
  <2> QED BY <2>1, <2>2
<1>5. ASSUME NEW x \in R PROVE IsNext(R, r, x, onward[x])
  <2>1. CASE x = prev[e]
    <3>1. onward[x] = next[e]
      BY <2>1
    <3>2. r[x] < r[e] /\ \A z \in S : r[e] <= r[z] \/ r[z] <= r[x]
      BY <1>1, <1>2, <2>1 DEF IsPrev
    <3>3. \A z \in R : r[e] < r[z] \/ r[z] <= r[x]
      BY <1>1, <1>2, <3>2 DEF Distinct
    <3>4. CASE next[e] = NULL
      BY <1>1, <1>2, <3>1, <3>3, <3>4 DEF IsNext
    <3>5. CASE next[e] # NULL
      BY <1>1, <1>2, <3>1, <3>2, <3>3, <3>5 DEF IsNext
    <3> QED BY <3>4, <3>5
  <2>2. CASE x # prev[e]
    <3>1. onward[x] = next[x] /\ IsNext(S, r, x, next[x])
      BY <1>2, <2>2
    <3>2. next[x] # e
      <4>1. SUFFICES ASSUME next[x] = e PROVE FALSE
        OBVIOUS
      <4>2. r[x] < r[e] /\ \A z \in S : r[z] <= r[x] \/ r[e] <= r[z]
        BY <1>1, <3>1, <4>1 DEF IsNext
      <4>3. prev[e] \in S /\ r[prev[e]] < r[e] /\ r[x] <= r[prev[e]]
        BY <1>1, <1>2, <4>2 DEF IsPrev
      <4>4. r[prev[e]] = r[x]
        BY <1>1, <4>2, <4>3
      <4> QED BY <1>2, <2>2, <4>3, <4>4 DEF Distinct
    <3> QED BY <3>1, <3>2 DEF IsNext
  <2> QED BY <2>1, <2>2
<1>6. ASSUME NEW x \in R PROVE IsPrev(R, r, x, back[x])
  <2>1. CASE x = next[e]
    <3>1. back[x] = prev[e]
      BY <2>1
    <3>2. r[e] < r[x] /\ \A z \in S : r[z] <= r[e] \/ r[x] <= r[z]
      BY <1>1, <1>2, <2>1 DEF IsNext
    <3>3. \A z \in R : r[z] < r[e] \/ r[x] <= r[z]
      BY <1>1, <1>2, <3>2 DEF Distinct
    <3>4. CASE prev[e] = NULL
      BY <1>1, <1>2, <3>1, <3>3, <3>4 DEF IsPrev
    <3>5. CASE prev[e] # NULL
      BY <1>1, <1>2, <3>1, <3>2, <3>3, <3>5 DEF IsPrev
    <3> QED BY <3>4, <3>5
  <2>2. CASE x # next[e]
    <3>1. back[x] = prev[x] /\ IsPrev(S, r, x, prev[x])
      BY <1>2, <2>2
    <3>2. prev[x] # e
      <4>1. SUFFICES ASSUME prev[x] = e PROVE FALSE
        OBVIOUS
      <4>2. r[e] < r[x] /\ \A z \in S : r[x] <= r[z] \/ r[z] <= r[e]
        BY <1>1, <3>1, <4>1 DEF IsPrev
      <4>3. next[e] \in S /\ r[e] < r[next[e]] /\ r[next[e]] <= r[x]
        BY <1>1, <1>2, <4>2 DEF IsNext
      <4>4. r[next[e]] = r[x]
        BY <1>1, <4>2, <4>3
      <4> QED BY <1>2, <2>2, <4>3, <4>4 DEF Distinct
    <3> QED BY <3>1, <3>2 DEF IsPrev
  <2> QED BY <2>1, <2>2
<1> QED BY <1>3, <1>4, <1>5, <1>6 DEF Linked

\* What is left has as its last the one before, when the last is taken out.
LEMMA LastRemoved ==
  ASSUME NEW S \in SUBSET Elements, NEW r \in Numbers, NEW first, NEW next, NEW prev,
         Linked(S, r, first, next, prev), NEW last, IsLast(S, r, last), NEW e \in S,
         NEW left, left = IF last = e THEN prev[e] ELSE last
  PROVE  IsLast(S \ {e}, r, left)
<1> USE UthashAssumption DEF Numbers
<1>1. \A x \in S : r[x] \in Int /\ x # NULL
  OBVIOUS
<1>2. IsPrev(S, r, e, prev[e]) /\ Distinct(S, r)
  BY DEF Linked
<1>3. CASE last = e
  BY <1>1, <1>2, <1>3 DEF IsLast, IsPrev, Distinct
<1>4. CASE last # e
  BY <1>1, <1>4 DEF IsLast
<1> QED BY <1>3, <1>4

-------------------------------------------------------------------------------
(* Walks *)

\* Induction up to n, from the well-founded order of the naturals.
LEMMA Induction ==
  ASSUME NEW S, NEW n \in Nat, 0 \in S, \A i \in 0..n - 1 : i \in S => i + 1 \in S
  PROVE  \A i \in 0..n : i \in S
<1> DEFINE missing == {i \in 0..n : i \notin S}
<1>1. SUFFICES ASSUME missing # {} PROVE FALSE
  OBVIOUS
<1>2. PICK m \in missing : \A k \in missing : m <= k
  <2>1. missing \subseteq Nat
    OBVIOUS
  <2> HIDE DEF missing
  <2>2. PICK m \in missing : \A k \in missing : ~(<<k, m>> \in OpToRel(<, Nat))
    BY <1>1, <2>1, NatLessThanWellFounded, WFMin
  <2>3. OpToRel(<, Nat) = {p \in Nat \X Nat : p[1] < p[2]}
    BY Zenon DEF OpToRel
  <2>4. \A k \in missing : ~(k < m)
    BY <2>1, <2>2, <2>3
  <2>5. \A k \in missing : m <= k
    BY <2>1, <2>4
  <2> QED BY <2>2, <2>5
<1>3. m # 0 /\ m - 1 \in 0..n - 1 /\ m - 1 \in 0..n
  BY <1>2
<1>4. m - 1 \notin missing
  BY <1>2, <1>3
<1>5. m - 1 \in S /\ m - 1 + 1 = m
  BY <1>3, <1>4
<1> QED BY <1>2, <1>3, <1>5

\* The recursive function of Turns exists: one for n turns is one for n - 1 turns and
\* one turn more.
AreTurns(f, link, from, n) ==
  f = [i \in 0..n |-> IF i = 0 THEN <<>> ELSE Turn(link, from)[f[i - 1]]]
LEMMA TurnsExist ==
  ASSUME NEW link, NEW from, NEW n \in Nat
  PROVE  \E f : AreTurns(f, link, from, n)
<1> DEFINE some == {i \in Nat : \E f : AreTurns(f, link, from, i)}
<1>1. 0 \in some
  <2>1. AreTurns([i \in 0..0 |-> <<>>], link, from, 0)
    BY DEF AreTurns
  <2> QED BY <2>1
<1>2. ASSUME NEW i \in 0..n - 1, i \in some PROVE i + 1 \in some
  <2>1. PICK f : AreTurns(f, link, from, i)
    BY <1>2
  <2> DEFINE g == [j \in 0..i + 1 |-> IF j = i + 1 THEN Turn(link, from)[f[i]] ELSE f[j]]
  <2>2. \A j \in 0..i + 1 : g[j] = IF j = 0 THEN <<>> ELSE Turn(link, from)[g[j - 1]]
    BY <2>1 DEF AreTurns
  <2>3. AreTurns(g, link, from, i + 1)
    BY <2>2 DEF AreTurns
  <2> QED BY <2>3
<1> HIDE DEF some
<1>3. \A i \in 0..n : i \in some
  BY <1>1, <1>2, Induction
<1> QED BY <1>3 DEF some

\* How many elements there are is a number.
Size == Cardinality(Elements)
LEMMA SizeType == Size \in Nat /\ Size + 1 \in Nat
BY UthashAssumption, FS_CardinalityType DEF Size

\* What a walk has met after no turn and after one more.
LEMMA TurnsUnfold ==
  ASSUME NEW link, NEW from
  PROVE  /\ Turns(link, from)[0] = <<>>
         /\ \A i \in 0..Size :
              Turns(link, from)[i + 1] = Turn(link, from)[Turns(link, from)[i]]
<1>1. AreTurns(Turns(link, from), link, from, Size + 1)
  <2>1. \E f : AreTurns(f, link, from, Size + 1)
    BY TurnsExist, SizeType
  <2> QED BY <2>1, Zenon DEF AreTurns, Turns, Size
<1> DEFINE f == Turns(link, from)
<1>2. f = [i \in 0..Size + 1 |-> IF i = 0 THEN <<>> ELSE Turn(link, from)[f[i - 1]]]
  BY <1>1 DEF AreTurns
<1> HIDE DEF f
<1>3. \A i \in 0..Size + 1 : f[i] = IF i = 0 THEN <<>> ELSE Turn(link, from)[f[i - 1]]
  BY <1>2
<1>4. f[0] = <<>>
  BY <1>3, SizeType
<1>5. ASSUME NEW i \in 0..Size PROVE f[i + 1] = Turn(link, from)[f[i]]
  <2>1. i + 1 \in 0..Size + 1 /\ i + 1 # 0 /\ i + 1 - 1 = i
    BY SizeType
  <2>2. f[i + 1] = Turn(link, from)[f[i + 1 - 1]]
    BY <1>3, <2>1
  <2> QED BY <2>1, <2>2
<1> QED BY <1>4, <1>5 DEF f

\* Where a walk along a linked list is: it has met a part of the list from its head,
\* in the list's order, or all of it.
Met(w, x) == \E i \in 1..Len(w) : w[i] = x
Trail(w, S, r) ==
  /\ w \in Seq(S)
  /\ \A i, j \in 1..Len(w) : i < j => r[w[i]] < r[w[j]]
  /\ \A x \in S : Met(w, x) \/ \A i \in 1..Len(w) : r[w[i]] < r[x]
Whole(w, S) == \A x \in S : Met(w, x)

\* One turn of the loop goes to the next of the list, or finds that there is none.
LEMMA TurnFollows ==
  ASSUME NEW S \in SUBSET Elements, NEW r \in Numbers, NEW first, NEW link, NEW prev,
         Linked(S, r, first, link, prev), NEW w, Trail(w, S, r)
  PROVE  LET v == Turn(link, first)[w]
         IN  /\ Trail(v, S, r)
             /\ IF Whole(w, S) THEN v = w ELSE Whole(v, S) \/ Len(v) = Len(w) + 1
<1> USE UthashAssumption DEF Numbers
<1> DEFINE next == IF w = <<>> THEN first ELSE link[w[Len(w)]]
           v == Turn(link, first)[w]
<1> SUFFICES Trail(v, S, r) /\ IF Whole(w, S) THEN v = w ELSE Whole(v, S) \/ Len(v) = Len(w) + 1
  OBVIOUS
<1>1. w \in Seq(S) /\ w \in Seq(Elements) /\ Len(w) \in Nat
  BY DEF Trail
<1>2. v = IF next = NULL THEN w ELSE Append(w, next)
  BY <1>1 DEF Turn
<1>3. /\ Distinct(S, r) /\ IsFirst(S, r, first)
      /\ \A x \in S : IsNext(S, r, x, link[x])
  BY DEF Linked
<1>4. \A x \in S : r[x] \in Int /\ x # NULL
  OBVIOUS
<1>5. /\ \A i \in 1..Len(w) : w[i] \in S
      /\ \A i, j \in 1..Len(w) : i < j => r[w[i]] < r[w[j]]
      /\ \A x \in S : Met(w, x) \/ \A i \in 1..Len(w) : r[w[i]] < r[x]
  BY <1>1 DEF Trail
<1> HIDE DEF next, v
<1>6. CASE next = NULL
  <2>1. Whole(w, S)
    <3>1. CASE w = <<>>
      BY <1>3, <1>6, <3>1 DEF next, IsFirst, Whole
    <3>2. CASE w # <<>>
      <4>1. Len(w) \in 1..Len(w) /\ next = link[w[Len(w)]]
        BY <1>1, <3>2 DEF next
      <4>2. \A z \in S : r[z] <= r[w[Len(w)]]
        BY <1>3, <1>5, <1>6, <4>1 DEF IsNext
      <4>3. \A z \in S : ~(r[w[Len(w)]] < r[z])
        BY <1>4, <1>5, <4>1, <4>2
      <4> QED BY <1>5, <4>1, <4>3 DEF Whole
    <3> QED BY <3>1, <3>2
  <2> QED BY <1>2, <1>6, <2>1
<1>7. CASE next # NULL
  <2>1. next \in S /\ \A i \in 1..Len(w) : r[w[i]] < r[next]
    <3>1. CASE w = <<>>
      BY <1>1, <1>3, <1>7, <3>1 DEF next, IsFirst
    <3>2. CASE w # <<>>
      <4>1. Len(w) \in 1..Len(w) /\ next = link[w[Len(w)]]
        BY <1>1, <3>2 DEF next
      <4>2. next \in S /\ r[w[Len(w)]] < r[next]
        BY <1>3, <1>5, <1>7, <4>1 DEF IsNext
      <4>3. \A i \in 1..Len(w) : i = Len(w) \/ r[w[i]] < r[w[Len(w)]]
        BY <1>1, <1>5, <4>1
      <4> QED BY <1>4, <1>5, <4>1, <4>2, <4>3
    <3> QED BY <3>1, <3>2
  <2>2. \A x \in S : Met(w, x) \/ x = next \/ r[next] < r[x]
    <3>1. CASE w = <<>>
      <4>1. \A x \in S : r[next] <= r[x]
        BY <1>3, <1>7, <3>1 DEF next, IsFirst
      <4> QED BY <1>3, <1>4, <2>1, <4>1 DEF Distinct
    <3>2. CASE w # <<>>
      <4>1. Len(w) \in 1..Len(w) /\ next = link[w[Len(w)]]
        BY <1>1, <3>2 DEF next
      <4>2. \A z \in S : r[z] <= r[w[Len(w)]] \/ r[next] <= r[z]
        BY <1>3, <1>5, <1>7, <4>1 DEF IsNext
      <4>3. ASSUME NEW x \in S, ~Met(w, x), x # next PROVE r[next] < r[x]
        <5>1. r[w[Len(w)]] < r[x] /\ r[w[Len(w)]] \in Int
          BY <1>4, <1>5, <4>1, <4>3
        <5>2. r[next] <= r[x]
          BY <1>4, <4>2, <5>1
        <5>3. r[next] # r[x]
          BY <1>3, <2>1, <4>3 DEF Distinct
        <5> QED BY <1>4, <2>1, <5>2, <5>3
      <4> QED BY <4>3
    <3> QED BY <3>1, <3>2
  <2>3. /\ v = Append(w, next) /\ v \in Seq(S) /\ Len(v) = Len(w) + 1
        /\ v[Len(w) + 1] = next /\ \A i \in 1..Len(w) : v[i] = w[i]
    BY <1>1, <1>2, <1>7, <2>1
  <2>4. \A i \in 1..Len(v) : i \in 1..Len(w) \/ i = Len(w) + 1
    BY <1>1, <2>3
  <2>5. ASSUME NEW i \in 1..Len(v), NEW j \in 1..Len(v), i < j PROVE r[v[i]] < r[v[j]]
    <3>1. i \in 1..Len(w) /\ v[i] = w[i]
      BY <1>1, <2>3, <2>5
    <3>2. CASE j \in 1..Len(w)
      BY <1>5, <2>3, <2>5, <3>1, <3>2
    <3>3. CASE j = Len(w) + 1
      BY <2>1, <2>3, <3>1, <3>3
    <3> QED BY <2>4, <3>2, <3>3
  <2>6. ASSUME NEW x \in S, ~Met(v, x) PROVE \A i \in 1..Len(v) : r[v[i]] < r[x]
    <3>1. x # next
      BY <1>1, <2>3, <2>6 DEF Met
    <3>2. ~Met(w, x)
      BY <1>1, <2>3, <2>6 DEF Met
    <3>3. r[next] < r[x] /\ \A i \in 1..Len(w) : r[w[i]] < r[x]
      BY <1>5, <2>2, <3>1, <3>2
    <3> QED BY <2>3, <2>4, <3>3
  <2>7. Trail(v, S, r)
    BY <2>3, <2>5, <2>6 DEF Trail
  <2>8. ~Whole(w, S)
    BY <1>4, <2>1 DEF Whole, Met
  <2> QED BY <2>3, <2>7, <2>8
<1> QED BY <1>6, <1>7

\* A trail is no longer than there are elements to meet, and as long once it has met all.
LEMMA TrailLength ==
  ASSUME NEW S \in SUBSET Elements, NEW r \in Numbers, Distinct(S, r), NEW w, Trail(w, S, r)
  PROVE  /\ Len(w) <= Size
         /\ Whole(w, S) => Len(w) = Cardinality(S)
<1> USE UthashAssumption
<1>1. w \in [1..Len(w) -> S] /\ Len(w) \in Nat
  BY DEF Trail
<1>2. \A i, j \in 1..Len(w) : w[i] = w[j] => i = j
  <2>1. SUFFICES ASSUME NEW i \in 1..Len(w), NEW j \in 1..Len(w), w[i] = w[j], i < j
                 PROVE  FALSE
    BY <1>1
  <2>2. r[w[i]] < r[w[i]] /\ r[w[i]] \in Int
    BY <1>1, <2>1 DEF Trail, Numbers
  <2> QED BY <2>2
<1>3. w \in Injection(1..Len(w), S)
  BY <1>1, <1>2 DEF Injection, IsInjective
<1>4. IsFiniteSet(S) /\ Cardinality(S) <= Size /\ Cardinality(S) \in Nat
  BY FS_Subset, FS_CardinalityType DEF Size
<1>5. Cardinality(1..Len(w)) = Len(w)
  <2>1. Len(w) \in Int /\ 1 \in Int
    BY <1>1
  <2>2. Cardinality(1..Len(w)) = IF 1 > Len(w) THEN 0 ELSE Len(w) - 1 + 1
    BY <2>1, FS_Interval
  <2> QED BY <1>1, <2>2
<1>6. /\ Cardinality(1..Len(w)) <= Cardinality(S)
      /\ w \in Surjection(1..Len(w), S) => Cardinality(1..Len(w)) = Cardinality(S)
  BY <1>3, <1>4, FS_Injection
<1>7. Whole(w, S) => w \in Surjection(1..Len(w), S)
  BY <1>1 DEF Whole, Met, Surjection
<1> QED BY <1>1, <1>4, <1>5, <1>6, <1>7, SizeType

\* The walk from the head of a linked list meets every member once, in order.
LEMMA WalkMeetsAll ==
  ASSUME NEW S \in SUBSET Elements, NEW r \in Numbers, NEW first, NEW link, NEW prev,
         Linked(S, r, first, link, prev)
  PROVE  LET w == Walk(link, first)
         IN  Trail(w, S, r) /\ Whole(w, S) /\ Len(w) = Cardinality(S) /\ Len(w) <= Size
<1> DEFINE met == Turns(link, first)
           good == {i \in Nat : /\ Trail(met[i], S, r)
                                /\ Len(met[i]) = i \/ Whole(met[i], S)}
<1>1. 0 \in good
  <2>1. Trail(<<>>, S, r) /\ Len(<<>>) = 0
    BY DEF Trail
  <2>2. met[0] = <<>>
    BY TurnsUnfold
  <2> HIDE DEF met
  <2> QED BY <2>1, <2>2
<1>2. ASSUME NEW i \in 0..Size, i \in good PROVE i + 1 \in good
  <2>1. met[i + 1] = Turn(link, first)[met[i]]
    BY TurnsUnfold
  <2> HIDE DEF met
  <2>2. Trail(met[i], S, r) /\ (Len(met[i]) = i \/ Whole(met[i], S))
    BY <1>2
  <2>3. /\ Trail(met[i + 1], S, r)
        /\ IF Whole(met[i], S) THEN met[i + 1] = met[i]
           ELSE Whole(met[i + 1], S) \/ Len(met[i + 1]) = Len(met[i]) + 1
    BY <2>1, <2>2, TurnFollows
  <2> QED BY <1>2, <2>2, <2>3
<1>3. Size + 1 \in good
  <2> HIDE DEF good
  <2>1. \A i \in 0..Size + 1 - 1 : i \in good => i + 1 \in good
    BY <1>2, SizeType
  <2>2. \A i \in 0..Size + 1 : i \in good
    BY <1>1, <2>1, SizeType, Induction
  <2> QED BY <2>2, SizeType
<1> DEFINE w == Walk(link, first)
<1>4. Trail(w, S, r) /\ (Len(w) = Size + 1 \/ Whole(w, S))
  BY <1>3 DEF Walk, Size
<1> HIDE DEF w
<1>5. Distinct(S, r)
  BY DEF Linked
<1>6. Len(w) <= Size /\ (Whole(w, S) => Len(w) = Cardinality(S)) /\ Len(w) \in Nat
  BY <1>4, <1>5, TrailLength DEF Trail
<1>7. Whole(w, S)
  BY <1>4, <1>6, SizeType
<1> QED BY <1>4, <1>6, <1>7 DEF w

\* What is behind a member of the list is behind it in the walk.
LEMMA WalkGoesBack ==
  ASSUME NEW S \in SUBSET Elements, NEW r \in Numbers, NEW first, NEW next, NEW prev,
         Linked(S, r, first, next, prev), NEW w, Trail(w, S, r), Whole(w, S)
  PROVE  \A i \in 1..Len(w) : prev[w[i]] = IF i = 1 THEN NULL ELSE w[i - 1]
<1> USE UthashAssumption DEF Numbers
<1>1. /\ Len(w) \in Nat /\ \A i \in 1..Len(w) : w[i] \in S
      /\ \A i, j \in 1..Len(w) : i < j => r[w[i]] < r[w[j]]
  BY DEF Trail
<1>2. \A x \in S : r[x] \in Int /\ x # NULL
  OBVIOUS
<1> SUFFICES ASSUME NEW i \in 1..Len(w)
             PROVE  prev[w[i]] = IF i = 1 THEN NULL ELSE w[i - 1]
  OBVIOUS
<1>3. IsPrev(S, r, w[i], prev[w[i]]) /\ Distinct(S, r)
  BY <1>1 DEF Linked
<1>4. ASSUME prev[w[i]] # NULL
      PROVE  \E j \in 1..Len(w) : w[j] = prev[w[i]] /\ j = i - 1
  <2>1. /\ prev[w[i]] \in S /\ r[prev[w[i]]] < r[w[i]]
        /\ \A z \in S : r[w[i]] <= r[z] \/ r[z] <= r[prev[w[i]]]
    BY <1>3, <1>4 DEF IsPrev
  <2>2. PICK j \in 1..Len(w) : w[j] = prev[w[i]]
    BY <2>1 DEF Whole, Met
  <2>3. j < i
    <3>1. CASE j = i
      BY <1>1, <1>2, <2>1, <2>2, <3>1
    <3>2. CASE i < j
      <4>1. r[w[i]] < r[w[j]]
        BY <1>1, <3>2
      <4> QED BY <1>1, <1>2, <2>1, <2>2, <4>1
    <3> QED BY <1>1, <3>1, <3>2
  <2>4. ~(j < i - 1)
    <3>1. SUFFICES ASSUME j < i - 1 PROVE FALSE
      OBVIOUS
    <3>2. PICK k \in 1..Len(w) : k = i - 1 /\ j < k /\ k < i
      BY <1>1, <3>1
    <3>3. r[w[j]] < r[w[k]] /\ r[w[k]] < r[w[i]] /\ w[k] \in S
      BY <1>1, <3>2
    <3>4. r[w[i]] <= r[w[k]] \/ r[w[k]] <= r[w[j]]
      BY <2>1, <2>2, <3>3
    <3> QED BY <1>1, <1>2, <3>3, <3>4
  <2> QED BY <1>1, <2>2, <2>3, <2>4
<1>5. CASE i = 1
  BY <1>1, <1>4, <1>5
<1>6. CASE i # 1
  <2>1. PICK k \in 1..Len(w) : k = i - 1 /\ k < i
    BY <1>1, <1>6
  <2>2. r[w[k]] < r[w[i]] /\ w[k] \in S
    BY <1>1, <2>1
  <2>3. prev[w[i]] # NULL
    BY <1>1, <1>2, <1>3, <2>2 DEF IsPrev
  <2> QED BY <1>4, <1>6, <2>3
<1> QED BY <1>5, <1>6

-------------------------------------------------------------------------------
(* The order of a new chain *)

\* A set of naturals that is not empty has a least one.
LEMMA LeastNumber ==
  ASSUME NEW S, S \subseteq Nat, S # {}
  PROVE  \E m \in S : \A k \in S : m <= k
<1>1. PICK m \in S : \A k \in S : ~(<<k, m>> \in OpToRel(<, Nat))
  BY NatLessThanWellFounded, WFMin
<1>2. OpToRel(<, Nat) = {p \in Nat \X Nat : p[1] < p[2]}
  BY Zenon DEF OpToRel
<1>3. \A k \in S : ~(k < m)
  BY <1>1, <1>2
<1> QED BY <1>3

\* Min is the least of a set of naturals.
LEMMA MinIsLeast ==
  ASSUME NEW S, S \subseteq Nat, S # {}
  PROVE  Min(S) \in S /\ \A k \in S : Min(S) <= k
<1>1. \E m \in S : \A k \in S : m <= k
  BY LeastNumber
<1>2. Min(S) = CHOOSE m \in S : \A k \in S : m <= k
  BY DEF Min
<1> QED BY <1>1, <1>2, Zenon

\* Max is the greatest of a bounded set of naturals.
LEMMA MaxIsGreatest ==
  ASSUME NEW n \in Nat, NEW S \in SUBSET (1..n), S # {}
  PROVE  Max(S) \in S /\ \A k \in S : k <= Max(S)
<1> DEFINE below == {n - k : k \in S}
<1>1. PICK m \in below : \A k \in below : m <= k
  <2>0. \A k \in S : n - k \in Nat
    OBVIOUS
  <2>1. below \subseteq Nat /\ below # {}
    BY <2>0
  <2> HIDE DEF below
  <2> QED BY <2>1, LeastNumber
<1>2. PICK a \in S : m = n - a
  BY <1>1
<1>3. \A k \in S : a >= k
  <2>1. \A k \in S : n - a <= n - k /\ k \in Int
    BY <1>1, <1>2
  <2> QED BY <2>1
<1>4. \E b \in S : \A k \in S : b >= k
  BY <1>3
<1>5. Max(S) = CHOOSE b \in S : \A k \in S : b >= k
  BY DEF Max
<1>6. Max(S) \in S /\ \A k \in S : Max(S) >= k
  BY <1>4, <1>5, Zenon
<1> QED BY <1>6

Mirror(r) == [e \in Elements |-> 0 - r[e]]

\* Some members of a list, each put before those that come earlier: they are linked the
\* other way round.
PutBefore(w, A, first, next, prev) ==
  /\ first = IF A = {} THEN NULL ELSE w[Max(A)]
  /\ \A i \in A : LET earlier == {j \in A : j < i}
                      later == {j \in A : j > i}
                  IN  /\ next[w[i]] = IF earlier = {} THEN NULL ELSE w[Max(earlier)]
                      /\ prev[w[i]] = IF later = {} THEN NULL ELSE w[Min(later)]

\* So they are linked, and as many as there were places.
LEMMA LinkedReverses ==
  ASSUME NEW S \in SUBSET Elements, NEW r \in Numbers, NEW w, Trail(w, S, r),
         NEW A \in SUBSET (1..Len(w)), NEW first, NEW next, NEW prev,
         PutBefore(w, A, first, next, prev)
  PROVE  /\ Linked({w[i] : i \in A}, Mirror(r), first, next, prev)
         /\ Cardinality({w[i] : i \in A}) = Cardinality(A)
<1> USE UthashAssumption
<1> DEFINE q == Mirror(r)
           R == {w[i] : i \in A}
<1>1. /\ Len(w) \in Nat /\ A \subseteq Nat /\ A \subseteq 1..Len(w)
      /\ \A i \in A : w[i] \in S /\ w[i] \in Elements /\ w[i] # NULL /\ r[w[i]] \in Int
      /\ \A i, j \in A : i < j => r[w[i]] < r[w[j]]
  BY DEF Trail, Numbers
<1>order. \A i, j \in A : i \in Int /\ (i < j \/ i = j \/ j < i)
  <2>1. \A i \in A : i \in Nat
    BY <1>1, Zenon
  <2>2. \A i \in A : i \in Int
    BY <2>1
  <2> HIDE <1>1
  <2> QED BY <2>2
<1>2. \A i \in A : q[w[i]] = 0 - r[w[i]]
  BY <1>1 DEF Mirror
<1> HIDE DEF q
<1>3. /\ \A i \in A : q[w[i]] \in Int
      /\ \A i, j \in A : i < j => q[w[j]] < q[w[i]]
  BY <1>1, <1>2
<1>4. Distinct(R, q)
  <2>1. ASSUME NEW i \in A, NEW j \in A, q[w[i]] = q[w[j]] PROVE i = j
    BY <1>1, <1>3, <2>1
  <2> QED BY <2>1 DEF Distinct
<1>5. IsFirst(R, q, first)
  <2>1. CASE A = {}
    BY <2>1 DEF IsFirst, PutBefore
  <2>2. CASE A # {}
    <3>1. PICK m \in A : m = Max(A) /\ \A k \in A : k <= m
      BY <1>1, <2>2, MaxIsGreatest
    <3>2. first = w[m] /\ w[m] # NULL
      BY <1>1, <2>2, <3>1 DEF PutBefore
    <3>3. \A k \in A : q[w[m]] <= q[w[k]]
      <4>1. ASSUME NEW k \in A PROVE k = m \/ k < m
        <5>1. k <= m /\ k \in Int /\ m \in Int
          BY <1>order, <3>1
        <5> QED BY <5>1
      <4>2. ASSUME NEW k \in A PROVE q[w[m]] <= q[w[k]]
        <5>1. q[w[m]] \in Int /\ q[w[k]] \in Int /\ (k < m => q[w[m]] < q[w[k]])
          BY <1>3
        <5> QED BY <4>1, <5>1
      <4> QED BY <4>2
    <3> QED BY <3>2, <3>3 DEF IsFirst
  <2> QED BY <2>1, <2>2
<1>6. ASSUME NEW x \in R PROVE IsNext(R, q, x, next[x])
  <2>1. PICK i \in A : x = w[i]
    OBVIOUS
  <2> DEFINE earlier == {j \in A : j < i}
  <2>2. next[x] = IF earlier = {} THEN NULL ELSE w[Max(earlier)]
    BY <2>1 DEF PutBefore
  <2>3. CASE earlier = {}
    <3>1. \A j \in A : j = i \/ i < j
      BY <1>order, <2>3
    <3>2. \A j \in A : q[w[j]] <= q[w[i]]
      BY <1>3, <3>1
    <3> QED BY <2>1, <2>2, <2>3, <3>2 DEF IsNext
  <2>4. CASE earlier # {}
    <3>1. PICK m \in earlier : m = Max(earlier) /\ \A k \in earlier : k <= m
      <4>1. earlier \in SUBSET (1..Len(w))
        BY <1>1
      <4> HIDE DEF earlier
      <4> QED BY <1>1, <2>4, <4>1, MaxIsGreatest
    <3>2. m \in A /\ m < i /\ next[x] = w[m] /\ w[m] # NULL /\ w[m] \in R
      BY <1>1, <2>2, <2>4, <3>1
    <3>3. \A j \in A : j = i \/ i < j \/ j = m \/ j < m
      BY <1>order, <3>1
    <3>4. \A j \in A : q[w[j]] <= q[w[i]] \/ q[w[m]] <= q[w[j]]
      BY <1>3, <3>2, <3>3
    <3>5. q[x] < q[w[m]]
      BY <1>3, <2>1, <3>2
    <3> QED BY <2>1, <3>2, <3>4, <3>5 DEF IsNext
  <2> QED BY <2>3, <2>4
<1>7. ASSUME NEW x \in R PROVE IsPrev(R, q, x, prev[x])
  <2>1. PICK i \in A : x = w[i]
    OBVIOUS
  <2> DEFINE later == {j \in A : j > i}
  <2>2. prev[x] = IF later = {} THEN NULL ELSE w[Min(later)]
    BY <2>1 DEF PutBefore
  <2>3. CASE later = {}
    <3>1. \A j \in A : j = i \/ j < i
      BY <1>order, <2>3
    <3>2. \A j \in A : q[w[i]] <= q[w[j]]
      BY <1>3, <3>1
    <3> QED BY <2>1, <2>2, <2>3, <3>2 DEF IsPrev
  <2>4. CASE later # {}
    <3>1. PICK m \in later : m = Min(later) /\ \A k \in later : m <= k
      <4>1. later \subseteq Nat
        BY <1>1
      <4> HIDE DEF later
      <4> QED BY <2>4, <4>1, MinIsLeast
    <3>2. m \in A /\ i < m /\ prev[x] = w[m] /\ w[m] # NULL /\ w[m] \in R
      BY <1>1, <2>2, <2>4, <3>1
    <3>3. \A j \in A : j = i \/ j < i \/ j = m \/ m < j
      BY <1>order, <3>1
    <3>4. \A j \in A : q[w[i]] <= q[w[j]] \/ q[w[j]] <= q[w[m]]
      BY <1>3, <3>2, <3>3
    <3>5. q[w[m]] < q[x]
      BY <1>3, <2>1, <3>2
    <3> QED BY <2>1, <3>2, <3>4, <3>5 DEF IsPrev
  <2> QED BY <2>3, <2>4
<1>8. Linked(R, q, first, next, prev)
  BY <1>4, <1>5, <1>6, <1>7 DEF Linked
<1>9. Cardinality(R) = Cardinality(A)
  <2> DEFINE f == [i \in A |-> w[i]]
  <2>1. f \in Surjection(A, R)
    BY DEF Surjection
  <2>2. f \in Injection(A, R)
    <3>1. \A i, j \in A : w[i] = w[j] => i = j
      BY <1>1
    <3> QED BY <3>1 DEF Injection, IsInjective
  <2>3. IsFiniteSet(R)
    <3>1. R \in SUBSET Elements
      BY <1>1
    <3> HIDE DEF R
    <3> QED BY <3>1, FS_Subset
  <2> HIDE DEF f, R
  <2> QED BY <2>1, <2>2, <2>3, FS_Injection
<1> QED BY <1>8, <1>9 DEF q

-------------------------------------------------------------------------------
(* The table *)

PrevLink(T) == [e \in Elements |-> T.hh[e].prev]
HhPrev(T) == [e \in Elements |-> T.hh[e].hh_prev]

\* The fields of the records: of the handles, and of the table when there is one.
Handles(T) ==
  /\ DOMAIN T = {"head", "tbl", "hh"}
  /\ DOMAIN T.hh = Elements
  /\ \A e \in Elements :
       DOMAIN T.hh[e] = {"prev", "next", "hh_prev", "hh_next", "key", "hashv"}
Shape(T) ==
  /\ Handles(T)
  /\ DOMAIN T.tbl =
       {"tail", "num_buckets", "num_items", "ineff_expands", "noexpand", "buckets"}
  /\ T.tbl.num_buckets \in Nat \ {0}
  /\ DOMAIN T.tbl.buckets = 0..T.tbl.num_buckets - 1
  /\ \A b \in 0..T.tbl.num_buckets - 1 :
       DOMAIN T.tbl.buckets[b] = {"hh_head", "count", "expand_mult"}

\* What a macro leaves alone.
SameHead(T, U) ==
  U.head = T.head /\ U.tbl.tail = T.tbl.tail /\ U.tbl.num_items = T.tbl.num_items
SameList(T, U) ==
  \A e \in Elements : U.hh[e].next = T.hh[e].next /\ U.hh[e].prev = T.hh[e].prev
SameBuckets(T, U) ==
  U.tbl.num_buckets = T.tbl.num_buckets /\ U.tbl.buckets = T.tbl.buckets
SameChains(T, U) ==
  \A e \in Elements : U.hh[e].hh_next = T.hh[e].hh_next /\ U.hh[e].hh_prev = T.hh[e].hh_prev
SameKeys(T, U) ==
  \A e \in Elements : U.hh[e].key = T.hh[e].key /\ U.hh[e].hashv = T.hh[e].hashv

\* The table holds the elements of S: all of them are in the list in some order, and
\* in some order those of each bucket are in its chain.
Hashed(T, S) == \A x \in S : T.hh[x].hashv \in Nat
InBucket(T, S, b) == {x \in S : ToBucket(T.hh[x].hashv, T.tbl.num_buckets) = b}
ListHolds(T, S, r) ==
  /\ Linked(S, r, T.head, NextLink(T), PrevLink(T))
  /\ IsLast(S, r, T.tbl.tail)
  /\ T.tbl.num_items = Cardinality(S)
ChainsHold(T, S, c) ==
  \A b \in 0..T.tbl.num_buckets - 1 :
    /\ Linked(InBucket(T, S, b), c, T.tbl.buckets[b].hh_head, HhNext(T), HhPrev(T))
    /\ T.tbl.buckets[b].count = Cardinality(InBucket(T, S, b))
Holds(T, S) ==
  /\ Shape(T) /\ Hashed(T, S)
  /\ \E r \in Numbers : ListHolds(T, S, r)
  /\ \E c \in Numbers : ChainsHold(T, S, c)

\* A hash value leads to one of the buckets.
LEMMA BucketOf ==
  ASSUME NEW T, Shape(T), NEW x, T.hh[x].hashv \in Nat
  PROVE  ToBucket(T.hh[x].hashv, T.tbl.num_buckets) \in 0..T.tbl.num_buckets - 1
BY DEF Shape, ToBucket

\* The links of an element are the fields of its handle.
LEMMA Links ==
  ASSUME NEW T, NEW x \in Elements
  PROVE  /\ HhNext(T)[x] = T.hh[x].hh_next /\ HhPrev(T)[x] = T.hh[x].hh_prev
         /\ NextLink(T)[x] = T.hh[x].next /\ PrevLink(T)[x] = T.hh[x].prev
BY UthashAssumption DEF HhNext, HhPrev, NextLink, PrevLink, Pointer

\* The list and the chains do not depend on the fields of each other.
LEMMA ListKept ==
  ASSUME NEW T, NEW U, NEW S \in SUBSET Elements, NEW r, ListHolds(T, S, r),
         SameHead(T, U), SameList(T, U)
  PROVE  ListHolds(U, S, r)
<1>1. \A x \in S : /\ NextLink(U)[x] = NextLink(T)[x]
                   /\ PrevLink(U)[x] = PrevLink(T)[x]
  BY Links DEF SameList
<1>2. Linked(S, r, T.head, NextLink(U), PrevLink(U))
  BY <1>1, LinkedAgrees DEF ListHolds
<1> QED BY <1>2 DEF ListHolds, SameHead

LEMMA ChainsKept ==
  ASSUME NEW T, NEW U, NEW S \in SUBSET Elements, NEW c, ChainsHold(T, S, c),
         SameBuckets(T, U), SameChains(T, U), SameKeys(T, U)
  PROVE  ChainsHold(U, S, c)
<1>1. \A b : InBucket(U, S, b) = InBucket(T, S, b)
  BY DEF InBucket, SameBuckets, SameKeys
<1> SUFFICES ASSUME NEW b \in 0..T.tbl.num_buckets - 1
             PROVE  /\ Linked(InBucket(T, S, b), c, T.tbl.buckets[b].hh_head, HhNext(U), HhPrev(U))
                    /\ T.tbl.buckets[b].count = Cardinality(InBucket(T, S, b))
  BY <1>1 DEF ChainsHold, SameBuckets
<1>2. \A x \in InBucket(T, S, b) : /\ HhNext(U)[x] = HhNext(T)[x]
                                   /\ HhPrev(U)[x] = HhPrev(T)[x]
  BY Links DEF SameChains, InBucket
<1>3. Linked(InBucket(T, S, b), c, T.tbl.buckets[b].hh_head, HhNext(T), HhPrev(T))
  BY DEF ChainsHold
<1>4. Linked(InBucket(T, S, b), c, T.tbl.buckets[b].hh_head, HhNext(U), HhPrev(U))
  BY <1>2, <1>3, LinkedAgrees
<1> QED BY <1>4 DEF ChainsHold
-------------------------------------------------------------------------------
(* One link set *)

\* The next of one element is set.
SetNext(T, e, v) == [T EXCEPT !.hh[e].next = v]
NextBecomes(T, U, e, v) ==
  /\ Shape(U) /\ SameHead(T, U) /\ SameBuckets(T, U) /\ SameChains(T, U) /\ SameKeys(T, U)
  /\ U.hh[e].next = v /\ \A x \in Elements \ {e} : U.hh[x].next = T.hh[x].next
  /\ \A x \in Elements : U.hh[x].prev = T.hh[x].prev
LEMMA NextSet ==
  ASSUME NEW T, Shape(T), NEW e \in Elements, NEW v
  PROVE  NextBecomes(T, SetNext(T, e, v), e, v)
<1> DEFINE U == SetNext(T, e, v)
<1>1. /\ DOMAIN T.hh = Elements /\ DOMAIN T = {"head", "tbl", "hh"}
      /\ DOMAIN T.hh[e] = {"prev", "next", "hh_prev", "hh_next", "key", "hashv"}
  BY DEF Shape, Handles
<1>2. /\ DOMAIN U = {"head", "tbl", "hh"} /\ U.head = T.head /\ U.tbl = T.tbl
      /\ U.hh = [T.hh EXCEPT ![e] = [@ EXCEPT !.next = v]]
  BY <1>1 DEF SetNext
<1> HIDE DEF U
<1>3. /\ DOMAIN U.hh = Elements
      /\ U.hh[e] = [T.hh[e] EXCEPT !.next = v]
      /\ \A x \in Elements \ {e} : U.hh[x] = T.hh[x]
  BY <1>1, <1>2
<1>4. /\ DOMAIN U.hh[e] = {"prev", "next", "hh_prev", "hh_next", "key", "hashv"}
      /\ U.hh[e].next = v /\ U.hh[e].prev = T.hh[e].prev
      /\ U.hh[e].hh_next = T.hh[e].hh_next /\ U.hh[e].hh_prev = T.hh[e].hh_prev
      /\ U.hh[e].key = T.hh[e].key /\ U.hh[e].hashv = T.hh[e].hashv
  BY <1>1, <1>3
<1>5. Shape(U)
  BY <1>2, <1>3, <1>4 DEF Shape, Handles
<1>6. SameHead(T, U) /\ SameBuckets(T, U)
  BY <1>2 DEF SameHead, SameBuckets
<1> QED BY <1>3, <1>4, <1>5, <1>6 DEF SameChains, SameKeys, NextBecomes, U

\* The prev of one element is set.
SetPrev(T, e, v) == [T EXCEPT !.hh[e].prev = v]
PrevBecomes(T, U, e, v) ==
  /\ Shape(U) /\ SameHead(T, U) /\ SameBuckets(T, U) /\ SameChains(T, U) /\ SameKeys(T, U)
  /\ U.hh[e].prev = v /\ \A x \in Elements \ {e} : U.hh[x].prev = T.hh[x].prev
  /\ \A x \in Elements : U.hh[x].next = T.hh[x].next
LEMMA PrevSet ==
  ASSUME NEW T, Shape(T), NEW e \in Elements, NEW v
  PROVE  PrevBecomes(T, SetPrev(T, e, v), e, v)
<1> DEFINE U == SetPrev(T, e, v)
<1>1. /\ DOMAIN T.hh = Elements /\ DOMAIN T = {"head", "tbl", "hh"}
      /\ DOMAIN T.hh[e] = {"prev", "next", "hh_prev", "hh_next", "key", "hashv"}
  BY DEF Shape, Handles
<1>2. /\ DOMAIN U = {"head", "tbl", "hh"} /\ U.head = T.head /\ U.tbl = T.tbl
      /\ U.hh = [T.hh EXCEPT ![e] = [@ EXCEPT !.prev = v]]
  BY <1>1 DEF SetPrev
<1> HIDE DEF U
<1>3. /\ DOMAIN U.hh = Elements
      /\ U.hh[e] = [T.hh[e] EXCEPT !.prev = v]
      /\ \A x \in Elements \ {e} : U.hh[x] = T.hh[x]
  BY <1>1, <1>2
<1>4. /\ DOMAIN U.hh[e] = {"prev", "next", "hh_prev", "hh_next", "key", "hashv"}
      /\ U.hh[e].prev = v /\ U.hh[e].next = T.hh[e].next
      /\ U.hh[e].hh_next = T.hh[e].hh_next /\ U.hh[e].hh_prev = T.hh[e].hh_prev
      /\ U.hh[e].key = T.hh[e].key /\ U.hh[e].hashv = T.hh[e].hashv
  BY <1>1, <1>3
<1>5. Shape(U)
  BY <1>2, <1>3, <1>4 DEF Shape, Handles
<1>6. SameHead(T, U) /\ SameBuckets(T, U)
  BY <1>2 DEF SameHead, SameBuckets
<1> QED BY <1>3, <1>4, <1>5, <1>6 DEF SameChains, SameKeys, PrevBecomes, U

\* The hh_next of one element is set.
SetHhNext(T, e, v) == [T EXCEPT !.hh[e].hh_next = v]
HhNextBecomes(T, U, e, v) ==
  /\ Shape(U) /\ SameHead(T, U) /\ SameBuckets(T, U) /\ SameList(T, U) /\ SameKeys(T, U)
  /\ U.hh[e].hh_next = v /\ \A x \in Elements \ {e} : U.hh[x].hh_next = T.hh[x].hh_next
  /\ \A x \in Elements : U.hh[x].hh_prev = T.hh[x].hh_prev
LEMMA HhNextSet ==
  ASSUME NEW T, Shape(T), NEW e \in Elements, NEW v
  PROVE  HhNextBecomes(T, SetHhNext(T, e, v), e, v)
<1> DEFINE U == SetHhNext(T, e, v)
<1>1. /\ DOMAIN T.hh = Elements /\ DOMAIN T = {"head", "tbl", "hh"}
      /\ DOMAIN T.hh[e] = {"prev", "next", "hh_prev", "hh_next", "key", "hashv"}
  BY DEF Shape, Handles
<1>2. /\ DOMAIN U = {"head", "tbl", "hh"} /\ U.head = T.head /\ U.tbl = T.tbl
      /\ U.hh = [T.hh EXCEPT ![e] = [@ EXCEPT !.hh_next = v]]
  BY <1>1 DEF SetHhNext
<1> HIDE DEF U
<1>3. /\ DOMAIN U.hh = Elements
      /\ U.hh[e] = [T.hh[e] EXCEPT !.hh_next = v]
      /\ \A x \in Elements \ {e} : U.hh[x] = T.hh[x]
  BY <1>1, <1>2
<1>4. /\ DOMAIN U.hh[e] = {"prev", "next", "hh_prev", "hh_next", "key", "hashv"}
      /\ U.hh[e].hh_next = v /\ U.hh[e].hh_prev = T.hh[e].hh_prev
      /\ U.hh[e].next = T.hh[e].next /\ U.hh[e].prev = T.hh[e].prev
      /\ U.hh[e].key = T.hh[e].key /\ U.hh[e].hashv = T.hh[e].hashv
  BY <1>1, <1>3
<1>5. Shape(U)
  BY <1>2, <1>3, <1>4 DEF Shape, Handles
<1>6. SameHead(T, U) /\ SameBuckets(T, U)
  BY <1>2 DEF SameHead, SameBuckets
<1> QED BY <1>3, <1>4, <1>5, <1>6 DEF SameList, SameKeys, HhNextBecomes, U

\* The hh_prev of one element is set.
SetHhPrev(T, e, v) == [T EXCEPT !.hh[e].hh_prev = v]
HhPrevBecomes(T, U, e, v) ==
  /\ Shape(U) /\ SameHead(T, U) /\ SameBuckets(T, U) /\ SameList(T, U) /\ SameKeys(T, U)
  /\ U.hh[e].hh_prev = v /\ \A x \in Elements \ {e} : U.hh[x].hh_prev = T.hh[x].hh_prev
  /\ \A x \in Elements : U.hh[x].hh_next = T.hh[x].hh_next
LEMMA HhPrevSet ==
  ASSUME NEW T, Shape(T), NEW e \in Elements, NEW v
  PROVE  HhPrevBecomes(T, SetHhPrev(T, e, v), e, v)
<1> DEFINE U == SetHhPrev(T, e, v)
<1>1. /\ DOMAIN T.hh = Elements /\ DOMAIN T = {"head", "tbl", "hh"}
      /\ DOMAIN T.hh[e] = {"prev", "next", "hh_prev", "hh_next", "key", "hashv"}
  BY DEF Shape, Handles
<1>2. /\ DOMAIN U = {"head", "tbl", "hh"} /\ U.head = T.head /\ U.tbl = T.tbl
      /\ U.hh = [T.hh EXCEPT ![e] = [@ EXCEPT !.hh_prev = v]]
  BY <1>1 DEF SetHhPrev
<1> HIDE DEF U
<1>3. /\ DOMAIN U.hh = Elements
      /\ U.hh[e] = [T.hh[e] EXCEPT !.hh_prev = v]
      /\ \A x \in Elements \ {e} : U.hh[x] = T.hh[x]
  BY <1>1, <1>2
<1>4. /\ DOMAIN U.hh[e] = {"prev", "next", "hh_prev", "hh_next", "key", "hashv"}
      /\ U.hh[e].hh_prev = v /\ U.hh[e].hh_next = T.hh[e].hh_next
      /\ U.hh[e].next = T.hh[e].next /\ U.hh[e].prev = T.hh[e].prev
      /\ U.hh[e].key = T.hh[e].key /\ U.hh[e].hashv = T.hh[e].hashv
  BY <1>1, <1>3
<1>5. Shape(U)
  BY <1>2, <1>3, <1>4 DEF Shape, Handles
<1>6. SameHead(T, U) /\ SameBuckets(T, U)
  BY <1>2 DEF SameHead, SameBuckets
<1> QED BY <1>3, <1>4, <1>5, <1>6 DEF SameList, SameKeys, HhPrevBecomes, U

\* The count and the head of one bucket are set.
SetBucket(T, b, n, h) == [T EXCEPT !.tbl.buckets[b].count = n, !.tbl.buckets[b].hh_head = h]
BucketBecomes(T, U, b, n, h) ==
  /\ Shape(U) /\ SameHead(T, U) /\ SameList(T, U) /\ SameChains(T, U) /\ SameKeys(T, U)
  /\ U.tbl.num_buckets = T.tbl.num_buckets
  /\ U.tbl.buckets[b].count = n /\ U.tbl.buckets[b].hh_head = h
  /\ \A d \in 0..T.tbl.num_buckets - 1 : d # b => U.tbl.buckets[d] = T.tbl.buckets[d]
LEMMA BucketSet ==
  ASSUME NEW T, Shape(T), NEW b \in 0..T.tbl.num_buckets - 1, NEW n, NEW h
  PROVE  BucketBecomes(T, SetBucket(T, b, n, h), b, n, h)
<1> DEFINE U == SetBucket(T, b, n, h)
<1>1. /\ DOMAIN T = {"head", "tbl", "hh"}
      /\ DOMAIN T.tbl =
           {"tail", "num_buckets", "num_items", "ineff_expands", "noexpand", "buckets"}
      /\ DOMAIN T.tbl.buckets = 0..T.tbl.num_buckets - 1
      /\ DOMAIN T.tbl.buckets[b] = {"hh_head", "count", "expand_mult"}
  BY DEF Shape, Handles
<1> DEFINE B == [T.tbl.buckets EXCEPT ![b].count = n, ![b].hh_head = h]
<1>2. /\ DOMAIN U = {"head", "tbl", "hh"} /\ U.head = T.head /\ U.hh = T.hh
      /\ U.tbl = [T.tbl EXCEPT !.buckets = B]
  BY <1>1 DEF SetBucket
<1> HIDE DEF U
<1>6. /\ DOMAIN B = 0..T.tbl.num_buckets - 1
      /\ B[b] = [T.tbl.buckets[b] EXCEPT !.count = n, !.hh_head = h]
      /\ \A d \in 0..T.tbl.num_buckets - 1 : d # b => B[d] = T.tbl.buckets[d]
  BY <1>1
<1> HIDE DEF B
<1>3. /\ DOMAIN U.tbl =
           {"tail", "num_buckets", "num_items", "ineff_expands", "noexpand", "buckets"}
      /\ U.tbl.tail = T.tbl.tail /\ U.tbl.num_items = T.tbl.num_items
      /\ U.tbl.num_buckets = T.tbl.num_buckets /\ U.tbl.buckets = B
  BY <1>1, <1>2
<1>4. /\ DOMAIN B[b] = {"hh_head", "count", "expand_mult"}
      /\ B[b].count = n /\ B[b].hh_head = h
  BY <1>1, <1>6
<1>5. Shape(U)
  <2>1. Handles(U)
    BY <1>2 DEF Shape, Handles
  <2>2. \A d \in 0..T.tbl.num_buckets - 1 : DOMAIN B[d] = {"hh_head", "count", "expand_mult"}
    BY <1>4, <1>6 DEF Shape
  <2>3. U.tbl.num_buckets \in Nat \ {0}
    BY <1>3 DEF Shape
  <2> QED BY <1>3, <1>6, <2>1, <2>2, <2>3 DEF Shape
<1>7. SameHead(T, U) /\ SameList(T, U) /\ SameChains(T, U) /\ SameKeys(T, U)
  BY <1>2, <1>3 DEF SameHead, SameList, SameChains, SameKeys
<1> QED BY <1>3, <1>4, <1>5, <1>6, <1>7 DEF BucketBecomes, U

\* What two macros in turn leave alone is left alone.
LEMMA SameTransitive ==
  ASSUME NEW T, NEW U, NEW V
  PROVE  /\ SameHead(T, U) /\ SameHead(U, V) => SameHead(T, V)
         /\ SameList(T, U) /\ SameList(U, V) => SameList(T, V)
         /\ SameBuckets(T, U) /\ SameBuckets(U, V) => SameBuckets(T, V)
         /\ SameChains(T, U) /\ SameChains(U, V) => SameChains(T, V)
         /\ SameKeys(T, U) /\ SameKeys(U, V) => SameKeys(T, V)
<1>1. SameHead(T, U) /\ SameHead(U, V) => SameHead(T, V)
  BY DEF SameHead
<1>2. SameList(T, U) /\ SameList(U, V) => SameList(T, V)
  BY DEF SameList
<1>3. SameBuckets(T, U) /\ SameBuckets(U, V) => SameBuckets(T, V)
  BY DEF SameBuckets
<1>4. SameChains(T, U) /\ SameChains(U, V) => SameChains(T, V)
  BY DEF SameChains
<1>5. SameKeys(T, U) /\ SameKeys(U, V) => SameKeys(T, V)
  BY DEF SameKeys
<1> QED BY <1>1, <1>2, <1>3, <1>4, <1>5
-------------------------------------------------------------------------------
(* HASH_ADD_TO_BKT *)

\* What Insert assigns.
LEMMA InsertFields ==
  ASSUME NEW T, Shape(T), NEW e \in Elements, T.hh[e].hashv \in Nat,
         NEW b, b = ToBucket(T.hh[e].hashv, T.tbl.num_buckets),
         NEW old, old = T.tbl.buckets[b].hh_head, old \in (Elements \ {e}) \cup {NULL}
  PROVE  LET U == Insert(T, e)
         IN  /\ Shape(U) /\ SameHead(T, U) /\ SameList(T, U) /\ SameKeys(T, U)
             /\ U.tbl.num_buckets = T.tbl.num_buckets
             /\ U.tbl.buckets[b].hh_head = e
             /\ U.tbl.buckets[b].count = T.tbl.buckets[b].count + 1
             /\ \A d \in 0..T.tbl.num_buckets - 1 : d # b => U.tbl.buckets[d] = T.tbl.buckets[d]
             /\ U.hh[e].hh_next = old /\ U.hh[e].hh_prev = NULL
             /\ \A x \in Elements \ {e} :
                  /\ U.hh[x].hh_next = T.hh[x].hh_next
                  /\ U.hh[x].hh_prev = IF x = old THEN e ELSE T.hh[x].hh_prev
<1>0. b \in 0..T.tbl.num_buckets - 1
  BY BucketOf
<1> DEFINE Put(k, y) == [T EXCEPT !.tbl.buckets[k].count = @ + 1, !.tbl.buckets[k].hh_head = e,
                                  !.hh[e].hh_next = y, !.hh[e].hh_prev = NULL]
           home == ToBucket(T.hh[e].hashv, T.tbl.num_buckets)
           head == T.tbl.buckets[home].hh_head
           counted == SetBucket(T, b, T.tbl.buckets[b].count + 1, e)
           onward == SetHhNext(counted, e, old)
           V == SetHhPrev(onward, e, NULL)
           U == Insert(T, e)
<1>1. U = IF old = NULL THEN V ELSE SetHhPrev(V, old, e)
  <2>1. U = IF head = NULL THEN Put(home, head)
            ELSE [Put(home, head) EXCEPT !.hh[head].hh_prev = e]
    BY Zenon DEF Insert
  <2>2. home = b /\ head = old
    OBVIOUS
  <2>3. V = Put(b, old)
    BY <1>0 DEF Shape, Handles, SetBucket, SetHhNext, SetHhPrev
  <2> HIDE DEF Put, home, head, V
  <2> QED BY <2>1, <2>2, <2>3 DEF SetHhPrev
<1>2. /\ Shape(V) /\ SameHead(T, V) /\ SameList(T, V) /\ SameKeys(T, V)
      /\ V.tbl.num_buckets = T.tbl.num_buckets
      /\ V.tbl.buckets[b].hh_head = e
      /\ V.tbl.buckets[b].count = T.tbl.buckets[b].count + 1
      /\ \A d \in 0..T.tbl.num_buckets - 1 : d # b => V.tbl.buckets[d] = T.tbl.buckets[d]
      /\ V.hh[e].hh_next = old /\ V.hh[e].hh_prev = NULL
      /\ \A x \in Elements \ {e} : /\ V.hh[x].hh_next = T.hh[x].hh_next
                                   /\ V.hh[x].hh_prev = T.hh[x].hh_prev
  <2>1. BucketBecomes(T, counted, b, T.tbl.buckets[b].count + 1, e)
    BY <1>0, BucketSet
  <2>2. Shape(counted)
    BY <2>1 DEF BucketBecomes
  <2>3. HhNextBecomes(counted, onward, e, old)
    <3> HIDE DEF counted
    <3> QED BY <2>2, HhNextSet
  <2>4. Shape(onward)
    <3> HIDE DEF onward
    <3> QED BY <2>3 DEF HhNextBecomes
  <2>5. HhPrevBecomes(onward, V, e, NULL)
    <3> HIDE DEF onward
    <3> QED BY <2>4, HhPrevSet
  <2> HIDE DEF counted, onward, V
  <2>6. Shape(V) /\ SameHead(T, V) /\ SameList(T, V) /\ SameKeys(T, V)
    <3>1. Shape(V)
      BY <2>5 DEF HhPrevBecomes
    <3>2. SameHead(T, counted) /\ SameList(T, counted) /\ SameKeys(T, counted)
      BY <2>1 DEF BucketBecomes
    <3>3. SameHead(counted, onward) /\ SameList(counted, onward) /\ SameKeys(counted, onward)
      BY <2>3 DEF HhNextBecomes
    <3>4. SameHead(onward, V) /\ SameList(onward, V) /\ SameKeys(onward, V)
      BY <2>5 DEF HhPrevBecomes
    <3> QED BY <3>1, <3>2, <3>3, <3>4, SameTransitive
  <2>7. V.tbl.num_buckets = counted.tbl.num_buckets /\ V.tbl.buckets = counted.tbl.buckets
    BY <2>3, <2>5 DEF HhNextBecomes, HhPrevBecomes, SameBuckets
  <2>8. V.hh[e].hh_next = old /\ V.hh[e].hh_prev = NULL
    BY <2>3, <2>5 DEF HhNextBecomes, HhPrevBecomes
  <2>9. \A x \in Elements \ {e} : /\ V.hh[x].hh_next = T.hh[x].hh_next
                                  /\ V.hh[x].hh_prev = T.hh[x].hh_prev
    BY <2>1, <2>3, <2>5 DEF BucketBecomes, HhNextBecomes, HhPrevBecomes, SameChains
  <2> QED BY <2>1, <2>6, <2>7, <2>8, <2>9 DEF BucketBecomes
<1> HIDE DEF V
<1>6. CASE old = NULL
  <2>1. U = V
    BY <1>1, <1>6
  <2> HIDE DEF U
  <2>2. \A x \in Elements \ {e} : x # old
    BY <1>6, UthashAssumption
  <2> QED BY <1>2, <2>1, <2>2 DEF U
<1>7. CASE old # NULL
  <2>1. U = SetHhPrev(V, old, e) /\ old \in Elements /\ old # e
    BY <1>1, <1>7
  <2> HIDE DEF U
  <2>2. HhPrevBecomes(V, U, old, e)
    BY <1>2, <2>1, HhPrevSet
  <2>3. Shape(U) /\ SameHead(T, U) /\ SameList(T, U) /\ SameKeys(T, U)
    <3>1. Shape(U) /\ SameHead(V, U) /\ SameList(V, U) /\ SameKeys(V, U)
      BY <2>2 DEF HhPrevBecomes
    <3> QED BY <1>2, <3>1, SameTransitive
  <2>4. U.tbl.num_buckets = V.tbl.num_buckets /\ U.tbl.buckets = V.tbl.buckets
    BY <2>2 DEF HhPrevBecomes, SameBuckets
  <2>5. /\ U.hh[e].hh_next = old /\ U.hh[e].hh_prev = NULL
        /\ \A x \in Elements \ {e} :
             /\ U.hh[x].hh_next = T.hh[x].hh_next
             /\ U.hh[x].hh_prev = IF x = old THEN e ELSE T.hh[x].hh_prev
    BY <1>2, <2>1, <2>2 DEF HhPrevBecomes
  <2> QED BY <1>2, <2>3, <2>4, <2>5 DEF U
<1> QED BY <1>6, <1>7

\* The elements of a bucket are finitely many.
LEMMA BucketFinite ==
  ASSUME NEW T, NEW S \in SUBSET Elements, NEW b
  PROVE  /\ InBucket(T, S, b) \in SUBSET S /\ InBucket(T, S, b) \in SUBSET Elements
         /\ IsFiniteSet(InBucket(T, S, b)) /\ IsFiniteSet(S)
         /\ Cardinality(InBucket(T, S, b)) \in Nat /\ Cardinality(S) \in Nat
<1>1. InBucket(T, S, b) \in SUBSET S /\ InBucket(T, S, b) \in SUBSET Elements
  BY DEF InBucket
<1>2. IsFiniteSet(InBucket(T, S, b)) /\ IsFiniteSet(S)
  BY <1>1, UthashAssumption, FS_Subset
<1> QED BY <1>1, <1>2, FS_CardinalityType

\* The new item is the head of its chain; the other chains are as before.
LEMMA InsertHolds ==
  ASSUME NEW T, Shape(T), NEW S \in SUBSET Elements, NEW c \in Numbers, ChainsHold(T, S, c),
         NEW e \in Elements \ S, T.hh[e].hashv \in Nat
  PROVE  LET U == Insert(T, e)
         IN  /\ Shape(U) /\ SameHead(T, U) /\ SameList(T, U) /\ SameKeys(T, U)
             /\ \E k \in Numbers : ChainsHold(U, S \cup {e}, k)
<1> DEFINE b == ToBucket(T.hh[e].hashv, T.tbl.num_buckets)
           old == T.tbl.buckets[b].hh_head
           U == Insert(T, e)
           k == [c EXCEPT ![e] = IF old = NULL THEN 0 ELSE c[old] - 1]
           R == InBucket(T, S, b)
<1>1. b \in 0..T.tbl.num_buckets - 1
  BY BucketOf
<1>2. /\ Linked(R, c, old, HhNext(T), HhPrev(T))
      /\ T.tbl.buckets[b].count = Cardinality(R)
  BY <1>1 DEF ChainsHold
<1>3. IF old = NULL THEN R = {} ELSE old \in R
  BY <1>2 DEF Linked, IsFirst
<1>4. R \in SUBSET S /\ R \in SUBSET Elements /\ old \in (Elements \ {e}) \cup {NULL}
  BY <1>3, BucketFinite
<1>5. /\ Shape(U) /\ SameHead(T, U) /\ SameList(T, U) /\ SameKeys(T, U)
      /\ U.tbl.num_buckets = T.tbl.num_buckets
      /\ U.tbl.buckets[b].hh_head = e
      /\ U.tbl.buckets[b].count = T.tbl.buckets[b].count + 1
      /\ \A d \in 0..T.tbl.num_buckets - 1 : d # b => U.tbl.buckets[d] = T.tbl.buckets[d]
      /\ U.hh[e].hh_next = old /\ U.hh[e].hh_prev = NULL
      /\ \A x \in Elements \ {e} :
           /\ U.hh[x].hh_next = T.hh[x].hh_next
           /\ U.hh[x].hh_prev = IF x = old THEN e ELSE T.hh[x].hh_prev
  BY <1>4, InsertFields
<1>6. k \in Numbers /\ (old # NULL => k[e] < c[old]) /\ \A x \in S : k[x] = c[x]
  <2> HIDE DEF R, old
  <2>1. (IF old = NULL THEN 0 ELSE c[old] - 1) \in Int
    BY <1>4 DEF Numbers
  <2>2. k \in Numbers /\ k[e] = (IF old = NULL THEN 0 ELSE c[old] - 1) /\ \A x \in S : k[x] = c[x]
    BY <2>1 DEF Numbers
  <2>3. old # NULL => c[old] \in Int
    BY <1>4 DEF Numbers
  <2> HIDE DEF k
  <2> QED BY <2>2, <2>3
<1>7. /\ HhNext(U)[e] = old /\ HhPrev(U)[e] = NULL
      /\ \A x \in S : /\ HhNext(U)[x] = HhNext(T)[x]
                      /\ HhPrev(U)[x] = IF x = old THEN e ELSE HhPrev(T)[x]
  <2> HIDE DEF U, old
  <2> QED BY <1>5, Links
<1>8. /\ InBucket(U, S \cup {e}, b) = R \cup {e}
      /\ \A d : d # b => InBucket(U, S \cup {e}, d) = InBucket(T, S, d)
  <2>1. U.tbl.num_buckets = T.tbl.num_buckets /\ \A x \in Elements : U.hh[x].hashv = T.hh[x].hashv
    BY <1>5 DEF SameKeys
  <2> HIDE DEF U
  <2> QED BY <2>1 DEF InBucket
<1> HIDE DEF U, k
<1>9. ASSUME NEW d \in 0..T.tbl.num_buckets - 1
      PROVE  /\ Linked(InBucket(U, S \cup {e}, d), k, U.tbl.buckets[d].hh_head,
                       HhNext(U), HhPrev(U))
             /\ U.tbl.buckets[d].count = Cardinality(InBucket(U, S \cup {e}, d))
  <2>1. CASE d = b
    <3> HIDE DEF R, b, old
    <3>1. e \in Elements \ R /\ (old # NULL => k[e] < c[old])
      BY <1>4, <1>6
    <3>2. /\ \A x \in R : k[x] = c[x]
          /\ \A x \in R : HhNext(U)[x] = HhNext(T)[x]
          /\ \A x \in R : HhPrev(U)[x] = IF x = old THEN e ELSE HhPrev(T)[x]
      BY <1>4, <1>6, <1>7
    <3>3. HhNext(U)[e] = old /\ HhPrev(U)[e] = NULL
      BY <1>7
    <3>4. Linked(R \cup {e}, k, e, HhNext(U), HhPrev(U))
      BY <1>2, <1>4, <1>6, <3>1, <3>2, <3>3, LinkedPrepends
    <3>5. Cardinality(R \cup {e}) = Cardinality(R) + 1
      BY <1>4, <3>1, FS_AddElement, FS_Subset, UthashAssumption
    <3> QED BY <1>2, <1>5, <1>8, <2>1, <3>4, <3>5
  <2>2. CASE d # b
    <3> DEFINE Q == InBucket(T, S, d)
    <3>1. U.tbl.buckets[d] = T.tbl.buckets[d] /\ InBucket(U, S \cup {e}, d) = Q
      BY <1>5, <1>8, <2>2
    <3>2. /\ Linked(Q, c, T.tbl.buckets[d].hh_head, HhNext(T), HhPrev(T))
          /\ T.tbl.buckets[d].count = Cardinality(Q)
      BY DEF ChainsHold
    <3>3. old \notin Q /\ Q \in SUBSET S
      <4>1. ASSUME old \in Q PROVE FALSE
        <5>1. old \in R
          BY <1>3, <1>4, <4>1, UthashAssumption DEF InBucket
        <5> QED BY <2>2, <4>1, <5>1 DEF InBucket
      <4> QED BY <4>1, BucketFinite
    <3> HIDE DEF Q, R, b, old
    <3>4. \A x \in Q : /\ k[x] = c[x]
                       /\ HhNext(U)[x] = HhNext(T)[x] /\ HhPrev(U)[x] = HhPrev(T)[x]
      BY <1>6, <1>7, <3>3
    <3>5. Linked(Q, k, T.tbl.buckets[d].hh_head, HhNext(U), HhPrev(U))
      BY <3>2, <3>4, LinkedAgrees
    <3> QED BY <3>1, <3>2, <3>5
  <2> QED BY <2>1, <2>2
<1>10. ChainsHold(U, S \cup {e}, k)
  <2> HIDE DEF b, old, R
  <2>1. U.tbl.num_buckets = T.tbl.num_buckets
    BY <1>5
  <2> QED BY <1>9, <2>1 DEF ChainsHold
<1> QED BY <1>5, <1>6, <1>10 DEF U
-------------------------------------------------------------------------------
(* Remainders *)

\* Quotient and remainder.
LEMMA Division ==
  ASSUME NEW h \in Nat, NEW n \in Nat \ {0}
  PROVE  \E q \in Nat, s \in 0..n - 1 : h = n * q + s /\ s = h % n
<1> DEFINE q == h \div n
           s == h % n
<1>1. n * (h \div n) + (h % n) = h
  BY Z3
<1>2. q \in Nat /\ s \in 0..n - 1
  OBVIOUS
<1>3. n * q + s = h /\ s = h % n
  BY <1>1, Zenon
<1> HIDE DEF q, s
<1> QED BY <1>2, <1>3

\* There is one remainder.
LEMMA RemainderUnique ==
  ASSUME NEW h \in Nat, NEW n \in Nat \ {0}, NEW q \in Nat, NEW r \in 0..n - 1, h = n * q + r
  PROVE  h % n = r
<1>1. PICK a \in Nat, s \in 0..n - 1 : h = n * a + s /\ s = h % n
  BY Division
<1>2. ASSUME NEW x \in Nat, NEW y \in Nat, x < y, NEW u \in 0..n - 1, NEW v \in 0..n - 1,
             n * x + u = n * y + v
      PROVE  FALSE
  <2>1. PICK d \in Nat : y = x + 1 + d
    <3>1. y - x - 1 \in Nat /\ y = x + 1 + (y - x - 1)
      BY <1>2
    <3> QED BY <3>1
  <2>2. n * y = n * x + n + n * d /\ n * d \in Nat /\ n * x \in Nat
    BY <2>1
  <2> QED BY <1>2, <2>2
<1>3. ~(a < q)
  BY <1>1, <1>2
<1>4. ~(q < a)
  BY <1>1, <1>2
<1>5. a = q
  BY <1>3, <1>4
<1>6. s = r
  <2>1. n * q \in Nat /\ n * q + s = n * q + r
    BY <1>1, <1>5
  <2> QED BY <2>1
<1> QED BY <1>1, <1>6

\* Twice as many buckets divide each bucket in two.
LEMMA BucketsDivide ==
  ASSUME NEW h \in Nat, NEW n \in Nat \ {0}
  PROVE  (h % (2 * n)) % n = h % n
<1>1. PICK m \in Nat \ {0} : m = 2 * n
  OBVIOUS
<1>2. PICK q \in Nat, r \in 0..m - 1 : h = m * q + r /\ r = h % m
  BY Division
<1>3. m * q = n * (2 * q) /\ m * q \in Nat
  BY <1>1
<1>4. \A g, p \in Nat, s \in 0..n - 1 : g = n * p + s => g % n = s
  BY RemainderUnique
<1>5. CASE r < n
  <2>1. r \in 0..n - 1 /\ r \in Nat
    BY <1>5
  <2>2. r % n = r
    <3>1. r = n * 0 + r /\ 0 \in Nat
      OBVIOUS
    <3> QED BY <1>4, <2>1, <3>1
  <2>3. h % n = r
    <3>1. PICK p \in Nat : p = 2 * q
      OBVIOUS
    <3>2. h = n * p + r
      BY <1>2, <1>3, <3>1
    <3> QED BY <1>4, <2>1, <3>2
  <2> QED BY <1>1, <1>2, <2>2, <2>3
<1>6. CASE ~(r < n)
  <2>1. PICK s \in 0..n - 1 : r = n + s
    <3>1. r - n \in 0..n - 1 /\ r = n + (r - n)
      BY <1>1, <1>6
    <3> QED BY <3>1
  <2>2. r % n = s
    <3>1. r = n * 1 + s /\ 1 \in Nat /\ r \in Nat
      BY <2>1
    <3> QED BY <1>4, <3>1
  <2>3. h % n = s
    <3>1. PICK p \in Nat : p = 2 * q + 1
      OBVIOUS
    <3>2. PICK z \in Nat : z = n * (2 * q) /\ z = m * q
      BY <1>3
    <3>3. n * p = z + n
      BY <3>1, <3>2
    <3>4. h = z + n + s
      <4>1. h = z + r
        BY <1>2, <3>2, Zenon
      <4> QED BY <2>1, <4>1
    <3>5. h = n * p + s
      BY <3>3, <3>4
    <3> QED BY <1>4, <3>5
  <2> QED BY <1>1, <1>2, <2>2, <2>3
<1> QED BY <1>5, <1>6
-------------------------------------------------------------------------------
(* HASH_EXPAND_BUCKETS *)

\* The items of a new bucket are those its old chain has for it, and they are linked
\* the other way round.
LEMMA ArrivalsLinked ==
  ASSUME NEW T, Shape(T), NEW S \in SUBSET Elements, Hashed(T, S),
         NEW c \in Numbers, ChainsHold(T, S, c),
         NEW b \in 0..2 * T.tbl.num_buckets - 1, NEW first, NEW next, NEW prev,
         PutBefore(Old(T, b), Arrivals(T, b), first, next, prev)
  PROVE  LET new == {x \in S : ToBucket(T.hh[x].hashv, 2 * T.tbl.num_buckets) = b}
         IN  /\ Linked(new, Mirror(c), first, next, prev)
             /\ Cardinality(new) = Cardinality(Arrivals(T, b))
<1> DEFINE n == T.tbl.num_buckets
           d == ToBucket(b, n)
           R == InBucket(T, S, d)
           w == Old(T, b)
           A == Arrivals(T, b)
           new == {x \in S : ToBucket(T.hh[x].hashv, 2 * n) = b}
<1>1. n \in Nat \ {0} /\ b \in Nat /\ d \in 0..n - 1
  <2>1. n \in Nat \ {0}
    BY DEF Shape
  <2>2. b \in Nat
    BY <2>1
  <2> HIDE DEF n
  <2> QED BY <2>1, <2>2 DEF ToBucket
<1>2. Linked(R, c, T.tbl.buckets[d].hh_head, HhNext(T), HhPrev(T)) /\ R \in SUBSET Elements
  BY <1>1, BucketFinite DEF ChainsHold
<1>3. Trail(w, R, c) /\ Whole(w, R)
  <2>1. w = Walk(HhNext(T), T.tbl.buckets[d].hh_head)
    BY DEF Old, Chain
  <2> HIDE DEF w, d, R
  <2> QED BY <1>2, <2>1, WalkMeetsAll
<1>4. A = {i \in 1..Len(w) : ToBucket(T.hh[w[i]].hashv, 2 * n) = b}
  <2>1. DOMAIN w = 1..Len(w)
    <3> HIDE DEF w, R
    <3> QED BY <1>3 DEF Trail
  <2> QED BY <2>1, Zenon DEF Arrivals
<1>5. new = {w[i] : i \in A}
  <2>1. ASSUME NEW i \in A PROVE w[i] \in new
    <3>1. w[i] \in R /\ ToBucket(T.hh[w[i]].hashv, 2 * n) = b
      <4> HIDE DEF w, R, A, n
      <4> QED BY <1>3, <1>4, <2>1 DEF Trail
    <3> HIDE DEF w
    <3> QED BY <3>1 DEF InBucket
  <2>2. ASSUME NEW x \in new PROVE \E i \in A : w[i] = x
    <3>1. x \in S /\ T.hh[x].hashv \in Nat /\ T.hh[x].hashv % (2 * n) = b
      BY <2>2 DEF Hashed, ToBucket
    <3>2. T.hh[x].hashv % n = b % n
      <4> HIDE DEF n
      <4> QED BY <1>1, <3>1, BucketsDivide
    <3>3. x \in R
      BY <3>1, <3>2 DEF InBucket, ToBucket
    <3> HIDE DEF w, R, A, n
    <3>4. PICK i \in 1..Len(w) : w[i] = x
      BY <1>3, <3>3 DEF Whole, Met
    <3> QED BY <1>4, <3>1, <3>4 DEF ToBucket
  <2> HIDE DEF new, w, A
  <2> QED BY <2>1, <2>2
<1> HIDE DEF new, w, A, R
<1>6. A \in SUBSET (1..Len(w))
  BY <1>4
<1>7. PutBefore(w, A, first, next, prev)
  BY DEF w, A
<1>8. /\ Linked({w[i] : i \in A}, Mirror(c), first, next, prev)
      /\ Cardinality({w[i] : i \in A}) = Cardinality(A)
  <2>1. R \in SUBSET Elements /\ Trail(w, R, c)
    BY <1>2, <1>3
  <2> HIDE <1>1, <1>2, <1>3, <1>4, <1>5
  <2> HIDE DEF n, d
  <2> QED BY <2>1, <1>6, <1>7, LinkedReverses
<1> QED BY <1>5, <1>8 DEF new, A, n

\* What Expand assigns.
Expanded(T, U) ==
  /\ DOMAIN U = {"head", "tbl", "hh"} /\ U.head = T.head
  /\ U.hh = [e \in Elements |-> Relinked(T, e)]
  /\ DOMAIN U.tbl =
       {"tail", "num_buckets", "num_items", "ineff_expands", "noexpand", "buckets"}
  /\ U.tbl.tail = T.tbl.tail /\ U.tbl.num_items = T.tbl.num_items
  /\ U.tbl.num_buckets = 2 * T.tbl.num_buckets
  /\ U.tbl.buckets = [b \in 0..2 * T.tbl.num_buckets - 1 |-> Received(T, b)]

LEMMA ExpandFields ==
  ASSUME NEW T, Shape(T)
  PROVE  Expanded(T, Expand(T))
<1> DEFINE E(hh, n, buckets, ineff, no) ==
             [T EXCEPT !.hh = hh, !.tbl.num_buckets = n, !.tbl.buckets = buckets,
                       !.tbl.ineff_expands = ineff, !.tbl.noexpand = no]
           links == [e \in Elements |-> Relinked(T, e)]
           received == [b \in 0..2 * T.tbl.num_buckets - 1 |-> Received(T, b)]
<1>1. Expand(T) = E(links, 2 * T.tbl.num_buckets, received, Ineffective(T),
                    T.tbl.noexpand \/ Ineffective(T) > 1)
  BY DEF Expand
<1>2. ASSUME NEW hh, NEW n, NEW buckets, NEW ineff, NEW no
      PROVE  /\ DOMAIN E(hh, n, buckets, ineff, no) = {"head", "tbl", "hh"}
             /\ E(hh, n, buckets, ineff, no).head = T.head
             /\ E(hh, n, buckets, ineff, no).hh = hh
             /\ DOMAIN E(hh, n, buckets, ineff, no).tbl =
                  {"tail", "num_buckets", "num_items", "ineff_expands", "noexpand", "buckets"}
             /\ E(hh, n, buckets, ineff, no).tbl.tail = T.tbl.tail
             /\ E(hh, n, buckets, ineff, no).tbl.num_items = T.tbl.num_items
             /\ E(hh, n, buckets, ineff, no).tbl.num_buckets = n
             /\ E(hh, n, buckets, ineff, no).tbl.buckets = buckets
  <2>1. /\ DOMAIN T = {"head", "tbl", "hh"}
        /\ DOMAIN T.tbl =
             {"tail", "num_buckets", "num_items", "ineff_expands", "noexpand", "buckets"}
    BY DEF Shape, Handles
  <2> QED BY <2>1
<1> HIDE DEF E, links, received
<1> QED BY <1>1, <1>2 DEF Expanded, links, received

\* Relinked keeps everything but the links of the chain.
LEMMA RelinkedKeeps ==
  ASSUME NEW T, Shape(T), NEW e \in Elements
  PROVE  LET h == Relinked(T, e)
         IN  /\ DOMAIN h = {"prev", "next", "hh_prev", "hh_next", "key", "hashv"}
             /\ h.next = T.hh[e].next /\ h.prev = T.hh[e].prev
             /\ h.key = T.hh[e].key /\ h.hashv = T.hh[e].hashv
<1>1. DOMAIN T.hh[e] = {"prev", "next", "hh_prev", "hh_next", "key", "hashv"}
  BY DEF Shape, Handles
<1>2. \/ Relinked(T, e) = T.hh[e]
      \/ \E x, y : Relinked(T, e) = [T.hh[e] EXCEPT !.hh_next = x, !.hh_prev = y]
  BY Zenon DEF Relinked
<1> QED BY <1>1, <1>2

\* Relinked puts an item before those of its new chain that come earlier in the old one.
PutAt(T, b, i) ==
  LET w == Old(T, b)
      h == Relinked(T, w[i])
      earlier == {j \in Arrivals(T, b) : j < i}
      later == {j \in Arrivals(T, b) : j > i}
  IN  /\ h.hh_next = IF earlier = {} THEN NULL ELSE w[Max(earlier)]
      /\ h.hh_prev = IF later = {} THEN NULL ELSE w[Min(later)]
LEMMA RelinkedLinks ==
  ASSUME NEW T, Shape(T), NEW b, NEW i \in Arrivals(T, b), Old(T, b)[i] \in Elements,
         \A j \in Arrivals(T, b) : Old(T, b)[j] = Old(T, b)[i] => j = i
  PROVE  PutAt(T, b, i)
<1> DEFINE w == Old(T, b)
           e == w[i]
           E(x, y) == [T.hh[e] EXCEPT !.hh_next = x, !.hh_prev = y]
           at == CHOOSE k \in Arrivals(T, b) : w[k] = e
           before(k) == {j \in Arrivals(T, b) : j < k}
           after(k) == {j \in Arrivals(T, b) : j > k}
           onward(k) == IF before(k) = {} THEN NULL ELSE w[Max(before(k))]
           back(k) == IF after(k) = {} THEN NULL ELSE w[Min(after(k))]
<1>1. ToBucket(T.hh[e].hashv, 2 * T.tbl.num_buckets) = b /\ i \in DOMAIN w
  BY Zenon DEF Arrivals
<1>2. e \in ToSet(w)
  BY <1>1, Zenon DEF ToSet
<1>3. at = i
  BY Zenon
<1>4. Relinked(T, e) = E(onward(at), back(at))
  BY <1>1, <1>2, Zenon DEF Relinked
<1>5. Relinked(T, e) = E(onward(i), back(i))
  <2> HIDE DEF at, E, onward, back, e
  <2> QED BY <1>3, <1>4
<1>6. ASSUME NEW x, NEW y
      PROVE  E(x, y).hh_next = x /\ E(x, y).hh_prev = y
  <2>1. DOMAIN T.hh[e] = {"prev", "next", "hh_prev", "hh_next", "key", "hashv"}
    <3>1. \A z \in Elements :
            DOMAIN T.hh[z] = {"prev", "next", "hh_prev", "hh_next", "key", "hashv"}
      BY DEF Shape, Handles
    <3> QED BY <3>1, Zenon
  <2> HIDE DEF e
  <2> QED BY <2>1
<1> HIDE DEF E, onward, back
<1>7. Relinked(T, e).hh_next = onward(i) /\ Relinked(T, e).hh_prev = back(i)
  BY <1>5, <1>6
<1> QED BY <1>7 DEF PutAt, onward, back

\* The items of an old chain are elements, each at one place.
LEMMA OldItems ==
  ASSUME NEW T, Shape(T), NEW S \in SUBSET Elements,
         NEW c \in Numbers, ChainsHold(T, S, c), NEW b \in 0..2 * T.tbl.num_buckets - 1
  PROVE  LET w == Old(T, b)
             A == Arrivals(T, b)
         IN  /\ \A i \in A : w[i] \in Elements
             /\ \A i, j \in A : w[i] = w[j] => i = j
<1> DEFINE d == ToBucket(b, T.tbl.num_buckets)
           R == InBucket(T, S, d)
           w == Old(T, b)
           A == Arrivals(T, b)
<1>1. d \in 0..T.tbl.num_buckets - 1
  <2>1. T.tbl.num_buckets \in Nat \ {0} /\ b \in Nat
    BY DEF Shape
  <2> QED BY <2>1 DEF ToBucket
<1>2. /\ Linked(R, c, T.tbl.buckets[d].hh_head, HhNext(T), HhPrev(T))
      /\ R \in SUBSET Elements
  BY <1>1, BucketFinite DEF ChainsHold
<1>3. Trail(w, R, c)
  <2>1. w = Walk(HhNext(T), T.tbl.buckets[d].hh_head)
    BY DEF Old, Chain
  <2> HIDE DEF w, d, R
  <2> QED BY <1>2, <2>1, WalkMeetsAll
<1>4. A \subseteq 1..Len(w)
  <2>1. A \subseteq DOMAIN w
    BY Zenon DEF Arrivals
  <2> HIDE DEF w, R, A
  <2> QED BY <1>3, <2>1 DEF Trail
<1> HIDE DEF w, R, A
<1>5. /\ \A i \in 1..Len(w) : w[i] \in R
      /\ \A i, j \in 1..Len(w) : i < j => c[w[i]] < c[w[j]]
  BY <1>3 DEF Trail
<1>6. \A i, j \in A : w[i] = w[j] => i = j
  <2>1. ASSUME NEW i \in A, NEW j \in A, i < j PROVE w[i] # w[j]
    BY <1>2, <1>4, <1>5, <2>1 DEF Numbers
  <2>2. \A i \in A : i \in Int
    BY <1>4
  <2>3. \A i, j \in A : i < j \/ i = j \/ j < i
    BY <2>2
  <2> QED BY <2>1, <2>3
<1> QED BY <1>2, <1>4, <1>5, <1>6 DEF w, A

\* The fields of a new bucket.
LEMMA ReceivedFields ==
  ASSUME NEW T, NEW b
  PROVE  LET A == Arrivals(T, b)
         IN  /\ DOMAIN Received(T, b) = {"hh_head", "count", "expand_mult"}
             /\ Received(T, b).hh_head = IF A = {} THEN NULL ELSE Old(T, b)[Max(A)]
             /\ Received(T, b).count = Cardinality(A)
<1> DEFINE A == Arrivals(T, b)
           h == IF A = {} THEN NULL ELSE Old(T, b)[Max(A)]
           k == Cardinality(A)
           m == ExpandMult(k, Ideal(T))
<1>1. Received(T, b) = [hh_head |-> h, count |-> k, expand_mult |-> m]
  BY Zenon DEF Received
<1> HIDE DEF h, k, m
<1>2. /\ DOMAIN Received(T, b) = {"hh_head", "count", "expand_mult"}
      /\ Received(T, b).hh_head = h
      /\ Received(T, b).count = k
  BY <1>1
<1> QED BY <1>2, Zenon DEF h, k

\* Twice as many buckets, and every element in the bucket its hash value now gives.
LEMMA ExpandHolds ==
  ASSUME NEW T, Shape(T), NEW S \in SUBSET Elements, Hashed(T, S),
         NEW c \in Numbers, ChainsHold(T, S, c)
  PROVE  LET U == Expand(T)
         IN  /\ Shape(U) /\ SameHead(T, U) /\ SameList(T, U) /\ SameKeys(T, U)
             /\ \E k \in Numbers : ChainsHold(U, S, k)
<1> DEFINE U == Expand(T)
           n == T.tbl.num_buckets
<1>1. Expanded(T, U)
  BY ExpandFields
<1>2. n \in Nat \ {0} /\ 2 * n \in Nat \ {0}
  BY DEF Shape
<1> HIDE DEF U
<1>3. /\ U.head = T.head /\ U.tbl.tail = T.tbl.tail /\ U.tbl.num_items = T.tbl.num_items
      /\ \A e \in Elements : U.hh[e] = Relinked(T, e)
      /\ U.tbl.num_buckets = 2 * n
      /\ \A b \in 0..2 * n - 1 : U.tbl.buckets[b] = Received(T, b)
  BY <1>1 DEF Expanded
<1>4. SameHead(T, U) /\ SameList(T, U) /\ SameKeys(T, U)
  BY <1>3, RelinkedKeeps DEF SameHead, SameList, SameKeys
<1>5. Shape(U)
  <2>1. \A e \in Elements :
          DOMAIN U.hh[e] = {"prev", "next", "hh_prev", "hh_next", "key", "hashv"}
    BY <1>3, RelinkedKeeps
  <2>2. \A b \in 0..2 * n - 1 : DOMAIN U.tbl.buckets[b] = {"hh_head", "count", "expand_mult"}
    BY <1>3, ReceivedFields
  <2>3. DOMAIN U.hh = Elements /\ DOMAIN U.tbl.buckets = 0..2 * n - 1
    BY <1>1 DEF Expanded
  <2>4. DOMAIN U = {"head", "tbl", "hh"} /\ DOMAIN U.tbl =
          {"tail", "num_buckets", "num_items", "ineff_expands", "noexpand", "buckets"}
    BY <1>1 DEF Expanded
  <2> HIDE DEF n
  <2>5. Handles(U)
    BY <2>1, <2>3, <2>4 DEF Handles
  <2> QED BY <1>2, <1>3, <2>2, <2>3, <2>4, <2>5 DEF Shape
<1>6. ASSUME NEW b \in 0..2 * n - 1
      PROVE  /\ Linked(InBucket(U, S, b), Mirror(c), U.tbl.buckets[b].hh_head, HhNext(U), HhPrev(U))
             /\ U.tbl.buckets[b].count = Cardinality(InBucket(U, S, b))
  <2> DEFINE w == Old(T, b)
             A == Arrivals(T, b)
             first == U.tbl.buckets[b].hh_head
  <2>1. /\ first = IF A = {} THEN NULL ELSE w[Max(A)]
        /\ U.tbl.buckets[b].count = Cardinality(A)
    BY <1>3, ReceivedFields
  <2>2. /\ \A i \in A : w[i] \in Elements
        /\ \A i, j \in A : w[i] = w[j] => i = j
    BY OldItems
  <2>3. PutBefore(w, A, first, HhNext(U), HhPrev(U))
    <3>1. ASSUME NEW i \in A
          PROVE  LET earlier == {j \in A : j < i}
                     later == {j \in A : j > i}
                 IN  /\ HhNext(U)[w[i]] = IF earlier = {} THEN NULL ELSE w[Max(earlier)]
                     /\ HhPrev(U)[w[i]] = IF later = {} THEN NULL ELSE w[Min(later)]
      <4>1. w[i] \in Elements /\ \A j \in A : w[j] = w[i] => j = i
        BY <2>2
      <4>2. U.hh[w[i]] = Relinked(T, w[i])
        BY <1>3, <4>1
      <4>3. /\ HhNext(U)[w[i]] = Relinked(T, w[i]).hh_next
            /\ HhPrev(U)[w[i]] = Relinked(T, w[i]).hh_prev
        BY <4>1, <4>2, Links
      <4>4. PutAt(T, b, i)
        BY <4>1, RelinkedLinks
      <4> QED BY <4>3, <4>4 DEF PutAt
    <3> HIDE DEF A, w, first
    <3> QED BY <2>1, <3>1, Zenon DEF PutBefore
  <2>4. LET new == {x \in S : ToBucket(T.hh[x].hashv, 2 * T.tbl.num_buckets) = b}
        IN  /\ Linked(new, Mirror(c), first, HhNext(U), HhPrev(U))
            /\ Cardinality(new) = Cardinality(A)
    <3> HIDE DEF first
    <3> QED BY <2>3, ArrivalsLinked
  <2>5. InBucket(U, S, b) = {x \in S : ToBucket(T.hh[x].hashv, 2 * T.tbl.num_buckets) = b}
    BY <1>3, <1>4 DEF InBucket, SameKeys
  <2> HIDE DEF A, w
  <2> QED BY <2>1, <2>4, <2>5
<1>7. ChainsHold(U, S, Mirror(c))
  BY <1>3, <1>6 DEF ChainsHold
<1>8. Mirror(c) \in Numbers
  <2>1. \A e \in Elements : 0 - c[e] \in Int
    BY DEF Numbers
  <2> QED BY <2>1 DEF Mirror, Numbers
<1> QED BY <1>4, <1>5, <1>7, <1>8 DEF U

\* A new item in the chains, whether or not they are made anew.
LEMMA AddToBucketHolds ==
  ASSUME NEW T, Shape(T), NEW S \in SUBSET Elements, NEW e \in Elements \ S,
         Hashed(T, S \cup {e}), NEW c \in Numbers, ChainsHold(T, S, c)
  PROVE  LET U == AddToBucket(T, e)
         IN  /\ Shape(U) /\ SameHead(T, U) /\ SameList(T, U) /\ SameKeys(T, U)
             /\ \E k \in Numbers : ChainsHold(U, S \cup {e}, k)
<1> DEFINE V == Insert(T, e)
           U == AddToBucket(T, e)
<1>1. /\ Shape(V) /\ SameHead(T, V) /\ SameList(T, V) /\ SameKeys(T, V)
      /\ \E k \in Numbers : ChainsHold(V, S \cup {e}, k)
  <2>1. T.hh[e].hashv \in Nat
    BY DEF Hashed
  <2> QED BY <2>1, InsertHolds
<1>2. PICK k \in Numbers : ChainsHold(V, S \cup {e}, k)
  BY <1>1
<1>3. U = V \/ U = Expand(V)
  BY Zenon DEF AddToBucket
<1> HIDE DEF U, V
<1>4. CASE U = V
  BY <1>1, <1>4 DEF U
<1>5. CASE U = Expand(V)
  <2>1. Hashed(V, S \cup {e})
    BY <1>1 DEF SameKeys, Hashed
  <2>2. S \cup {e} \in SUBSET Elements
    OBVIOUS
  <2>3. /\ Shape(U) /\ SameHead(V, U) /\ SameList(V, U) /\ SameKeys(V, U)
        /\ \E m \in Numbers : ChainsHold(U, S \cup {e}, m)
    BY <1>1, <1>2, <1>5, <2>1, <2>2, ExpandHolds
  <2>4. SameHead(T, U) /\ SameList(T, U) /\ SameKeys(T, U)
    BY <1>1, <2>3, SameTransitive
  <2> QED BY <2>3, <2>4 DEF U
<1> QED BY <1>3, <1>4, <1>5
-------------------------------------------------------------------------------
(* Head, tail, number of items and key set *)

\* The head is set.
SetHead(T, h) == [T EXCEPT !.head = h]
HeadBecomes(T, U, h) == Shape(U) /\ U.head = h /\ U.tbl = T.tbl /\ U.hh = T.hh
LEMMA HeadSet ==
  ASSUME NEW T, Shape(T), NEW h
  PROVE  HeadBecomes(T, SetHead(T, h), h)
BY DEF Shape, Handles, SetHead, HeadBecomes

\* The tail is set.
SetTail(T, v) == [T EXCEPT !.tbl.tail = v]
TailBecomes(T, U, v) ==
  /\ Shape(U) /\ U.head = T.head /\ U.hh = T.hh /\ SameBuckets(T, U)
  /\ U.tbl.tail = v /\ U.tbl.num_items = T.tbl.num_items
LEMMA TailSet ==
  ASSUME NEW T, Shape(T), NEW v
  PROVE  TailBecomes(T, SetTail(T, v), v)
<1> DEFINE U == SetTail(T, v)
<1>1. /\ DOMAIN U = {"head", "tbl", "hh"} /\ U.head = T.head /\ U.hh = T.hh
      /\ U.tbl = [T.tbl EXCEPT !.tail = v]
  BY DEF SetTail, Shape, Handles
<1> HIDE DEF U
<1>2. /\ DOMAIN U.tbl =
           {"tail", "num_buckets", "num_items", "ineff_expands", "noexpand", "buckets"}
      /\ U.tbl.tail = v /\ U.tbl.num_items = T.tbl.num_items
      /\ U.tbl.num_buckets = T.tbl.num_buckets /\ U.tbl.buckets = T.tbl.buckets
  BY <1>1 DEF Shape
<1>3. Shape(U)
  BY <1>1, <1>2 DEF Shape, Handles
<1> QED BY <1>1, <1>2, <1>3 DEF TailBecomes, SameBuckets, U

\* The number of items is set.
SetItems(T, n) == [T EXCEPT !.tbl.num_items = n]
ItemsBecome(T, U, n) ==
  /\ Shape(U) /\ U.head = T.head /\ U.hh = T.hh /\ SameBuckets(T, U)
  /\ U.tbl.tail = T.tbl.tail /\ U.tbl.num_items = n
LEMMA ItemsSet ==
  ASSUME NEW T, Shape(T), NEW n
  PROVE  ItemsBecome(T, SetItems(T, n), n)
<1> DEFINE U == SetItems(T, n)
<1>1. /\ DOMAIN U = {"head", "tbl", "hh"} /\ U.head = T.head /\ U.hh = T.hh
      /\ U.tbl = [T.tbl EXCEPT !.num_items = n]
  BY DEF SetItems, Shape, Handles
<1> HIDE DEF U
<1>2. /\ DOMAIN U.tbl =
           {"tail", "num_buckets", "num_items", "ineff_expands", "noexpand", "buckets"}
      /\ U.tbl.tail = T.tbl.tail /\ U.tbl.num_items = n
      /\ U.tbl.num_buckets = T.tbl.num_buckets /\ U.tbl.buckets = T.tbl.buckets
  BY <1>1 DEF Shape
<1>3. Shape(U)
  BY <1>1, <1>2 DEF Shape, Handles
<1> QED BY <1>1, <1>2, <1>3 DEF ItemsBecome, SameBuckets, U

\* The key of one element and its hash value are set.
SetKey(T, e, k) == [T EXCEPT !.hh[e].hashv = HashOf[k], !.hh[e].key = k]
KeysBut(T, U, e) ==
  \A x \in Elements \ {e} : U.hh[x].key = T.hh[x].key /\ U.hh[x].hashv = T.hh[x].hashv
KeyIs(U, e, k) == U.hh[e].key = k /\ U.hh[e].hashv = HashOf[k]
KeyBecomes(T, U, e, k) ==
  /\ Handles(U) /\ U.head = T.head /\ U.tbl = T.tbl /\ SameList(T, U) /\ SameChains(T, U)
  /\ KeyIs(U, e, k) /\ KeysBut(T, U, e)
LEMMA KeySet ==
  ASSUME NEW T, Handles(T), NEW e \in Elements, NEW k
  PROVE  KeyBecomes(T, SetKey(T, e, k), e, k)
<1> DEFINE U == SetKey(T, e, k)
<1>1. /\ DOMAIN T.hh = Elements /\ DOMAIN T = {"head", "tbl", "hh"}
      /\ DOMAIN T.hh[e] = {"prev", "next", "hh_prev", "hh_next", "key", "hashv"}
  BY DEF Handles
<1>2. /\ DOMAIN U = {"head", "tbl", "hh"} /\ U.head = T.head /\ U.tbl = T.tbl
      /\ DOMAIN U.hh = Elements
      /\ U.hh[e] = [T.hh[e] EXCEPT !.hashv = HashOf[k], !.key = k]
      /\ \A x \in Elements \ {e} : U.hh[x] = T.hh[x]
  BY <1>1 DEF SetKey
<1> HIDE DEF U
<1>4. /\ DOMAIN U.hh[e] = {"prev", "next", "hh_prev", "hh_next", "key", "hashv"}
      /\ U.hh[e].key = k /\ U.hh[e].hashv = HashOf[k]
      /\ U.hh[e].next = T.hh[e].next /\ U.hh[e].prev = T.hh[e].prev
      /\ U.hh[e].hh_next = T.hh[e].hh_next /\ U.hh[e].hh_prev = T.hh[e].hh_prev
  BY <1>1, <1>2
<1>5. Handles(U)
  BY <1>2, <1>4 DEF Handles
<1> QED BY <1>2, <1>4, <1>5 DEF SameList, SameChains, KeyBecomes, KeyIs, KeysBut, U

-------------------------------------------------------------------------------
(* HASH_ADD_KEYPTR *)

Listing(T, S, r) ==
  Linked(S, r, T.head, NextLink(T), PrevLink(T)) /\ IsLast(S, r, T.tbl.tail)

\* The new item is the tail of the list.
LEMMA AppendListHolds ==
  ASSUME NEW T, Shape(T), T.head # NULL, NEW S \in SUBSET Elements, NEW r \in Numbers,
         Listing(T, S, r), NEW e \in Elements \ S
  PROVE  LET U == AppendList(T, e)
         IN  /\ Shape(U) /\ U.head = T.head /\ U.tbl.num_items = T.tbl.num_items
             /\ SameBuckets(T, U) /\ SameChains(T, U) /\ SameKeys(T, U)
             /\ \E q \in Numbers : Listing(U, S \cup {e}, q)
<1> DEFINE t == T.tbl.tail
           Put(v) == [T EXCEPT !.hh[e].next = NULL, !.hh[e].prev = v, !.hh[v].next = e,
                               !.tbl.tail = e]
           ended == SetNext(T, e, NULL)
           back == SetPrev(ended, e, t)
           joined == SetNext(back, t, e)
           U == AppendList(T, e)
           q == [r EXCEPT ![e] = r[t] + 1]
<1>1. t \in S /\ t \in Elements /\ t # e
  BY UthashAssumption DEF Listing, Linked, IsFirst, IsLast
<1>2. U = SetTail(joined, e)
  <2>1. U = Put(t)
    BY Zenon DEF AppendList
  <2> HIDE DEF t, U
  <2>2. Put(t) = SetTail(joined, e)
    BY <1>1 DEF Shape, Handles, SetNext, SetPrev, SetTail
  <2> QED BY <2>1, <2>2
<1> HIDE DEF t
<1>3. NextBecomes(T, ended, e, NULL)
  BY NextSet
<1> HIDE DEF ended
<1>4. PrevBecomes(ended, back, e, t)
  BY <1>3, PrevSet DEF NextBecomes
<1> HIDE DEF back
<1>5. NextBecomes(back, joined, t, e)
  <2>1. Shape(back)
    BY <1>4 DEF PrevBecomes
  <2> QED BY <1>1, <2>1, NextSet
<1> HIDE DEF joined
<1>6. TailBecomes(joined, U, e)
  <2>1. Shape(joined)
    BY <1>5 DEF NextBecomes
  <2> HIDE DEF U
  <2> QED BY <1>2, <2>1, TailSet
<1> HIDE DEF U
<1>7. SameBuckets(T, U) /\ SameChains(T, U) /\ SameKeys(T, U)
  <2>1. SameBuckets(T, ended) /\ SameChains(T, ended) /\ SameKeys(T, ended)
    BY <1>3 DEF NextBecomes
  <2>2. SameBuckets(ended, back) /\ SameChains(ended, back) /\ SameKeys(ended, back)
    BY <1>4 DEF PrevBecomes
  <2>3. SameBuckets(back, joined) /\ SameChains(back, joined) /\ SameKeys(back, joined)
    BY <1>5 DEF NextBecomes
  <2>4. SameBuckets(joined, U) /\ SameChains(joined, U) /\ SameKeys(joined, U)
    BY <1>6 DEF TailBecomes, SameChains, SameKeys
  <2>5. SameBuckets(T, back) /\ SameChains(T, back) /\ SameKeys(T, back)
    BY <2>1, <2>2, SameTransitive
  <2>6. SameBuckets(T, joined) /\ SameChains(T, joined) /\ SameKeys(T, joined)
    BY <2>3, <2>5, SameTransitive
  <2> QED BY <2>4, <2>6, SameTransitive
<1>8. Shape(U) /\ U.head = T.head /\ U.tbl.num_items = T.tbl.num_items /\ U.tbl.tail = e
  BY <1>3, <1>4, <1>5, <1>6 DEF NextBecomes, PrevBecomes, TailBecomes, SameHead
<1>9. /\ \A x \in Elements \ {e} : U.hh[x].next = IF x = t THEN e ELSE T.hh[x].next
      /\ \A x \in Elements \ {e} : U.hh[x].prev = T.hh[x].prev
      /\ U.hh[e].next = NULL /\ U.hh[e].prev = t
  BY <1>1, <1>3, <1>4, <1>5, <1>6 DEF NextBecomes, PrevBecomes, TailBecomes
<1>10. q \in Numbers /\ r[t] < q[e] /\ \A x \in S : q[x] = r[x]
  <2>1. r[t] \in Int /\ r[t] + 1 \in Int
    BY <1>1 DEF Numbers
  <2> QED BY <2>1 DEF Numbers
<1> HIDE DEF q
<1>11. /\ \A x \in S : NextLink(U)[x] = IF x = t THEN e ELSE NextLink(T)[x]
       /\ \A x \in S : PrevLink(U)[x] = PrevLink(T)[x]
       /\ NextLink(U)[e] = NULL /\ PrevLink(U)[e] = t
  BY <1>9, Links
<1>12. Linked(S, r, T.head, NextLink(T), PrevLink(T)) /\ IsLast(S, r, t)
  BY DEF Listing, t
<1>13. Linked(S \cup {e}, q, T.head, NextLink(U), PrevLink(U)) /\ IsLast(S \cup {e}, q, e)
  <2> DEFINE onward == NextLink(U)
             prior == PrevLink(U)
             next == NextLink(T)
             prev == PrevLink(T)
             first == T.head
  <2>1. /\ \A x \in S : onward[x] = IF x = t THEN e ELSE next[x]
        /\ \A x \in S : prior[x] = prev[x]
        /\ onward[e] = NULL /\ prior[e] = t
    BY <1>11
  <2>2. Linked(S, r, first, next, prev) /\ first # NULL
    BY <1>12
  <2>3. IsLast(S, r, t)
    BY <1>12
  <2> HIDE DEF onward, prior, next, prev, first
  <2>4. Linked(S \cup {e}, q, first, onward, prior) /\ IsLast(S \cup {e}, q, e)
    BY <1>10, <2>1, <2>2, <2>3, LinkedAppends
  <2> QED BY <2>4 DEF onward, prior, first
<1> QED BY <1>7, <1>8, <1>10, <1>13 DEF Listing, U

\* The table of the first element: no other is in it.
First(T, e) ==
  [T EXCEPT !.hh[e].next = NULL, !.hh[e].prev = NULL, !.head = e, !.tbl = MakeTable(e)]
LEMMA FirstFields ==
  ASSUME NEW T, Handles(T), NEW e \in Elements
  PROVE  LET U == First(T, e)
         IN  /\ Shape(U) /\ U.head = e /\ U.tbl = MakeTable(e) /\ SameKeys(T, U)
             /\ U.hh[e].next = NULL /\ U.hh[e].prev = NULL
<1> DEFINE U == First(T, e)
           h == [T.hh EXCEPT ![e].next = NULL, ![e].prev = NULL]
           fields == {"prev", "next", "hh_prev", "hh_next", "key", "hashv"}
           Put(t) == [T EXCEPT !.hh[e].next = NULL, !.hh[e].prev = NULL, !.head = e, !.tbl = t]
<1>1. /\ DOMAIN T = {"head", "tbl", "hh"} /\ DOMAIN T.hh = Elements
      /\ \A x \in Elements : DOMAIN T.hh[x] = fields
  BY DEF Handles
<1>2. DOMAIN U = {"head", "tbl", "hh"} /\ U.head = e /\ U.tbl = MakeTable(e) /\ U.hh = h
  <2>1. U = Put(MakeTable(e))
    BY DEF First
  <2>2. ASSUME NEW t
        PROVE  /\ DOMAIN Put(t) = {"head", "tbl", "hh"} /\ Put(t).head = e /\ Put(t).tbl = t
               /\ Put(t).hh = h
    BY <1>1
  <2> HIDE DEF Put, U
  <2> QED BY <2>1, <2>2
<1>3. /\ DOMAIN h = Elements /\ \A x \in Elements : DOMAIN h[x] = fields
      /\ \A x \in Elements : h[x].key = T.hh[x].key /\ h[x].hashv = T.hh[x].hashv
      /\ h[e].next = NULL /\ h[e].prev = NULL
  BY <1>1
<1> HIDE DEF U, h
<1>4. Handles(U)
  BY <1>2, <1>3 DEF Handles
<1>5. /\ DOMAIN U.tbl =
           {"tail", "num_buckets", "num_items", "ineff_expands", "noexpand", "buckets"}
      /\ U.tbl.num_buckets = InitialBuckets
      /\ U.tbl.buckets = [b \in 0..InitialBuckets - 1 |-> EmptyBucket]
  BY <1>2 DEF MakeTable
<1>6. Shape(U)
  <2>1. DOMAIN EmptyBucket = {"hh_head", "count", "expand_mult"}
    BY DEF EmptyBucket
  <2> QED BY <1>4, <1>5, <2>1, UthashAssumption DEF Shape
<1> QED BY <1>2, <1>3, <1>6 DEF SameKeys, U

\* The list holds that element, and the chains nothing yet.
NewBuckets(T, e) ==
  T.tbl.num_buckets = MakeTable(e).num_buckets /\ T.tbl.buckets = MakeTable(e).buckets
LEMMA FirstHolds ==
  ASSUME NEW T, Shape(T), NEW e \in Elements, T.head = e, T.tbl.tail = e, T.tbl.num_items = 1,
         NewBuckets(T, e), T.hh[e].next = NULL, T.hh[e].prev = NULL
  PROVE  /\ \E r \in Numbers : ListHolds(T, {e}, r)
         /\ \E c \in Numbers : ChainsHold(T, {}, c)
<1> DEFINE r == [x \in Elements |-> 0]
<1>1. r \in Numbers /\ r[e] = 0
  BY DEF Numbers
<1>2. e # NULL /\ NextLink(T)[e] = NULL /\ PrevLink(T)[e] = NULL
  BY Links, UthashAssumption
<1> HIDE DEF r
<1>3. Linked({e}, r, e, NextLink(T), PrevLink(T)) /\ IsLast({e}, r, e)
  BY <1>1, <1>2 DEF Linked, Distinct, IsFirst, IsNext, IsPrev, IsLast
<1>4. Cardinality({e}) = 1
  BY FS_Singleton
<1>5. ListHolds(T, {e}, r)
  BY <1>3, <1>4 DEF ListHolds
<1>6. ASSUME NEW b \in 0..T.tbl.num_buckets - 1
      PROVE  T.tbl.buckets[b].hh_head = NULL /\ T.tbl.buckets[b].count = 0
  <2>1. /\ T.tbl.num_buckets = InitialBuckets
        /\ T.tbl.buckets = [d \in 0..InitialBuckets - 1 |-> EmptyBucket]
    BY DEF NewBuckets, MakeTable
  <2>2. T.tbl.buckets[b] = EmptyBucket
    BY <2>1
  <2> QED BY <2>2 DEF EmptyBucket
<1>7. ChainsHold(T, {}, r)
  <2>1. \A b : InBucket(T, {}, b) = {}
    BY DEF InBucket
  <2>2. Cardinality({}) = 0
    BY FS_EmptySet
  <2>3. Linked({}, r, NULL, HhNext(T), HhPrev(T))
    BY DEF Linked, Distinct, IsFirst
  <2> QED BY <1>6, <2>1, <2>2, <2>3 DEF ChainsHold
<1> QED BY <1>1, <1>5, <1>7

\* A table with the elements of S, or none at all.
Good(T, S) ==
  /\ Handles(T)
  /\ IF T.head = NULL THEN S = {} /\ T.tbl = NoTable ELSE Holds(T, S)

\* Keyed, in the list and counted, but not yet in a bucket.
Queued(T, U, S, e, k) ==
  /\ Shape(U) /\ U.head # NULL
  /\ \E r \in Numbers : ListHolds(U, S \cup {e}, r)
  /\ \E c \in Numbers : ChainsHold(U, S, c)
  /\ KeyIs(U, e, k) /\ KeysBut(T, U, e)
LEMMA QueuedFirst ==
  ASSUME NEW T, Handles(T), NEW e \in Elements, NEW k
  PROVE  LET V == First(SetKey(T, e, k), e)
         IN  Queued(T, SetItems(V, V.tbl.num_items + 1), {}, e, k)
<1> DEFINE K == SetKey(T, e, k)
           V == First(K, e)
           U == SetItems(V, V.tbl.num_items + 1)
<1>1. KeyBecomes(T, K, e, k)
  BY KeySet
<1> HIDE DEF K
<1>2. /\ Shape(V) /\ V.head = e /\ V.tbl = MakeTable(e) /\ SameKeys(K, V)
      /\ V.hh[e].next = NULL /\ V.hh[e].prev = NULL
  BY <1>1, FirstFields DEF KeyBecomes
<1> HIDE DEF V
<1>3. ItemsBecome(V, U, V.tbl.num_items + 1)
  BY <1>2, ItemsSet
<1> HIDE DEF U
<1>4. /\ Shape(U) /\ U.head = e /\ U.tbl.tail = e /\ U.tbl.num_items = 1 /\ U.hh = V.hh
      /\ NewBuckets(U, e)
  <2>1. MakeTable(e).tail = e /\ MakeTable(e).num_items = 0
    BY DEF MakeTable
  <2>2. V.tbl.num_items + 1 = 1
    BY <1>2, <2>1
  <2> QED BY <1>2, <1>3, <2>1, <2>2 DEF ItemsBecome, SameBuckets, NewBuckets
<1>5. /\ \E r \in Numbers : ListHolds(U, {e}, r)
      /\ \E c \in Numbers : ChainsHold(U, {}, c)
  BY <1>2, <1>4, FirstHolds
<1>6. KeyIs(U, e, k) /\ KeysBut(T, U, e)
  BY <1>1, <1>2, <1>4 DEF KeyBecomes, KeyIs, KeysBut, SameKeys
<1>7. e # NULL /\ {} \cup {e} = {e}
  BY UthashAssumption
<1> QED BY <1>4, <1>5, <1>6, <1>7 DEF Queued, U, V, K

\* One more element, at the tail.
LEMMA QueuedLast ==
  ASSUME NEW T, T.head # NULL, NEW S \in SUBSET Elements, Holds(T, S), NEW e \in Elements \ S, NEW k
  PROVE  LET V == AppendList(SetKey(T, e, k), e)
         IN  Queued(T, SetItems(V, V.tbl.num_items + 1), S, e, k)
<1> DEFINE K == SetKey(T, e, k)
           V == AppendList(K, e)
           U == SetItems(V, V.tbl.num_items + 1)
<1>1. KeyBecomes(T, K, e, k)
  BY KeySet DEF Holds, Shape
<1> HIDE DEF K
<1>2. PICK r \in Numbers : ListHolds(T, S, r)
  BY DEF Holds
<1>3. PICK c \in Numbers : ChainsHold(T, S, c)
  BY DEF Holds
<1>4. Shape(K) /\ SameHead(T, K) /\ SameBuckets(T, K)
  <2>1. Shape(T) /\ Handles(K) /\ K.head = T.head /\ K.tbl = T.tbl
    BY <1>1 DEF Holds, KeyBecomes
  <2> QED BY <2>1 DEF Shape, SameHead, SameBuckets
<1>5. ListHolds(K, S, r)
  BY <1>1, <1>2, <1>4, ListKept DEF KeyBecomes
<1>6. /\ Shape(V) /\ V.head = K.head /\ V.tbl.num_items = K.tbl.num_items
      /\ SameBuckets(K, V) /\ SameChains(K, V) /\ SameKeys(K, V)
      /\ \E q \in Numbers : Listing(V, S \cup {e}, q)
  <2>1. Listing(K, S, r) /\ K.head # NULL
    BY <1>4, <1>5 DEF ListHolds, Listing, SameHead
  <2> QED BY <1>4, <2>1, AppendListHolds
<1> HIDE DEF V
<1>7. ItemsBecome(V, U, V.tbl.num_items + 1)
  BY <1>6, ItemsSet
<1> HIDE DEF U
<1>8. /\ Shape(U) /\ U.head = V.head /\ U.hh = V.hh /\ SameBuckets(V, U)
      /\ U.tbl.tail = V.tbl.tail /\ U.tbl.num_items = V.tbl.num_items + 1
  BY <1>7 DEF ItemsBecome
<1>9. KeyIs(U, e, k) /\ KeysBut(T, U, e)
  BY <1>1, <1>6, <1>8 DEF KeyBecomes, KeyIs, KeysBut, SameKeys
<1>10. \E q \in Numbers : ListHolds(U, S \cup {e}, q)
  <2>1. PICK q \in Numbers : Listing(V, S \cup {e}, q)
    BY <1>6
  <2>2. NextLink(U) = NextLink(V) /\ PrevLink(U) = PrevLink(V)
    BY <1>8 DEF NextLink, PrevLink
  <2>3. Cardinality(S \cup {e}) = Cardinality(S) + 1
    BY FS_AddElement, FS_Subset, UthashAssumption
  <2>4. U.tbl.num_items = Cardinality(S \cup {e})
    BY <1>4, <1>5, <1>6, <1>8, <2>3 DEF ListHolds
  <2> QED BY <1>8, <2>1, <2>2, <2>4 DEF ListHolds, Listing
<1>11. ChainsHold(U, S, c)
  <2>1. ASSUME NEW b PROVE InBucket(U, S, b) = InBucket(T, S, b)
    BY <1>4, <1>6, <1>8, <1>9 DEF InBucket, SameBuckets, KeysBut
  <2>2. SameBuckets(T, U)
    BY <1>4, <1>6, <1>8, SameTransitive
  <2>3. SameChains(T, U)
    BY <1>1, <1>6, <1>8 DEF KeyBecomes, SameChains
  <2>4. \A x \in Elements : HhNext(U)[x] = HhNext(T)[x] /\ HhPrev(U)[x] = HhPrev(T)[x]
    BY <2>3, Links DEF SameChains
  <2> SUFFICES ASSUME NEW b \in 0..T.tbl.num_buckets - 1
               PROVE  /\ Linked(InBucket(U, S, b), c, T.tbl.buckets[b].hh_head,
                                HhNext(U), HhPrev(U))
                      /\ T.tbl.buckets[b].count = Cardinality(InBucket(U, S, b))
    BY <2>2 DEF ChainsHold, SameBuckets
  <2>5. /\ Linked(InBucket(T, S, b), c, T.tbl.buckets[b].hh_head, HhNext(T), HhPrev(T))
        /\ T.tbl.buckets[b].count = Cardinality(InBucket(T, S, b))
    BY <1>3 DEF ChainsHold
  <2>6. InBucket(T, S, b) \subseteq Elements
    BY DEF InBucket
  <2>7. Linked(InBucket(T, S, b), c, T.tbl.buckets[b].hh_head, HhNext(U), HhPrev(U))
    BY <2>4, <2>5, <2>6, LinkedAgrees
  <2> QED BY <2>1, <2>5, <2>7
<1>12. U.head # NULL
  BY <1>4, <1>6, <1>8 DEF SameHead
<1> QED BY <1>8, <1>9, <1>10, <1>11, <1>12 DEF Queued, U, V, K

\* HASH_ADD_KEYPTR of an element that is not in the table puts it there, and touches no
\* other key.
Added(T, U, S, e, k) == Good(U, S \cup {e}) /\ U.head # NULL /\ KeyIs(U, e, k) /\ KeysBut(T, U, e)
LEMMA AddHolds ==
  ASSUME NEW T, NEW S \in SUBSET Elements, Good(T, S),
         NEW e \in Elements \ S, NEW k \in Keys
  PROVE  Added(T, Add(T, e, k), S, e, k)
<1> DEFINE K == SetKey(T, e, k)
           V == IF T.head = NULL THEN First(K, e) ELSE AppendList(K, e)
           W == SetItems(V, V.tbl.num_items + 1)
           U == AddToBucket(W, e)
<1>1. Add(T, e, k) = U
  BY Zenon DEF Add, SetKey, First, SetItems
<1>2. Queued(T, W, S, e, k)
  <2>1. CASE T.head = NULL
    <3>1. Handles(T) /\ S = {} /\ V = First(K, e)
      BY <2>1 DEF Good
    <3> HIDE DEF V
    <3>2. W = SetItems(First(K, e), First(K, e).tbl.num_items + 1)
      BY <3>1
    <3> HIDE DEF W
    <3> QED BY <3>1, <3>2, QueuedFirst
  <2>2. CASE T.head # NULL
    <3>1. Holds(T, S) /\ V = AppendList(K, e)
      BY <2>2 DEF Good
    <3> HIDE DEF V
    <3>2. W = SetItems(AppendList(K, e), AppendList(K, e).tbl.num_items + 1)
      BY <3>1
    <3> HIDE DEF W
    <3> QED BY <2>2, <3>1, <3>2, QueuedLast
  <2> QED BY <2>1, <2>2
<1> HIDE DEF W
<1>3. PICK c \in Numbers : ChainsHold(W, S, c)
  BY <1>2 DEF Queued
<1>4. Shape(W) /\ Hashed(W, S \cup {e})
  <2>1. HashOf[k] \in Nat
    BY UthashAssumption
  <2>2. Hashed(T, S)
    BY DEF Good, Holds, Hashed
  <2> QED BY <1>2, <2>1, <2>2 DEF Queued, KeyIs, KeysBut, Hashed
<1>5. /\ Shape(U) /\ SameHead(W, U) /\ SameList(W, U) /\ SameKeys(W, U)
      /\ \E d \in Numbers : ChainsHold(U, S \cup {e}, d)
  BY <1>3, <1>4, AddToBucketHolds
<1> HIDE DEF U
<1>6. \E r \in Numbers : ListHolds(U, S \cup {e}, r)
  <2>1. PICK r \in Numbers : ListHolds(W, S \cup {e}, r)
    BY <1>2 DEF Queued
  <2>2. S \cup {e} \in SUBSET Elements
    OBVIOUS
  <2>3. ListHolds(U, S \cup {e}, r)
    BY <1>5, <2>1, <2>2, ListKept
  <2> QED BY <2>3
<1>7. U.head # NULL /\ KeyIs(U, e, k) /\ KeysBut(T, U, e)
  BY <1>2, <1>5 DEF Queued, SameHead, SameKeys, KeyIs, KeysBut
<1>8. Hashed(U, S \cup {e})
  BY <1>4, <1>5 DEF Hashed, SameKeys
<1>9. Handles(U)
  BY <1>5 DEF Shape
<1> QED BY <1>1, <1>5, <1>6, <1>7, <1>8, <1>9 DEF Added, Good, Holds

-------------------------------------------------------------------------------
(* HASH_DEL *)

\* What DelInBucket assigns.
LEMMA DelInBucketFields ==
  ASSUME NEW T, Shape(T), NEW e \in Elements, T.hh[e].hashv \in Nat,
         NEW b, b = ToBucket(T.hh[e].hashv, T.tbl.num_buckets),
         NEW p \in Pointer, p = T.hh[e].hh_prev, NEW x \in Pointer, x = T.hh[e].hh_next
  PROVE  LET U == DelInBucket(T, e)
             head == T.tbl.buckets[b].hh_head
         IN  /\ Shape(U) /\ SameHead(T, U) /\ SameList(T, U) /\ SameKeys(T, U)
             /\ U.tbl.num_buckets = T.tbl.num_buckets
             /\ U.tbl.buckets[b].hh_head = IF head = e THEN x ELSE head
             /\ U.tbl.buckets[b].count = T.tbl.buckets[b].count - 1
             /\ \A d \in 0..T.tbl.num_buckets - 1 : d # b => U.tbl.buckets[d] = T.tbl.buckets[d]
             /\ \A y \in Elements :
                  /\ U.hh[y].hh_next = IF y = p THEN x ELSE T.hh[y].hh_next
                  /\ U.hh[y].hh_prev = IF y = x THEN p ELSE T.hh[y].hh_prev
<1>0. b \in 0..T.tbl.num_buckets - 1
  BY BucketOf
<1> DEFINE head == T.tbl.buckets[b].hh_head
           h == IF head = e THEN x ELSE head
           n == T.tbl.buckets[b].count - 1
           headed == SetBucket(T, b, n, h)
           ahead == IF p = NULL THEN headed ELSE SetHhNext(headed, p, x)
           U == DelInBucket(T, e)
           Put(k, z) == [T EXCEPT !.tbl.buckets[k].count = @ - 1,
                                  !.tbl.buckets[k].hh_head = IF @ = e THEN z ELSE @]
           Ahead(k, z, q) == IF q = NULL THEN Put(k, z) ELSE [Put(k, z) EXCEPT !.hh[q].hh_next = z]
<1>1. U = IF x = NULL THEN ahead ELSE SetHhPrev(ahead, x, p)
  <2> DEFINE home == ToBucket(T.hh[e].hashv, T.tbl.num_buckets)
             prior == T.hh[e].hh_prev
             onward == T.hh[e].hh_next
             Unlink(k, z, q) == IF z = NULL THEN Ahead(k, z, q)
                                ELSE [Ahead(k, z, q) EXCEPT !.hh[z].hh_prev = q]
  <2>1. U = Unlink(b, x, p)
    <3>1. U = Unlink(home, onward, prior)
      BY Zenon DEF DelInBucket
    <3>2. home = b /\ onward = x /\ prior = p
      OBVIOUS
    <3> HIDE DEF Unlink, home, onward, prior, U
    <3> QED BY <3>1, <3>2
  <2>2. headed = Put(b, x)
    <3>1. /\ DOMAIN T = {"head", "tbl", "hh"}
          /\ DOMAIN T.tbl =
               {"tail", "num_buckets", "num_items", "ineff_expands", "noexpand", "buckets"}
          /\ DOMAIN T.tbl.buckets = 0..T.tbl.num_buckets - 1
          /\ DOMAIN T.tbl.buckets[b] = {"hh_head", "count", "expand_mult"}
      BY <1>0 DEF Shape, Handles
    <3> QED BY <1>0, <3>1 DEF SetBucket
  <2> HIDE DEF Put, headed, U
  <2>3. ahead = Ahead(b, x, p)
    BY <2>2 DEF SetHhNext
  <2> HIDE DEF ahead, Ahead
  <2> QED BY <2>1, <2>3 DEF SetHhPrev
<1>2. BucketBecomes(T, headed, b, n, h)
  BY <1>0, BucketSet
<1> HIDE DEF headed, n, h
<1>3. /\ Shape(ahead) /\ SameHead(headed, ahead) /\ SameBuckets(headed, ahead)
      /\ SameList(headed, ahead) /\ SameKeys(headed, ahead)
      /\ \A y \in Elements : /\ ahead.hh[y].hh_next = IF y = p THEN x ELSE headed.hh[y].hh_next
                             /\ ahead.hh[y].hh_prev = headed.hh[y].hh_prev
  <2>1. CASE p = NULL
    <3>1. ahead = headed /\ \A y \in Elements : y # p
      BY <2>1, UthashAssumption
    <3> HIDE DEF ahead
    <3> QED BY <1>2, <3>1 DEF BucketBecomes, SameHead, SameBuckets, SameList, SameKeys
  <2>2. CASE p # NULL
    <3>1. ahead = SetHhNext(headed, p, x) /\ p \in Elements
      BY <2>2 DEF Pointer
    <3> HIDE DEF ahead
    <3>2. HhNextBecomes(headed, ahead, p, x)
      BY <1>2, <3>1, HhNextSet DEF BucketBecomes
    <3> QED BY <3>2 DEF HhNextBecomes
  <2> QED BY <2>1, <2>2
<1> HIDE DEF ahead
<1>4. /\ Shape(U) /\ SameHead(ahead, U) /\ SameBuckets(ahead, U)
      /\ SameList(ahead, U) /\ SameKeys(ahead, U)
      /\ \A y \in Elements : /\ U.hh[y].hh_prev = IF y = x THEN p ELSE ahead.hh[y].hh_prev
                             /\ U.hh[y].hh_next = ahead.hh[y].hh_next
  <2>1. CASE x = NULL
    <3>1. U = ahead /\ \A y \in Elements : y # x
      BY <1>1, <2>1, UthashAssumption
    <3> HIDE DEF U
    <3> QED BY <1>3, <3>1 DEF SameHead, SameBuckets, SameList, SameKeys
  <2>2. CASE x # NULL
    <3>1. U = SetHhPrev(ahead, x, p) /\ x \in Elements
      BY <1>1, <2>2 DEF Pointer
    <3> HIDE DEF U
    <3>2. HhPrevBecomes(ahead, U, x, p)
      BY <1>3, <3>1, HhPrevSet
    <3> QED BY <3>2 DEF HhPrevBecomes
  <2> QED BY <2>1, <2>2
<1> HIDE DEF U
<1>5. SameHead(T, U) /\ SameList(T, U) /\ SameKeys(T, U)
  <2>1. SameHead(T, headed) /\ SameList(T, headed) /\ SameKeys(T, headed)
    BY <1>2 DEF BucketBecomes
  <2>2. SameHead(T, ahead) /\ SameList(T, ahead) /\ SameKeys(T, ahead)
    BY <1>3, <2>1, SameTransitive
  <2> QED BY <1>4, <2>2, SameTransitive
<1>6. U.tbl.num_buckets = headed.tbl.num_buckets /\ U.tbl.buckets = headed.tbl.buckets
  BY <1>3, <1>4 DEF SameBuckets
<1>7. \A y \in Elements : /\ U.hh[y].hh_next = IF y = p THEN x ELSE T.hh[y].hh_next
                          /\ U.hh[y].hh_prev = IF y = x THEN p ELSE T.hh[y].hh_prev
  BY <1>2, <1>3, <1>4 DEF BucketBecomes, SameChains
<1> QED BY <1>2, <1>4, <1>5, <1>6, <1>7 DEF BucketBecomes, U, h, n

\* The item leaves its chain; the other chains are as before.
LEMMA DelInBucketHolds ==
  ASSUME NEW T, Shape(T), NEW S \in SUBSET Elements, NEW c \in Numbers, ChainsHold(T, S, c),
         NEW e \in S, T.hh[e].hashv \in Nat
  PROVE  LET U == DelInBucket(T, e)
         IN  /\ Shape(U) /\ SameHead(T, U) /\ SameList(T, U) /\ SameKeys(T, U)
             /\ ChainsHold(U, S \ {e}, c)
<1> DEFINE b == ToBucket(T.hh[e].hashv, T.tbl.num_buckets)
           R == InBucket(T, S, b)
           head == T.tbl.buckets[b].hh_head
           p == T.hh[e].hh_prev
           x == T.hh[e].hh_next
           U == DelInBucket(T, e)
<1>1. b \in 0..T.tbl.num_buckets - 1 /\ e \in Elements /\ e \in R
  BY BucketOf DEF InBucket
<1>2. /\ Linked(R, c, head, HhNext(T), HhPrev(T))
      /\ T.tbl.buckets[b].count = Cardinality(R)
  BY <1>1 DEF ChainsHold
<1>3. R \in SUBSET S /\ R \in SUBSET Elements /\ IsFiniteSet(R) /\ Cardinality(R) \in Nat
  BY BucketFinite
<1>4. HhNext(T)[e] = x /\ HhPrev(T)[e] = p
  BY <1>1, Links
<1>5. p \in R \cup {NULL} /\ x \in R \cup {NULL}
  <2>1. IsNext(R, c, e, x) /\ IsPrev(R, c, e, p)
    <3> HIDE DEF R, x, p
    <3> QED BY <1>1, <1>2, <1>4 DEF Linked
  <2> HIDE DEF R, x, p
  <2> QED BY <2>1 DEF IsNext, IsPrev
<1>6. /\ Shape(U) /\ SameHead(T, U) /\ SameList(T, U) /\ SameKeys(T, U)
      /\ U.tbl.num_buckets = T.tbl.num_buckets
      /\ U.tbl.buckets[b].hh_head = IF head = e THEN x ELSE head
      /\ U.tbl.buckets[b].count = T.tbl.buckets[b].count - 1
      /\ \A d \in 0..T.tbl.num_buckets - 1 : d # b => U.tbl.buckets[d] = T.tbl.buckets[d]
      /\ \A y \in Elements : /\ U.hh[y].hh_next = IF y = p THEN x ELSE T.hh[y].hh_next
                             /\ U.hh[y].hh_prev = IF y = x THEN p ELSE T.hh[y].hh_prev
  <2>1. p \in Pointer /\ x \in Pointer
    <3> HIDE DEF R, x, p
    <3> QED BY <1>3, <1>5 DEF Pointer
  <2> QED BY <1>1, <2>1, DelInBucketFields
<1>7. \A y \in Elements : /\ HhNext(U)[y] = IF y = p THEN x ELSE HhNext(T)[y]
                          /\ HhPrev(U)[y] = IF y = x THEN p ELSE HhPrev(T)[y]
  <2> HIDE DEF U, p, x
  <2> QED BY <1>6, Links
<1>8. /\ InBucket(U, S \ {e}, b) = R \ {e}
      /\ \A d : d # b => InBucket(U, S \ {e}, d) = InBucket(T, S, d)
  <2>1. U.tbl.num_buckets = T.tbl.num_buckets /\ \A y \in Elements : U.hh[y].hashv = T.hh[y].hashv
    BY <1>6 DEF SameKeys
  <2> HIDE DEF U
  <2> QED BY <2>1 DEF InBucket
<1> HIDE DEF U
<1>9. ASSUME NEW d \in 0..T.tbl.num_buckets - 1
      PROVE  /\ Linked(InBucket(U, S \ {e}, d), c, U.tbl.buckets[d].hh_head, HhNext(U), HhPrev(U))
             /\ U.tbl.buckets[d].count = Cardinality(InBucket(U, S \ {e}, d))
  <2>1. CASE d = b
    <3> DEFINE next == HhNext(T)
               prev == HhPrev(T)
               onward == HhNext(U)
               prior == HhPrev(U)
    <3>1. /\ Linked(R, c, head, next, prev)
          /\ Unlinked(R, e, next, prev, onward, prior)
      <4> HIDE DEF R, b, p, x, head
      <4> QED BY <1>2, <1>3, <1>4, <1>7 DEF Unlinked
    <3> DEFINE left == U.tbl.buckets[b].hh_head
    <3>2. left = IF head = e THEN next[e] ELSE head
      BY <1>4, <1>6
    <3> HIDE DEF R, b, p, x, head, next, prev, onward, prior, left
    <3>3. Linked(R \ {e}, c, left, onward, prior)
      <4>1. e \in R /\ R \in SUBSET Elements
        BY <1>1, <1>3
      <4> QED BY <3>1, <3>2, <4>1, LinkedRemoves
    <3>4. Cardinality(R \ {e}) = Cardinality(R) - 1
      BY <1>1, <1>3, FS_RemoveElement
    <3> QED BY <1>2, <1>6, <1>8, <2>1, <3>3, <3>4 DEF onward, prior, left
  <2>2. CASE d # b
    <3> DEFINE Q == InBucket(T, S, d)
    <3>1. U.tbl.buckets[d] = T.tbl.buckets[d] /\ InBucket(U, S \ {e}, d) = Q
      BY <1>6, <1>8, <2>2
    <3>2. /\ Linked(Q, c, T.tbl.buckets[d].hh_head, HhNext(T), HhPrev(T))
          /\ T.tbl.buckets[d].count = Cardinality(Q)
      BY DEF ChainsHold
    <3>3. p \notin Q /\ x \notin Q /\ Q \in SUBSET Elements
      <4>1. Q \cap R = {} /\ Q \in SUBSET Elements
        BY <2>2 DEF InBucket
      <4> HIDE DEF Q, R, p, x
      <4> QED BY <1>5, <4>1, UthashAssumption
    <3> HIDE DEF Q, R, b, p, x
    <3>4. \A y \in Q : HhNext(U)[y] = HhNext(T)[y] /\ HhPrev(U)[y] = HhPrev(T)[y]
      BY <1>7, <3>3
    <3>5. Linked(Q, c, T.tbl.buckets[d].hh_head, HhNext(U), HhPrev(U))
      BY <3>2, <3>4, LinkedAgrees
    <3> QED BY <3>1, <3>2, <3>5
  <2> QED BY <2>1, <2>2
<1>10. ChainsHold(U, S \ {e}, c)
  <2>1. U.tbl.num_buckets = T.tbl.num_buckets
    BY <1>6
  <2> QED BY <1>9, <2>1 DEF ChainsHold
<1> QED BY <1>6, <1>10 DEF U

\* The links and pointers of the list that HASH_DEL sets, for neighbours p and x.
Unlist(T, e, p, x) ==
  LET tailed == [T EXCEPT !.tbl.tail = IF @ = e THEN p ELSE @]
      ahead == IF p = NULL THEN [tailed EXCEPT !.head = x] ELSE [tailed EXCEPT !.hh[p].next = x]
  IN  IF x = NULL THEN ahead ELSE [ahead EXCEPT !.hh[x].prev = p]
ListLoses(T, U, e, p, x) ==
  /\ Shape(U) /\ SameBuckets(T, U) /\ SameChains(T, U) /\ SameKeys(T, U)
  /\ U.head = IF p = NULL THEN x ELSE T.head
  /\ U.tbl.tail = IF T.tbl.tail = e THEN p ELSE T.tbl.tail
  /\ U.tbl.num_items = T.tbl.num_items
  /\ \A y \in Elements : /\ U.hh[y].next = IF y = p THEN x ELSE T.hh[y].next
                         /\ U.hh[y].prev = IF y = x THEN p ELSE T.hh[y].prev
LEMMA UnlistFields ==
  ASSUME NEW T, Shape(T), NEW e, NEW p \in Pointer, NEW x \in Pointer
  PROVE  ListLoses(T, Unlist(T, e, p, x), e, p, x)
<1> DEFINE t == IF T.tbl.tail = e THEN p ELSE T.tbl.tail
           tailed == SetTail(T, t)
           ahead == IF p = NULL THEN SetHead(tailed, x) ELSE SetNext(tailed, p, x)
           U == Unlist(T, e, p, x)
<1>1. U = IF x = NULL THEN ahead ELSE SetPrev(ahead, x, p)
  BY Zenon DEF Unlist, SetTail, SetHead, SetNext, SetPrev
<1>2. TailBecomes(T, tailed, t)
  BY TailSet
<1> HIDE DEF tailed, t, U
<1>3. /\ Shape(ahead) /\ ahead.head = (IF p = NULL THEN x ELSE T.head)
      /\ ahead.tbl.tail = t /\ ahead.tbl.num_items = T.tbl.num_items
      /\ SameBuckets(T, ahead) /\ SameChains(T, ahead) /\ SameKeys(T, ahead)
      /\ \A y \in Elements : /\ ahead.hh[y].next = IF y = p THEN x ELSE T.hh[y].next
                             /\ ahead.hh[y].prev = T.hh[y].prev
  <2>1. CASE p = NULL
    <3>1. ahead = SetHead(tailed, x) /\ \A y \in Elements : y # p
      BY <2>1, UthashAssumption
    <3> HIDE DEF ahead
    <3>2. HeadBecomes(tailed, ahead, x)
      BY <1>2, <3>1, HeadSet DEF TailBecomes
    <3> QED BY <1>2, <2>1, <3>1, <3>2
           DEF TailBecomes, HeadBecomes, SameBuckets, SameChains, SameKeys
  <2>2. CASE p # NULL
    <3>1. ahead = SetNext(tailed, p, x) /\ p \in Elements
      BY <2>2 DEF Pointer
    <3> HIDE DEF ahead
    <3>2. NextBecomes(tailed, ahead, p, x)
      BY <1>2, <3>1, NextSet DEF TailBecomes
    <3>3. SameBuckets(T, tailed) /\ SameChains(T, tailed) /\ SameKeys(T, tailed)
      BY <1>2 DEF TailBecomes, SameChains, SameKeys
    <3>4. SameBuckets(tailed, ahead) /\ SameChains(tailed, ahead) /\ SameKeys(tailed, ahead)
      BY <3>2 DEF NextBecomes
    <3>5. SameBuckets(T, ahead) /\ SameChains(T, ahead) /\ SameKeys(T, ahead)
      BY <3>3, <3>4, SameTransitive
    <3> QED BY <1>2, <2>2, <3>1, <3>2, <3>5 DEF TailBecomes, NextBecomes, SameHead
  <2> QED BY <2>1, <2>2
<1> HIDE DEF ahead
<1>4. /\ Shape(U) /\ SameHead(ahead, U)
      /\ SameBuckets(ahead, U) /\ SameChains(ahead, U) /\ SameKeys(ahead, U)
      /\ \A y \in Elements : /\ U.hh[y].prev = IF y = x THEN p ELSE ahead.hh[y].prev
                             /\ U.hh[y].next = ahead.hh[y].next
  <2>1. CASE x = NULL
    <3>1. U = ahead /\ \A y \in Elements : y # x
      BY <1>1, <2>1, UthashAssumption
    <3> QED BY <1>3, <3>1 DEF SameHead, SameBuckets, SameChains, SameKeys
  <2>2. CASE x # NULL
    <3>1. U = SetPrev(ahead, x, p) /\ x \in Elements
      BY <1>1, <2>2 DEF Pointer
    <3>2. PrevBecomes(ahead, U, x, p)
      BY <1>3, <3>1, PrevSet
    <3> QED BY <3>2 DEF PrevBecomes
  <2> QED BY <2>1, <2>2
<1>5. SameBuckets(T, U) /\ SameChains(T, U) /\ SameKeys(T, U)
  BY <1>3, <1>4, SameTransitive
<1>6. U.head = ahead.head /\ U.tbl.tail = t /\ U.tbl.num_items = T.tbl.num_items
  BY <1>3, <1>4 DEF SameHead
<1> QED BY <1>3, <1>4, <1>5, <1>6 DEF ListLoses, U, t

\* Where the neighbours of an element of the list are.
Beside(S, e, first, p, x) ==
  /\ p \in (S \ {e}) \cup {NULL} /\ x \in (S \ {e}) \cup {NULL}
  /\ p = NULL <=> first = e
  /\ p = NULL /\ x = NULL => S = {e}
LEMMA Neighbours ==
  ASSUME NEW S \in SUBSET Elements, NEW r \in Numbers, NEW first, NEW next, NEW prev,
         Linked(S, r, first, next, prev), NEW e \in S
  PROVE  Beside(S, e, first, prev[e], next[e])
<1> USE UthashAssumption
<1>1. /\ IsNext(S, r, e, next[e]) /\ IsPrev(S, r, e, prev[e])
      /\ IsFirst(S, r, first) /\ Distinct(S, r)
  BY DEF Linked
<1>2. \A y \in S : r[y] \in Int /\ y # NULL
  BY DEF Numbers
<1>3. next[e] \in (S \ {e}) \cup {NULL} /\ prev[e] \in (S \ {e}) \cup {NULL}
  BY <1>1, <1>2 DEF IsNext, IsPrev
<1>4. first \in S /\ \A y \in S : r[first] <= r[y]
  BY <1>1 DEF IsFirst
<1>5. ASSUME prev[e] = NULL PROVE first = e
  BY <1>1, <1>2, <1>4, <1>5 DEF IsPrev, Distinct
<1>6. ASSUME first = e PROVE prev[e] = NULL
  BY <1>1, <1>2, <1>4, <1>6 DEF IsPrev
<1>7. ASSUME next[e] = NULL, prev[e] = NULL PROVE S = {e}
  <2>1. \A y \in S : r[y] = r[e]
    BY <1>1, <1>2, <1>7 DEF IsNext, IsPrev
  <2> QED BY <1>1, <2>1 DEF Distinct
<1> QED BY <1>3, <1>5, <1>6, <1>7 DEF Beside

\* The list without e, once its neighbours are linked to each other.
LEMMA UnlistHolds ==
  ASSUME NEW T, Shape(T), T.head # NULL, NEW S \in SUBSET Elements, NEW r \in Numbers,
         Listing(T, S, r), NEW e \in S,
         NEW p, p = T.hh[e].prev, NEW x, x = T.hh[e].next, p # NULL \/ x # NULL
  PROVE  LET U == Unlist(T, e, p, x)
         IN  /\ Shape(U) /\ SameBuckets(T, U) /\ SameChains(T, U) /\ SameKeys(T, U)
             /\ U.head # NULL /\ U.tbl.num_items = T.tbl.num_items
             /\ Listing(U, S \ {e}, r)
<1> DEFINE U == Unlist(T, e, p, x)
           first == T.head
           next == NextLink(T)
           prev == PrevLink(T)
           onward == NextLink(U)
           prior == PrevLink(U)
           left == U.head
           tail == U.tbl.tail
<1>1. Linked(S, r, first, next, prev) /\ IsLast(S, r, T.tbl.tail)
  BY DEF Listing
<1>2. next[e] = x /\ prev[e] = p
  BY Links
<1>3. Beside(S, e, first, p, x)
  <2> HIDE DEF first, next, prev
  <2>1. Beside(S, e, first, prev[e], next[e])
    BY <1>1, Neighbours
  <2> QED BY <1>2, <2>1
<1>4. ListLoses(T, U, e, p, x)
  <2>1. p \in Pointer /\ x \in Pointer
    BY <1>3 DEF Beside, Pointer
  <2> QED BY <2>1, UnlistFields
<1> HIDE DEF U
<1>5. Unlinked(S, e, next, prev, onward, prior)
  BY <1>2, <1>4, Links DEF ListLoses, Unlinked
<1>6. left = IF first = e THEN next[e] ELSE first
  BY <1>2, <1>3, <1>4 DEF Beside, ListLoses
<1>7. tail = IF T.tbl.tail = e THEN prev[e] ELSE T.tbl.tail
  BY <1>2, <1>4 DEF ListLoses
<1>8. left # NULL
  BY <1>4 DEF ListLoses
<1> HIDE DEF first, next, prev, onward, prior, left, tail
<1>9. Linked(S \ {e}, r, left, onward, prior)
  BY <1>1, <1>5, <1>6, LinkedRemoves
<1>10. IsLast(S \ {e}, r, tail)
  BY <1>1, <1>7, LastRemoved
<1>11. Listing(U, S \ {e}, r)
  BY <1>9, <1>10 DEF Listing, left, onward, prior, tail
<1> QED BY <1>4, <1>8, <1>11 DEF ListLoses, U, left

\* HASH_DEL of an element of the table takes it out: the last one takes the table with it.
Deleted(T, U, S, e) == Good(U, S \ {e}) /\ SameKeys(T, U)
LEMMA DeleteHolds ==
  ASSUME NEW T, T.head # NULL, NEW S \in SUBSET Elements, Good(T, S), NEW e \in S
  PROVE  Deleted(T, Delete(T, e), S, e)
<1> DEFINE p == T.hh[e].prev
           x == T.hh[e].next
           V == Unlist(T, e, p, x)
           D == DelInBucket(V, e)
           U == Delete(T, e)
           W == SetItems(D, D.tbl.num_items - 1)
           none == [T EXCEPT !.head = NULL, !.tbl = NoTable]
<1>1. Holds(T, S) /\ Shape(T) /\ Hashed(T, S) /\ e \in Elements
  BY DEF Good, Holds
<1>2. U = IF p = NULL /\ x = NULL THEN none ELSE W
  BY Zenon DEF Delete, Unlist, SetItems
<1>3. PICK r \in Numbers : ListHolds(T, S, r)
  BY <1>1 DEF Holds
<1>4. PICK c \in Numbers : ChainsHold(T, S, c)
  BY <1>1 DEF Holds
<1>5. CASE p = NULL /\ x = NULL
  <2>1. U = none
    BY <1>2, <1>5
  <2>2. Handles(none) /\ none.head = NULL /\ none.tbl = NoTable /\ none.hh = T.hh
    BY <1>1 DEF Shape, Handles
  <2>3. NextLink(T)[e] = NULL /\ PrevLink(T)[e] = NULL
    BY <1>1, <1>5, Links
  <2> HIDE DEF none, U, p, x
  <2>4. S = {e}
    <3> DEFINE next == NextLink(T)
               prev == PrevLink(T)
               first == T.head
    <3>1. Linked(S, r, first, next, prev) /\ next[e] = NULL /\ prev[e] = NULL
      BY <1>3, <2>3 DEF ListHolds
    <3> HIDE DEF next, prev, first
    <3>2. Beside(S, e, first, prev[e], next[e])
      BY <3>1, Neighbours
    <3> QED BY <3>1, <3>2 DEF Beside
  <2> QED BY <2>1, <2>2, <2>4 DEF Deleted, Good, SameKeys, U
<1>6. CASE ~(p = NULL /\ x = NULL)
  <2>1. U = W
    BY <1>2, <1>6
  <2>2. /\ Shape(V) /\ SameBuckets(T, V) /\ SameChains(T, V) /\ SameKeys(T, V)
        /\ V.head # NULL /\ V.tbl.num_items = T.tbl.num_items
        /\ Listing(V, S \ {e}, r)
    <3>1. Listing(T, S, r) /\ T.hh[e].prev = p /\ T.hh[e].next = x
      BY <1>3 DEF ListHolds, Listing
    <3> HIDE DEF p, x
    <3> QED BY <1>1, <1>6, <3>1, UnlistHolds
  <2> HIDE DEF V, p, x
  <2>3. ChainsHold(V, S, c)
    BY <1>4, <2>2, ChainsKept
  <2>4. V.hh[e].hashv \in Nat
    BY <1>1, <2>2 DEF Hashed, SameKeys
  <2>5. /\ Shape(D) /\ SameHead(V, D) /\ SameList(V, D) /\ SameKeys(V, D)
        /\ ChainsHold(D, S \ {e}, c)
    BY <2>2, <2>3, <2>4, DelInBucketHolds
  <2> HIDE DEF D
  <2>6. ItemsBecome(D, W, D.tbl.num_items - 1)
    BY <2>5, ItemsSet
  <2> HIDE DEF W, U
  <2>7. /\ Shape(W) /\ W.head = D.head /\ W.hh = D.hh /\ SameBuckets(D, W)
        /\ W.tbl.tail = D.tbl.tail /\ W.tbl.num_items = D.tbl.num_items - 1
    BY <2>6 DEF ItemsBecome
  <2>8. S \ {e} \in SUBSET Elements
    OBVIOUS
  <2>9. SameKeys(T, W)
    <3>1. SameKeys(D, W)
      BY <2>7 DEF SameKeys
    <3>2. SameKeys(T, D)
      BY <2>2, <2>5, SameTransitive
    <3> QED BY <3>1, <3>2, SameTransitive
  <2>10. Hashed(W, S \ {e})
    BY <1>1, <2>9 DEF Hashed, SameKeys
  <2>11. ChainsHold(W, S \ {e}, c)
    <3>1. SameChains(D, W) /\ SameKeys(D, W)
      BY <2>7 DEF SameChains, SameKeys
    <3> QED BY <2>5, <2>7, <2>8, <3>1, ChainsKept
  <2>12. ListHolds(W, S \ {e}, r)
    <3>1. W.tbl.num_items = T.tbl.num_items - 1
      BY <2>2, <2>5, <2>7 DEF SameHead
    <3>2. Cardinality(S \ {e}) = Cardinality(S) - 1
      BY FS_RemoveElement, FS_Subset, UthashAssumption
    <3>3. W.head = V.head /\ W.tbl.tail = V.tbl.tail
      BY <2>5, <2>7 DEF SameHead
    <3>4. \A y \in Elements : W.hh[y].next = V.hh[y].next /\ W.hh[y].prev = V.hh[y].prev
      BY <2>5, <2>7 DEF SameList
    <3>5. NextLink(W) = NextLink(V) /\ PrevLink(W) = PrevLink(V)
      BY <3>4 DEF NextLink, PrevLink, Pointer
    <3> QED BY <1>3, <2>2, <3>1, <3>2, <3>3, <3>5 DEF ListHolds, Listing
  <2>13. W.head # NULL /\ Handles(W)
    BY <2>2, <2>5, <2>7 DEF SameHead, Shape
  <2> QED BY <2>1, <2>7, <2>9, <2>10, <2>11, <2>12, <2>13 DEF Deleted, Good, Holds, U
<1> QED BY <1>5, <1>6

-------------------------------------------------------------------------------
(* The table of users *)

\* The table holds the users of S under nicknames that differ.
TableOK(T, S) ==
  /\ Good(T, S)
  /\ \A x \in S : T.hh[x].key \in Keys /\ T.hh[x].hashv = HashOf[T.hh[x].key]
  /\ \A x, y \in S : T.hh[x].key = T.hh[y].key => x = y

\* A user is added under a nickname that nobody in the table has.
LEMMA AddKeeps ==
  ASSUME NEW T, NEW S \in SUBSET Elements, TableOK(T, S), NEW e \in Elements \ S, NEW k \in Keys,
         \A x \in S : T.hh[x].key # k
  PROVE  /\ TableOK(Add(T, e, k), S \cup {e})
         /\ KeyIs(Add(T, e, k), e, k) /\ KeysBut(T, Add(T, e, k), e)
<1> DEFINE U == Add(T, e, k)
<1>1. Added(T, U, S, e, k)
  BY AddHolds DEF TableOK
<1> HIDE DEF U
<1>2. Good(U, S \cup {e}) /\ KeyIs(U, e, k) /\ KeysBut(T, U, e)
  BY <1>1 DEF Added
<1>3. \A x \in S : U.hh[x].key = T.hh[x].key /\ U.hh[x].hashv = T.hh[x].hashv
  BY <1>2 DEF KeysBut
<1>4. \A x \in S \cup {e} : U.hh[x].key \in Keys /\ U.hh[x].hashv = HashOf[U.hh[x].key]
  BY <1>2, <1>3 DEF TableOK, KeyIs
<1>5. \A x, y \in S \cup {e} : U.hh[x].key = U.hh[y].key => x = y
  BY <1>2, <1>3 DEF TableOK, KeyIs
<1> QED BY <1>2, <1>4, <1>5 DEF TableOK, U

\* A user of the table is deleted.
LEMMA DeleteKeeps ==
  ASSUME NEW T, NEW S \in SUBSET Elements, TableOK(T, S), NEW e \in S
  PROVE  /\ T.head # NULL
         /\ TableOK(Delete(T, e), S \ {e}) /\ SameKeys(T, Delete(T, e))
<1>1. T.head # NULL
  BY DEF TableOK, Good
<1> DEFINE U == Delete(T, e)
<1>2. Deleted(T, U, S, e)
  BY <1>1, DeleteHolds DEF TableOK
<1> HIDE DEF U
<1>3. Good(U, S \ {e}) /\ SameKeys(T, U)
  BY <1>2 DEF Deleted
<1>4. \A x \in S : U.hh[x].key = T.hh[x].key /\ U.hh[x].hashv = T.hh[x].hashv
  BY <1>3 DEF SameKeys
<1>5. TableOK(U, S \ {e})
  BY <1>3, <1>4 DEF TableOK
<1> QED BY <1>1, <1>3, <1>5 DEF U

\* The handle of a user that is not in the table does not matter.
Zeroed(T, e) == [T EXCEPT !.hh[e] = ZeroHandle]
LEMMA ZeroKeeps ==
  ASSUME NEW T, NEW S \in SUBSET Elements, TableOK(T, S), NEW e \in Elements \ S
  PROVE  /\ TableOK(Zeroed(T, e), S)
         /\ Zeroed(T, e).hh[e].key = NULL /\ KeysBut(T, Zeroed(T, e), e)
<1> DEFINE U == Zeroed(T, e)
<1>1. Handles(T)
  BY DEF TableOK, Good
<1>2. /\ DOMAIN U = {"head", "tbl", "hh"} /\ U.head = T.head /\ U.tbl = T.tbl
      /\ U.hh = [T.hh EXCEPT ![e] = ZeroHandle]
  BY <1>1 DEF Handles, Zeroed
<1> HIDE DEF U
<1>3. /\ DOMAIN U.hh = Elements /\ U.hh[e] = ZeroHandle
      /\ \A x \in Elements \ {e} : U.hh[x] = T.hh[x]
  BY <1>1, <1>2 DEF Handles
<1>4. /\ DOMAIN U.hh[e] = {"prev", "next", "hh_prev", "hh_next", "key", "hashv"}
      /\ U.hh[e].key = NULL
  BY <1>3 DEF ZeroHandle
<1>5. Handles(U) /\ KeysBut(T, U, e)
  BY <1>1, <1>2, <1>3, <1>4 DEF Handles, KeysBut
<1>6. \A x \in S : U.hh[x] = T.hh[x]
  BY <1>3
<1>7. ASSUME Holds(T, S) PROVE Holds(U, S)
  <2>1. Shape(U) /\ Hashed(U, S)
    BY <1>2, <1>5, <1>6, <1>7 DEF Holds, Shape, Hashed
  <2>2. \A x \in S : /\ NextLink(U)[x] = NextLink(T)[x] /\ PrevLink(U)[x] = PrevLink(T)[x]
                     /\ HhNext(U)[x] = HhNext(T)[x] /\ HhPrev(U)[x] = HhPrev(T)[x]
    BY <1>6, Links
  <2>3. ASSUME NEW r \in Numbers, ListHolds(T, S, r) PROVE ListHolds(U, S, r)
    <3>1. Linked(S, r, T.head, NextLink(U), PrevLink(U))
      BY <2>2, <2>3, LinkedAgrees DEF ListHolds
    <3> QED BY <1>2, <2>3, <3>1 DEF ListHolds
  <2>4. ASSUME NEW c \in Numbers, ChainsHold(T, S, c) PROVE ChainsHold(U, S, c)
    <3>1. ASSUME NEW b PROVE InBucket(U, S, b) = InBucket(T, S, b)
      BY <1>2, <1>6 DEF InBucket
    <3>2. ASSUME NEW b \in 0..T.tbl.num_buckets - 1
          PROVE  Linked(InBucket(T, S, b), c, T.tbl.buckets[b].hh_head, HhNext(U), HhPrev(U))
      <4>1. Linked(InBucket(T, S, b), c, T.tbl.buckets[b].hh_head, HhNext(T), HhPrev(T))
        BY <2>4 DEF ChainsHold
      <4>2. InBucket(T, S, b) \subseteq S
        BY BucketFinite
      <4> QED BY <2>2, <4>1, <4>2, LinkedAgrees
    <3> QED BY <1>2, <2>4, <3>1, <3>2 DEF ChainsHold
  <2> QED BY <1>7, <2>1, <2>3, <2>4 DEF Holds
<1>8. Good(U, S)
  BY <1>2, <1>5, <1>7 DEF TableOK, Good
<1> QED BY <1>4, <1>5, <1>6, <1>8 DEF TableOK, U

\* Find leads to the one user with the nickname.
Finds(T, S, k) ==
  IF \E x \in S : T.hh[x].key = k THEN Find(T, k) \in S /\ T.hh[Find(T, k)].key = k
  ELSE Find(T, k) = NULL
LEMMA FindFinds ==
  ASSUME NEW T, NEW S \in SUBSET Elements, TableOK(T, S), NEW k \in Keys
  PROVE  Finds(T, S, k)
<1>1. CASE T.head = NULL
  BY <1>1 DEF TableOK, Good, Finds, Find
<1>2. CASE T.head # NULL
  <2> DEFINE b == ToBucket(HashOf[k], T.tbl.num_buckets)
             R == InBucket(T, S, b)
             w == KeyChain(T, k)
             hits == {i \in DOMAIN w : T.hh[w[i]].hashv = HashOf[k] /\ T.hh[w[i]].key = k}
  <2>1. Holds(T, S)
    BY <1>2 DEF TableOK, Good
  <2>2. PICK c \in Numbers : ChainsHold(T, S, c)
    BY <2>1 DEF Holds
  <2>3. b \in 0..T.tbl.num_buckets - 1
    <3>1. HashOf[k] \in Nat /\ T.tbl.num_buckets \in Nat \ {0}
      BY <2>1, UthashAssumption DEF Holds, Shape
    <3> QED BY <3>1 DEF ToBucket
  <2>4. Linked(R, c, T.tbl.buckets[b].hh_head, HhNext(T), HhPrev(T)) /\ R \in SUBSET Elements
    BY <2>2, <2>3, BucketFinite DEF ChainsHold
  <2>5. Trail(w, R, c) /\ Whole(w, R)
    <3>1. w = Walk(HhNext(T), T.tbl.buckets[b].hh_head)
      BY DEF KeyChain, Chain
    <3> HIDE DEF w, b, R
    <3> QED BY <2>4, <3>1, WalkMeetsAll
  <2>6. w \in Seq(Elements) /\ DOMAIN w = 1..Len(w) /\ Len(w) \in Nat
    <3> HIDE DEF w, R, b
    <3>1. w \in Seq(R)
      BY <2>5 DEF Trail
    <3> QED BY <2>4, <3>1
  <2>7. Find(T, k) = IF hits = {} THEN NULL ELSE w[Min(hits)]
    <3>1. Find(T, k) = Search(T, k)[w]
      BY <1>2, Zenon DEF Find
    <3>2. Search(T, k) =
            [chain \in Seq(Elements) |->
               LET found == {i \in DOMAIN chain : /\ T.hh[chain[i]].hashv = HashOf[k]
                                                  /\ T.hh[chain[i]].key = k}
               IN  IF found = {} THEN NULL ELSE chain[Min(found)]]
      BY Zenon DEF Search
    <3> HIDE DEF w
    <3> QED BY <2>6, <3>1, <3>2, Zenon
  <2>8. \A i \in 1..Len(w) : w[i] \in S
    <3>1. R \subseteq S
      BY BucketFinite
    <3> HIDE DEF w, R
    <3> QED BY <2>5, <3>1 DEF Trail
  <2>9. CASE hits = {}
    <3>1. ASSUME NEW x \in S, T.hh[x].key = k PROVE FALSE
      <4>1. T.hh[x].hashv = HashOf[k]
        BY <3>1 DEF TableOK
      <4>2. x \in R
        BY <4>1 DEF InBucket
      <4>3. PICK i \in 1..Len(w) : w[i] = x
        <5> HIDE DEF w, R
        <5> QED BY <2>5, <4>2 DEF Whole, Met
      <4>4. i \in hits
        <5> HIDE DEF w, R
        <5> QED BY <2>6, <3>1, <4>1, <4>3
      <4> QED BY <2>9, <4>4
    <3> HIDE DEF hits, w
    <3>2. Find(T, k) = NULL
      BY <2>7, <2>9
    <3> QED BY <3>1, <3>2 DEF Finds
  <2>10. CASE hits # {}
    <3>1. hits \subseteq Nat
      <4> HIDE DEF w
      <4> QED BY <2>6
    <3>2. Min(hits) \in hits
      <4> HIDE DEF hits
      <4> QED BY <2>10, <3>1, MinIsLeast
    <3>3. Find(T, k) = w[Min(hits)]
      <4> HIDE DEF hits, w
      <4> QED BY <2>7, <2>10
    <3>4. PICK i \in hits : Find(T, k) = w[i]
      BY <3>2, <3>3
    <3>5. i \in 1..Len(w) /\ T.hh[w[i]].key = k
      <4> HIDE DEF w
      <4> QED BY <2>6
    <3> HIDE DEF hits, w
    <3> QED BY <2>8, <3>4, <3>5 DEF Finds
  <2> QED BY <2>9, <2>10
<1> QED BY <1>1, <1>2

-------------------------------------------------------------------------------
(* The invariant *)

\* The table holds the connected users that have a nickname, and nobody else's handle
\* has a key.
TableInv ==
  /\ connected \subseteq Elements
  /\ TableOK(table, Listed)
  /\ \A u \in Elements \ Listed : Nick(u) = NULL

\* It holds at the start.
LEMMA TableInit == Init => TableInv
<1> SUFFICES ASSUME Init PROVE TableInv
  OBVIOUS
<1>1. /\ DOMAIN table = {"head", "tbl", "hh"} /\ table.head = NULL /\ table.tbl = NoTable
      /\ DOMAIN table.hh = Elements /\ connected = {}
      /\ \A u \in Elements : table.hh[u] = ZeroHandle
  BY DEF Init
<1>2. \A u \in Elements :
        /\ DOMAIN table.hh[u] = {"prev", "next", "hh_prev", "hh_next", "key", "hashv"}
        /\ Nick(u) = NULL
  BY <1>1 DEF ZeroHandle, Nick
<1>3. Listed = {}
  BY <1>1 DEF Listed
<1>4. Good(table, {})
  BY <1>1, <1>2 DEF Good, Handles
<1> QED BY <1>1, <1>2, <1>3, <1>4 DEF TableInv, TableOK

\* A table as it is after a call: for every user that is listed then, the table holds it.
LEMMA ListedFrom ==
  ASSUME TableInv
  PROVE  /\ Listed \in SUBSET Elements /\ Listed \subseteq connected
         /\ \A u \in connected : u \in Listed <=> Nick(u) # NULL
         /\ \A u \in Listed : Nick(u) \in Keys /\ Nick(u) # NULL
BY UthashAssumption DEF TableInv, Listed, TableOK, Nick

\* add_user_nick puts a user under a nickname that is free.
AddsNick(u, n) ==
  /\ u \in connected \ Listed /\ n \in Keys /\ Find(table, n) = NULL
  /\ table' = Add(table, u, n) /\ connected' = connected
\* update_user_nick moves it to one that is free.
RekeysNick(u, n) ==
  /\ u \in Listed /\ n \in Keys /\ Find(table, n) = NULL
  /\ table' = Rekey(table, u, n) /\ connected' = connected
\* delete_user takes it out.
DropsUser(u) ==
  /\ u \in Listed
  /\ table' = Zeroed(Delete(table, u), u) /\ connected' = connected \ {u}
\* And the other steps leave the table alone.
LeavesTable == table' = table /\ connected \subseteq connected' /\ connected' \subseteq Elements

\* These are all the calls for user u, of clients that keep to the protocol ...
LEMMA CallSteps ==
  ASSUME Habits = {}, TableInv, NEW u \in Elements, Call(u)
  PROVE  \/ \E n \in Keys : AddsNick(u, n) \/ RekeysNick(u, n)
         \/ DropsUser(u)
         \/ LeavesTable
<1>1. CASE CreateUser(u) \/ SendUSER(u)
  BY <1>1 DEF CreateUser, SendUSER, LeavesTable, TableInv
<1>2. ASSUME NEW n \in Keys, AddUserNick(u, n) PROVE AddsNick(u, n) \/ LeavesTable
  <2>1. u \in connected \ Listed
    BY <1>2 DEF AddUserNick, Listed
  <2>2. connected' = connected
    BY <1>2 DEF AddUserNick
  <2>3. \/ table' = table
        \/ Find(table, n) = NULL /\ table' = Add(table, u, n)
    BY <1>2 DEF AddUserNick
  <2> QED BY <2>1, <2>2, <2>3 DEF AddsNick, LeavesTable, TableInv
<1>3. ASSUME NEW n \in Keys, UpdateUserNick(u, n) PROVE RekeysNick(u, n) \/ LeavesTable
  <2>1. u \in Listed
    BY <1>3 DEF UpdateUserNick, Registered, Listed
  <2>2. connected' = connected
    BY <1>3 DEF UpdateUserNick
  <2>3. \/ table' = table
        \/ Find(table, n) = NULL /\ table' = Rekey(table, u, n)
    BY <1>3 DEF UpdateUserNick
  <2> QED BY <2>1, <2>2, <2>3 DEF RekeysNick, LeavesTable, TableInv
<1>4. ASSUME DeleteUser(u) PROVE DropsUser(u)
  <2>1. u \in Listed
    BY <1>4 DEF DeleteUser, Listed
  <2>2. table.head # NULL
    BY <2>1, ListedFrom, DeleteKeeps DEF TableInv
  <2> QED BY <1>4, <2>1, <2>2 DEF DeleteUser, DropsUser, Zeroed
<1> QED BY <1>1, <1>2, <1>3, <1>4 DEF Call

\* ... and all the steps.
LEMMA Steps ==
  ASSUME Habits = {}, TableInv, [Next]_vars
  PROVE  \/ \E u \in Elements, n \in Keys : AddsNick(u, n) \/ RekeysNick(u, n)
         \/ \E u \in Elements : DropsUser(u)
         \/ LeavesTable
<1>1. CASE UNCHANGED vars
  BY <1>1 DEF vars, LeavesTable, TableInv
<1>2. CASE Next
  BY <1>2, CallSteps DEF Next
<1> QED BY <1>1, <1>2

\* A nickname that Find does not find is nobody's.
LEMMA FreeNick ==
  ASSUME TableInv, NEW n \in Keys, Find(table, n) = NULL
  PROVE  \A x \in Listed : table.hh[x].key # n
<1>1. Finds(table, Listed, n) /\ NULL \notin Listed
  BY ListedFrom, FindFinds, UthashAssumption DEF TableInv
<1> QED BY <1>1 DEF Finds

\* What each call makes of the table.
LEMMA AddsHolds ==
  ASSUME TableInv, NEW u \in Elements, NEW n \in Keys, AddsNick(u, n)
  PROVE  /\ TableOK(table', Listed \cup {u}) /\ Listed' = Listed \cup {u}
         /\ table'.hh[u].key = n /\ \A x \in Elements \ {u} : table'.hh[x].key = table.hh[x].key
<1>1. /\ Listed \in SUBSET Elements /\ TableOK(table, Listed) /\ u \in Elements \ Listed
      /\ \A x \in Listed : table.hh[x].key # n
  BY ListedFrom, FreeNick DEF TableInv, AddsNick
<1>2. /\ TableOK(table', Listed \cup {u})
      /\ KeyIs(table', u, n) /\ KeysBut(table, table', u)
  BY <1>1, AddKeeps DEF AddsNick
<1>3. table'.hh[u].key = n /\ \A x \in Elements \ {u} : table'.hh[x].key = table.hh[x].key
  BY <1>2 DEF KeyIs, KeysBut
<1>4. Listed' = Listed \cup {u}
  <2>1. Listed' = {x \in connected : table'.hh[x].key # NULL}
    BY DEF Listed, Nick, AddsNick
  <2>2. u \in connected /\ connected \subseteq Elements /\ n # NULL
    BY UthashAssumption DEF AddsNick, TableInv
  <2> QED BY <1>3, <2>1, <2>2 DEF Listed, Nick
<1> QED BY <1>2, <1>3, <1>4

LEMMA RekeysHolds ==
  ASSUME TableInv, NEW u \in Elements, NEW n \in Keys, RekeysNick(u, n)
  PROVE  /\ TableOK(table', Listed) /\ Listed' = Listed
         /\ table'.hh[u].key = n /\ \A x \in Elements \ {u} : table'.hh[x].key = table.hh[x].key
<1> DEFINE D == Delete(table, u)
           R == Listed \ {u}
<1>1. /\ Listed \in SUBSET Elements /\ TableOK(table, Listed) /\ u \in Listed
      /\ \A x \in Listed : table.hh[x].key # n
  BY ListedFrom, FreeNick DEF TableInv, RekeysNick
<1>2. TableOK(D, R) /\ SameKeys(table, D)
  BY <1>1, DeleteKeeps
<1>3. table' = Add(D, u, n)
  BY DEF RekeysNick, Rekey
<1> HIDE DEF D
<1>4. R \in SUBSET Elements /\ u \in Elements \ R /\ \A x \in R : D.hh[x].key # n
  BY <1>1, <1>2 DEF SameKeys
<1>5. R \cup {u} = Listed
  BY <1>1
<1> HIDE DEF R
<1>6. TableOK(table', Listed) /\ KeyIs(table', u, n) /\ KeysBut(D, table', u)
  BY <1>2, <1>3, <1>4, <1>5, AddKeeps
<1>7. table'.hh[u].key = n /\ \A x \in Elements \ {u} : table'.hh[x].key = table.hh[x].key
  BY <1>2, <1>6 DEF KeyIs, KeysBut, SameKeys
<1>8. Listed' = Listed
  <2>1. Listed' = {x \in connected : table'.hh[x].key # NULL}
    BY DEF Listed, Nick, RekeysNick
  <2>2. connected \subseteq Elements /\ n # NULL
    BY UthashAssumption DEF TableInv
  <2> QED BY <1>1, <1>7, <2>1, <2>2 DEF Listed, Nick
<1> QED BY <1>6, <1>7, <1>8

LEMMA DropsHolds ==
  ASSUME TableInv, NEW u \in Elements, DropsUser(u)
  PROVE  /\ TableOK(table', Listed \ {u}) /\ Listed' = Listed \ {u}
         /\ table'.hh[u].key = NULL /\ \A x \in Elements \ {u} : table'.hh[x].key = table.hh[x].key
<1> DEFINE D == Delete(table, u)
           R == Listed \ {u}
<1>1. Listed \in SUBSET Elements /\ TableOK(table, Listed) /\ u \in Listed
  BY ListedFrom DEF TableInv, DropsUser
<1>2. TableOK(D, R) /\ SameKeys(table, D)
  BY <1>1, DeleteKeeps
<1>3. table' = Zeroed(D, u)
  BY DEF DropsUser
<1> HIDE DEF D
<1>4. R \in SUBSET Elements /\ u \in Elements \ R
  BY <1>1
<1> HIDE DEF R
<1>5. TableOK(table', R) /\ table'.hh[u].key = NULL /\ KeysBut(D, table', u)
  BY <1>2, <1>3, <1>4, ZeroKeeps
<1>6. \A x \in Elements \ {u} : table'.hh[x].key = table.hh[x].key
  BY <1>2, <1>5 DEF KeysBut, SameKeys
<1>7. Listed' = R
  <2>1. Listed' = {x \in connected \ {u} : table'.hh[x].key # NULL}
    BY DEF Listed, Nick, DropsUser
  <2>2. connected \subseteq Elements
    BY DEF TableInv
  <2> QED BY <1>6, <2>1, <2>2 DEF Listed, Nick, R
<1> QED BY <1>5, <1>6, <1>7 DEF R

\* A step that leaves the table alone leaves it right: a new user has no nickname.
LEMMA LeavesHolds ==
  ASSUME TableInv, LeavesTable
  PROVE  Listed' = Listed
<1>1. Listed' = {x \in connected' : table.hh[x].key # NULL}
  BY DEF Listed, Nick, LeavesTable
<1>2. \A x \in Elements \ Listed : table.hh[x].key = NULL
  BY DEF TableInv, Nick
<1> QED BY <1>1, <1>2 DEF Listed, Nick, LeavesTable

\* Every step keeps the invariant.
LEMMA TableStep == Habits = {} /\ TableInv /\ [Next]_vars => TableInv'
<1> SUFFICES ASSUME Habits = {}, TableInv, [Next]_vars PROVE TableInv'
  OBVIOUS
<1>1. ASSUME NEW u \in Elements, NEW n \in Keys, AddsNick(u, n) PROVE TableInv'
  <2>1. connected' \subseteq Elements
    BY <1>1 DEF AddsNick, TableInv
  <2>2. \A x \in Elements \ (Listed \cup {u}) : table'.hh[x].key = NULL
    BY <1>1, AddsHolds DEF TableInv, Nick
  <2> QED BY <1>1, <2>1, <2>2, AddsHolds DEF TableInv, Nick
<1>2. ASSUME NEW u \in Elements, NEW n \in Keys, RekeysNick(u, n) PROVE TableInv'
  <2>1. connected' \subseteq Elements /\ u \in Listed
    BY <1>2 DEF RekeysNick, TableInv
  <2>2. \A x \in Elements \ Listed : table'.hh[x].key = NULL
    BY <1>2, <2>1, RekeysHolds DEF TableInv, Nick
  <2> QED BY <1>2, <2>1, <2>2, RekeysHolds DEF TableInv, Nick
<1>3. ASSUME NEW u \in Elements, DropsUser(u) PROVE TableInv'
  <2>1. connected' \subseteq Elements
    BY <1>3 DEF DropsUser, TableInv
  <2>2. \A x \in Elements \ (Listed \ {u}) : table'.hh[x].key = NULL
    BY <1>3, DropsHolds DEF TableInv, Nick
  <2> QED BY <1>3, <2>1, <2>2, DropsHolds DEF TableInv, Nick
<1>4. ASSUME LeavesTable PROVE TableInv'
  <2>1. Listed' = Listed /\ table' = table /\ connected' \subseteq Elements
    BY <1>4, LeavesHolds DEF LeavesTable
  <2> QED BY <2>1 DEF TableInv, Nick
<1> QED BY <1>1, <1>2, <1>3, <1>4, Steps

\* Whatever clients that keep to the protocol do in which order, user_hash_table holds
\* exactly the connected users that have a nickname, in its list and in its buckets.
THEOREM TableInvariant == Habits = {} => (Spec => []TableInv)
<1> SUFFICES ASSUME Habits = {} PROVE Spec => []TableInv
  OBVIOUS
<1>1. TableInv /\ [Next]_vars => TableInv'
  BY TableStep
<1> QED BY <1>1, TableInit, PTL DEF Spec

-------------------------------------------------------------------------------
(* List and chains *)

\* A walk through linked elements, as the properties say it.
LEMMA WalkThrough ==
  ASSUME NEW S \in SUBSET Elements, NEW r \in Numbers, NEW first, NEW next, NEW prev,
         Linked(S, r, first, next, prev)
  PROVE  LET w == Walk(next, first)
         IN  /\ DoublyLinked(w, prev) /\ ToSet(w) = S /\ Len(w) = Cardinality(S)
             /\ Trail(w, S, r) /\ Whole(w, S)
<1> DEFINE w == Walk(next, first)
<1>1. Trail(w, S, r) /\ Whole(w, S) /\ Len(w) = Cardinality(S) /\ Len(w) <= Size
  BY WalkMeetsAll
<1> HIDE DEF w
<1>2. DOMAIN w = 1..Len(w) /\ \A i \in 1..Len(w) : w[i] \in S
  BY <1>1 DEF Trail
<1>3. ToSet(w) = S
  <2>1. ToSet(w) = {w[i] : i \in DOMAIN w}
    BY Zenon DEF ToSet
  <2>2. \A x \in S : \E i \in 1..Len(w) : w[i] = x
    BY <1>1 DEF Whole, Met
  <2> QED BY <1>2, <2>1, <2>2
<1>4. \A i \in 1..Len(w) : prev[w[i]] = IF i = 1 THEN NULL ELSE w[i - 1]
  BY <1>1, WalkGoesBack
<1>5. DoublyLinked(w, prev)
  BY <1>1, <1>2, <1>4 DEF DoublyLinked, Ends, Size
<1> QED BY <1>1, <1>3, <1>5 DEF w

\* Nothing is linked by whatever links there are.
LEMMA NothingLinked ==
  ASSUME NEW next, NEW prev
  PROVE  \E r \in Numbers : Linked({}, r, NULL, next, prev) /\ IsLast({}, r, NULL)
<1>1. [x \in Elements |-> 0] \in Numbers
  BY DEF Numbers
<1> QED BY <1>1 DEF Linked, Distinct, IsFirst, IsLast

\* The invariant gives the properties of the list.
LEMMA ListRight == TableInv => ListWellFormed
<1> SUFFICES ASSUME TableInv PROVE ListWellFormed
  OBVIOUS
<1> DEFINE w == ListOf(table)
           next == NextLink(table)
           prev == PrevLink(table)
           first == table.head
           S == Listed
<1>1. S \in SUBSET Elements /\ Good(table, S)
  BY ListedFrom DEF TableInv, TableOK
<1>2. PICK r \in Numbers : /\ Linked(S, r, first, next, prev)
                           /\ first # NULL => IsLast(S, r, table.tbl.tail)
                           /\ Count(table) = Cardinality(S)
  <2>1. CASE first = NULL
    <3>1. S = {} /\ Count(table) = 0
      BY <1>1, <2>1 DEF Good, Count
    <3>2. Cardinality({}) = 0
      BY FS_EmptySet
    <3> HIDE DEF S, next, prev, first
    <3> QED BY <2>1, <3>1, <3>2, NothingLinked
  <2>2. CASE first # NULL
    <3>1. PICK r \in Numbers : ListHolds(table, S, r)
      BY <1>1, <2>2 DEF Good, Holds
    <3> QED BY <2>2, <3>1 DEF ListHolds, Count
  <2> QED BY <2>1, <2>2
<1>3. w = Walk(next, first)
  BY DEF ListOf
<1> HIDE DEF w, next, first, prev, S
<1>4. /\ DoublyLinked(w, prev) /\ ToSet(w) = S /\ Len(w) = Cardinality(S)
      /\ Trail(w, S, r) /\ Whole(w, S)
  BY <1>1, <1>2, <1>3, WalkThrough
<1>5. ASSUME w # <<>> PROVE table.tbl.tail = Last(w)
  <2>1. w \in Seq(S) /\ Len(w) \in Nat /\ Len(w) >= 1 /\ w[Len(w)] \in S
    <3>1. w \in Seq(S)
      BY <1>4 DEF Trail
    <3> QED BY <1>5, <3>1
  <2>2. first # NULL
    BY <1>2, <2>1 DEF Linked, IsFirst
  <2> DEFINE t == table.tbl.tail
  <2>3. IsLast(S, r, t)
    BY <1>2, <2>2
  <2> HIDE DEF t
  <2>4. t \in S /\ r[w[Len(w)]] <= r[t]
    BY <2>1, <2>3 DEF IsLast
  <2>5. PICK i \in 1..Len(w) : w[i] = t
    BY <1>4, <2>4 DEF Whole, Met
  <2>6. i = Len(w)
    <3>1. r[w[Len(w)]] \in Int /\ r[t] \in Int
      BY <1>1, <2>1, <2>4 DEF Numbers
    <3>2. i < Len(w) => r[t] < r[w[Len(w)]]
      BY <1>4, <2>1, <2>5 DEF Trail
    <3> QED BY <2>1, <2>4, <3>1, <3>2
  <2> QED BY <2>5, <2>6 DEF Last, t
<1> QED BY <1>2, <1>4, <1>5 DEF ListWellFormed, PrevLink, w, prev, S

\* And those of the chains.
LEMMA ChainsRight == TableInv => ChainsLinked
<1> SUFFICES ASSUME TableInv, NEW b \in DOMAIN table.tbl.buckets
             PROVE  LET chain == Chain(table, b)
                    IN  /\ DoublyLinked(chain, HhPrev(table))
                        /\ ToSet(chain) =
                             {u \in Listed : ToBucket(table.hh[u].hashv, table.tbl.num_buckets) = b}
                        /\ table.tbl.buckets[b].count = Len(chain)
  BY DEF ChainsLinked, HhPrev
<1>1. Listed \in SUBSET Elements /\ Good(table, Listed)
  BY ListedFrom DEF TableInv, TableOK
<1>2. table.head # NULL
  <2>1. ASSUME table.tbl = NoTable PROVE FALSE
    <3>1. table.tbl.buckets = <<>>
      BY <2>1 DEF NoTable
    <3> QED BY <3>1
  <2> QED BY <1>1, <2>1 DEF Good
<1>3. Holds(table, Listed) /\ b \in 0..table.tbl.num_buckets - 1
  BY <1>1, <1>2 DEF Good, Holds, Shape
<1>4. PICK c \in Numbers : ChainsHold(table, Listed, c)
  BY <1>3 DEF Holds
<1> DEFINE R == InBucket(table, Listed, b)
           w == Chain(table, b)
           next == HhNext(table)
           prev == HhPrev(table)
           first == table.tbl.buckets[b].hh_head
<1>5. /\ Linked(R, c, first, next, prev) /\ R \in SUBSET Elements
      /\ table.tbl.buckets[b].count = Cardinality(R)
  BY <1>1, <1>3, <1>4, BucketFinite DEF ChainsHold
<1>6. w = Walk(next, first)
  BY DEF Chain
<1> HIDE DEF w, next, first, prev, R
<1>7. DoublyLinked(w, prev) /\ ToSet(w) = R /\ Len(w) = Cardinality(R)
  BY <1>5, <1>6, WalkThrough
<1> QED BY <1>5, <1>7 DEF InBucket, w, prev, R

\* HASH_ADD_KEYPTR and HASH_DEL keep the list, its tail and HASH_COUNT right, for every
\* number of users and nicknames, every hash function and every size of the table.
THEOREM ListAlwaysWellFormed == Habits = {} => (Spec => []ListWellFormed)
<1>1. Spec /\ []TableInv => []ListWellFormed
  BY ListRight, PTL
<1> QED BY <1>1, TableInvariant

\* And the chains: HASH_EXPAND_BUCKETS loses no user and links no circle, so that no
\* search holds mutex_user_table for ever.
THEOREM ChainsAlwaysLinked == Habits = {} => (Spec => []ChainsLinked)
<1>1. Spec /\ []TableInv => []ChainsLinked
  BY ChainsRight, PTL
<1> QED BY <1>1, TableInvariant

-------------------------------------------------------------------------------
(* The length of chains *)

\* What a bucket may hold before the table grows is set when the table is made or grows.
SameRoom(T, U) ==
  /\ U.tbl.num_buckets = T.tbl.num_buckets /\ U.tbl.noexpand = T.tbl.noexpand
  /\ \A b \in 0..T.tbl.num_buckets - 1 :
       U.tbl.buckets[b].expand_mult = T.tbl.buckets[b].expand_mult
CountsBelow(T, U) ==
  \A b \in 0..T.tbl.num_buckets - 1 : U.tbl.buckets[b].count <= T.tbl.buckets[b].count

\* No bucket is full, unless expansions do not help.
Roomy(T) ==
  /\ T.tbl.num_buckets >= InitialBuckets
  /\ \A b \in 0..T.tbl.num_buckets - 1 :
       T.tbl.buckets[b].count \in Nat /\ T.tbl.buckets[b].expand_mult \in Nat
  /\ T.tbl.noexpand \/ \A b \in 0..T.tbl.num_buckets - 1 : ~Full(T, b)

\* It stays so while counts go down.
LEMMA RoomyBelow ==
  ASSUME NEW T, NEW U, Roomy(T), SameRoom(T, U), CountsBelow(T, U),
         \A b \in 0..T.tbl.num_buckets - 1 : U.tbl.buckets[b].count \in Nat
  PROVE  Roomy(U)
<1>1. ASSUME NEW b \in 0..T.tbl.num_buckets - 1, ~Full(T, b) PROVE ~Full(U, b)
  <2> DEFINE most == (T.tbl.buckets[b].expand_mult + 1) * Threshold
  <2>1. most \in Nat
    BY UthashAssumption DEF Roomy
  <2>2. U.tbl.buckets[b].expand_mult = T.tbl.buckets[b].expand_mult
    BY DEF SameRoom
  <2> HIDE DEF most
  <2>3. /\ ~(T.tbl.buckets[b].count >= most)
        /\ Full(U, b) <=> U.tbl.buckets[b].count >= most
    BY <1>1, <2>2 DEF Full, most
  <2> QED BY <2>1, <2>3 DEF Roomy, CountsBelow
<1> QED BY <1>1 DEF Roomy, SameRoom

\* The bucket that gets a new item, and the one that loses one.
LEMMA BucketRoom ==
  ASSUME NEW T, Shape(T), NEW b \in 0..T.tbl.num_buckets - 1, NEW n, NEW h
  PROVE  LET U == SetBucket(T, b, n, h)
         IN  /\ SameRoom(T, U) /\ U.tbl.buckets[b].count = n
             /\ \A d \in 0..T.tbl.num_buckets - 1 : d # b => U.tbl.buckets[d] = T.tbl.buckets[d]
<1> DEFINE U == SetBucket(T, b, n, h)
<1> DEFINE B == [T.tbl.buckets EXCEPT ![b].count = n, ![b].hh_head = h]
<1>1. /\ DOMAIN T = {"head", "tbl", "hh"}
      /\ DOMAIN T.tbl =
           {"tail", "num_buckets", "num_items", "ineff_expands", "noexpand", "buckets"}
      /\ DOMAIN T.tbl.buckets = 0..T.tbl.num_buckets - 1
      /\ DOMAIN T.tbl.buckets[b] = {"hh_head", "count", "expand_mult"}
  BY DEF Shape, Handles
<1>2. U.tbl = [T.tbl EXCEPT !.buckets = B]
  BY <1>1 DEF SetBucket
<1> HIDE DEF U
<1>3. /\ B[b].count = n /\ B[b].expand_mult = T.tbl.buckets[b].expand_mult
      /\ \A d \in 0..T.tbl.num_buckets - 1 : d # b => B[d] = T.tbl.buckets[d]
  BY <1>1
<1> HIDE DEF B
<1>4. /\ U.tbl.num_buckets = T.tbl.num_buckets /\ U.tbl.noexpand = T.tbl.noexpand
      /\ U.tbl.buckets = B
  BY <1>1, <1>2
<1> QED BY <1>3, <1>4 DEF SameRoom, U

LEMMA InsertTbl ==
  ASSUME NEW T, Shape(T), NEW e \in Elements, NEW b, b = ToBucket(T.hh[e].hashv, T.tbl.num_buckets)
  PROVE  Insert(T, e).tbl = SetBucket(T, b, T.tbl.buckets[b].count + 1, e).tbl
<1> DEFINE Put(k, y) == [T EXCEPT !.tbl.buckets[k].count = @ + 1, !.tbl.buckets[k].hh_head = e,
                                  !.hh[e].hh_next = y, !.hh[e].hh_prev = NULL]
           home == ToBucket(T.hh[e].hashv, T.tbl.num_buckets)
           old == T.tbl.buckets[home].hh_head
           V == Put(home, old)
<1>1. Insert(T, e) = IF old = NULL THEN V ELSE [V EXCEPT !.hh[old].hh_prev = e]
  BY Zenon DEF Insert
<1>2. DOMAIN T = {"head", "tbl", "hh"}
  BY DEF Shape, Handles
<1>3. /\ DOMAIN V = {"head", "tbl", "hh"}
      /\ V.tbl = [T.tbl EXCEPT !.buckets[home].count = @ + 1, !.buckets[home].hh_head = e]
  BY <1>2
<1>4. V.tbl = SetBucket(T, b, T.tbl.buckets[b].count + 1, e).tbl
  BY <1>2, <1>3 DEF SetBucket
<1> HIDE DEF V
<1>5. [V EXCEPT !.hh[old].hh_prev = e].tbl = V.tbl
  BY <1>3
<1> QED BY <1>1, <1>4, <1>5

LEMMA DelInBucketTbl ==
  ASSUME NEW T, Shape(T), NEW e \in Elements, NEW b, b = ToBucket(T.hh[e].hashv, T.tbl.num_buckets)
  PROVE  \E h : DelInBucket(T, e).tbl = SetBucket(T, b, T.tbl.buckets[b].count - 1, h).tbl
<1> DEFINE p == T.hh[e].hh_prev
           x == T.hh[e].hh_next
           home == ToBucket(T.hh[e].hashv, T.tbl.num_buckets)
           h == IF T.tbl.buckets[home].hh_head = e THEN x ELSE T.tbl.buckets[home].hh_head
           V == [T EXCEPT !.tbl.buckets[home].count = @ - 1,
                          !.tbl.buckets[home].hh_head = IF @ = e THEN x ELSE @]
           A == IF p = NULL THEN V ELSE [V EXCEPT !.hh[p].hh_next = x]
<1>1. DelInBucket(T, e) = IF x = NULL THEN A ELSE [A EXCEPT !.hh[x].hh_prev = p]
  BY Zenon DEF DelInBucket
<1>2. /\ DOMAIN T = {"head", "tbl", "hh"}
      /\ DOMAIN T.tbl =
           {"tail", "num_buckets", "num_items", "ineff_expands", "noexpand", "buckets"}
  BY DEF Shape, Handles
<1>3. /\ DOMAIN V = {"head", "tbl", "hh"}
      /\ V.tbl = SetBucket(T, home, T.tbl.buckets[home].count - 1, h).tbl
  BY <1>2 DEF SetBucket
<1> HIDE DEF V, h
<1>4. DOMAIN A = {"head", "tbl", "hh"} /\ A.tbl = V.tbl
  BY <1>3
<1> HIDE DEF A
<1>5. [A EXCEPT !.hh[x].hh_prev = p].tbl = A.tbl
  BY <1>4
<1>6. DelInBucket(T, e).tbl = V.tbl
  BY <1>1, <1>4, <1>5
<1>7. home = b
  OBVIOUS
<1> HIDE DEF p, x, home
<1> QED BY <1>3, <1>6, <1>7

\* The other macros leave the buckets alone.
LEMMA TailRoom ==
  ASSUME NEW T, Shape(T), NEW v, NEW U, U.tbl = SetTail(T, v).tbl
  PROVE  SameRoom(T, U) /\ U.tbl.buckets = T.tbl.buckets
<1>1. /\ DOMAIN T = {"head", "tbl", "hh"}
      /\ DOMAIN T.tbl =
           {"tail", "num_buckets", "num_items", "ineff_expands", "noexpand", "buckets"}
  BY DEF Shape, Handles
<1>2. U.tbl = [T.tbl EXCEPT !.tail = v]
  BY <1>1 DEF SetTail
<1>3. /\ U.tbl.num_buckets = T.tbl.num_buckets /\ U.tbl.noexpand = T.tbl.noexpand
      /\ U.tbl.buckets = T.tbl.buckets
  BY <1>1, <1>2
<1> QED BY <1>3 DEF SameRoom

LEMMA ItemsRoom ==
  ASSUME NEW T, Shape(T), NEW n
  PROVE  SameRoom(T, SetItems(T, n)) /\ SetItems(T, n).tbl.buckets = T.tbl.buckets
<1> DEFINE U == SetItems(T, n)
<1>1. /\ DOMAIN T = {"head", "tbl", "hh"}
      /\ DOMAIN T.tbl =
           {"tail", "num_buckets", "num_items", "ineff_expands", "noexpand", "buckets"}
  BY DEF Shape, Handles
<1>2. U.tbl = [T.tbl EXCEPT !.num_items = n]
  BY <1>1 DEF SetItems
<1> HIDE DEF U
<1>3. /\ U.tbl.num_buckets = T.tbl.num_buckets /\ U.tbl.noexpand = T.tbl.noexpand
      /\ U.tbl.buckets = T.tbl.buckets
  BY <1>1, <1>2
<1> QED BY <1>3 DEF SameRoom, U

LEMMA AppendListTbl ==
  ASSUME NEW T, Shape(T), NEW e
  PROVE  AppendList(T, e).tbl = SetTail(T, e).tbl
<1>1. DOMAIN T = {"head", "tbl", "hh"}
  BY DEF Shape, Handles
<1> QED BY <1>1 DEF AppendList, SetTail

LEMMA UnlistTbl ==
  ASSUME NEW T, Shape(T), NEW e, NEW p, NEW x
  PROVE  \E v : Unlist(T, e, p, x).tbl = SetTail(T, v).tbl
<1> DEFINE v == IF T.tbl.tail = e THEN p ELSE T.tbl.tail
           tailed == SetTail(T, v)
           ahead == IF p = NULL THEN SetHead(tailed, x) ELSE SetNext(tailed, p, x)
<1>1. Unlist(T, e, p, x) = IF x = NULL THEN ahead ELSE SetPrev(ahead, x, p)
  BY Zenon DEF Unlist, SetTail, SetHead, SetNext, SetPrev
<1>2. DOMAIN tailed = {"head", "tbl", "hh"}
  BY DEF Shape, Handles, SetTail
<1> HIDE DEF tailed
<1>3. DOMAIN ahead = {"head", "tbl", "hh"} /\ ahead.tbl = tailed.tbl
  BY <1>2 DEF SetHead, SetNext
<1> HIDE DEF ahead
<1>4. SetPrev(ahead, x, p).tbl = ahead.tbl
  BY <1>3 DEF SetPrev
<1> QED BY <1>1, <1>3, <1>4 DEF tailed

\* expand_mult exists, as Turns does, and leaves room for the items of its bucket
\* unless the ideal length is the threshold or more.
AreMults(f, ideal, n) ==
  f = [i \in 0..n |-> IF i <= ideal THEN 0
                      ELSE f[i - 1] + (IF i > f[i - 1] * ideal THEN 1 ELSE 0)]
LEMMA MultsExist ==
  ASSUME NEW ideal \in Nat, NEW n \in Nat
  PROVE  \E f : AreMults(f, ideal, n)
<1> DEFINE some == {i \in Nat : \E f : AreMults(f, ideal, i)}
<1>1. 0 \in some
  <2>1. AreMults([i \in 0..0 |-> 0], ideal, 0)
    BY DEF AreMults
  <2> QED BY <2>1
<1>2. ASSUME NEW i \in 0..n - 1, i \in some PROVE i + 1 \in some
  <2>1. PICK f : AreMults(f, ideal, i)
    BY <1>2
  <2> DEFINE one(j, m) == IF j <= ideal THEN 0 ELSE m + (IF j > m * ideal THEN 1 ELSE 0)
             g == [j \in 0..i + 1 |-> IF j = i + 1 THEN one(j, f[i]) ELSE f[j]]
  <2>2. f = [j \in 0..i |-> one(j, f[j - 1])]
    BY <2>1 DEF AreMults
  <2>3. ASSUME NEW j \in 0..i + 1 PROVE g[j] = one(j, g[j - 1])
    <3> HIDE DEF one
    <3>1. CASE j = i + 1
      BY <3>1
    <3>2. CASE j # i + 1 /\ j # 0
      <4>1. j \in 0..i /\ j - 1 \in 0..i + 1 /\ j - 1 # i + 1
        BY <3>2
      <4>2. f[j] = one(j, f[j - 1])
        BY <2>2, <4>1
      <4> QED BY <4>1, <4>2
    <3>3. CASE j = 0
      <4>1. g[0] = f[0] /\ f[0] = one(0, f[0 - 1])
        BY <2>2
      <4> QED BY <3>3, <4>1 DEF one
    <3> QED BY <3>1, <3>2, <3>3
  <2>4. g = [j \in 0..i + 1 |-> one(j, g[j - 1])]
    <3> HIDE DEF one
    <3> QED BY <2>3
  <2>5. AreMults(g, ideal, i + 1)
    <3> HIDE DEF g
    <3> QED BY <2>4, Zenon DEF AreMults
  <2> QED BY <2>5
<1> HIDE DEF some
<1>3. \A i \in 0..n : i \in some
  BY <1>1, <1>2, Induction
<1> QED BY <1>3 DEF some

LEMMA MultSuffices ==
  ASSUME NEW ideal \in Nat, ideal < Threshold, NEW n \in Nat
  PROVE  ExpandMult(n, ideal) \in Nat /\ n < (ExpandMult(n, ideal) + 1) * Threshold
<1> DEFINE f == CHOOSE f : AreMults(f, ideal, n)
<1>1. AreMults(f, ideal, n)
  BY MultsExist
<1>2. ExpandMult(n, ideal) = f[n]
  BY Zenon DEF ExpandMult, AreMults
<1> HIDE DEF f
<1> DEFINE right == {i \in 0..n : f[i] \in Nat /\ i < (f[i] + 1) * Threshold}
<1>3. \A i \in 0..n : f[i] = IF i <= ideal THEN 0
                            ELSE f[i - 1] + (IF i > f[i - 1] * ideal THEN 1 ELSE 0)
  BY <1>1 DEF AreMults
<1>4. Threshold \in Nat \ {0}
  BY UthashAssumption
<1>5. 0 \in right
  BY <1>3, <1>4
<1>6. ASSUME NEW i \in 0..n - 1, i \in right PROVE i + 1 \in right
  <2> DEFINE m == f[i]
  <2>1. m \in Nat /\ i < (m + 1) * Threshold /\ i + 1 \in 0..n /\ i + 1 \in Nat
    BY <1>6
  <2>2. f[i + 1] = IF i + 1 <= ideal THEN 0
                   ELSE m + (IF i + 1 > m * ideal THEN 1 ELSE 0)
    BY <1>3, <2>1
  <2> HIDE DEF m
  <2>3. CASE i + 1 <= ideal
    BY <1>4, <2>1, <2>2, <2>3
  <2>4. CASE ~(i + 1 <= ideal) /\ i + 1 > m * ideal
    <3>1. f[i + 1] = m + 1
      BY <2>2, <2>4
    <3>2. (m + 1 + 1) * Threshold = (m + 1) * Threshold + Threshold
      BY <1>4, <2>1, Z3
    <3>3. (m + 1) * Threshold \in Nat
      BY <1>4, <2>1
    <3> QED BY <1>4, <2>1, <3>1, <3>2, <3>3
  <2>5. CASE ~(i + 1 <= ideal) /\ ~(i + 1 > m * ideal)
    <3>1. f[i + 1] = m
      BY <2>1, <2>2, <2>5
    <3>2. m * ideal <= m * Threshold /\ (m + 1) * Threshold = m * Threshold + Threshold
      BY <1>4, <2>1, Z3
    <3>3. m * ideal \in Nat /\ m * Threshold \in Nat
      BY <1>4, <2>1
    <3> QED BY <1>4, <2>1, <2>5, <3>1, <3>2, <3>3
  <2> QED BY <2>3, <2>4, <2>5
<1> HIDE DEF right
<1>7. \A i \in 0..n : i \in right
  BY <1>5, <1>6, Induction
<1> QED BY <1>2, <1>7 DEF right

\* Twice the buckets, each with room. Few is what keeps the ideal length of a chain below
\* the threshold.
Few == Cardinality(Elements) <= 2 * InitialBuckets * (Threshold - 1)
LEMMA IdealLow ==
  ASSUME Few, NEW T, T.tbl.num_buckets \in Nat \ {0}, T.tbl.num_buckets >= InitialBuckets,
         T.tbl.num_items \in Nat, T.tbl.num_items <= Cardinality(Elements)
  PROVE  Ideal(T) \in Nat /\ Ideal(T) < Threshold
<1> DEFINE n == 2 * T.tbl.num_buckets
           items == T.tbl.num_items
           t == Threshold - 1
<1>1. n \in Nat \ {0} /\ items \in Nat /\ t \in Nat /\ InitialBuckets \in Nat
  BY UthashAssumption
<1>2. items <= n * t
  <2>1. items <= 2 * InitialBuckets * t /\ 2 * InitialBuckets <= n
    BY <1>1, SizeType DEF Few, Size
  <2> HIDE DEF n, items, t
  <2>2. 2 * InitialBuckets * t <= n * t
    BY <1>1, <2>1, Z3
  <2>3. 2 * InitialBuckets * t \in Nat /\ n * t \in Nat
    BY <1>1
  <2> QED BY <1>1, <2>1, <2>2, <2>3
<1>3. Ideal(T) = (items \div n) + (IF items % n # 0 THEN 1 ELSE 0)
  BY DEF Ideal
<1> HIDE DEF n, items
<1> DEFINE q == items \div n
           s == items % n
<1>4. n * (items \div n) + (items % n) = items
  BY <1>1, Z3
<1>5. q \in Nat /\ s \in 0..n - 1 /\ n * q + s = items
  <2>1. q \in Nat /\ s \in 0..n - 1
    BY <1>1
  <2> QED BY <1>4, <2>1, Zenon
<1> HIDE DEF q, s, t
<1>6. q + (IF s # 0 THEN 1 ELSE 0) <= t
  <2>1. ASSUME q >= t + 1 PROVE FALSE
    <3>1. n * q >= n * t + n
      <4>1. n * q >= n * (t + 1) /\ n * (t + 1) = n * t + n
        BY <1>1, <1>5, <2>1, Z3
      <4> QED BY <4>1
    <3>2. n * q \in Nat /\ n * t \in Nat
      BY <1>1, <1>5
    <3> QED BY <1>1, <1>2, <1>5, <3>1, <3>2
  <2>2. ASSUME q = t PROVE s = 0
    <3>1. n * q = n * t
      BY <2>2
    <3>2. n * t \in Nat
      BY <1>1
    <3> QED BY <1>1, <1>2, <1>5, <3>1, <3>2
  <2> QED BY <1>1, <1>5, <2>1, <2>2
<1>7. Ideal(T) = q + (IF s # 0 THEN 1 ELSE 0)
  BY <1>3 DEF q, s
<1> QED BY <1>1, <1>5, <1>6, <1>7, UthashAssumption DEF t

LEMMA ExpandRoom ==
  ASSUME Few, NEW T, Shape(T), T.tbl.num_buckets >= InitialBuckets,
         T.tbl.num_items \in Nat, T.tbl.num_items <= Cardinality(Elements),
         \A b \in 0..2 * T.tbl.num_buckets - 1 : Expand(T).tbl.buckets[b].count \in Nat
  PROVE  Roomy(Expand(T))
<1> DEFINE U == Expand(T)
           n == 2 * T.tbl.num_buckets
<1>1. Expanded(T, U)
  BY ExpandFields
<1> HIDE DEF U
<1>2. U.tbl.num_buckets = n /\ U.tbl.buckets = [b \in 0..n - 1 |-> Received(T, b)]
  BY <1>1 DEF Expanded
<1>3. T.tbl.num_buckets \in Nat \ {0} /\ n \in Nat /\ InitialBuckets \in Nat
  BY UthashAssumption DEF Shape
<1>4. Ideal(T) \in Nat /\ Ideal(T) < Threshold
  BY <1>3, IdealLow
<1>5. ASSUME NEW b \in 0..n - 1
      PROVE  /\ U.tbl.buckets[b].count \in Nat /\ U.tbl.buckets[b].expand_mult \in Nat
             /\ ~Full(U, b)
  <2> DEFINE c == Cardinality(Arrivals(T, b))
             h == Received(T, b).hh_head
             m == ExpandMult(c, Ideal(T))
  <2>1. Received(T, b).count = c /\ Received(T, b).expand_mult = m
    BY DEF Received
  <2>2. U.tbl.buckets[b] = Received(T, b)
    BY <1>2
  <2>3. U.tbl.buckets[b].count \in Nat
    BY DEF U
  <2> HIDE DEF n, m, c
  <2>4. c \in Nat
    BY <2>1, <2>2, <2>3
  <2>5. m \in Nat /\ c < (m + 1) * Threshold
    BY <1>4, <2>4, MultSuffices DEF m
  <2>6. (m + 1) * Threshold \in Nat
    BY <2>5, UthashAssumption
  <2>7. Full(U, b) <=> c >= (m + 1) * Threshold
    BY <2>1, <2>2 DEF Full
  <2> QED BY <2>1, <2>2, <2>4, <2>5, <2>6, <2>7
<1>6. U.tbl.num_buckets >= InitialBuckets
  BY <1>2, <1>3
<1> HIDE DEF n
<1> QED BY <1>2, <1>5, <1>6 DEF Roomy, U

\* HASH_ADD_TO_BKT leaves no bucket full: the one it has filled makes the table grow.
LEMMA AddToBucketRoom ==
  ASSUME Few, NEW T, Shape(T), Roomy(T), NEW S \in SUBSET Elements, NEW e \in Elements \ S,
         Hashed(T, S \cup {e}), NEW c \in Numbers, ChainsHold(T, S, c),
         T.tbl.num_items \in Nat, T.tbl.num_items <= Cardinality(Elements)
  PROVE  Roomy(AddToBucket(T, e))
<1> DEFINE b == ToBucket(T.hh[e].hashv, T.tbl.num_buckets)
           V == Insert(T, e)
           U == AddToBucket(T, e)
           n == T.tbl.num_buckets
<1>1. U = IF Full(V, b) /\ ~V.tbl.noexpand THEN Expand(V) ELSE V
  BY Zenon DEF AddToBucket
<1>2. Shape(V) /\ SameHead(T, V)
  BY InsertHolds DEF Hashed
<1>3. b \in 0..n - 1
  BY BucketOf DEF Hashed
<1>4. V.tbl = SetBucket(T, b, T.tbl.buckets[b].count + 1, e).tbl
  BY InsertTbl
<1>5. /\ SameRoom(T, V) /\ V.tbl.buckets[b].count = T.tbl.buckets[b].count + 1
      /\ \A d \in 0..n - 1 : d # b => V.tbl.buckets[d] = T.tbl.buckets[d]
  <2> DEFINE k == T.tbl.buckets[b].count + 1
  <2>1. V.tbl = SetBucket(T, b, k, e).tbl
    BY <1>4
  <2> HIDE DEF V, b, k
  <2>2. /\ SameRoom(T, V) /\ V.tbl.buckets[b].count = k
        /\ \A d \in 0..n - 1 : d # b => V.tbl.buckets[d] = T.tbl.buckets[d]
    <3>1. b \in 0..T.tbl.num_buckets - 1
      BY <1>3
    <3> HIDE DEF n
    <3>2. /\ SameRoom(T, V) /\ V.tbl.buckets[b].count = k
          /\ \A d \in 0..T.tbl.num_buckets - 1 : d # b => V.tbl.buckets[d] = T.tbl.buckets[d]
      <4> DEFINE W == SetBucket(T, b, k, e)
      <4>1. /\ SameRoom(T, W) /\ W.tbl.buckets[b].count = k
            /\ \A d \in 0..T.tbl.num_buckets - 1 : d # b => W.tbl.buckets[d] = T.tbl.buckets[d]
        BY <3>1, BucketRoom
      <4> HIDE DEF W
      <4> QED BY <2>1, <4>1 DEF SameRoom, W
    <3> QED BY <3>2 DEF n
  <2> QED BY <2>2 DEF k
<1>6. \E k \in Numbers : ChainsHold(U, S \cup {e}, k)
  BY AddToBucketHolds
<1> HIDE DEF b, U, V
<1>7. CASE Full(V, b) /\ ~V.tbl.noexpand
  <2>1. U = Expand(V)
    BY <1>1, <1>7
  <2>2. /\ V.tbl.num_buckets = n /\ V.tbl.num_buckets >= InitialBuckets
        /\ V.tbl.num_items = T.tbl.num_items
    BY <1>2, <1>5 DEF SameRoom, SameHead, Roomy
  <2>3. \A d \in 0..2 * V.tbl.num_buckets - 1 : U.tbl.buckets[d].count \in Nat
    <3>1. U.tbl.num_buckets = 2 * V.tbl.num_buckets
      BY <1>2, <2>1, ExpandFields DEF Expanded
    <3>2. PICK k \in Numbers : ChainsHold(U, S \cup {e}, k)
      BY <1>6
    <3>3. \A d \in 0..U.tbl.num_buckets - 1 :
            U.tbl.buckets[d].count = Cardinality(InBucket(U, S \cup {e}, d))
      BY <3>2 DEF ChainsHold
    <3>4. \A d : Cardinality(InBucket(U, S \cup {e}, d)) \in Nat
      BY BucketFinite
    <3> QED BY <3>1, <3>3, <3>4
  <2> QED BY <1>2, <2>1, <2>2, <2>3, ExpandRoom DEF U
<1>8. CASE ~(Full(V, b) /\ ~V.tbl.noexpand)
  <2>1. U = V
    BY <1>1, <1>8
  <2>2. /\ V.tbl.num_buckets = n /\ n >= InitialBuckets
        /\ \A d \in 0..n - 1 : /\ V.tbl.buckets[d].count \in Nat
                               /\ V.tbl.buckets[d].expand_mult \in Nat
    BY <1>5 DEF SameRoom, Roomy
  <2>3. \A d \in 0..n - 1 : d # b => (Full(V, d) <=> Full(T, d))
    BY <1>5 DEF Full
  <2>4. V.tbl.noexpand \/ \A d \in 0..n - 1 : ~Full(V, d)
    BY <1>5, <1>8, <2>3 DEF SameRoom, Roomy
  <2> QED BY <2>1, <2>2, <2>4 DEF Roomy, U
<1> QED BY <1>7, <1>8

\* The counts of a table that is right are numbers.
LEMMA CountsNatural ==
  ASSUME NEW T, NEW S \in SUBSET Elements, Good(T, S), T.head # NULL
  PROVE  /\ Shape(T) /\ Hashed(T, S)
         /\ \A b \in 0..T.tbl.num_buckets - 1 : T.tbl.buckets[b].count \in Nat
<1>1. Holds(T, S)
  BY DEF Good
<1>2. PICK c \in Numbers : ChainsHold(T, S, c)
  BY <1>1 DEF Holds
<1>3. \A b : Cardinality(InBucket(T, S, b)) \in Nat
  BY BucketFinite
<1> QED BY <1>1, <1>2, <1>3 DEF Holds, ChainsHold

LEMMA AddRoom ==
  ASSUME Few, NEW T, NEW S \in SUBSET Elements, Good(T, S), T.head # NULL => Roomy(T),
         NEW e \in Elements \ S, NEW k \in Keys
  PROVE  Roomy(Add(T, e, k))
<1> DEFINE K == SetKey(T, e, k)
           V == IF T.head = NULL THEN First(K, e) ELSE AppendList(K, e)
           W == SetItems(V, V.tbl.num_items + 1)
<1>1. Add(T, e, k) = AddToBucket(W, e)
  BY Zenon DEF Add, SetKey, First, SetItems
<1>2. Handles(T) /\ KeyBecomes(T, K, e, k)
  BY KeySet DEF Good
<1> HIDE DEF K
<1>3. Queued(T, W, S, e, k) /\ Roomy(W)
  <2>1. CASE T.head = NULL
    <3>1. S = {} /\ V = First(K, e) /\ Handles(K)
      BY <1>2, <2>1 DEF Good, KeyBecomes
    <3>2. Shape(V) /\ V.tbl = MakeTable(e)
      BY <3>1, FirstFields
    <3> HIDE DEF V
    <3>3. W = SetItems(First(SetKey(T, e, k), e), First(SetKey(T, e, k), e).tbl.num_items + 1)
      BY <3>1 DEF K
    <3>4. SameRoom(V, W) /\ W.tbl.buckets = V.tbl.buckets
      BY <3>2, ItemsRoom
    <3> HIDE DEF W
    <3>5. Queued(T, W, S, e, k)
      BY <1>2, <3>1, <3>3, QueuedFirst
    <3>6. /\ V.tbl.num_buckets = InitialBuckets
          /\ V.tbl.buckets = [b \in 0..InitialBuckets - 1 |-> EmptyBucket]
      BY <3>2 DEF MakeTable
    <3>7. \A b \in 0..InitialBuckets - 1 : W.tbl.buckets[b] = EmptyBucket
      BY <3>4, <3>6
    <3>8. EmptyBucket.count = 0 /\ EmptyBucket.expand_mult = 0
      BY DEF EmptyBucket
    <3>9. ~(0 >= (0 + 1) * Threshold) /\ InitialBuckets \in Nat
      BY UthashAssumption
    <3>10. W.tbl.num_buckets = InitialBuckets
      BY <3>4, <3>6 DEF SameRoom
    <3>11. \A b \in 0..InitialBuckets - 1 : ~Full(W, b)
      BY <3>7, <3>8, <3>9 DEF Full
    <3> QED BY <3>5, <3>7, <3>8, <3>9, <3>10, <3>11 DEF Roomy
  <2>2. CASE T.head # NULL
    <3>1. Holds(T, S) /\ V = AppendList(K, e) /\ Shape(T) /\ Roomy(T)
      BY <2>2 DEF Good, Holds
    <3>2. Shape(K) /\ K.tbl = T.tbl
      BY <1>2, <3>1 DEF KeyBecomes, Shape
    <3>3. V.tbl = SetTail(K, e).tbl
      BY <3>1, <3>2, AppendListTbl
    <3>4. SameRoom(K, V) /\ V.tbl.buckets = K.tbl.buckets
      <4> HIDE DEF V
      <4> QED BY <3>2, <3>3, TailRoom
    <3>5. DOMAIN V = {"head", "tbl", "hh"} /\ DOMAIN V.tbl =
            {"tail", "num_buckets", "num_items", "ineff_expands", "noexpand", "buckets"}
      <4>1. /\ DOMAIN K = {"head", "tbl", "hh"}
            /\ DOMAIN K.tbl =
                 {"tail", "num_buckets", "num_items", "ineff_expands", "noexpand", "buckets"}
        BY <3>2 DEF Shape, Handles
      <4>2. DOMAIN AppendList(K, e) = {"head", "tbl", "hh"}
        BY <4>1 DEF AppendList
      <4>3. DOMAIN SetTail(K, e).tbl = DOMAIN K.tbl
        BY <4>1 DEF SetTail
      <4> QED BY <3>1, <3>3, <4>1, <4>2, <4>3
    <3> HIDE DEF V
    <3>6. W = SetItems(AppendList(SetKey(T, e, k), e),
                       AppendList(SetKey(T, e, k), e).tbl.num_items + 1)
      BY <3>1 DEF K
    <3>7. SameRoom(V, W) /\ W.tbl.buckets = V.tbl.buckets
      <4>1. W.tbl = [V.tbl EXCEPT !.num_items = V.tbl.num_items + 1]
        BY <3>5 DEF SetItems
      <4> HIDE DEF W
      <4>2. /\ W.tbl.num_buckets = V.tbl.num_buckets /\ W.tbl.noexpand = V.tbl.noexpand
            /\ W.tbl.buckets = V.tbl.buckets
        BY <3>5, <4>1
      <4> QED BY <4>2 DEF SameRoom
    <3> HIDE DEF W
    <3>8. Queued(T, W, S, e, k)
      BY <2>2, <3>1, <3>6, QueuedLast
    <3>9. SameRoom(T, W) /\ W.tbl.buckets = T.tbl.buckets
      BY <3>2, <3>4, <3>7 DEF SameRoom
    <3>10. \A b \in 0..T.tbl.num_buckets - 1 :
             /\ W.tbl.buckets[b].count \in Nat
             /\ W.tbl.buckets[b].count <= T.tbl.buckets[b].count
      BY <2>2, <3>9, CountsNatural
    <3> QED BY <3>1, <3>8, <3>9, <3>10, RoomyBelow DEF CountsBelow
  <2> QED BY <2>1, <2>2
<1> HIDE DEF W
<1>4. Shape(W) /\ Hashed(W, S \cup {e})
  <2>1. HashOf[k] \in Nat
    BY UthashAssumption
  <2>2. Hashed(T, S)
    BY DEF Good, Holds, Hashed
  <2> QED BY <1>3, <2>1, <2>2 DEF Queued, KeyIs, KeysBut, Hashed
<1>5. W.tbl.num_items \in Nat /\ W.tbl.num_items <= Cardinality(Elements)
  <2>1. W.tbl.num_items = Cardinality(S \cup {e})
    BY <1>3 DEF Queued, ListHolds
  <2>2. S \cup {e} \in SUBSET Elements
    OBVIOUS
  <2> QED BY <2>1, <2>2, FS_Subset, FS_CardinalityType, UthashAssumption
<1>6. PICK c \in Numbers : ChainsHold(W, S, c)
  BY <1>3 DEF Queued
<1>7. Roomy(AddToBucket(W, e))
  BY <1>3, <1>4, <1>5, <1>6, AddToBucketRoom
<1> QED BY <1>1, <1>7

LEMMA DeleteRoom ==
  ASSUME NEW T, NEW S \in SUBSET Elements, Good(T, S), T.head # NULL, Roomy(T), NEW e \in S
  PROVE  Delete(T, e).head # NULL => Roomy(Delete(T, e))
<1> DEFINE p == T.hh[e].prev
           x == T.hh[e].next
           V == Unlist(T, e, p, x)
           D == DelInBucket(V, e)
           U == Delete(T, e)
           W == SetItems(D, D.tbl.num_items - 1)
           none == [T EXCEPT !.head = NULL, !.tbl = NoTable]
<1>1. Holds(T, S) /\ Shape(T) /\ Hashed(T, S) /\ e \in Elements
  BY DEF Good, Holds
<1>2. U = IF p = NULL /\ x = NULL THEN none ELSE W
  BY Zenon DEF Delete, Unlist, SetItems
<1>3. PICK r \in Numbers : ListHolds(T, S, r)
  BY <1>1 DEF Holds
<1>4. Good(U, S \ {e})
  BY DeleteHolds DEF Deleted
<1>5. none.head = NULL
  BY <1>1 DEF Shape, Handles
<1> HIDE DEF none
<1>6. ASSUME U.head # NULL PROVE Roomy(U)
  <2>1. U = W /\ ~(p = NULL /\ x = NULL)
    BY <1>2, <1>5, <1>6
  <2>2. Shape(V) /\ SameKeys(T, V) /\ SameBuckets(T, V) /\ SameChains(T, V)
    <3>1. Listing(T, S, r) /\ T.hh[e].prev = p /\ T.hh[e].next = x
      BY <1>3 DEF ListHolds, Listing
    <3> HIDE DEF p, x
    <3> QED BY <1>1, <2>1, <3>1, UnlistHolds
  <2>3. SameRoom(T, V) /\ V.tbl.buckets = T.tbl.buckets
    <3>1. PICK v : V.tbl = SetTail(T, v).tbl
      BY <1>1, UnlistTbl
    <3> HIDE DEF V
    <3> QED BY <1>1, <3>1, TailRoom
  <2> HIDE DEF V, p, x
  <2> DEFINE b == ToBucket(V.hh[e].hashv, V.tbl.num_buckets)
             n == V.tbl.num_buckets
  <2>4. b \in 0..n - 1 /\ V.hh[e].hashv \in Nat
    <3>1. V.hh[e].hashv \in Nat
      BY <1>1, <2>2 DEF Hashed, SameKeys
    <3> QED BY <2>2, <3>1, BucketOf
  <2>5. PICK h : D.tbl = SetBucket(V, b, V.tbl.buckets[b].count - 1, h).tbl
    BY <1>1, <2>2, DelInBucketTbl
  <2> HIDE DEF b
  <2>6. /\ SameRoom(V, D) /\ D.tbl.buckets[b].count = V.tbl.buckets[b].count - 1
        /\ \A d \in 0..n - 1 : d # b => D.tbl.buckets[d] = V.tbl.buckets[d]
    <3> DEFINE k == V.tbl.buckets[b].count - 1
               B == SetBucket(V, b, k, h)
    <3>1. D.tbl = B.tbl
      BY <2>5
    <3> HIDE DEF k, D
    <3>2. /\ SameRoom(V, B) /\ B.tbl.buckets[b].count = k
          /\ \A d \in 0..n - 1 : d # b => B.tbl.buckets[d] = V.tbl.buckets[d]
      BY <2>2, <2>4, BucketRoom
    <3> HIDE DEF B
    <3> QED BY <3>1, <3>2 DEF SameRoom, k
  <2>7. SameRoom(D, W) /\ W.tbl.buckets = D.tbl.buckets
    <3>1. DOMAIN D = {"head", "tbl", "hh"} /\ DOMAIN D.tbl =
            {"tail", "num_buckets", "num_items", "ineff_expands", "noexpand", "buckets"}
      <4>1. PICK c \in Numbers : ChainsHold(T, S, c)
        BY <1>1 DEF Holds
      <4>2. Shape(D)
        <5>1. ChainsHold(V, S, c)
          BY <2>2, <4>1, ChainsKept
        <5> QED BY <2>2, <2>4, <5>1, DelInBucketHolds
      <4> QED BY <4>2 DEF Shape, Handles
    <3> HIDE DEF D
    <3>2. W.tbl = [D.tbl EXCEPT !.num_items = D.tbl.num_items - 1]
      BY <3>1 DEF SetItems
    <3> HIDE DEF W
    <3>3. /\ W.tbl.num_buckets = D.tbl.num_buckets /\ W.tbl.noexpand = D.tbl.noexpand
          /\ W.tbl.buckets = D.tbl.buckets
      BY <3>1, <3>2
    <3> QED BY <3>3 DEF SameRoom
  <2> HIDE DEF D, W
  <2>8. SameRoom(T, W) /\ n = T.tbl.num_buckets /\ W.tbl.num_buckets = n
    BY <2>3, <2>6, <2>7 DEF SameRoom
  <2>9. \A d \in 0..T.tbl.num_buckets - 1 :
          W.tbl.buckets[d].count \in Nat /\ T.tbl.buckets[d].count \in Nat
    <3>1. S \ {e} \in SUBSET Elements /\ W.head # NULL /\ Good(W, S \ {e})
      BY <1>4, <1>6, <2>1
    <3> QED BY <2>8, <3>1, CountsNatural
  <2>10. CountsBelow(T, W)
    <3>1. ASSUME NEW d \in 0..T.tbl.num_buckets - 1
          PROVE  W.tbl.buckets[d].count <= T.tbl.buckets[d].count
      <4>1. CASE d = b
        BY <2>3, <2>6, <2>7, <2>9, <4>1
      <4>2. CASE d # b
        BY <2>3, <2>6, <2>7, <2>8, <2>9, <4>2
      <4> QED BY <4>1, <4>2
    <3> QED BY <3>1 DEF CountsBelow
  <2>11. Roomy(W)
    BY <2>8, <2>9, <2>10, RoomyBelow
  <2> QED BY <2>1, <2>11
<1> QED BY <1>6

\* A handle that is zeroed is none of the table's room.
LEMMA ZeroRoom ==
  ASSUME NEW T, Handles(T), NEW e
  PROVE  Zeroed(T, e).head = T.head /\ Zeroed(T, e).tbl = T.tbl
BY DEF Handles, Zeroed

\* With a table at all, there is room in it.
RoomInv == table.head # NULL => Roomy(table)
LEMMA RoomStep ==
  ASSUME Habits = {}, Few, TableInv, RoomInv, [Next]_vars
  PROVE  RoomInv'
<1>1. Listed \in SUBSET Elements /\ TableOK(table, Listed) /\ Good(table, Listed)
  BY ListedFrom DEF TableInv, TableOK
<1>2. ASSUME NEW u \in Elements, NEW n \in Keys, AddsNick(u, n) PROVE RoomInv'
  <2>1. u \in Elements \ Listed /\ table' = Add(table, u, n)
    BY <1>2 DEF AddsNick
  <2>2. Roomy(table')
    BY <1>1, <2>1, AddRoom DEF RoomInv
  <2> QED BY <2>2 DEF RoomInv
<1>3. ASSUME NEW u \in Elements, Good(table, Listed), u \in Listed
      PROVE  LET D == Delete(table, u)
             IN  TableOK(D, Listed \ {u}) /\ (D.head # NULL => Roomy(D))
  <2>1. table.head # NULL /\ TableOK(Delete(table, u), Listed \ {u})
    BY <1>1, <1>3, DeleteKeeps
  <2> QED BY <1>1, <1>3, <2>1, DeleteRoom DEF RoomInv
<1>4. ASSUME NEW u \in Elements, NEW n \in Keys, RekeysNick(u, n) PROVE RoomInv'
  <2> DEFINE D == Delete(table, u)
             R == Listed \ {u}
  <2>1. u \in Listed /\ table' = Add(D, u, n)
    BY <1>4 DEF RekeysNick, Rekey
  <2>2. TableOK(D, R) /\ (D.head # NULL => Roomy(D))
    BY <1>1, <1>3, <2>1
  <2> HIDE DEF D
  <2>3. Good(D, R) /\ R \in SUBSET Elements /\ u \in Elements \ R
    BY <1>1, <2>2 DEF TableOK
  <2> HIDE DEF R
  <2>4. Roomy(table')
    BY <2>1, <2>2, <2>3, AddRoom
  <2> QED BY <2>4 DEF RoomInv
<1>5. ASSUME NEW u \in Elements, DropsUser(u) PROVE RoomInv'
  <2> DEFINE D == Delete(table, u)
  <2>1. u \in Listed /\ table' = Zeroed(D, u)
    BY <1>5 DEF DropsUser
  <2>2. TableOK(D, Listed \ {u}) /\ (D.head # NULL => Roomy(D))
    BY <1>1, <1>3, <2>1
  <2> HIDE DEF D
  <2>3. table'.head = D.head /\ table'.tbl = D.tbl
    BY <2>1, <2>2, ZeroRoom DEF TableOK, Good
  <2> QED BY <2>2, <2>3 DEF RoomInv, Roomy, Full
<1>6. CASE LeavesTable
  BY <1>6 DEF LeavesTable, RoomInv
<1> QED BY <1>2, <1>4, <1>5, <1>6, Steps

\* Which is what ChainsWellFormed says of the chains' lengths.
LEMMA ShortRight == TableInv /\ RoomInv => ChainsWellFormed
<1> SUFFICES ASSUME TableInv, RoomInv, NEW b \in DOMAIN table.tbl.buckets
             PROVE  table.tbl.noexpand \/ ~Full(table, b)
  BY ChainsRight DEF ChainsWellFormed
<1>1. Good(table, Listed)
  BY DEF TableInv, TableOK
<1>2. table.head # NULL
  <2>1. ASSUME table.tbl = NoTable PROVE FALSE
    <3>1. table.tbl.buckets = <<>>
      BY <2>1 DEF NoTable
    <3> QED BY <3>1
  <2> QED BY <1>1, <2>1 DEF Good
<1>3. b \in 0..table.tbl.num_buckets - 1
  BY <1>1, <1>2 DEF Good, Holds, Shape
<1> QED BY <1>2, <1>3 DEF RoomInv, Roomy

\* Where expansions help, no chain is left at the length that calls for one, whatever
\* clients that keep to the protocol do in which order: for every hash function, as long
\* as the users are so Few that a chain of a table that has grown is short on average.
THEOREM ChainsAlwaysShort == Habits = {} /\ Few => (Spec => []ChainsWellFormed)
<1> SUFFICES ASSUME Habits = {}, Few PROVE Spec => []ChainsWellFormed
  OBVIOUS
<1>1. Init => RoomInv
  BY DEF Init, RoomInv
<1>2. TableInv /\ RoomInv /\ [Next]_vars => RoomInv'
  BY RoomStep
<1>3. Spec => []TableInv
  BY TableInvariant
<1> QED BY <1>1, <1>2, <1>3, ShortRight, PTL DEF Spec

-------------------------------------------------------------------------------
(* The nickname table of NickRegistry *)

\* Looking up a nickname gives the user whose handle it is the key of.
Owners(T) ==
  \A k \in Keys : /\ Find(T, k) \in Pointer
                  /\ \A x \in Elements : Find(T, k) = x <=> T.hh[x].key = k
LEMMA OwnersRight ==
  ASSUME NEW T, NEW S \in SUBSET Elements, TableOK(T, S),
         \A x \in Elements \ S : T.hh[x].key = NULL
  PROVE  Owners(T)
<1> SUFFICES ASSUME NEW k \in Keys
             PROVE  /\ Find(T, k) \in Pointer
                    /\ \A x \in Elements : Find(T, k) = x <=> T.hh[x].key = k
  BY DEF Owners
<1>1. Finds(T, S, k)
  BY FindFinds
<1>2. \A x \in Elements : T.hh[x].key = k => x \in S
  BY UthashAssumption
<1>3. \A x, y \in S : T.hh[x].key = T.hh[y].key => x = y
  BY DEF TableOK
<1>4. CASE \E x \in S : T.hh[x].key = k
  <2>1. Find(T, k) \in S /\ T.hh[Find(T, k)].key = k
    BY <1>1, <1>4 DEF Finds
  <2> QED BY <1>2, <1>3, <2>1 DEF Pointer
<1>5. CASE ~\E x \in S : T.hh[x].key = k
  <2>1. Find(T, k) = NULL
    BY <1>1, <1>5 DEF Finds
  <2> QED BY <1>2, <1>5, <2>1, UthashAssumption DEF Pointer
<1> QED BY <1>4, <1>5

\* When one handle gets another key, or none, its owner moves and all others stay.
LEMMA OwnerMoves ==
  ASSUME NEW T, NEW U, Owners(T), Owners(U), NEW u \in Elements,
         \A x \in Elements \ {u} : U.hh[x].key = T.hh[x].key, NEW k \in Keys
  PROVE  Find(U, k) = IF U.hh[u].key = k THEN u
                      ELSE IF T.hh[u].key = k THEN NULL ELSE Find(T, k)
<1>1. CASE U.hh[u].key = k
  BY <1>1 DEF Owners
<1>2. CASE U.hh[u].key # k /\ T.hh[u].key = k
  <2>1. ASSUME Find(U, k) \in Elements PROVE FALSE
    <3>1. Find(U, k) # u /\ U.hh[Find(U, k)].key = k
      BY <1>2, <2>1 DEF Owners
    <3>2. T.hh[Find(U, k)].key = k
      BY <2>1, <3>1
    <3> QED BY <1>2, <2>1, <3>1, <3>2 DEF Owners
  <2> QED BY <1>2, <2>1 DEF Owners, Pointer
<1>3. CASE U.hh[u].key # k /\ T.hh[u].key # k
  <2>1. \A x \in Elements : U.hh[x].key = k <=> T.hh[x].key = k
    BY <1>3
  <2>2. \A x \in Elements : Find(U, k) = x <=> Find(T, k) = x
    BY <2>1 DEF Owners
  <2>3. Find(U, k) \in Elements \cup {NULL} /\ Find(T, k) \in Elements \cup {NULL}
    BY DEF Owners, Pointer
  <2> QED BY <1>3, <2>2, <2>3
<1> QED BY <1>1, <1>2, <1>3

\* Every step is one of NickRegistry, by the user it is for, or leaves its owners alone.
owner == [n \in Keys |-> Find(table, n)]
LEMMA RegistryStep ==
  ASSUME Habits = {}, TableInv, [Next]_vars
  PROVE  /\ [Registry!Next]_owner
         /\ \A u \in Elements : Call(u) => Registry!Serves(u)
<1>1. Owners(table)
  BY ListedFrom, OwnersRight DEF TableInv, Nick
<1>2. Owners(table')
  <2>1. TableInv'
    BY TableStep
  <2>2. TableOK(table', Listed') /\ \A x \in Elements \ Listed' : table'.hh[x].key = NULL
    BY <2>1 DEF TableInv, Nick
  <2>3. Listed' \in SUBSET Elements
    BY <2>1 DEF TableInv, Listed
  <2> QED BY <2>2, <2>3, OwnersRight
<1>3. owner' = [k \in Keys |-> Find(table', k)]
  BY DEF owner
<1>4. ASSUME NEW u \in Elements, NEW n \in Keys, AddsNick(u, n) PROVE Registry!Claim(u, n)
  <2>1. table'.hh[u].key = n /\ \A x \in Elements \ {u} : table'.hh[x].key = table.hh[x].key
    BY <1>4, AddsHolds
  <2>2. table.hh[u].key = NULL /\ Find(table, n) = NULL /\ NULL \notin Keys
    BY <1>4, UthashAssumption DEF AddsNick, TableInv, Nick
  <2>3. \A k \in Keys : Find(table', k) = IF k = n THEN u ELSE Find(table, k)
    BY <1>1, <1>2, <2>1, <2>2, OwnerMoves
  <2>4. owner' = [owner EXCEPT ![n] = u]
    BY <1>3, <2>3 DEF owner
  <2>5. {k \in Keys : owner[k] = u} = {}
    BY <1>1, <2>2 DEF owner, Owners
  <2> QED BY <2>2, <2>4, <2>5 DEF Registry!Claim, Registry!HeldBy, owner
<1>5. ASSUME NEW u \in Elements, NEW n \in Keys, RekeysNick(u, n)
      PROVE  \E m \in Keys : Registry!Rename(u, m, n)
  <2>1. table'.hh[u].key = n /\ \A x \in Elements \ {u} : table'.hh[x].key = table.hh[x].key
    BY <1>5, RekeysHolds
  <2>2. PICK m \in Keys : table.hh[u].key = m
    BY <1>5, ListedFrom DEF RekeysNick, Nick
  <2>3. Find(table, n) = NULL /\ Find(table, m) = u /\ m # n
    BY <1>1, <1>5, <2>2, UthashAssumption DEF RekeysNick, Owners
  <2>4. \A k \in Keys : Find(table', k) = IF k = n THEN u
                                         ELSE IF k = m THEN NULL ELSE Find(table, k)
    BY <1>1, <1>2, <2>1, <2>2, OwnerMoves
  <2>5. owner' = [owner EXCEPT ![m] = NULL, ![n] = u]
    BY <1>3, <2>3, <2>4 DEF owner
  <2>6. Registry!Rename(u, m, n)
    BY <2>3, <2>5 DEF Registry!Rename, owner
  <2> QED BY <2>6
<1>6. ASSUME NEW u \in Elements, DropsUser(u) PROVE \E n \in Keys : Registry!Release(u, n)
  <2>1. table'.hh[u].key = NULL /\ \A x \in Elements \ {u} : table'.hh[x].key = table.hh[x].key
    BY <1>6, DropsHolds
  <2>2. PICK n \in Keys : table.hh[u].key = n
    BY <1>6, ListedFrom DEF DropsUser, Nick
  <2>3. Find(table, n) = u
    BY <1>1, <2>2 DEF Owners
  <2>4. ASSUME NEW k \in Keys PROVE Find(table', k) = IF k = n THEN NULL ELSE Find(table, k)
    <3>1. table'.hh[u].key # k /\ (table.hh[u].key = k <=> k = n)
      BY <2>1, <2>2, UthashAssumption
    <3>2. Find(table', k) = IF table'.hh[u].key = k THEN u
                            ELSE IF table.hh[u].key = k THEN NULL ELSE Find(table, k)
      BY <1>1, <1>2, <2>1, OwnerMoves
    <3> QED BY <3>1, <3>2
  <2>5. owner' = [owner EXCEPT ![n] = NULL]
    BY <1>3, <2>4 DEF owner
  <2>6. Registry!Release(u, n)
    BY <2>3, <2>5 DEF Registry!Release, owner
  <2> QED BY <2>6
<1>7. ASSUME LeavesTable PROVE owner' = owner
  BY <1>3, <1>7 DEF LeavesTable, owner
<1>8. ASSUME NEW u \in Elements, Call(u) PROVE Registry!Serves(u)
  BY <1>4, <1>5, <1>6, <1>7, <1>8, CallSteps DEF Registry!Serves, Registry!Call, owner
<1>9. [Registry!Next]_owner
  BY <1>4, <1>5, <1>6, <1>7, Steps DEF Registry!Next, Registry!Call
<1> QED BY <1>8, <1>9

\* The links of user_hash_table implement the nickname table: get_user finds the one user
\* that took the nickname, and nobody is given or loses a nickname by a call for another
\* user.
THEOREM LinksImplementRegistry == Habits = {} => (Spec => RegistrySpec)
<1> SUFFICES ASSUME Habits = {} PROVE Spec => RegistrySpec
  OBVIOUS
<1>1. Init => Registry!Init
  BY DEF Init, Registry!Init, Find
<1>2. TableInv /\ [Next]_vars => [Registry!Next]_owner
  BY RegistryStep
<1>3. TableInv /\ [Next]_vars => [\A u \in Elements : Call(u) => Registry!Serves(u)]_vars
  BY RegistryStep
<1>4. Spec => []TableInv
  BY TableInvariant
<1> QED BY <1>1, <1>2, <1>3, <1>4, PTL DEF Spec, RegistrySpec, Registry!Spec, owner
===============================================================================
