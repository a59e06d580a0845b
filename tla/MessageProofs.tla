----------------------------- MODULE MessageProofs -----------------------------
(***************************************************************************)
(* What Message promises, for every handler table, every length of params  *)
(* and lines of any length.                                                *)
(*                                                                         *)
(* The splitter is a loop over the characters: what it returns is shown by *)
(* induction on the characters read, in the form of the least-number       *)
(* principle (a set of numbers of characters at which the claim fails has  *)
(* no least element, so it is empty).  Its result is stated by cuts: the   *)
(* positions of the separators, between which the elements lie.            *)
(***************************************************************************)
EXTENDS Message, TLAPS, WellFoundedInduction, FiniteSetTheorems

Char == Letters \cup {SP, COLON}
-------------------------------------------------------------------------------
\* The least-number principle, and with it induction, for a set of naturals.
LEMMA LeastNumber ==
  ASSUME NEW S, S \subseteq Nat, S # {}
  PROVE  \E m \in S : \A k \in S : m <= k
<1>1. IsWellFoundedOn(OpToRel(<, Nat), Nat)
  BY NatLessThanWellFounded
<1>2. PICK m \in S : \A k \in S : ~(<<k, m>> \in OpToRel(<, Nat))
  BY <1>1, WFMin
<1>3. OpToRel(<, Nat) = {p \in Nat \X Nat : p[1] < p[2]}
  BY Zenon DEF OpToRel
<1>4. \A k \in S : ~(k < m)
  BY <1>2, <1>3
<1> QED BY <1>4

\* Induction up to n, as a corollary.
LEMMA Induction ==
  ASSUME NEW S, NEW n \in Nat, 0 \in S, \A i \in 0..n - 1 : i \in S => i + 1 \in S
  PROVE  \A i \in 0..n : i \in S
<1> DEFINE missing == {i \in 0..n : i \notin S}
<1>1. SUFFICES ASSUME missing # {} PROVE FALSE
  OBVIOUS
<1>2. PICK m \in missing : \A k \in missing : m <= k
  <2>1. missing \subseteq Nat
    OBVIOUS
  <2> HIDE DEF missing
  <2> QED BY <1>1, <2>1, LeastNumber
<1>3. m # 0 /\ m - 1 \in 0..n - 1 /\ m - 1 \in 0..n
  BY <1>2
<1>4. m - 1 \notin missing
  BY <1>2, <1>3
<1>5. m - 1 \in S /\ m - 1 + 1 = m
  BY <1>3, <1>4
<1> QED BY <1>2, <1>3, <1>5

\* SubSeq by positions.
LEMMA SubSeqAt ==
  ASSUME NEW s \in Seq(Char), NEW a \in Nat, NEW b \in Nat, a <= b, b <= Len(s)
  PROVE  /\ SubSeq(s, a + 1, b) \in Seq(Char) /\ Len(SubSeq(s, a + 1, b)) = b - a
         /\ \A i \in 1..b - a : SubSeq(s, a + 1, b)[i] = s[a + i]
<1>1. SubSeq(s, a + 1, b) = [i \in 1..b - a |-> s[a + i]]
  OBVIOUS
<1> QED BY <1>1

\* Strings of one length that agree at every place are equal.
LEMMA SeqEqual ==
  ASSUME NEW s \in Seq(Char), NEW t \in Seq(Char), Len(s) = Len(t),
         \A i \in 1..Len(s) : s[i] = t[i]
  PROVE  s = t
OBVIOUS

\* A piece of a string and the character behind it.
LEMMA SubSeqGrows ==
  ASSUME NEW s \in Seq(Char), NEW a \in Nat, NEW b \in Nat, a <= b, b < Len(s)
  PROVE  Append(SubSeq(s, a + 1, b), s[b + 1]) = SubSeq(s, a + 1, b + 1)
<1> DEFINE p == SubSeq(s, a + 1, b)
           q == SubSeq(s, a + 1, b + 1)
<1>1. p \in Seq(Char) /\ Len(p) = b - a /\ \A i \in 1..b - a : p[i] = s[a + i]
  BY SubSeqAt
<1>2. q \in Seq(Char) /\ Len(q) = b + 1 - a /\ \A i \in 1..b + 1 - a : q[i] = s[a + i]
  <2>1. b + 1 \in Nat /\ a <= b + 1 /\ b + 1 <= Len(s)
    OBVIOUS
  <2> QED BY <2>1, SubSeqAt
<1> HIDE DEF p, q
<1>3. s[b + 1] \in Char
  OBVIOUS
<1>4. /\ Append(p, s[b + 1]) \in Seq(Char) /\ Len(Append(p, s[b + 1])) = b - a + 1
      /\ Append(p, s[b + 1])[b - a + 1] = s[b + 1]
      /\ \A i \in 1..b - a : Append(p, s[b + 1])[i] = p[i]
  BY <1>1, <1>3
<1>5. \A i \in 1..b - a + 1 : Append(p, s[b + 1])[i] = q[i]
  <2>1. \A i \in 1..b - a + 1 : i \in 1..b - a \/ i = b - a + 1
    OBVIOUS
  <2>2. a + (b - a + 1) = b + 1 /\ b - a + 1 \in 1..b + 1 - a
    OBVIOUS
  <2>3. q[b - a + 1] = s[b + 1]
    BY <1>2, <2>2
  <2> QED BY <1>1, <1>2, <1>4, <2>1, <2>3
<1>6. Append(p, s[b + 1]) = q
  BY <1>2, <1>4, <1>5
<1> QED BY <1>6 DEF p, q
-------------------------------------------------------------------------------
(* Sequences that are put together *)

\* What lies in s behind place a, up to place b.
Piece(s, a, b) == SubSeq(s, a + 1, b)

\* Two pieces of a string that meet are one piece.
LEMMA PiecesJoin ==
  ASSUME NEW s \in Seq(Char), NEW a \in Nat, NEW b \in Nat, NEW c \in Nat, a <= b, b <= c,
         c <= Len(s)
  PROVE  Piece(s, a, b) \o Piece(s, b, c) = Piece(s, a, c)
<1> DEFINE p == SubSeq(s, a + 1, b)
           q == SubSeq(s, b + 1, c)
           r == SubSeq(s, a + 1, c)
<1>1. p \in Seq(Char) /\ Len(p) = b - a /\ \A i \in 1..b - a : p[i] = s[a + i]
  <2>1. b <= Len(s)
    OBVIOUS
  <2> QED BY <2>1, SubSeqAt
<1>2. q \in Seq(Char) /\ Len(q) = c - b /\ \A i \in 1..c - b : q[i] = s[b + i]
  BY SubSeqAt
<1>3. r \in Seq(Char) /\ Len(r) = c - a /\ \A i \in 1..c - a : r[i] = s[a + i]
  <2>1. a <= c
    OBVIOUS
  <2> QED BY <2>1, SubSeqAt
<1> HIDE DEF p, q, r
<1>4. /\ p \o q \in Seq(Char) /\ Len(p \o q) = c - a
      /\ \A i \in 1..c - a : (p \o q)[i] = IF i <= b - a THEN p[i] ELSE q[i - (b - a)]
  <2>1. /\ p \o q \in Seq(Char) /\ Len(p \o q) = Len(p) + Len(q)
        /\ \A i \in 1..Len(p) + Len(q) : (p \o q)[i] = IF i <= Len(p) THEN p[i] ELSE q[i - Len(p)]
    <3>1. p \in Seq(Char) /\ q \in Seq(Char)
      BY <1>1, <1>2
    <3> QED BY <3>1
  <2>2. b - a + (c - b) = c - a
    OBVIOUS
  <2> QED BY <1>1, <1>2, <2>1, <2>2
<1>5. ASSUME NEW i \in 1..c - a PROVE (p \o q)[i] = r[i]
  <2>1. CASE i <= b - a
    <3>1. i \in 1..b - a
      BY <2>1
    <3> QED BY <1>1, <1>3, <1>4, <2>1, <3>1
  <2>2. CASE ~(i <= b - a)
    <3>1. i - (b - a) \in 1..c - b /\ b + (i - (b - a)) = a + i
      BY <2>2
    <3>2. q[i - (b - a)] = s[a + i]
      BY <1>2, <3>1
    <3> QED BY <1>3, <1>4, <2>2, <3>2
  <2> QED BY <2>1, <2>2
<1>6. p \o q = r
  BY <1>3, <1>4, <1>5, SeqEqual
<1> QED BY <1>6 DEF p, q, r, Piece

\* The piece from the beginning to the end is the string.
LEMMA PieceWhole ==
  ASSUME NEW s \in Seq(Char)
  PROVE  Piece(s, 0, Len(s)) = s
<1>1. Len(s) \in Nat
  OBVIOUS
<1>2. /\ SubSeq(s, 0 + 1, Len(s)) \in Seq(Char) /\ Len(SubSeq(s, 0 + 1, Len(s))) = Len(s) - 0
      /\ \A i \in 1..Len(s) - 0 : SubSeq(s, 0 + 1, Len(s))[i] = s[0 + i]
  BY <1>1, SubSeqAt
<1>3. /\ SubSeq(s, 1, Len(s)) \in Seq(Char) /\ Len(SubSeq(s, 1, Len(s))) = Len(s)
      /\ \A i \in 1..Len(s) : SubSeq(s, 1, Len(s))[i] = s[i]
  BY <1>1, <1>2
<1> QED BY <1>3, SeqEqual DEF Piece

\* A piece of a string and the character before it.
LEMMA PiecePrepend ==
  ASSUME NEW s \in Seq(Char), NEW a \in Nat, NEW b \in Nat, 1 <= a, a <= b, b <= Len(s)
  PROVE  <<s[a]>> \o Piece(s, a, b) = Piece(s, a - 1, b)
<1>1. a - 1 \in Nat /\ a - 1 <= a /\ a <= Len(s) /\ s[a] \in Char
  OBVIOUS
<1>2. /\ SubSeq(s, a - 1 + 1, a) \in Seq(Char) /\ Len(SubSeq(s, a - 1 + 1, a)) = a - (a - 1)
      /\ \A i \in 1..a - (a - 1) : SubSeq(s, a - 1 + 1, a)[i] = s[a - 1 + i]
  BY <1>1, SubSeqAt
<1>3. /\ Len(SubSeq(s, a - 1 + 1, a)) = 1 /\ SubSeq(s, a - 1 + 1, a)[1] = s[a]
  <2>1. a - (a - 1) = 1 /\ 1 \in 1..1 /\ a - 1 + 1 = a
    OBVIOUS
  <2> QED BY <1>2, <2>1
<1>4. /\ <<s[a]>> \in Seq(Char) /\ Len(<<s[a]>>) = 1 /\ <<s[a]>>[1] = s[a]
  BY <1>1
<1>5. <<s[a]>> = SubSeq(s, a - 1 + 1, a)
  <2>1. \A i \in 1..1 : <<s[a]>>[i] = SubSeq(s, a - 1 + 1, a)[i]
    BY <1>3, <1>4
  <2> QED BY <1>2, <1>3, <1>4, <2>1, SeqEqual
<1>6. Piece(s, a - 1, a) \o Piece(s, a, b) = Piece(s, a - 1, b)
  BY <1>1, PiecesJoin
<1>7. <<s[a]>> = Piece(s, a - 1, a)
  BY <1>5 DEF Piece
<1> QED BY <1>6, <1>7

IsFlatten(f, q, n) == f = [i \in 1..n |-> IF i = 1 THEN q[i] ELSE f[i - 1] \o q[i]]

\* The recursive function of FlattenSeq exists: one for n sequences is one for n - 1 and
\* one concatenation more.
LEMMA FlattenExists ==
  ASSUME NEW q, NEW n \in Nat
  PROVE  \E f : IsFlatten(f, q, n)
<1> DEFINE some == {i \in Nat : \E f : IsFlatten(f, q, i)}
<1>1. 0 \in some
  <2>1. IsFlatten([i \in 1..0 |-> 0], q, 0)
    BY DEF IsFlatten
  <2> QED BY <2>1
<1>2. ASSUME NEW i \in 0..n - 1, i \in some PROVE i + 1 \in some
  <2>1. PICK f : IsFlatten(f, q, i)
    BY <1>2
  <2> DEFINE g == [j \in 1..i + 1 |->
                     IF j = i + 1 THEN IF j = 1 THEN q[j] ELSE f[i] \o q[j] ELSE f[j]]
  <2>2. \A j \in 1..i + 1 : g[j] = IF j = 1 THEN q[j] ELSE g[j - 1] \o q[j]
    <3> SUFFICES ASSUME NEW j \in 1..i + 1
                 PROVE  g[j] = IF j = 1 THEN q[j] ELSE g[j - 1] \o q[j]
      OBVIOUS
    <3>1. CASE j = i + 1
      <4>1. j # 1 => j - 1 \in 1..i /\ j - 1 = i /\ j - 1 # i + 1
        BY <3>1
      <4>2. j # 1 => g[j - 1] = f[i]
        BY <4>1
      <4> QED BY <3>1, <4>2
    <3>2. CASE j # i + 1
      <4>1. j \in 1..i /\ j - 1 # i + 1 /\ (j # 1 => j - 1 \in 1..i + 1)
        BY <3>2
      <4>2. f[j] = IF j = 1 THEN q[j] ELSE f[j - 1] \o q[j]
        BY <2>1, <4>1 DEF IsFlatten
      <4>3. g[j] = f[j] /\ (j # 1 => g[j - 1] = f[j - 1])
        BY <3>2, <4>1
      <4> QED BY <4>2, <4>3
    <3> QED BY <3>1, <3>2
  <2>3. IsFlatten(g, q, i + 1)
    BY <2>2 DEF IsFlatten
  <2> QED BY <2>3
<1> HIDE DEF some
<1>3. \A i \in 0..n : i \in some
  BY <1>1, <1>2, Induction
<1> QED BY <1>3 DEF some

\* FlattenSeq adds one sequence after the other.
LEMMA FlattenUnfolds ==
  ASSUME NEW q, NEW n \in Nat \ {0}, Len(q) = n
  PROVE  \E f : /\ f[1] = q[1] /\ \A i \in 1..n - 1 : f[i + 1] = f[i] \o q[i + 1]
                /\ FlattenSeq(q) = f[n]
<1> DEFINE flat == CHOOSE f : f = [i \in 1..Len(q) |-> IF i = 1 THEN q[i] ELSE f[i - 1] \o q[i]]
<1>1. \E f : f = [i \in 1..Len(q) |-> IF i = 1 THEN q[i] ELSE f[i - 1] \o q[i]]
  <2>1. \E f : IsFlatten(f, q, Len(q))
    BY FlattenExists
  <2> QED BY <2>1, Zenon DEF IsFlatten
<1>2. flat = [i \in 1..Len(q) |-> IF i = 1 THEN q[i] ELSE flat[i - 1] \o q[i]]
  BY <1>1, Zenon
<1>3. FlattenSeq(q) = flat[Len(q)]
  <2>1. Len(q) # 0
    OBVIOUS
  <2> QED BY <2>1, Zenon DEF FlattenSeq
<1> HIDE DEF flat
<1>4. flat[1] = q[1]
  <2>1. 1 \in 1..Len(q)
    OBVIOUS
  <2> QED BY <1>2, <2>1
<1>5. ASSUME NEW i \in 1..n - 1 PROVE flat[i + 1] = flat[i] \o q[i + 1]
  <2>1. i + 1 \in 1..Len(q) /\ i + 1 # 1 /\ i + 1 - 1 = i
    OBVIOUS
  <2>2. \A j \in 1..Len(q) : flat[j] = IF j = 1 THEN q[j] ELSE flat[j - 1] \o q[j]
    BY <1>2, Zenon
  <2>3. PICK j \in 1..Len(q) : j = i + 1 /\ j # 1 /\ j - 1 = i
    BY <2>1
  <2>4. flat[j] = flat[j - 1] \o q[j]
    BY <2>2, <2>3, Zenon
  <2> QED BY <2>3, <2>4
<1> QED BY <1>3, <1>4, <1>5

\* A string is its beginning and the pieces between the places e[1], e[2], .. at which it
\* is cut, put together again.
LEMMA Pieces ==
  ASSUME NEW s \in Seq(Char), NEW n \in Nat \ {0}, NEW e \in [1..n -> Nat], e[n] = Len(s),
         \A k \in 1..n - 1 : e[k] <= e[k + 1], NEW q, Len(q) = n - 1, n = 1 => q = <<>>,
         \A k \in 1..n - 1 : q[k] = Piece(s, e[k], e[k + 1])
  PROVE  Piece(s, 0, e[1]) \o FlattenSeq(q) = s
<1>1. CASE n = 1
  <2>1. FlattenSeq(q) = <<>>
    <3>1. Len(q) = 0 /\ q = <<>>
      BY <1>1
    <3> QED BY <3>1, Zenon DEF FlattenSeq
  <2>2. Piece(s, 0, e[1]) = s
    BY <1>1, PieceWhole
  <2>3. s \o <<>> = s
    OBVIOUS
  <2> QED BY <2>1, <2>2, <2>3
<1>2. CASE n # 1
  <2> DEFINE m == n - 1
  <2>m. m \in Nat \ {0} /\ n - 2 \in Nat /\ m - 1 = n - 2 /\ Len(s) \in Nat
    BY <1>2
  <2>1. PICK f : /\ f[1] = q[1] /\ \A i \in 1..m - 1 : f[i + 1] = f[i] \o q[i + 1]
                 /\ FlattenSeq(q) = f[m]
    BY <2>m, FlattenUnfolds
  <2> DEFINE good == {i \in Nat : /\ e[1] <= e[i + 2] /\ e[i + 2] <= Len(s)
                                  /\ f[i + 1] = Piece(s, e[1], e[i + 2])}
  <2>9. \A a, b, c \in Nat : a <= b /\ b <= c /\ c <= Len(s) =>
          Piece(s, a, b) \o Piece(s, b, c) = Piece(s, a, c)
    BY PiecesJoin
  <2>2. \A k \in 1..n : e[k] <= Len(s)
    <3> DEFINE back == {i \in Nat : e[n - i] <= Len(s)}
    <3>1. 0 \in back
      OBVIOUS
    <3>2. ASSUME NEW i \in 0..n - 1 - 1, i \in back PROVE i + 1 \in back
      <4>1. /\ n - (i + 1) \in 1..n - 1 /\ n - (i + 1) + 1 = n - i
            /\ n - i \in 1..n /\ n - (i + 1) \in 1..n
        OBVIOUS
      <4>2. e[n - (i + 1)] <= e[n - (i + 1) + 1]
        BY <4>1
      <4>3. e[n - (i + 1)] \in Nat /\ e[n - i] \in Nat
        BY <4>1
      <4> QED BY <2>m, <3>2, <4>1, <4>2, <4>3
    <3> HIDE DEF back
    <3>3. \A i \in 0..n - 1 : i \in back
      BY <3>1, <3>2, <2>m, Induction
    <3>4. ASSUME NEW k \in 1..n PROVE e[k] <= Len(s)
      <4>1. n - k \in 0..n - 1 /\ n - (n - k) = k
        OBVIOUS
      <4>2. n - k \in back
        BY <3>3, <4>1
      <4>3. e[n - (n - k)] <= Len(s)
        BY <4>2 DEF back
      <4> QED BY <4>1, <4>3
    <3> QED BY <3>4
  <2>3. 0 \in good
    <3>1. 1 \in 1..n - 1 /\ 2 \in 1..n /\ 1 + 1 = 2 /\ 0 + 2 = 2 /\ 0 + 1 = 1
      BY <1>2
    <3>2. e[1] <= e[2] /\ q[1] = Piece(s, e[1], e[2])
      BY <3>1
    <3>3. e[2] <= Len(s)
      BY <2>2, <3>1
    <3> QED BY <2>1, <3>1, <3>2, <3>3
  <2>4. ASSUME NEW i \in 0..n - 2 - 1, i \in good PROVE i + 1 \in good
    <3>1. /\ i + 1 \in 1..m - 1 /\ i + 2 \in 1..n - 1 /\ i + 2 \in 1..n /\ i + 3 \in 1..n /\ 1 \in 1..n
          /\ i + 1 + 1 = i + 2 /\ i + 2 + 1 = i + 3 /\ i + 1 + 2 = i + 3
      BY <2>m
    <3>2. /\ e[1] <= e[i + 2] /\ e[i + 2] <= Len(s)
          /\ f[i + 1] = Piece(s, e[1], e[i + 2])
      BY <2>4
    <3>3. /\ e[i + 2] <= e[i + 3] /\ q[i + 2] = Piece(s, e[i + 2], e[i + 3])
      <4>1. e[i + 2] <= e[i + 2 + 1] /\ q[i + 2] = Piece(s, e[i + 2], e[i + 2 + 1])
        BY <3>1
      <4> QED BY <3>1, <4>1
    <3>4. e[1] \in Nat /\ e[i + 2] \in Nat /\ e[i + 3] \in Nat /\ e[i + 3] <= Len(s)
      BY <2>2, <3>1
    <3>5. f[i + 2] = f[i + 1] \o q[i + 2]
      <4>1. f[i + 1 + 1] = f[i + 1] \o q[i + 1 + 1]
        BY <2>1, <3>1
      <4> QED BY <3>1, <4>1
    <3>6. f[i + 2] = Piece(s, e[1], e[i + 3])
      <4>1. PICK a \in Nat, b \in Nat, c \in Nat : /\ a = e[1] /\ b = e[i + 2] /\ c = e[i + 3]
                                                  /\ a <= b /\ b <= c /\ c <= Len(s)
        BY <3>2, <3>3, <3>4
      <4>2. Piece(s, a, b) \o Piece(s, b, c) = Piece(s, a, c)
        <5>1. a <= b /\ b <= c /\ c <= Len(s)
          BY <4>1
        <5> QED BY <2>9, <5>1
      <4>3. f[i + 1] = Piece(s, a, b) /\ q[i + 2] = Piece(s, b, c)
        BY <3>2, <3>3, <4>1
      <4>4. f[i + 2] = Piece(s, a, c)
        BY <3>5, <4>2, <4>3
      <4> QED BY <4>1, <4>4
    <3>7. e[1] <= e[i + 3]
      BY <3>2, <3>3, <3>4
    <3> QED BY <3>1, <3>4, <3>6, <3>7
  <2> HIDE DEF good
  <2>5. \A i \in 0..n - 2 : i \in good
    BY <2>m, <2>3, <2>4, Induction
  <2>6. e[1] <= Len(s) /\ FlattenSeq(q) = Piece(s, e[1], Len(s))
    <3>1. n - 2 \in good /\ n - 2 + 2 = n /\ n - 2 + 1 = m
      BY <2>m, <2>5
    <3> QED BY <2>1, <3>1 DEF good
  <2>7. PICK b \in Nat : b = e[1] /\ b <= Len(s)
    BY <2>m, <2>6
  <2>8. Piece(s, 0, b) \o Piece(s, b, Len(s)) = Piece(s, 0, Len(s))
    <3>1. 0 \in Nat /\ 0 <= b /\ Len(s) <= Len(s)
      BY <2>m
    <3> QED BY <2>m, <2>7, <3>1, <2>9
  <2> QED BY <2>6, <2>7, <2>8, PieceWhole
<1> QED BY <1>1, <1>2
-------------------------------------------------------------------------------
(* The splitter *)

Begin == [tokens |-> <<>>, element |-> <<>>, slots |-> FirstSlots, room |-> TRUE]
IsScan(f, s, sep, n) ==
  f = [i \in 0..n |-> IF i = 0 THEN Begin ELSE SplitTurn(f[i - 1], s[i], sep)]

\* The recursive function of Scan exists: one for n characters is one for n - 1
\* characters and one turn more.
LEMMA ScanExists ==
  ASSUME NEW s, NEW sep, NEW n \in Nat
  PROVE  \E f : IsScan(f, s, sep, n)
<1> DEFINE some == {i \in Nat : \E f : IsScan(f, s, sep, i)}
<1>1. 0 \in some
  <2>1. IsScan([i \in 0..0 |-> Begin], s, sep, 0)
    BY DEF IsScan
  <2> QED BY <2>1
<1>2. ASSUME NEW i \in 0..n - 1, i \in some PROVE i + 1 \in some
  <2>1. PICK f : IsScan(f, s, sep, i)
    BY <1>2
  <2> DEFINE g == [j \in 0..i + 1 |-> IF j = i + 1 THEN SplitTurn(f[i], s[i + 1], sep) ELSE f[j]]
  <2>2. \A j \in 0..i + 1 : g[j] = IF j = 0 THEN Begin ELSE SplitTurn(g[j - 1], s[j], sep)
    BY <2>1 DEF IsScan
  <2>3. IsScan(g, s, sep, i + 1)
    BY <2>2 DEF IsScan
  <2> QED BY <2>3
<1> HIDE DEF some
<1>3. \A i \in 0..n : i \in some
  BY <1>1, <1>2, Induction
<1> QED BY <1>3 DEF some

\* The loop of sdssplitlen makes one turn for each character.
LEMMA ScanUnfolds ==
  ASSUME NEW s, NEW sep, Len(s) \in Nat
  PROVE  /\ Scan(s, sep)[0] = Begin
         /\ \A i \in 0..Len(s) - 1 :
              Scan(s, sep)[i + 1] = SplitTurn(Scan(s, sep)[i], s[i + 1], sep)
<1>1. \E f : f = [i \in 0..Len(s) |-> IF i = 0 THEN Begin ELSE SplitTurn(f[i - 1], s[i], sep)]
  <2>1. \E f : IsScan(f, s, sep, Len(s))
    BY ScanExists
  <2> QED BY <2>1, Zenon DEF IsScan
<1>2. IsScan(Scan(s, sep), s, sep, Len(s))
  BY <1>1, Zenon DEF IsScan, Scan, Begin
<1> DEFINE f == Scan(s, sep)
<1>3. f = [i \in 0..Len(s) |-> IF i = 0 THEN Begin ELSE SplitTurn(f[i - 1], s[i], sep)]
  BY <1>2 DEF IsScan
<1> HIDE DEF f
<1>4. f[0] = Begin
  BY <1>3
<1>5. ASSUME NEW i \in 0..Len(s) - 1 PROVE f[i + 1] = SplitTurn(f[i], s[i + 1], sep)
  <2>1. i + 1 \in 0..Len(s) /\ i + 1 # 0 /\ i + 1 - 1 = i
    OBVIOUS
  <2>2. f[i + 1] = SplitTurn(f[i + 1 - 1], s[i + 1], sep)
    BY <1>3, <2>1
  <2> QED BY <2>1, <2>2
<1> QED BY <1>4, <1>5 DEF f

\* cut[k] is where the k-th separator of s stands, and cut[0] is 0: t holds the
\* elements before the separators, and sep stands nowhere inside them.
Cut(cut, t, s, sep) ==
  /\ cut \in [0..Len(t) -> Nat] /\ cut[0] = 0
  /\ \A k \in 1..Len(t) :
       /\ cut[k - 1] < cut[k] /\ cut[k] <= Len(s) + 1
       /\ t[k] = SubSeq(s, cut[k - 1] + 1, cut[k] - 1)
       /\ \A j \in cut[k - 1] + 1..cut[k] - 1 : s[j] # sep

Seps(s, sep, n) == {j \in 1..n : s[j] = sep}

\* The loop after i characters.
Reading(acc, cut, s, sep, i) ==
  LET n == Len(acc.tokens)
  IN  /\ acc \in [tokens : Seq(Seq(Char)), element : Seq(Char), slots : Nat, room : BOOLEAN]
      /\ Cut(cut, acc.tokens, s, sep)
      /\ \A k \in 1..n : s[cut[k]] = sep
      /\ cut[n] <= i
      /\ acc.element = SubSeq(s, cut[n] + 1, i)
      /\ \A j \in cut[n] + 1..i : s[j] # sep
      /\ n = Cardinality(Seps(s, sep, i))
      /\ n < acc.slots
      /\ acc.room = TRUE

\* How the number of separators grows with the characters that are read.
LEMMA SepsGrow ==
  ASSUME NEW s, NEW sep, NEW i \in Nat
  PROVE  /\ IsFiniteSet(Seps(s, sep, i)) /\ Cardinality(Seps(s, sep, i)) \in 0..i
         /\ Cardinality(Seps(s, sep, 0)) = 0
         /\ s[i + 1] = sep => Cardinality(Seps(s, sep, i + 1)) = Cardinality(Seps(s, sep, i)) + 1
         /\ s[i + 1] # sep => Cardinality(Seps(s, sep, i + 1)) = Cardinality(Seps(s, sep, i))
<1>1. IsFiniteSet(1..i) /\ Cardinality(1..i) = i
  BY FS_Interval
<1>2. Seps(s, sep, i) \subseteq 1..i
  BY DEF Seps
<1>3. /\ IsFiniteSet(Seps(s, sep, i)) /\ Cardinality(Seps(s, sep, i)) \in Nat
      /\ Cardinality(Seps(s, sep, i)) <= i
  BY <1>1, <1>2, FS_Subset, FS_CardinalityType
<1>4. Seps(s, sep, 0) = {}
  BY DEF Seps
<1>5. Cardinality(Seps(s, sep, 0)) = 0
  BY <1>4, FS_EmptySet
<1>6. CASE s[i + 1] = sep
  <2>1. Seps(s, sep, i + 1) = Seps(s, sep, i) \cup {i + 1} /\ i + 1 \notin Seps(s, sep, i)
    BY <1>6 DEF Seps
  <2> QED BY <1>3, <1>5, <1>6, <2>1, FS_AddElement
<1>7. CASE s[i + 1] # sep
  <2>1. Seps(s, sep, i + 1) = Seps(s, sep, i)
    BY <1>7 DEF Seps
  <2> QED BY <1>3, <1>5, <1>7, <2>1
<1> QED BY <1>6, <1>7

\* Before the first character nothing is read.
LEMMA ReadingBegins ==
  ASSUME NEW s \in Seq(Char), NEW sep
  PROVE  Reading(Begin, [k \in 0..0 |-> 0], s, sep, 0)
<1>1. /\ Begin.tokens = <<>> /\ Begin.element = <<>> /\ Begin.slots = FirstSlots
      /\ Begin.room = TRUE
  BY DEF Begin
<1>2. SubSeq(s, 0 + 1, 0) = <<>> /\ Begin \in [tokens : Seq(Seq(Char)), element : Seq(Char), slots : Nat, room : BOOLEAN]
  BY MessageAssumption DEF Begin
<1>3. Cardinality(Seps(s, sep, 0)) = 0
  BY SepsGrow
<1>4. FirstSlots \in Nat \ {0}
  BY MessageAssumption
<1> QED BY <1>1, <1>2, <1>3, <1>4 DEF Reading, Cut

\* One more character that is no separator goes to the element.
LEMMA ReadingOther ==
  ASSUME NEW s \in Seq(Char), NEW sep, NEW i \in 0..Len(s) - 1, NEW acc, NEW cut,
         Reading(acc, cut, s, sep, i), s[i + 1] # sep
  PROVE  Reading(SplitTurn(acc, s[i + 1], sep), cut, s, sep, i + 1)
<1> DEFINE n == Len(acc.tokens)
           new == SplitTurn(acc, s[i + 1], sep)
<1>1. /\ acc \in [tokens : Seq(Seq(Char)), element : Seq(Char), slots : Nat, room : BOOLEAN]
      /\ Cut(cut, acc.tokens, s, sep)
      /\ cut[n] <= i
      /\ acc.element = SubSeq(s, cut[n] + 1, i)
      /\ \A j \in cut[n] + 1..i : s[j] # sep
      /\ \A k \in 1..n : s[cut[k]] = sep
      /\ n = Cardinality(Seps(s, sep, i)) /\ n < acc.slots
      /\ acc.room = TRUE
  BY DEF Reading
<1>2. /\ new \in [tokens : Seq(Seq(Char)), element : Seq(Char), slots : Nat, room : BOOLEAN]
      /\ new.tokens = acc.tokens /\ new.room = acc.room
      /\ new.element = Append(acc.element, s[i + 1])
      /\ new.slots = IF acc.slots < n + 2 THEN 2 * acc.slots ELSE acc.slots
  <2> DEFINE more == IF acc.slots < n + 2 THEN 2 * acc.slots ELSE acc.slots
  <2>1. s[i + 1] \in Char /\ more \in Nat
    <3>1. i + 1 \in 1..Len(s) /\ acc.slots \in Nat
      BY <1>1
    <3> QED BY <3>1
  <2>2. acc.element \in Seq(Char) /\ acc.slots \in Nat
    BY <1>1
  <2>3. new = [acc EXCEPT !.element = Append(acc.element, s[i + 1]), !.slots = more]
    BY DEF SplitTurn
  <2> HIDE DEF more, new
  <2>4. Append(acc.element, s[i + 1]) \in Seq(Char)
    BY <2>1, <2>2
  <2> QED BY <1>1, <2>1, <2>3, <2>4 DEF more
<1> HIDE DEF new
<1>3. n \in Nat /\ cut[n] \in Nat /\ i \in Nat /\ i < Len(s) /\ acc.slots \in Nat
  BY <1>1 DEF Cut
<1> HIDE DEF n
<1>n. n = Len(acc.tokens)
  BY DEF n
<1>4. new.element = SubSeq(s, cut[n] + 1, i + 1)
  <2>1. Append(SubSeq(s, cut[n] + 1, i), s[i + 1]) = SubSeq(s, cut[n] + 1, i + 1)
    <3>1. cut[n] <= i
      BY <1>1
    <3> QED BY <1>3, <3>1, SubSeqGrows
  <2> QED BY <1>1, <1>2, <2>1
<1>5. n < new.slots
  BY <1>1, <1>2, <1>3
<1>6. n = Cardinality(Seps(s, sep, i + 1))
  BY <1>1, <1>3, SepsGrow
<1>7. cut[n] <= i + 1 /\ \A j \in cut[n] + 1..i + 1 : s[j] # sep
  <2>1. \A j \in cut[n] + 1..i + 1 : j \in cut[n] + 1..i \/ j = i + 1
    BY <1>3
  <2> QED BY <1>1, <1>3, <2>1
<1>8. n = Len(new.tokens) /\ Cut(cut, new.tokens, s, sep)
  BY <1>1, <1>2, <1>n
<1> QED BY <1>1, <1>2, <1>4, <1>5, <1>6, <1>7, <1>8 DEF Reading, new

\* A separator ends the element.
LEMMA ReadingSeparator ==
  ASSUME NEW s \in Seq(Char), NEW sep, NEW i \in 0..Len(s) - 1, NEW acc, NEW cut,
         Reading(acc, cut, s, sep, i), s[i + 1] = sep
  PROVE  \E more : Reading(SplitTurn(acc, s[i + 1], sep), more, s, sep, i + 1)
<1> DEFINE n == Len(acc.tokens)
           t == Append(acc.tokens, acc.element)
           new == SplitTurn(acc, s[i + 1], sep)
           more == [k \in 0..n + 1 |-> IF k = n + 1 THEN i + 1 ELSE cut[k]]
<1>1. /\ acc \in [tokens : Seq(Seq(Char)), element : Seq(Char), slots : Nat, room : BOOLEAN]
      /\ Cut(cut, acc.tokens, s, sep)
      /\ cut[n] <= i
      /\ acc.element = SubSeq(s, cut[n] + 1, i)
      /\ \A j \in cut[n] + 1..i : s[j] # sep
      /\ \A k \in 1..n : s[cut[k]] = sep
      /\ n = Cardinality(Seps(s, sep, i)) /\ n < acc.slots
      /\ acc.room = TRUE
  BY DEF Reading
<1> DEFINE m == IF acc.slots < n + 2 THEN 2 * acc.slots ELSE acc.slots
<1>2. new = [tokens |-> t, element |-> <<>>, slots |-> m, room |-> acc.room /\ n < m]
  BY <1>1 DEF SplitTurn
<1> HIDE DEF new
<1>3. n \in Nat /\ cut[n] \in Nat /\ i \in Nat /\ i < Len(s) /\ acc.slots \in Nat
  BY <1>1 DEF Cut
<1> HIDE DEF n
<1>n. n = Len(acc.tokens)
  BY DEF n
<1>4. /\ t \in Seq(Seq(Char)) /\ Len(t) = n + 1 /\ t[n + 1] = acc.element
      /\ \A k \in 1..n : t[k] = acc.tokens[k]
  <2>1. acc.tokens \in Seq(Seq(Char)) /\ acc.element \in Seq(Char)
    BY <1>1
  <2> QED BY <2>1, <1>n
<1> HIDE DEF t
<1>5. /\ more \in [0..n + 1 -> Nat] /\ more[n + 1] = i + 1
      /\ \A k \in 0..n : more[k] = cut[k]
  <2>1. cut \in [0..n -> Nat]
    BY <1>1, <1>n DEF Cut
  <2> QED BY <1>3, <2>1
<1> HIDE DEF more
<1>6. Cut(more, t, s, sep)
  <2>1. more[0] = 0
    BY <1>1, <1>3, <1>5 DEF Cut
  <2>2. ASSUME NEW k \in 1..n + 1
        PROVE  /\ more[k - 1] < more[k] /\ more[k] <= Len(s) + 1
               /\ t[k] = SubSeq(s, more[k - 1] + 1, more[k] - 1)
               /\ \A j \in more[k - 1] + 1..more[k] - 1 : s[j] # sep
    <3>1. CASE k \in 1..n
      <4>a. k - 1 \in 0..n /\ k \in 0..n
        BY <1>3, <3>1
      <4>1. more[k - 1] = cut[k - 1] /\ more[k] = cut[k] /\ t[k] = acc.tokens[k]
        BY <1>4, <1>5, <3>1, <4>a
      <4>2. /\ cut[k - 1] < cut[k] /\ cut[k] <= Len(s) + 1
            /\ acc.tokens[k] = SubSeq(s, cut[k - 1] + 1, cut[k] - 1)
            /\ \A j \in cut[k - 1] + 1..cut[k] - 1 : s[j] # sep
        BY <1>1, <1>n, <3>1 DEF Cut
      <4> QED BY <4>1, <4>2
    <3>2. CASE k = n + 1
      <4>1. more[k - 1] = cut[n] /\ more[k] = i + 1 /\ i + 1 - 1 = i
        BY <1>3, <1>5, <3>2
      <4>2. cut[n] < i + 1 /\ i + 1 <= Len(s) + 1
        BY <1>1, <1>3
      <4> QED BY <1>1, <1>4, <3>2, <4>1, <4>2
    <3> QED BY <1>3, <3>1, <3>2
  <2> QED BY <1>4, <1>5, <2>1, <2>2 DEF Cut
<1>7. \A k \in 1..n + 1 : s[more[k]] = sep
  <2>1. \A k \in 1..n + 1 : (k \in 1..n /\ k \in 0..n) \/ k = n + 1
    BY <1>3
  <2> QED BY <1>1, <1>5, <2>1
<1>8. new.element = SubSeq(s, i + 1 + 1, i + 1)
  <2>1. SubSeq(s, i + 1 + 1, i + 1) = <<>>
    OBVIOUS
  <2> QED BY <1>2, <2>1
<1>9. n + 1 = Cardinality(Seps(s, sep, i + 1))
  BY <1>1, <1>3, SepsGrow
<1>10. m \in Nat /\ n < m /\ n + 1 < m
  <2>1. n < acc.slots
    BY <1>1
  <2> QED BY <1>3, <2>1
<1> HIDE DEF m
<1>11. new.room = TRUE
  <2>1. acc.room = TRUE
    BY <1>1
  <2> QED BY <2>1, <1>2, <1>10
<1>12. /\ new \in [tokens : Seq(Seq(Char)), element : Seq(Char), slots : Nat, room : BOOLEAN]
       /\ new.tokens = t /\ new.slots = m
  BY <1>1, <1>2, <1>4, <1>10
<1>13. Reading(new, more, s, sep, i + 1)
  <2>1. more[n + 1] <= i + 1 /\ \A j \in more[n + 1] + 1..i + 1 : s[j] # sep
    BY <1>3, <1>5
  <2> QED BY <1>4, <1>5, <1>6, <1>7, <1>8, <1>9, <1>10, <1>11, <1>12, <2>1 DEF Reading
<1> QED BY <1>13 DEF new

\* The loop over the whole string.
LEMMA ReadingAll ==
  ASSUME NEW s \in Seq(Char), NEW sep
  PROVE  \E cut : Reading(Scan(s, sep)[Len(s)], cut, s, sep, Len(s))
<1> DEFINE good == {i \in Nat : \E cut : Reading(Scan(s, sep)[i], cut, s, sep, i)}
<1>1. Len(s) \in Nat
  OBVIOUS
<1>2. 0 \in good
  BY <1>1, ReadingBegins, ScanUnfolds
<1>3. ASSUME NEW i \in 0..Len(s) - 1, i \in good PROVE i + 1 \in good
  <2>1. PICK cut : Reading(Scan(s, sep)[i], cut, s, sep, i)
    BY <1>3
  <2>2. Scan(s, sep)[i + 1] = SplitTurn(Scan(s, sep)[i], s[i + 1], sep)
    BY <1>1, ScanUnfolds
  <2>3. \E more : Reading(Scan(s, sep)[i + 1], more, s, sep, i + 1)
    <3>1. CASE s[i + 1] = sep
      BY <2>1, <2>2, <3>1, ReadingSeparator
    <3>2. CASE s[i + 1] # sep
      BY <2>1, <2>2, <3>2, ReadingOther
    <3> QED BY <3>1, <3>2
  <2> QED BY <2>3
<1> HIDE DEF good
<1>4. \A i \in 0..Len(s) : i \in good
  BY <1>1, <1>2, <1>3, Induction
<1>5. Len(s) \in good
  BY <1>1, <1>4
<1> QED BY <1>5 DEF good

\* The whole result of sdssplitlen: the last cut is behind the string.
Split(t, cut, s, sep) ==
  LET n == Len(t)
  IN  /\ t \in Seq(Seq(Char)) /\ n >= 1
      /\ Cut(cut, t, s, sep)
      /\ cut[n] = Len(s) + 1
      /\ \A k \in 1..n - 1 : s[cut[k]] = sep
      /\ n = 1 + Cardinality(Seps(s, sep, Len(s)))

\* sdssplitlen cuts a string at its separators, and never writes beyond its array: room is
\* made for two more elements before each character, and the last one needs one slot.
LEMMA SplitLenCuts ==
  ASSUME NEW s \in Seq(Char), NEW sep, s # <<>>
  PROVE  /\ \E cut : Split(SplitLen(s, sep).tokens, cut, s, sep)
         /\ SplitLen(s, sep).room = TRUE
<1> DEFINE last == Scan(s, sep)[Len(s)]
           m == Len(last.tokens)
           t == Append(last.tokens, last.element)
<1>1. PICK cut : Reading(last, cut, s, sep, Len(s))
  BY ReadingAll
<1>2. /\ last \in [tokens : Seq(Seq(Char)), element : Seq(Char), slots : Nat, room : BOOLEAN]
      /\ Cut(cut, last.tokens, s, sep)
      /\ cut[m] <= Len(s)
      /\ last.element = SubSeq(s, cut[m] + 1, Len(s))
      /\ \A j \in cut[m] + 1..Len(s) : s[j] # sep
      /\ \A k \in 1..m : s[cut[k]] = sep
      /\ m = Cardinality(Seps(s, sep, Len(s))) /\ m < last.slots
      /\ last.room = TRUE
  BY <1>1 DEF Reading
<1>3. SplitLen(s, sep) = [last EXCEPT !.tokens = t, !.room = last.room /\ m < last.slots]
  BY DEF SplitLen
<1> HIDE DEF last
<1>4. SplitLen(s, sep).tokens = t
  BY <1>2, <1>3
<1>5. SplitLen(s, sep).room = TRUE
  <2>1. SplitLen(s, sep).room = (last.room /\ m < last.slots)
    BY <1>2, <1>3
  <2> QED BY <1>2, <2>1
<1>6. m \in Nat /\ Len(s) \in Nat /\ cut \in [0..m -> Nat]
  BY <1>2 DEF Cut
<1> HIDE DEF m
<1>7. /\ t \in Seq(Seq(Char)) /\ Len(t) = m + 1 /\ t[m + 1] = last.element
      /\ \A k \in 1..m : t[k] = last.tokens[k]
  <2>1. last.tokens \in Seq(Seq(Char)) /\ last.element \in Seq(Char)
    BY <1>2
  <2> QED BY <2>1 DEF m
<1> HIDE DEF t
<1> DEFINE more == [k \in 0..m + 1 |-> IF k = m + 1 THEN Len(s) + 1 ELSE cut[k]]
<1>8. /\ more \in [0..m + 1 -> Nat] /\ more[m + 1] = Len(s) + 1
      /\ \A k \in 0..m : more[k] = cut[k]
  BY <1>6
<1> HIDE DEF more
<1>9. Cut(more, t, s, sep)
  <2>1. more[0] = 0
    BY <1>2, <1>6, <1>8 DEF Cut
  <2>2. ASSUME NEW k \in 1..m + 1
        PROVE  /\ more[k - 1] < more[k] /\ more[k] <= Len(s) + 1
               /\ t[k] = SubSeq(s, more[k - 1] + 1, more[k] - 1)
               /\ \A j \in more[k - 1] + 1..more[k] - 1 : s[j] # sep
    <3>1. CASE k \in 1..m
      <4>1. more[k - 1] = cut[k - 1] /\ more[k] = cut[k] /\ t[k] = last.tokens[k]
        BY <1>6, <1>7, <1>8, <3>1
      <4> QED BY <1>2, <3>1, <4>1 DEF Cut, m
    <3>2. CASE k = m + 1
      <4>1. more[k - 1] = cut[m] /\ more[k] = Len(s) + 1 /\ Len(s) + 1 - 1 = Len(s)
        BY <1>6, <1>8, <3>2
      <4>2. cut[m] < Len(s) + 1 /\ cut[m] \in Nat
        BY <1>2, <1>6
      <4> QED BY <1>2, <1>6, <1>7, <3>2, <4>1, <4>2
    <3> QED BY <1>6, <3>1, <3>2
  <2> QED BY <1>7, <1>8, <2>1, <2>2 DEF Cut
<1>10. \A k \in 1..m : s[more[k]] = sep
  <2>1. \A k \in 1..m : k \in 0..m
    BY <1>6
  <2> QED BY <1>2, <1>8, <2>1
<1>11. m + 1 >= 1 /\ m + 1 = 1 + Cardinality(Seps(s, sep, Len(s)))
  BY <1>2, <1>6
<1>12. Split(t, more, s, sep)
  <2> DEFINE n == m + 1
  <2> HIDE DEF n
  <2>1. Len(t) = n /\ more[n] = Len(s) + 1
    BY <1>7, <1>8 DEF n
  <2>2. n >= 1 /\ n = 1 + Cardinality(Seps(s, sep, Len(s)))
    BY <1>11 DEF n
  <2>3. \A k \in 1..n - 1 : s[more[k]] = sep
    <3>1. n - 1 = m
      BY <1>6 DEF n
    <3> QED BY <1>10, <3>1
  <2> QED BY <1>7, <1>9, <2>1, <2>2, <2>3 DEF Split
<1> QED BY <1>4, <1>5, <1>12
-------------------------------------------------------------------------------
(* A line *)

\* c is the place of the first colon of l, or the place behind l.
FirstColon(l, c) ==
  /\ c \in 1..Len(l) + 1
  /\ \A j \in 1..c - 1 : l[j] # COLON
  /\ c <= Len(l) => l[c] = COLON
  /\ LongLast(l) <=> c <= Len(l)
  /\ SplitLen(l, COLON).tokens[1] = SubSeq(l, 1, c - 1)

\* A line has a first colon or none, and the first element is what stands before it.
LEMMA HasFirstColon ==
  ASSUME NEW l \in Seq(Char), l # <<>>
  PROVE  \E c : FirstColon(l, c)
<1> DEFINE t == SplitLen(l, COLON).tokens
<1>1. PICK cut : Split(t, cut, l, COLON)
  BY SplitLenCuts
<1>2. LongLast(l) <=> Len(t) > 1
  BY DEF LongLast
<1> HIDE DEF t
<1>3. /\ Len(t) \in Nat /\ Len(t) >= 1 /\ Len(l) \in Nat /\ cut \in [0..Len(t) -> Nat]
      /\ cut[0] = 0 /\ cut[Len(t)] = Len(l) + 1
      /\ \A k \in 1..Len(t) - 1 : l[cut[k]] = COLON
      /\ \A k \in 1..Len(t) :
           /\ cut[k - 1] < cut[k] /\ cut[k] <= Len(l) + 1
           /\ t[k] = SubSeq(l, cut[k - 1] + 1, cut[k] - 1)
           /\ \A j \in cut[k - 1] + 1..cut[k] - 1 : l[j] # COLON
  BY <1>1 DEF Split, Cut
<1>4. /\ 1 \in 1..Len(t) /\ 1 - 1 = 0 /\ 0 + 1 = 1
  BY <1>3
<1>5. /\ cut[1] \in 1..Len(l) + 1 /\ t[1] = SubSeq(l, 1, cut[1] - 1)
      /\ \A j \in 1..cut[1] - 1 : l[j] # COLON
  <2>1. /\ cut[1 - 1] < cut[1] /\ cut[1] <= Len(l) + 1
        /\ t[1] = SubSeq(l, cut[1 - 1] + 1, cut[1] - 1)
        /\ \A j \in cut[1 - 1] + 1..cut[1] - 1 : l[j] # COLON
    BY <1>3, <1>4
  <2>2. cut[1] \in Nat /\ cut[1 - 1] + 1 = 1
    BY <1>3, <1>4
  <2> QED BY <1>3, <1>4, <2>1, <2>2
<1>6. CASE Len(t) = 1
  <2>1. cut[1] = Len(l) + 1 /\ ~(cut[1] <= Len(l)) /\ ~LongLast(l)
    BY <1>2, <1>3, <1>6
  <2> QED BY <1>5, <2>1 DEF FirstColon, t
<1>7. CASE Len(t) > 1
  <2>1. 2 \in 1..Len(t) /\ 1 \in 1..Len(t) - 1 /\ 2 - 1 = 1
    BY <1>3, <1>7
  <2>2. cut[1] < cut[2] /\ cut[2] <= Len(l) + 1 /\ cut[1] \in Nat /\ cut[2] \in Nat
    <3>1. cut[2 - 1] < cut[2] /\ cut[2] <= Len(l) + 1
      BY <1>3, <2>1
    <3>2. 1 \in 0..Len(t) /\ 2 \in 0..Len(t)
      BY <1>3, <1>7
    <3> QED BY <1>3, <2>1, <3>1, <3>2
  <2>3. cut[1] <= Len(l) /\ l[cut[1]] = COLON /\ LongLast(l)
    BY <1>2, <1>3, <1>7, <2>1, <2>2
  <2>4. SplitLen(l, COLON).tokens[1] = SubSeq(l, 1, cut[1] - 1)
    BY <1>5 DEF t
  <2>5. PICK c \in 1..Len(l) + 1 : c = cut[1]
    BY <1>5
  <2>6. /\ c <= Len(l) /\ l[c] = COLON
        /\ SplitLen(l, COLON).tokens[1] = SubSeq(l, 1, c - 1)
        /\ \A j \in 1..c - 1 : l[j] # COLON
    BY <1>5, <2>3, <2>4, <2>5
  <2>7. FirstColon(l, c)
    BY <2>3, <2>6 DEF FirstColon
  <2> HIDE DEF t
  <2> QED BY <2>7
<1>8. Len(t) = 1 \/ Len(t) > 1
  <2>1. PICK n \in Nat : n = Len(t) /\ n >= 1
    BY <1>3
  <2>2. n = 1 \/ n > 1
    BY <2>1
  <2> QED BY <2>1, <2>2
<1> QED BY <1>6, <1>7, <1>8

\* A piece of the beginning of a string is a piece of the string.
LEMMA SubSeqOf ==
  ASSUME NEW s \in Seq(Char), NEW c \in 0..Len(s), NEW a \in Nat, NEW b \in Nat, a <= b, b <= c
  PROVE  SubSeq(SubSeq(s, 1, c), a + 1, b) = SubSeq(s, a + 1, b)
<1> DEFINE p == SubSeq(s, 1, c)
<1>1. p \in Seq(Char) /\ Len(p) = c /\ \A i \in 1..c : p[i] = s[i]
  BY SubSeqAt
<1> HIDE DEF p
<1>2. /\ SubSeq(p, a + 1, b) \in Seq(Char) /\ Len(SubSeq(p, a + 1, b)) = b - a
      /\ \A i \in 1..b - a : SubSeq(p, a + 1, b)[i] = p[a + i]
  BY <1>1, SubSeqAt
<1>3. /\ SubSeq(s, a + 1, b) \in Seq(Char) /\ Len(SubSeq(s, a + 1, b)) = b - a
      /\ \A i \in 1..b - a : SubSeq(s, a + 1, b)[i] = s[a + i]
  BY SubSeqAt
<1>4. \A i \in 1..b - a : p[a + i] = s[a + i]
  <2>1. \A i \in 1..b - a : a + i \in 1..c
    OBVIOUS
  <2> QED BY <1>1, <2>1
<1>5. \A i \in 1..b - a : SubSeq(p, a + 1, b)[i] = SubSeq(s, a + 1, b)[i]
  BY <1>2, <1>3, <1>4
<1>6. SubSeq(p, a + 1, b) = SubSeq(s, a + 1, b)
  BY <1>2, <1>3, <1>5, SeqEqual
<1> QED BY <1>6 DEF p

\* The words of l before its first colon, at c: cut[k] is where the k-th space of them
\* stands, and the last cut is c.
WordCuts(w, cut, l, c) ==
  LET n == Len(w)
  IN  /\ w \in Seq(Seq(Char)) /\ n >= 1
      /\ cut \in [0..n -> Nat] /\ cut[0] = 0 /\ cut[n] = c
      /\ \A k \in 1..n :
           /\ cut[k - 1] < cut[k] /\ cut[k] <= c
           /\ w[k] = SubSeq(l, cut[k - 1] + 1, cut[k] - 1)
           /\ \A j \in cut[k - 1] + 1..cut[k] - 1 : l[j] # SP
      /\ \A k \in 1..n - 1 : cut[k] < c /\ l[cut[k]] = SP
      /\ n = 1 + Cardinality(Seps(l, SP, c - 1))

\* The words of a line that does not begin with a colon are cut at its spaces.
LEMMA HasWordCuts ==
  ASSUME NEW l \in Seq(Char), l # <<>>, NEW c, FirstColon(l, c), c > 1
  PROVE  \E cut : WordCuts(Words(l), cut, l, c)
<1> DEFINE p == SubSeq(l, 1, c - 1)
           w == SplitLen(p, SP).tokens
<1>1. Words(l) = w
  BY DEF Words, FirstColon
<1>2. c \in 1..Len(l) + 1 /\ c - 1 \in Nat /\ c - 1 <= Len(l) /\ c \in Nat /\ Len(l) \in Nat
  BY DEF FirstColon
<1>3. p \in Seq(Char) /\ Len(p) = c - 1 /\ \A i \in 1..c - 1 : p[i] = l[i]
  <2>1. SubSeq(l, 0 + 1, c - 1) \in Seq(Char) /\ Len(SubSeq(l, 0 + 1, c - 1)) = c - 1 - 0
    BY <1>2, SubSeqAt
  <2>2. \A i \in 1..c - 1 - 0 : SubSeq(l, 0 + 1, c - 1)[i] = l[0 + i]
    BY <1>2, SubSeqAt
  <2> QED BY <1>2, <2>1, <2>2
<1>a. \A a, b \in Nat : a <= b /\ b <= c - 1 => SubSeq(p, a + 1, b) = SubSeq(l, a + 1, b)
  BY <1>2, SubSeqOf
<1> HIDE DEF p
<1>4. p # <<>>
  BY <1>2, <1>3
<1>5. PICK cut : Split(w, cut, p, SP)
  BY <1>3, <1>4, SplitLenCuts
<1> HIDE DEF w
<1>6. /\ w \in Seq(Seq(Char)) /\ Len(w) \in Nat /\ Len(w) >= 1
      /\ cut \in [0..Len(w) -> Nat] /\ cut[0] = 0 /\ cut[Len(w)] = c
  BY <1>2, <1>3, <1>5 DEF Split, Cut
<1>7. \A k \in 1..Len(w) :
        /\ cut[k - 1] < cut[k] /\ cut[k] <= c
        /\ w[k] = SubSeq(p, cut[k - 1] + 1, cut[k] - 1)
        /\ \A j \in cut[k - 1] + 1..cut[k] - 1 : p[j] # SP
  BY <1>2, <1>3, <1>5 DEF Split, Cut
<1>8. ASSUME NEW k \in 1..Len(w)
      PROVE  /\ w[k] = SubSeq(l, cut[k - 1] + 1, cut[k] - 1)
             /\ \A j \in cut[k - 1] + 1..cut[k] - 1 : l[j] # SP
  <2>1. /\ cut[k - 1] \in Nat /\ cut[k] \in Nat /\ cut[k - 1] < cut[k] /\ cut[k] <= c
        /\ w[k] = SubSeq(p, cut[k - 1] + 1, cut[k] - 1)
        /\ \A j \in cut[k - 1] + 1..cut[k] - 1 : p[j] # SP
    <3>1. k \in 0..Len(w) /\ k - 1 \in 0..Len(w)
      BY <1>6
    <3> QED BY <1>6, <1>7, <3>1
  <2>2. cut[k] - 1 \in Nat /\ cut[k - 1] <= cut[k] - 1 /\ cut[k] - 1 <= c - 1
    <3>1. PICK x \in Nat, y \in Nat : x = cut[k - 1] /\ y = cut[k] /\ x < y /\ y <= c
      BY <2>1
    <3> QED BY <1>2, <3>1
  <2>3. \A j \in cut[k - 1] + 1..cut[k] - 1 : j \in 1..c - 1
    BY <1>2, <2>1
  <2> QED BY <1>3, <1>a, <2>1, <2>2, <2>3
<1>9. ASSUME NEW k \in 1..Len(w) - 1 PROVE cut[k] < c /\ l[cut[k]] = SP
  <2>1. k \in 1..Len(w) /\ k + 1 \in 1..Len(w) /\ k + 1 - 1 = k
    BY <1>6
  <2>2. cut[k + 1 - 1] < cut[k + 1] /\ cut[k + 1] <= c /\ cut[k - 1] < cut[k]
    BY <1>7, <2>1
  <2>3. cut[k] \in Nat /\ cut[k + 1] \in Nat /\ cut[k - 1] \in Nat
    <3>1. k \in 0..Len(w) /\ k + 1 \in 0..Len(w) /\ k - 1 \in 0..Len(w)
      BY <1>6, <2>1
    <3> QED BY <1>6, <3>1
  <2>4. cut[k] \in 1..c - 1 /\ cut[k] < c
    BY <1>2, <2>1, <2>2, <2>3
  <2>5. p[cut[k]] = SP
    BY <1>5 DEF Split
  <2> QED BY <1>3, <2>4, <2>5
<1>10. Seps(p, SP, c - 1) = Seps(l, SP, c - 1)
  BY <1>3 DEF Seps
<1>11. Len(w) = 1 + Cardinality(Seps(l, SP, c - 1))
  BY <1>3, <1>5, <1>10 DEF Split
<1>12. WordCuts(w, cut, l, c)
  BY <1>6, <1>7, <1>8, <1>9, <1>11 DEF WordCuts
<1> QED BY <1>1, <1>12

\* A line that begins with a colon has no words.
LEMMA NoWords ==
  ASSUME NEW l \in Seq(Char), l # <<>>, FirstColon(l, 1)
  PROVE  Words(l) = <<>> /\ l[1] = COLON
<1>1. SplitLen(l, COLON).tokens[1] = <<>>
  <2>1. SubSeq(l, 1, 1 - 1) = <<>>
    OBVIOUS
  <2> QED BY <2>1 DEF FirstColon
<1>2. SplitLen(<<>>, SP).tokens = <<>>
  <2>1. Scan(<<>>, SP)[0] = Begin /\ Len(<<>>) = 0
    BY ScanUnfolds
  <2> QED BY <2>1 DEF SplitLen, Begin
<1>3. 1 <= Len(l)
  OBVIOUS
<1> QED BY <1>1, <1>2, <1>3 DEF Words, FirstColon

\* The words are strings, and only a line that begins with a colon has none.
LEMMA WordsTyped ==
  ASSUME NEW l \in Seq(Char), l # <<>>
  PROVE  /\ Words(l) \in Seq(Seq(Char))
         /\ Words(l) = <<>> => l[1] = COLON
         /\ LongLast(l) \in BOOLEAN
<1>1. PICK c : FirstColon(l, c)
  BY HasFirstColon
<1>2. c = 1 \/ c > 1
  BY <1>1 DEF FirstColon
<1>3. CASE c = 1
  <2>1. FirstColon(l, 1)
    BY <1>1, <1>3
  <2>2. LongLast(l) \in BOOLEAN
    BY DEF LongLast
  <2>3. Words(l) = <<>> /\ l[1] = COLON
    BY <2>1, NoWords
  <2> QED BY <2>2, <2>3
<1>4. CASE c > 1
  <2>1. PICK cut : WordCuts(Words(l), cut, l, c)
    BY <1>1, <1>4, HasWordCuts
  <2>2. Words(l) \in Seq(Seq(Char)) /\ Len(Words(l)) >= 1
    BY <2>1 DEF WordCuts
  <2> QED BY <2>2 DEF LongLast
<1> QED BY <1>2, <1>3, <1>4
-------------------------------------------------------------------------------
(* message_from_string *)

Slots(l) == [i \in 0..MaxParams - 1 |->
               IF WordAt(Words(l), i) THEN ParamAt(Words(l), i) ELSE NULL]

\* The fields of the message that is made of a line.
LEMMA FromStringFields ==
  ASSUME NEW l
  PROVE  LET n == CountWords(Words(l))
             m == FromString(l)
         IN  /\ m.cmd = IF Words(l) = <<>> THEN WILD ELSE Block("tokens", 0, Words(l)[1])
             /\ LongLast(l) => m.nparams = n + 1 /\ m.params = [Slots(l) EXCEPT ![n] = Rest(l)]
             /\ ~LongLast(l) => m.nparams = n /\ m.params = Slots(l)
             /\ m.longlast = LongLast(l)
             /\ m = [cmd |-> m.cmd, nparams |-> m.nparams, longlast |-> m.longlast,
                     params |-> m.params]
BY DEF FromString, Slots

\* The fields of a string.
LEMMA BlockFields ==
  ASSUME NEW a, NEW i, NEW t
  PROVE  Block(a, i, t).array = a /\ Block(a, i, t).at = i /\ Block(a, i, t).text = t
BY DEF Block

\* A string is neither a null pointer nor one that was never set.
LEMMA BlockTyped ==
  ASSUME NEW a \in {"tokens", "s", "caller"}, NEW i \in 0..MaxParams, NEW t \in Seq(Char)
  PROVE  Block(a, i, t) \in TypeBlock /\ Block(a, i, t) # NULL /\ Block(a, i, t) # WILD
<1>1. i \in 0..MaxLine + MaxParams
  BY MessageAssumption
<1>2. Block(a, i, t) \in TypeBlock
  BY <1>1 DEF Block, TypeBlock, Char
<1> QED BY <1>2, MessageAssumption

\* The words that are stored, and how many they are.
Stored(w) == {i \in 0..Len(w) : WordAt(w, i)}

\* CountWords counts the stored words, which are finitely many.
LEMMA StoredFinite ==
  ASSUME NEW w \in Seq(Seq(Char))
  PROVE  /\ IsFiniteSet(Stored(w)) /\ CountWords(w) = Cardinality(Stored(w))
         /\ CountWords(w) \in Nat
         /\ \A i \in Nat : WordAt(w, i) => i \in Stored(w)
<1>1. IsFiniteSet(0..Len(w))
  BY FS_Interval
<1>2. IsFiniteSet(Stored(w))
  BY <1>1, FS_Subset DEF Stored
<1>3. CountWords(w) = Cardinality(Stored(w))
  BY DEF CountWords, Stored
<1>4. ASSUME NEW i \in Nat, WordAt(w, i) PROVE i \in Stored(w)
  BY <1>4 DEF Stored, WordAt
<1> QED BY <1>2, <1>3, <1>4, FS_CardinalityType

\* A parsed line has no more parameters than there is room for.
LEMMA CountBounds ==
  ASSUME NEW l \in Seq(Char), l # <<>>, ~Overruns(l)
  PROVE  /\ CountWords(Words(l)) \in 0..MaxParams
         /\ LongLast(l) => CountWords(Words(l)) \in 0..MaxParams - 1
         /\ \A i \in Nat : WordAt(Words(l), i) => i \in 0..MaxParams - 1
<1> DEFINE w == Words(l)
<1>1. w \in Seq(Seq(Char))
  BY WordsTyped
<1>2. /\ \A i \in MaxParams..Len(w) : ~WordAt(w, i)
      /\ LongLast(l) => ~(CountWords(w) >= MaxParams)
  BY DEF Overruns
<1> HIDE DEF w
<1>3. MaxParams \in Nat \ {0}
  BY MessageAssumption
<1>4. ASSUME NEW i \in Nat, WordAt(w, i) PROVE i \in 0..MaxParams - 1
  <2>1. i <= Len(w)
    BY <1>1, <1>4 DEF WordAt
  <2>2. ~(i \in MaxParams..Len(w))
    BY <1>2, <1>4
  <2> QED BY <1>1, <1>3, <2>1, <2>2
<1>5. Stored(w) \subseteq 0..MaxParams - 1
  <2>1. \A i \in Stored(w) : i \in Nat /\ WordAt(w, i)
    BY <1>1 DEF Stored
  <2> QED BY <1>4, <2>1
<1>6. IsFiniteSet(0..MaxParams - 1) /\ Cardinality(0..MaxParams - 1) = MaxParams
  <2>1. Cardinality(0..MaxParams - 1) = MaxParams - 1 - 0 + 1 /\ IsFiniteSet(0..MaxParams - 1)
    BY <1>3, FS_Interval
  <2> QED BY <1>3, <2>1
<1>7. Cardinality(Stored(w)) <= MaxParams
  BY <1>5, <1>6, FS_Subset
<1>8. CountWords(w) \in 0..MaxParams
  BY <1>1, <1>3, <1>7, StoredFinite
<1>9. LongLast(l) => CountWords(w) \in 0..MaxParams - 1
  BY <1>2, <1>3, <1>8
<1> QED BY <1>4, <1>8, <1>9 DEF w

\* What follows the first colon is a string.
LEMMA RestTyped ==
  ASSUME NEW l \in Seq(Char), l # <<>>
  PROVE  Rest(l) \in TypeBlock
<1> DEFINE t == SubSeq(l, Len(SplitLen(l, COLON).tokens[1]) + 2, Len(l))
<1>1. SplitLen(l, COLON).tokens[1] \in Seq(Char)
  <2>1. PICK cut : Split(SplitLen(l, COLON).tokens, cut, l, COLON)
    BY SplitLenCuts
  <2> QED BY <2>1 DEF Split
<1>2. t \in Seq(Char)
  BY <1>1
<1>3. 0 \in 0..MaxParams
  BY MessageAssumption
<1> HIDE DEF t
<1>4. Block("s", 0, t) \in TypeBlock
  BY <1>2, <1>3, BlockTyped
<1> QED BY <1>4 DEF Rest, t

\* What message_from_string makes of a line has the type of a message_t.
LEMMA FromStringTyped ==
  ASSUME NEW l \in Seq(Char), l # <<>>, ~Overruns(l)
  PROVE  FromString(l) \in TypeMessage
<1> DEFINE w == Words(l)
           n == CountWords(w)
<1>1. w \in Seq(Seq(Char)) /\ LongLast(l) \in BOOLEAN
  BY WordsTyped
<1>2. /\ n \in 0..MaxParams
      /\ LongLast(l) => n \in 0..MaxParams - 1
      /\ \A i \in Nat : WordAt(w, i) => i \in 0..MaxParams - 1
  BY CountBounds
<1>3. Rest(l) \in TypeBlock
  BY RestTyped
<1>4. ASSUME NEW i \in 0..MaxParams - 1, WordAt(w, i) PROVE ParamAt(w, i) \in TypeBlock
  <2>1. i + 2 \in 1..Len(w) /\ i + 1 \in 0..MaxParams
    BY <1>1, <1>4, MessageAssumption DEF WordAt
  <2>2. w[i + 2] \in Seq(Char)
    BY <1>1, <2>1
  <2> QED BY <2>1, <2>2, BlockTyped DEF ParamAt
<1> HIDE DEF w
<1>5. Slots(l) \in [0..MaxParams - 1 -> TypeBlock \cup {NULL}]
  BY <1>4 DEF Slots, w
<1>6. w # <<>> => Block("tokens", 0, w[1]) \in TypeBlock
  <2>1. w # <<>> => w[1] \in Seq(Char)
    BY <1>1
  <2>2. 0 \in 0..MaxParams
    BY MessageAssumption
  <2> QED BY <2>1, <2>2, BlockTyped
<1> HIDE DEF n
<1>7. FromString(l).cmd \in TypeBlock \cup {WILD}
  BY <1>6, FromStringFields DEF w
<1>8. FromString(l).longlast \in BOOLEAN
  BY <1>1, FromStringFields
<1>9. /\ FromString(l).nparams \in 0..MaxParams
      /\ FromString(l).params \in [0..MaxParams - 1 -> TypeBlock \cup {NULL}]
  <2>1. CASE LongLast(l)
    <3>1. FromString(l).nparams = n + 1 /\ FromString(l).params = [Slots(l) EXCEPT ![n] = Rest(l)]
      BY <2>1, FromStringFields DEF n, w
    <3>2. n + 1 \in 0..MaxParams
      BY <1>2, <2>1, MessageAssumption
    <3> QED BY <1>3, <1>5, <3>1, <3>2
  <2>2. CASE ~LongLast(l)
    <3>1. FromString(l).nparams = n /\ FromString(l).params = Slots(l)
      BY <2>2, FromStringFields DEF n, w
    <3> QED BY <1>2, <1>5, <3>1
  <2> QED BY <2>1, <2>2
<1> DEFINE m == FromString(l)
<1>10. m = [cmd |-> m.cmd, nparams |-> m.nparams, longlast |-> m.longlast, params |-> m.params]
  BY FromStringFields
<1> HIDE DEF m
<1>11. /\ m.cmd \in TypeBlock \cup {NULL, WILD} /\ m.longlast \in BOOLEAN
       /\ m.nparams \in 0..MaxParams
       /\ m.params \in [0..MaxParams - 1 -> TypeBlock \cup {NULL}]
  BY <1>7, <1>8, <1>9 DEF m
<1>12. m \in TypeMessage
  BY <1>10, <1>11 DEF TypeMessage
<1> QED BY <1>12 DEF m

\* What a parsed message refers to lies at places that differ: words at their own place
\* of the array of words, and the rest of the line in the last parameter.
Separate(m) ==
  \A i \in 0..m.nparams, j \in 0..m.nparams :
    Blocks(m)[i] = Blocks(m)[j] /\ Blocks(m)[i] # NULL => i = j

\* A parsed message refers to no string twice, if it has a command.
LEMMA FromStringSeparate ==
  ASSUME NEW l \in Seq(Char), l # <<>>, ~Overruns(l), Words(l) # <<>>
  PROVE  Separate(FromString(l))
<1> DEFINE w == Words(l)
           n == CountWords(w)
           m == FromString(l)
<1>1. /\ n \in 0..MaxParams
      /\ LongLast(l) => n \in 0..MaxParams - 1
  BY CountBounds
<1>2. /\ m.cmd = Block("tokens", 0, w[1])
      /\ LongLast(l) => m.nparams = n + 1 /\ m.params = [Slots(l) EXCEPT ![n] = Rest(l)]
      /\ ~LongLast(l) => m.nparams = n /\ m.params = Slots(l)
  BY FromStringFields
<1>3. \A i \in 0..MaxParams - 1 :
        Slots(l)[i] = NULL \/ Slots(l)[i] = Block("tokens", i + 1, w[i + 2])
  BY DEF Slots, ParamAt
<1>4. Rest(l).array = "s"
  BY DEF Rest, Block
<1>5. MaxParams \in Nat \ {0} /\ DOMAIN Slots(l) = 0..MaxParams - 1
  BY MessageAssumption DEF Slots
<1>6. /\ Blocks(m)[0] = m.cmd
      /\ \A i \in 1..m.nparams : Blocks(m)[i] = m.params[i - 1]
  <2>1. m.nparams \in Nat
    BY <1>1, <1>2
  <2> HIDE DEF m
  <2> QED BY <2>1 DEF Blocks
<1> HIDE DEF m, n, w
<1>7. /\ m.nparams \in Nat
      /\ \A i \in 0..m.nparams :
           \/ Blocks(m)[i] = NULL
           \/ Blocks(m)[i].array = "tokens" /\ Blocks(m)[i].at = i
           \/ i = m.nparams /\ Blocks(m)[i].array = "s"
  <2>1. m.nparams \in Nat
    BY <1>1, <1>2
  <2> SUFFICES ASSUME NEW i \in 0..m.nparams
               PROVE  \/ Blocks(m)[i] = NULL
                      \/ Blocks(m)[i].array = "tokens" /\ Blocks(m)[i].at = i
                      \/ i = m.nparams /\ Blocks(m)[i].array = "s"
    BY <2>1
  <2>2. CASE i = 0
    BY <1>2, <1>6, <2>2, BlockFields
  <2>3. CASE i # 0 /\ ~(LongLast(l) /\ i = n + 1)
    <3>1. i - 1 # n \/ ~LongLast(l)
      BY <1>1, <1>2, <1>5, <2>1, <2>3
    <3>2. i - 1 \in 0..MaxParams - 1 /\ i \in 1..m.nparams
      BY <1>1, <1>2, <1>5, <2>1, <2>3
    <3>3. Blocks(m)[i] = Slots(l)[i - 1]
      BY <1>2, <1>5, <1>6, <3>1, <3>2
    <3>4. i - 1 + 1 = i
      BY <3>2
    <3> QED BY <1>3, <3>2, <3>3, <3>4, BlockFields
  <2>4. CASE LongLast(l) /\ i = n + 1
    <3>1. i \in 1..m.nparams /\ i - 1 = n /\ n \in 0..MaxParams - 1 /\ i = m.nparams
      BY <1>1, <1>2, <2>4
    <3>2. Blocks(m)[i] = Rest(l)
      BY <1>2, <1>5, <1>6, <2>4, <3>1
    <3> QED BY <1>4, <3>1, <3>2
  <2> QED BY <2>2, <2>3, <2>4
<1>8. Separate(m)
  <2> SUFFICES ASSUME NEW i \in 0..m.nparams, NEW j \in 0..m.nparams,
                      Blocks(m)[i] = Blocks(m)[j], Blocks(m)[i] # NULL
               PROVE  i = j
    BY DEF Separate
  <2> DEFINE x == Blocks(m)[i]
  <2>1. (x.array = "tokens" /\ x.at = i) \/ (i = m.nparams /\ x.array = "s")
    BY <1>7
  <2>2. (x.array = "tokens" /\ x.at = j) \/ (j = m.nparams /\ x.array = "s")
    BY <1>7
  <2> HIDE DEF x
  <2> QED BY <2>1, <2>2
<1> QED BY <1>8 DEF m

\* What is freed is freed once.
LEMMA FreedOnce ==
  ASSUME NEW m, m.nparams \in Nat, Separate(m),
         NEW b \in {Blocks(m)[i] : i \in 0..m.nparams} \ {NULL}
  PROVE  Cardinality({i \in 0..m.nparams : Blocks(m)[i] = b}) = 1
<1>1. PICK i \in 0..m.nparams : Blocks(m)[i] = b /\ b # NULL
  OBVIOUS
<1>2. {j \in 0..m.nparams : Blocks(m)[j] = b} = {i}
  BY <1>1 DEF Separate
<1> QED BY <1>2, FS_Singleton
-------------------------------------------------------------------------------
(* process_cmd *)

\* Two strings agree up to the length of the longer one only if they are equal.
LEMMA SameIsEqual ==
  ASSUME NEW s \in Seq(Char), NEW t \in Seq(Char), NEW n, n = IF Len(s) > Len(t) THEN Len(s) ELSE Len(t)
  PROVE  SameUpTo(s, t, n) <=> s = t
<1>1. ASSUME NEW u \in Seq(Char), Len(u) <= n PROVE (IF Len(u) < n THEN u ELSE SubSeq(u, 1, n)) = u
  <2>1. n \in Nat
    OBVIOUS
  <2>2. CASE Len(u) < n
    BY <2>2
  <2>3. CASE Len(u) = n
    <3>1. SubSeq(u, 1, Len(u)) = u
      <4>1. /\ SubSeq(u, 0 + 1, Len(u)) \in Seq(Char)
            /\ Len(SubSeq(u, 0 + 1, Len(u))) = Len(u) - 0
            /\ \A i \in 1..Len(u) - 0 : SubSeq(u, 0 + 1, Len(u))[i] = u[0 + i]
        BY SubSeqAt
      <4>2. /\ SubSeq(u, 1, Len(u)) \in Seq(Char) /\ Len(SubSeq(u, 1, Len(u))) = Len(u)
            /\ \A i \in 1..Len(u) : SubSeq(u, 1, Len(u))[i] = u[i]
        BY <4>1
      <4> QED BY <4>2, SeqEqual
    <3> QED BY <2>3, <3>1
  <2> QED BY <1>1, <2>1, <2>2, <2>3
<1>2. Len(s) <= n /\ Len(t) <= n
  OBVIOUS
<1> DEFINE a == IF Len(s) < n THEN s ELSE SubSeq(s, 1, n)
           b == IF Len(t) < n THEN t ELSE SubSeq(t, 1, n)
<1>3. a = s /\ b = t
  BY <1>1, <1>2
<1>4. SameUpTo(s, t, n) <=> a = b
  BY Zenon DEF SameUpTo
<1> HIDE DEF a, b
<1> QED BY <1>3, <1>4

\* The commands of the table are strings.
LEMMA NamesTyped ==
  /\ Len(Names) \in Nat /\ DOMAIN Names = 1..Len(Names)
  /\ \A i \in DOMAIN Names : Names[i] \in Seq(Char)
<1>1. Names \in Seq(Seq(Letters))
  BY MessageAssumption
<1>2. ASSUME NEW i \in DOMAIN Names PROVE Names[i] \in Seq(Char)
  <2>1. Names[i] \in Seq(Letters)
    BY <1>1
  <2> QED BY <2>1 DEF Char
<1> QED BY <1>1, <1>2

\* The entry that process_cmd finds is the one that the command equals.
LEMMA LookupFinds ==
  ASSUME NEW cmd \in Seq(Char)
  PROVE  /\ Lookup(cmd) \in 0..Len(Names)
         /\ Lookup(cmd) # 0 => cmd = Names[Lookup(cmd)]
         /\ Lookup(cmd) = 0 => cmd \notin Range(Names)
<1> DEFINE Longer(s, t) == IF Len(s) > Len(t) THEN Len(s) ELSE Len(t)
           matches == {i \in DOMAIN Names : SameUpTo(cmd, Names[i], Longer(cmd, Names[i]))}
<1>1. matches = {i \in DOMAIN Names : cmd = Names[i]}
  BY NamesTyped, SameIsEqual
<1>2. Lookup(cmd) = IF matches = {} THEN 0 ELSE CHOOSE i \in matches : \A j \in matches : i <= j
  BY DEF Lookup
<1> HIDE DEF matches
<1>3. CASE matches = {}
  BY <1>1, <1>2, <1>3, NamesTyped DEF Range
<1>4. CASE matches # {}
  <2>1. matches \subseteq Nat
    BY <1>1, NamesTyped
  <2>2. \E i \in matches : \A j \in matches : i <= j
    BY <1>4, <2>1, LeastNumber
  <2>3. Lookup(cmd) \in matches
    BY <1>2, <1>4, <2>2
  <2>4. Lookup(cmd) \in 1..Len(Names) /\ cmd = Names[Lookup(cmd)]
    BY <1>1, <2>3, NamesTyped
  <2> QED BY <2>4, NamesTyped
<1> QED BY <1>3, <1>4
-------------------------------------------------------------------------------
(* The inductive invariant: what a message is at every place of its life. *)

\* A message that was built out of the caller's strings.
Built(m) ==
  /\ m.cmd \in TypeBlock /\ m.cmd = Block("caller", 0, m.cmd.text)
  /\ \A i \in 0..m.nparams - 1 : m.params[i] = Block("caller", i + 1, m.params[i].text)

Life ==
  /\ pc \in {"none", "built"} => line = <<>>
  /\ pc \in {"parsed", "crashed"} /\ line = <<>> => msg = Calloc
  /\ pc \in {"parsed", "handled", "closed", "destroyed", "crashed"} /\ line # <<>> =>
       ~Overruns(line) /\ msg = FromString(line)
  /\ pc = "overrun" => line # <<>> /\ Overruns(line)
  /\ pc = "crashed" => msg.cmd \in {NULL, WILD}
  /\ pc \in {"handled", "closed"} =>
       msg.cmd \notin {NULL, WILD} /\ line # <<>> /\ handler = Lookup(msg.cmd.text)
  /\ pc = "built" => Built(msg)
  /\ \A x \in DOMAIN freed : freed[x] = 1

IInv == TypeOK /\ Life

\* A line is a string.
LEMMA LinesTyped ==
  ASSUME NEW l \in Lines
  PROVE  l \in Seq(Char)
<1>1. PICK n \in 0..MaxLine : l \in [1..n -> Char]
  BY DEF Lines, Char
<1>2. n \in Nat
  BY MessageAssumption
<1> QED BY <1>1, <1>2

\* The empty line is a line.
LEMMA EmptyLine == <<>> \in Lines
<1>1. 0 \in 0..MaxLine /\ <<>> \in [1..0 -> Letters \cup {SP, COLON}]
  BY MessageAssumption
<1> QED BY <1>1 DEF Lines

\* A message from calloc is a message_t.
LEMMA CallocTyped ==
  /\ Calloc.cmd = NULL /\ Calloc.nparams = 0 /\ Calloc.longlast = FALSE
  /\ Calloc.params \in [0..MaxParams - 1 -> TypeBlock \cup {NULL}]
  /\ Calloc \in TypeMessage
BY MessageAssumption DEF Calloc, TypeMessage

\* There is no message yet, or no longer.
LEMMA NoMessage ==
  ASSUME pc = "none", line = <<>>, msg = Calloc, handler = 0, freed = <<>>
  PROVE  IInv
<1>1. DOMAIN freed = {}
  OBVIOUS
<1>2. handler \in 0..Len(Names)
  BY NamesTyped
<1>3. TypeOK
  BY <1>1, <1>2, CallocTyped, EmptyLine DEF TypeOK
<1>4. Life
  BY <1>1 DEF Life
<1> QED BY <1>3, <1>4 DEF IInv

\* IInv holds at the beginning, and every action keeps it.
LEMMA InitIInv == Init => IInv
BY NoMessage DEF Init

\* A line becomes a message only if it fits.
LEMMA ParseIInv ==
  ASSUME IInv, NEW l \in Lines, Parse(l)
  PROVE  IInv'
<1>1. /\ pc = "none" /\ line' = l /\ handler' = handler /\ freed' = freed
      /\ TypeOK /\ l \in Seq(Char)
      /\ \A b \in DOMAIN freed : freed[b] = 1
  BY LinesTyped DEF Parse, IInv, Life
<1>2. CASE l = <<>>
  <2>1. pc' = "parsed" /\ msg' = Calloc
    BY <1>2 DEF Parse
  <2>2. TypeOK'
    BY <1>1, <2>1, CallocTyped DEF TypeOK
  <2>3. Life'
    BY <1>1, <1>2, <2>1 DEF Life
  <2> QED BY <2>2, <2>3 DEF IInv
<1>3. CASE l # <<>> /\ Overruns(l)
  <2>1. pc' = "overrun" /\ msg' = msg
    BY <1>3 DEF Parse
  <2> QED BY <1>1, <1>3, <2>1 DEF IInv, TypeOK, Life
<1>4. CASE l # <<>> /\ ~Overruns(l)
  <2>1. pc' = "parsed" /\ msg' = FromString(l)
    BY <1>4 DEF Parse
  <2>2. msg' \in TypeMessage
    BY <1>1, <1>4, <2>1, FromStringTyped
  <2> QED BY <1>1, <1>4, <2>1, <2>2 DEF IInv, TypeOK, Life
<1> QED BY <1>2, <1>3, <1>4

\* A command that is there is looked up, one that is not ends the thread.
LEMMA ProcessCmdIInv ==
  ASSUME IInv, ProcessCmd
  PROVE  IInv'
<1>1. pc = "parsed" /\ UNCHANGED <<line, msg, freed>> /\ TypeOK /\ Life
  BY DEF ProcessCmd, IInv
<1>2. CASE msg.cmd \in {NULL, WILD}
  <2>1. pc' = "crashed" /\ handler' = handler
    BY <1>2 DEF ProcessCmd
  <2> QED BY <1>1, <1>2, <2>1 DEF IInv, TypeOK, Life
<1>3. CASE msg.cmd \notin {NULL, WILD}
  <2>1. pc' \in {"handled", "closed"} /\ handler' = Lookup(msg.cmd.text)
    BY <1>3 DEF ProcessCmd
  <2>2. msg.cmd.text \in Seq(Char)
    BY <1>1, <1>3 DEF TypeOK, TypeMessage, TypeBlock, Char
  <2>3. handler' \in 0..Len(Names)
    BY <2>1, <2>2, LookupFinds
  <2>4. line # <<>>
    BY <1>1, <1>3, CallocTyped DEF Life
  <2>5. TypeOK'
    BY <1>1, <2>1, <2>3 DEF TypeOK
  <2>6. Life'
    BY <1>1, <1>3, <2>1, <2>4 DEF Life
  <2> QED BY <2>5, <2>6 DEF IInv
<1> QED BY <1>2, <1>3

\* Whether it was parsed or built, a message refers to no string twice: each is freed once.
LEMMA DestroyIInv ==
  ASSUME IInv, Destroy
  PROVE  IInv'
<1> DEFINE blocks == {Blocks(msg)[i] : i \in 0..msg.nparams} \ {NULL}
           places(b) == {i \in 0..msg.nparams : Blocks(msg)[i] = b}
<1>1. /\ pc \in {"handled", "built"} /\ pc' = "destroyed" /\ UNCHANGED <<line, msg, handler>>
      /\ freed' = [b \in blocks |-> Cardinality(places(b))]
      /\ TypeOK /\ Life
  BY DEF Destroy, IInv
<1>2. msg.nparams \in 0..MaxParams /\ msg.nparams \in Nat /\ MaxParams \in Nat
  BY <1>1, MessageAssumption DEF TypeOK, TypeMessage
<1>3. Blocks(msg)[0] = msg.cmd /\ \A i \in 1..msg.nparams : Blocks(msg)[i] = msg.params[i - 1]
  BY <1>2 DEF Blocks
<1>4. blocks \subseteq TypeBlock
  <2> SUFFICES ASSUME NEW i \in 0..msg.nparams, Blocks(msg)[i] # NULL
               PROVE  Blocks(msg)[i] \in TypeBlock
    OBVIOUS
  <2>1. CASE i = 0
    <3>1. msg.cmd \notin {NULL, WILD}
      <4>1. CASE pc = "handled"
        BY <1>1, <4>1 DEF Life
      <4>2. CASE pc = "built"
        <5>1. msg.cmd \in TypeBlock
          BY <1>1, <4>2 DEF Life, Built
        <5> QED BY <1>3, <2>1, <5>1, MessageAssumption
      <4> QED BY <1>1, <4>1, <4>2
    <3> QED BY <1>1, <1>3, <2>1, <3>1 DEF TypeOK, TypeMessage
  <2>2. CASE i # 0
    <3>1. i \in 1..msg.nparams /\ i - 1 \in 0..MaxParams - 1
      BY <1>2, <2>2
    <3> QED BY <1>1, <1>3, <3>1 DEF TypeOK, TypeMessage
  <2> QED BY <2>1, <2>2
<1>5. Separate(msg)
  <2>1. CASE pc = "handled"
    <3>1. /\ line \in Seq(Char) /\ line # <<>> /\ ~Overruns(line) /\ msg = FromString(line)
          /\ msg.cmd # WILD
      BY <1>1, <2>1, LinesTyped DEF Life, TypeOK
    <3>2. Words(line) # <<>>
      BY <3>1, FromStringFields
    <3> QED BY <3>1, <3>2, FromStringSeparate
  <2>2. CASE pc = "built"
    <3>1. Built(msg)
      BY <1>1, <2>2 DEF Life
    <3>2. ASSUME NEW i \in 0..msg.nparams PROVE Blocks(msg)[i].at = i
      <4>1. CASE i = 0
        BY <1>3, <3>1, <4>1, BlockFields DEF Built
      <4>2. CASE i # 0
        <5>1. i \in 1..msg.nparams /\ i - 1 \in 0..msg.nparams - 1 /\ i - 1 + 1 = i
          BY <1>2, <4>2
        <5> QED BY <1>3, <3>1, <5>1, BlockFields DEF Built
      <4> QED BY <4>1, <4>2
    <3> QED BY <3>2 DEF Separate
  <2> QED BY <1>1, <2>1, <2>2
<1>6. \A b \in blocks : Cardinality(places(b)) = 1
  BY <1>2, <1>5, FreedOnce
<1>7. DOMAIN freed' = blocks /\ \A b \in DOMAIN freed' : freed'[b] = 1
  <2> HIDE DEF blocks, places
  <2> QED BY <1>1, <1>6
<1> HIDE DEF blocks, places
<1>8. TypeOK'
  BY <1>1, <1>4, <1>7 DEF TypeOK
<1>9. Life'
  BY <1>1, <1>7 DEF Life
<1> QED BY <1>8, <1>9 DEF IInv

\* A forgotten message leaves the initial state.
LEMMA ForgetIInv ==
  ASSUME IInv, Forget
  PROVE  IInv'
<1>1. pc' = "none" /\ line' = <<>> /\ msg' = Calloc /\ handler' = 0 /\ freed' = <<>>
  BY DEF Forget
<1>2. DOMAIN freed' = {}
  BY <1>1
<1>3. handler' \in 0..Len(Names)
  BY <1>1, NamesTyped
<1>4. TypeOK'
  BY <1>1, <1>2, <1>3, CallocTyped, EmptyLine DEF TypeOK
<1>5. Life'
  BY <1>1, <1>2 DEF Life
<1> QED BY <1>4, <1>5 DEF IInv

\* What a caller passes is a string.
LEMMA TextsTyped ==
  ASSUME NEW t \in Texts
  PROVE  t \in Seq(Char)
<1>1. CASE t = <<>>
  BY <1>1
<1>2. CASE t # <<>>
  <2>1. PICK c \in Letters : t = <<c>>
    BY <1>2 DEF Texts
  <2>2. c \in Char
    BY DEF Char
  <2> QED BY <2>1, <2>2
<1> QED BY <1>1, <1>2

\* Adding a parameter keeps a built message what it is.
LEMMA AddParameterBuilt ==
  ASSUME NEW m \in TypeMessage, Built(m), NEW t \in Seq(Char), NEW b \in BOOLEAN
  PROVE  AddParameter(m, t, b) \in TypeMessage /\ Built(AddParameter(m, t, b))
<1> DEFINE r == AddParameter(m, t, b)
           p == Block("caller", m.nparams + 1, t)
<1>1. CASE m.nparams = MaxParams \/ m.longlast \/ t = <<>>
  BY <1>1 DEF AddParameter
<1>2. CASE ~(m.nparams = MaxParams \/ m.longlast \/ t = <<>>)
  <2>1. r = [m EXCEPT !.params[m.nparams] = p, !.nparams = m.nparams + 1, !.longlast = b]
    BY <1>2 DEF AddParameter
  <2>2. /\ m.nparams \in 0..MaxParams - 1 /\ m.nparams + 1 \in 0..MaxParams /\ m.nparams \in Nat
        /\ m.params \in [0..MaxParams - 1 -> TypeBlock \cup {NULL}]
        /\ m.cmd \in TypeBlock \cup {NULL, WILD}
    BY <1>2, MessageAssumption DEF TypeMessage
  <2>3. p \in TypeBlock
    BY <2>2, BlockTyped
  <2> HIDE DEF p, r
  <2>4. r = [cmd |-> m.cmd, nparams |-> m.nparams + 1, longlast |-> b,
             params |-> [m.params EXCEPT ![m.nparams] = p]]
    BY <2>1 DEF TypeMessage
  <2>5. r \in TypeMessage
    BY <2>2, <2>3, <2>4 DEF TypeMessage
  <2>6. ASSUME NEW i \in 0..m.nparams
        PROVE  r.params[i] = Block("caller", i + 1, r.params[i].text)
    <3>1. CASE i = m.nparams
      <4>1. r.params[m.nparams] = p
        BY <2>2, <2>4
      <4>2. p.text = t
        BY BlockFields DEF p
      <4> QED BY <3>1, <4>1, <4>2 DEF p
    <3>2. CASE i # m.nparams
      <4>1. i \in 0..m.nparams - 1 /\ r.params[i] = m.params[i]
        BY <2>2, <2>4, <3>2
      <4> QED BY <4>1 DEF Built
    <3> QED BY <3>1, <3>2
  <2>7. r.nparams - 1 = m.nparams /\ r.cmd = m.cmd
    BY <2>2, <2>4
  <2>8. Built(r)
    BY <2>6, <2>7 DEF Built
  <2> QED BY <2>5, <2>8 DEF r
<1> QED BY <1>1, <1>2

\* A message under construction is built out of the caller's strings.
LEMMA ConstructIInv ==
  ASSUME IInv, NEW t \in Texts, NEW u \in Texts, Construct(t, u)
  PROVE  IInv'
<1> DEFINE m == [Calloc EXCEPT !.cmd = Block("caller", 0, t)]
<1>1. /\ pc = "none" /\ pc' = "built" /\ UNCHANGED <<line, handler, freed>>
      /\ msg' = AddParameter(m, u, FALSE) /\ TypeOK /\ Life
  BY DEF Construct, IInv
<1>2. Block("caller", 0, t) \in TypeBlock
  <2>1. 0 \in 0..MaxParams /\ t \in Seq(Char)
    BY MessageAssumption, TextsTyped
  <2> QED BY <2>1, BlockTyped
<1>3. m \in TypeMessage /\ m.cmd = Block("caller", 0, t) /\ m.nparams = 0
  <2>1. ASSUME NEW k \in TypeMessage, NEW x \in TypeBlock
        PROVE  /\ [k EXCEPT !.cmd = x] \in TypeMessage
               /\ ([k EXCEPT !.cmd = x]).cmd = x /\ ([k EXCEPT !.cmd = x]).nparams = k.nparams
    BY DEF TypeMessage
  <2> QED BY <1>2, <2>1, CallocTyped
<1> HIDE DEF m
<1>4. Built(m)
  BY <1>2, <1>3, BlockFields DEF Built
<1>5. msg' \in TypeMessage /\ Built(msg')
  <2>1. u \in Seq(Char) /\ FALSE \in BOOLEAN
    BY TextsTyped
  <2> QED BY <1>1, <1>3, <1>4, <2>1, AddParameterBuilt
<1>6. TypeOK'
  BY <1>1, <1>5 DEF TypeOK
<1>7. Life'
  BY <1>1, <1>5 DEF Life
<1> QED BY <1>6, <1>7 DEF IInv

\* One parameter more keeps it so.
LEMMA AddIInv ==
  ASSUME IInv, NEW t \in Texts, NEW b \in BOOLEAN, Add(t, b)
  PROVE  IInv'
<1>1. /\ pc = "built" /\ UNCHANGED <<pc, line, handler, freed>>
      /\ msg' = AddParameter(msg, t, b) /\ TypeOK /\ Life
  BY DEF Add, IInv
<1>2. msg \in TypeMessage /\ Built(msg)
  BY <1>1 DEF TypeOK, Life
<1>3. msg' \in TypeMessage /\ Built(msg')
  <2>1. t \in Seq(Char)
    BY TextsTyped
  <2> QED BY <1>1, <1>2, <2>1, AddParameterBuilt
<1>4. TypeOK'
  BY <1>1, <1>3 DEF TypeOK
<1>5. Life'
  BY <1>1, <1>3 DEF Life
<1> QED BY <1>4, <1>5 DEF IInv

\* Every step keeps IInv.
LEMMA NextIInv == IInv /\ [Next]_vars => IInv'
<1> SUFFICES ASSUME IInv, [Next]_vars PROVE IInv'
  OBVIOUS
<1>1. CASE UNCHANGED vars
  BY <1>1 DEF vars, IInv, TypeOK, Life
<1>2. CASE Next
  BY <1>2, ParseIInv, ProcessCmdIInv, DestroyIInv, ForgetIInv, ConstructIInv, AddIInv DEF Next
<1> QED BY <1>1, <1>2

\* IInv is an invariant.
LEMMA Invariant == Spec => []IInv
BY InitIInv, NextIInv, PTL DEF Spec
-------------------------------------------------------------------------------
(* Words and spaces *)

\* A word lies between two cuts.
LEMMA CutTyped ==
  ASSUME NEW l \in Seq(Char), NEW c \in Nat, NEW w, NEW cut, WordCuts(w, cut, l, c),
         NEW k \in 1..Len(w)
  PROVE  /\ k - 1 \in 0..Len(w) /\ k \in 0..Len(w) /\ Len(w) \in Nat
         /\ cut[k - 1] \in Nat /\ cut[k] \in Nat /\ cut[k - 1] < cut[k] /\ cut[k] <= c
         /\ w[k] = SubSeq(l, cut[k - 1] + 1, cut[k] - 1)
         /\ \A j \in cut[k - 1] + 1..cut[k] - 1 : l[j] # SP
<1>1. /\ Len(w) \in Nat /\ cut \in [0..Len(w) -> Nat]
  BY DEF WordCuts
<1>2. k - 1 \in 0..Len(w) /\ k \in 0..Len(w)
  BY <1>1
<1>3. cut[k - 1] \in Nat /\ cut[k] \in Nat
  BY <1>1, <1>2
<1>4. /\ cut[k - 1] < cut[k] /\ cut[k] <= c
      /\ w[k] = SubSeq(l, cut[k - 1] + 1, cut[k] - 1)
      /\ \A j \in cut[k - 1] + 1..cut[k] - 1 : l[j] # SP
  BY DEF WordCuts
<1> QED BY <1>1, <1>2, <1>3, <1>4

\* A word is empty where two cuts stand side by side.
LEMMA EmptyWordCut ==
  ASSUME NEW l \in Seq(Char), NEW c \in 1..Len(l) + 1, NEW w, NEW cut, WordCuts(w, cut, l, c),
         NEW k \in 1..Len(w)
  PROVE  w[k] = <<>> <=> cut[k] = cut[k - 1] + 1
<1>1. c \in Nat /\ c <= Len(l) + 1 /\ Len(l) \in Nat
  OBVIOUS
<1>2. PICK a \in Nat, b \in Nat : /\ a = cut[k - 1] /\ b = cut[k] /\ a < b /\ b <= c
                                  /\ w[k] = SubSeq(l, a + 1, b - 1)
  <2>1. /\ cut[k - 1] \in Nat /\ cut[k] \in Nat /\ cut[k - 1] < cut[k] /\ cut[k] <= c
        /\ w[k] = SubSeq(l, cut[k - 1] + 1, cut[k] - 1)
    BY <1>1, CutTyped
  <2> QED BY <2>1
<1>3. b - 1 \in Nat /\ a <= b - 1 /\ b - 1 <= Len(l)
  <2>1. a < b /\ b <= c
    BY <1>2
  <2> QED BY <1>1, <2>1
<1>4. w[k] \in Seq(Char) /\ Len(w[k]) = b - 1 - a
  <2>1. \A e \in Nat : a <= e /\ e <= Len(l) =>
          SubSeq(l, a + 1, e) \in Seq(Char) /\ Len(SubSeq(l, a + 1, e)) = e - a
    BY SubSeqAt
  <2> QED BY <1>2, <1>3, <2>1
<1>5. w[k] = <<>> <=> Len(w[k]) = 0
  BY <1>4
<1>6. b - 1 - a = 0 <=> b = a + 1
  OBVIOUS
<1> QED BY <1>2, <1>4, <1>5, <1>6

\* What stands before the first colon.
LEMMA BeforeIs ==
  ASSUME NEW l \in Seq(Char), NEW c, FirstColon(l, c)
  PROVE  Before(l) = 1..c - 1
<1>1. c \in 1..Len(l) + 1 /\ c \in Nat /\ DOMAIN l = 1..Len(l) /\ Len(l) \in Nat
  BY DEF FirstColon
<1>2. ASSUME NEW i \in 1..c - 1 PROVE i \in Before(l)
  <2>1. i \in DOMAIN l /\ \A j \in 1..i : j \in 1..c - 1
    BY <1>1
  <2> QED BY <2>1 DEF Before, FirstColon
<1>3. ASSUME NEW i \in Before(l) PROVE i \in 1..c - 1
  <2>1. i \in 1..Len(l) /\ \A j \in 1..i : l[j] # COLON
    BY <1>1 DEF Before
  <2>2. c \notin 1..i
    BY <1>1, <2>1 DEF FirstColon
  <2> QED BY <1>1, <2>1, <2>2
<1> QED BY <1>2, <1>3

\* Two empty places in a row are two adjacent spaces.
LEMMA EmptyWordInside ==
  ASSUME NEW l \in Seq(Char), NEW c, FirstColon(l, c), NEW w, NEW cut, WordCuts(w, cut, l, c),
         NEW k \in 2..Len(w) - 1, w[k] = <<>>
  PROVE  EmptyWord(l)
<1>1. /\ c \in 1..Len(l) + 1 /\ c \in Nat
  BY DEF FirstColon
<1>2. /\ k \in 1..Len(w) /\ k - 1 \in 1..Len(w) - 1 /\ k \in 1..Len(w) - 1 /\ k - 1 \in 1..Len(w)
      /\ Len(w) \in Nat
  <2>1. Len(w) \in Nat
    BY DEF WordCuts
  <2> QED BY <2>1
<1>3. cut[k] = cut[k - 1] + 1 /\ cut[k - 1] \in Nat /\ cut[k] \in Nat
  BY <1>1, <1>2, EmptyWordCut, CutTyped
<1>4. cut[k - 1] # 0
  BY <1>1, <1>2, CutTyped
<1>5. cut[k - 1] < c /\ l[cut[k - 1]] = SP /\ cut[k] < c /\ l[cut[k]] = SP
  BY <1>2 DEF WordCuts
<1>6. cut[k - 1] \in Before(l) /\ cut[k - 1] + 1 \in Before(l)
  BY <1>1, <1>3, <1>4, <1>5, BeforeIs
<1> QED BY <1>3, <1>5, <1>6 DEF EmptyWord

\* A parameter that is counted and missing lies before one that is there.
LEMMA HoleInside ==
  ASSUME NEW w \in Seq(Seq(Char)), NEW i \in Nat, i < CountWords(w), ~WordAt(w, i)
  PROVE  i + 2 \in 2..Len(w) - 1 /\ w[i + 2] = <<>>
<1>1. /\ IsFiniteSet(Stored(w)) /\ CountWords(w) = Cardinality(Stored(w))
      /\ CountWords(w) \in Nat /\ Len(w) \in Nat
  BY StoredFinite
<1>2. PICK j \in Stored(w) : j > i
  <2> SUFFICES ASSUME \A j \in Stored(w) : ~(j > i) PROVE FALSE
    OBVIOUS
  <2>1. ASSUME NEW j \in Stored(w) PROVE j \in 0..i - 1
    <3>1. j \in 0..Len(w) /\ WordAt(w, j)
      BY DEF Stored
    <3>2. j # i
      BY <3>1
    <3> QED BY <1>1, <3>1, <3>2
  <2>2. Stored(w) \subseteq 0..i - 1
    BY <2>1
  <2>3. IsFiniteSet(0..i - 1) /\ Cardinality(0..i - 1) = i
    <3>1. IsFiniteSet(0..i - 1) /\ Cardinality(0..i - 1) = IF 0 > i - 1 THEN 0 ELSE i - 1 - 0 + 1
      BY FS_Interval
    <3> QED BY <3>1
  <2>4. Cardinality(Stored(w)) <= i
    BY <2>2, <2>3, FS_Subset
  <2> QED BY <1>1, <2>4
<1>3. j \in Nat /\ j + 2 <= Len(w)
  BY DEF Stored, WordAt
<1>4. i + 2 \in 2..Len(w) - 1
  BY <1>1, <1>2, <1>3
<1> QED BY <1>1, <1>4 DEF WordAt
-------------------------------------------------------------------------------
(* Regular lines *)

\* A regular line has a command, and a colon follows a space.
LEMMA RegularColon ==
  ASSUME NEW l \in Seq(Char), Regular(l), NEW c, FirstColon(l, c)
  PROVE  /\ l # <<>> /\ c \in Nat /\ Len(l) \in Nat /\ c > 1 /\ c <= Len(l) + 1
         /\ LongLast(l) => c <= Len(l) /\ l[c] = COLON /\ l[c - 1] = SP
         /\ ~LongLast(l) => c = Len(l) + 1
<1>1. /\ c \in 1..Len(l) + 1 /\ \A j \in 1..c - 1 : l[j] # COLON
      /\ c <= Len(l) => l[c] = COLON
      /\ LongLast(l) <=> c <= Len(l)
  BY DEF FirstColon
<1>2. /\ l # <<>> /\ l[1] \in Letters
      /\ \A i \in DOMAIN l : l[i] = COLON /\ (\A j \in 1..i - 1 : l[j] # COLON) => l[i - 1] = SP
  BY DEF Regular
<1>3. Len(l) \in Nat /\ DOMAIN l = 1..Len(l) /\ 1 <= Len(l)
  BY <1>2
<1>4. l[1] # COLON
  BY <1>2, MessageAssumption
<1>5. c # 1
  BY <1>1, <1>3, <1>4
<1>6. LongLast(l) => c <= Len(l) /\ l[c] = COLON /\ l[c - 1] = SP
  <2> SUFFICES ASSUME LongLast(l) PROVE c <= Len(l) /\ l[c] = COLON /\ l[c - 1] = SP
    OBVIOUS
  <2>1. c \in DOMAIN l /\ l[c] = COLON /\ c <= Len(l)
    BY <1>1, <1>3
  <2> QED BY <1>1, <1>2, <2>1
<1>7. c \in Nat /\ c > 1 /\ c <= Len(l) + 1
  BY <1>1, <1>3, <1>5
<1>8. ~LongLast(l) => c = Len(l) + 1
  BY <1>1, <1>3, <1>7
<1> QED BY <1>2, <1>3, <1>6, <1>7, <1>8

\* The only empty word of a regular line is the one between the last space and the colon
\* of the last parameter.
LEMMA RegularWords ==
  ASSUME NEW l \in Seq(Char), Regular(l), NEW c, FirstColon(l, c), NEW w, NEW cut,
         WordCuts(w, cut, l, c)
  PROVE  /\ Len(w) \in Nat /\ Len(w) >= 1
         /\ LongLast(l) => Len(w) >= 2 /\ cut[Len(w) - 1] = c - 1
         /\ \A k \in 1..Len(w) : w[k] = <<>> <=> k = Len(w) /\ LongLast(l)
<1>1. /\ l # <<>> /\ c \in Nat /\ Len(l) \in Nat /\ c > 1 /\ c <= Len(l) + 1
      /\ LongLast(l) => c <= Len(l) /\ l[c] = COLON /\ l[c - 1] = SP
      /\ ~LongLast(l) => c = Len(l) + 1
  BY RegularColon
<1>2. /\ l[1] \in Letters /\ l[Len(l)] # SP /\ ~EmptyWord(l)
  BY DEF Regular
<1>3. PICK n \in Nat : /\ n = Len(w) /\ n >= 1
                       /\ cut[0] = 0 /\ cut[n] = c
                       /\ \A k \in 1..n - 1 : cut[k] < c /\ l[cut[k]] = SP
  <2>1. /\ Len(w) \in Nat /\ Len(w) >= 1
        /\ cut[0] = 0 /\ cut[Len(w)] = c
        /\ \A k \in 1..Len(w) - 1 : cut[k] < c /\ l[cut[k]] = SP
    BY DEF WordCuts
  <2> QED BY <2>1
<1>4. \A k \in 1..n :
        /\ k - 1 \in 0..n /\ cut[k - 1] \in Nat /\ cut[k] \in Nat
        /\ cut[k - 1] < cut[k] /\ cut[k] <= c
        /\ \A j \in cut[k - 1] + 1..cut[k] - 1 : l[j] # SP
        /\ w[k] = <<>> <=> cut[k] = cut[k - 1] + 1
  <2>1. c \in 1..Len(l) + 1
    BY <1>1
  <2> QED BY <1>1, <1>3, <2>1, CutTyped, EmptyWordCut
<1>5. LongLast(l) => n >= 2 /\ cut[n - 1] = c - 1
  <2> SUFFICES ASSUME LongLast(l) PROVE n >= 2 /\ cut[n - 1] = c - 1
    OBVIOUS
  <2>1. l[c - 1] = SP /\ n \in 1..n
    BY <1>1, <1>3
  <2>2. cut[n - 1] \in Nat /\ cut[n - 1] < c /\ \A j \in cut[n - 1] + 1..c - 1 : l[j] # SP
    BY <1>3, <1>4, <2>1
  <2>3. c - 1 \notin cut[n - 1] + 1..c - 1
    BY <2>1, <2>2
  <2>4. cut[n - 1] = c - 1
    BY <1>1, <2>2, <2>3
  <2>5. n # 1
    BY <1>1, <1>3, <2>4
  <2> QED BY <1>3, <2>4, <2>5
<1>6. ~LongLast(l) => w[n] # <<>>
  <2> SUFFICES ASSUME ~LongLast(l), w[n] = <<>> PROVE FALSE
    OBVIOUS
  <2>1. n \in 1..n /\ c = Len(l) + 1
    BY <1>1, <1>3
  <2>2. cut[n - 1] \in Nat /\ c = cut[n - 1] + 1
    BY <1>3, <1>4, <2>1
  <2>3. cut[n - 1] = Len(l)
    BY <1>1, <2>1, <2>2
  <2>4. n # 1
    BY <1>1, <1>3, <2>3
  <2>5. n - 1 \in 1..n - 1
    BY <1>3, <2>4
  <2> QED BY <1>2, <1>3, <2>3, <2>5
<1>7. ASSUME NEW k \in 1..n, k # n PROVE w[k] # <<>>
  <2> SUFFICES ASSUME w[k] = <<>> PROVE FALSE
    OBVIOUS
  <2>1. CASE k = 1
    <3>1. cut[1] = 1
      <4>1. cut[k] = cut[k - 1] + 1 /\ k - 1 = 0
        BY <1>4, <2>1
      <4> QED BY <1>3, <2>1, <4>1
    <3>2. 1 \in 1..n - 1
      BY <1>7, <2>1
    <3>3. l[1] = SP
      BY <1>3, <3>1, <3>2
    <3> QED BY <1>2, <3>3, MessageAssumption
  <2>2. CASE k # 1
    <3>1. k \in 2..Len(w) - 1
      BY <1>3, <1>7, <2>2
    <3> QED BY <1>2, <3>1, EmptyWordInside
  <2> QED BY <2>1, <2>2
<1>8. LongLast(l) => w[n] = <<>>
  <2> SUFFICES ASSUME LongLast(l) PROVE w[n] = <<>>
    OBVIOUS
  <2>1. n \in 1..n /\ cut[n] = cut[n - 1] + 1
    BY <1>1, <1>3, <1>5
  <2> QED BY <1>4, <2>1
<1> QED BY <1>3, <1>5, <1>6, <1>7, <1>8

\* Which words of a regular line are stored, and how many they are.
LEMMA RegularStored ==
  ASSUME NEW l \in Seq(Char), Regular(l), NEW c, FirstColon(l, c), NEW w, NEW cut,
         WordCuts(w, cut, l, c)
  PROVE  LET n == IF LongLast(l) THEN Len(w) - 2 ELSE Len(w) - 1
         IN  n \in Nat /\ CountWords(w) = n /\ \A i \in Nat : WordAt(w, i) <=> i < n
<1> DEFINE n == IF LongLast(l) THEN Len(w) - 2 ELSE Len(w) - 1
<1>1. /\ Len(w) \in Nat /\ Len(w) >= 1
      /\ LongLast(l) => Len(w) >= 2
      /\ \A k \in 1..Len(w) : w[k] = <<>> <=> k = Len(w) /\ LongLast(l)
  BY RegularWords
<1>2. n \in Nat /\ n < Len(w)
  BY <1>1
<1>3. ASSUME NEW i \in Nat PROVE WordAt(w, i) <=> i < n
  <2>1. CASE i + 2 <= Len(w)
    <3>1. i + 2 \in 1..Len(w)
      BY <1>1, <2>1
    <3>2. WordAt(w, i) <=> ~(i + 2 = Len(w) /\ LongLast(l))
      BY <1>1, <2>1, <3>1 DEF WordAt
    <3> QED BY <1>1, <2>1, <3>2
  <2>2. CASE ~(i + 2 <= Len(w))
    <3>1. ~WordAt(w, i)
      BY <2>2 DEF WordAt
    <3> QED BY <1>1, <2>2, <3>1
  <2> QED BY <2>1, <2>2
<1> HIDE DEF n
<1>4. {i \in 0..Len(w) : WordAt(w, i)} = 0..n - 1
  <2>1. \A i \in 0..Len(w) : i \in Nat
    BY <1>1
  <2>2. \A i \in 0..n - 1 : i \in 0..Len(w) /\ i < n
    BY <1>1, <1>2
  <2>3. \A i \in 0..Len(w) : i < n => i \in 0..n - 1
    BY <1>1, <1>2
  <2> QED BY <1>3, <2>1, <2>2, <2>3
<1>5. Cardinality(0..n - 1) = n
  <2>1. Cardinality(0..n - 1) = IF 0 > n - 1 THEN 0 ELSE n - 1 - 0 + 1
    BY <1>2, FS_Interval
  <2> QED BY <1>2, <2>1
<1>6. CountWords(w) = n
  BY <1>4, <1>5 DEF CountWords
<1> QED BY <1>2, <1>3, <1>6 DEF n

\* A regular line is written beyond params exactly if it has more spaces, and so more
\* parameters, than there is room for.
LEMMA RegularOverruns ==
  ASSUME NEW l \in Seq(Char), Regular(l)
  PROVE  Overruns(l) <=> Cardinality({i \in Before(l) : l[i] = SP}) > MaxParams
<1>1. PICK c : FirstColon(l, c)
  BY HasFirstColon DEF Regular
<1>2. c > 1 /\ l # <<>> /\ c \in Nat
  BY <1>1, RegularColon
<1> DEFINE w == Words(l)
           n == IF LongLast(l) THEN Len(w) - 2 ELSE Len(w) - 1
<1>3. PICK cut : WordCuts(w, cut, l, c)
  BY <1>1, <1>2, HasWordCuts
<1>4. n \in Nat /\ CountWords(w) = n /\ \A i \in Nat : WordAt(w, i) <=> i < n
  BY <1>1, <1>3, RegularStored
<1>5. Len(w) \in Nat /\ Len(w) - 1 = Cardinality(Seps(l, SP, c - 1))
  <2>1. Cardinality(Seps(l, SP, c - 1)) \in 0..c - 1
    BY <1>2, SepsGrow
  <2>2. Len(w) \in Nat /\ Len(w) = 1 + Cardinality(Seps(l, SP, c - 1))
    BY <1>3 DEF WordCuts
  <2> QED BY <2>1, <2>2
<1>6. {i \in Before(l) : l[i] = SP} = Seps(l, SP, c - 1)
  BY <1>1, BeforeIs DEF Seps
<1>7. Overruns(l) <=> \/ \E i \in MaxParams..Len(w) : WordAt(w, i)
                      \/ LongLast(l) /\ CountWords(w) >= MaxParams
  BY DEF Overruns
<1>8. (n = Len(w) - 2 /\ LongLast(l)) \/ (n = Len(w) - 1 /\ ~LongLast(l))
  OBVIOUS
<1> HIDE DEF w, n
<1>9. MaxParams \in Nat /\ \A i \in MaxParams..Len(w) : i \in Nat
  BY <1>5, MessageAssumption
<1>10. (\E i \in MaxParams..Len(w) : WordAt(w, i)) <=> MaxParams < n
  <2>1. ASSUME NEW i \in MaxParams..Len(w), WordAt(w, i) PROVE MaxParams < n
    <3>1. i \in Nat /\ MaxParams <= i /\ i < n
      BY <1>4, <1>5, <1>9, <2>1
    <3> QED BY <1>4, <1>9, <3>1
  <2>2. ASSUME MaxParams < n PROVE \E i \in MaxParams..Len(w) : WordAt(w, i)
    <3>1. MaxParams \in MaxParams..Len(w)
      BY <1>4, <1>5, <1>8, <1>9, <2>2
    <3>2. WordAt(w, MaxParams)
      BY <1>4, <1>9, <2>2
    <3> QED BY <3>1, <3>2
  <2> QED BY <2>1, <2>2
<1>11. Overruns(l) <=> Len(w) - 1 > MaxParams
  BY <1>4, <1>5, <1>7, <1>8, <1>9, <1>10
<1> QED BY <1>5, <1>6, <1>11
-------------------------------------------------------------------------------
(* The message of a regular line *)

\* The parameters of a regular line are its words but the first one, and what follows
\* the colon.
LEMMA RegularParams ==
  ASSUME NEW l \in Seq(Char), Regular(l), ~Overruns(l), NEW c, FirstColon(l, c), NEW w, NEW cut,
         w = Words(l), WordCuts(w, cut, l, c), NEW m, m = FromString(l)
  PROVE  /\ m.nparams = Len(w) - 1 /\ (m.longlast <=> LongLast(l))
         /\ m.cmd = Block("tokens", 0, w[1])
         /\ LongLast(l) => m.params[Len(w) - 2] = Block("s", 0, Piece(l, c, Len(l)))
         /\ \A i \in 0..Len(w) - 2 : ~(LongLast(l) /\ i = Len(w) - 2) =>
              m.params[i] = Block("tokens", i + 1, w[i + 2])
<1>1. /\ l # <<>> /\ c \in Nat /\ Len(l) \in Nat /\ c > 1 /\ c <= Len(l) + 1
  BY RegularColon
<1>2. /\ Len(w) \in Nat /\ Len(w) >= 1
      /\ LongLast(l) => Len(w) >= 2
  BY RegularWords
<1> DEFINE n == IF LongLast(l) THEN Len(w) - 2 ELSE Len(w) - 1
<1>3. n \in Nat /\ CountWords(w) = n /\ \A i \in Nat : WordAt(w, i) <=> i < n
  BY RegularStored
<1>4. (LongLast(l) /\ n = Len(w) - 2) \/ (~LongLast(l) /\ n = Len(w) - 1)
  OBVIOUS
<1> HIDE DEF n
<1>5. /\ n \in 0..MaxParams
      /\ LongLast(l) => n \in 0..MaxParams - 1
      /\ \A i \in Nat : WordAt(w, i) => i \in 0..MaxParams - 1
  BY <1>1, <1>3, CountBounds
<1>6. /\ m.cmd = IF w = <<>> THEN WILD ELSE Block("tokens", 0, w[1])
      /\ LongLast(l) => m.nparams = n + 1 /\ m.params = [Slots(l) EXCEPT ![n] = Rest(l)]
      /\ ~LongLast(l) => m.nparams = n /\ m.params = Slots(l)
      /\ m.longlast = LongLast(l)
  BY <1>3, FromStringFields
<1>7. m.nparams = Len(w) - 1
  BY <1>2, <1>4, <1>6
<1>8. m.cmd = Block("tokens", 0, w[1])
  BY <1>2, <1>6
<1>9. DOMAIN Slots(l) = 0..MaxParams - 1
  BY DEF Slots
<1>10. ASSUME NEW i \in 0..n - 1 PROVE Slots(l)[i] = Block("tokens", i + 1, w[i + 2])
  <2>1. i \in Nat /\ i < n /\ WordAt(w, i) /\ i \in 0..MaxParams - 1
    BY <1>3, <1>5
  <2> QED BY <2>1 DEF Slots, ParamAt
<1>11. Rest(l) = Block("s", 0, Piece(l, c, Len(l)))
  <2>1. SplitLen(l, COLON).tokens[1] = SubSeq(l, 0 + 1, c - 1)
    BY DEF FirstColon
  <2>2. Len(SubSeq(l, 0 + 1, c - 1)) = c - 1 - 0
    <3>1. c - 1 \in Nat /\ 0 <= c - 1 /\ c - 1 <= Len(l)
      BY <1>1
    <3> QED BY <3>1, SubSeqAt
  <2>3. Len(SplitLen(l, COLON).tokens[1]) + 2 = c + 1
    BY <1>1, <2>1, <2>2
  <2> QED BY <2>3 DEF Rest, Piece
<1>12. LongLast(l) => m.params[Len(w) - 2] = Block("s", 0, Piece(l, c, Len(l)))
  BY <1>4, <1>5, <1>6, <1>9, <1>11
<1>13. ASSUME NEW i \in 0..Len(w) - 2, ~(LongLast(l) /\ i = Len(w) - 2)
       PROVE  m.params[i] = Block("tokens", i + 1, w[i + 2])
  <2>1. i \in 0..n - 1 /\ i # n
    BY <1>2, <1>4, <1>13
  <2>2. m.params[i] = Slots(l)[i]
    <3>1. CASE LongLast(l)
      <4>1. i \in 0..MaxParams - 1
        BY <1>3, <1>5, <2>1
      <4> QED BY <1>6, <1>9, <2>1, <3>1, <4>1
    <3>2. CASE ~LongLast(l)
      BY <1>6, <3>2
    <3> QED BY <3>1, <3>2
  <2> QED BY <1>10, <2>1, <2>2
<1> QED BY <1>6, <1>7, <1>8, <1>12, <1>13

\* Writing the message of a regular line down gives the line.
LEMMA RegularJoined ==
  ASSUME NEW l \in Seq(Char), Regular(l), ~Overruns(l), NEW m, m = FromString(l)
  PROVE  l = Joined(m)
<1>1. PICK c : FirstColon(l, c)
  BY HasFirstColon DEF Regular
<1>2. /\ l # <<>> /\ c \in Nat /\ Len(l) \in Nat /\ c > 1 /\ c <= Len(l) + 1
      /\ LongLast(l) => c <= Len(l) /\ l[c] = COLON /\ l[c - 1] = SP
      /\ ~LongLast(l) => c = Len(l) + 1
  BY <1>1, RegularColon
<1> DEFINE w == Words(l)
<1>3. PICK cut : WordCuts(w, cut, l, c)
  BY <1>1, <1>2, HasWordCuts
<1>4. PICK n \in Nat \ {0} : n = Len(w)
  BY <1>1, <1>3, RegularWords
<1>5. LongLast(l) => n >= 2 /\ cut[n - 1] = c - 1
  BY <1>1, <1>3, <1>4, RegularWords
<1>6. /\ m.nparams = n - 1 /\ (m.longlast <=> LongLast(l))
      /\ m.cmd = Block("tokens", 0, w[1])
      /\ LongLast(l) => m.params[n - 2] = Block("s", 0, Piece(l, c, Len(l)))
      /\ \A i \in 0..n - 2 : ~(LongLast(l) /\ i = n - 2) =>
           m.params[i] = Block("tokens", i + 1, w[i + 2])
  BY <1>1, <1>3, <1>4, RegularParams
<1> HIDE DEF w
<1>7. /\ cut[0] = 0 /\ cut[n] = c
      /\ \A k \in 1..n - 1 : cut[k] < c /\ l[cut[k]] = SP
  BY <1>3, <1>4 DEF WordCuts
<1>8. \A k \in 1..n :
        /\ cut[k - 1] \in Nat /\ cut[k] \in Nat /\ cut[k - 1] < cut[k] /\ cut[k] <= c
        /\ w[k] = Piece(l, cut[k - 1], cut[k] - 1)
  BY <1>2, <1>3, <1>4, CutTyped DEF Piece
<1> DEFINE e == [k \in 1..n |-> IF k = n THEN Len(l) ELSE cut[k] - 1]
           Arg(i) == IF m.longlast /\ i = m.nparams - 1
                     THEN <<SP, COLON>> \o m.params[i].text ELSE <<SP>> \o m.params[i].text
           q == [k \in 1..m.nparams |-> Arg(k - 1)]
<1>9. Joined(m) = m.cmd.text \o FlattenSeq(q)
  BY Zenon DEF Joined
<1>10. ASSUME NEW k \in 1..n - 1
       PROVE  /\ k \in 1..n /\ k + 1 \in 1..n /\ k + 1 - 1 = k /\ k # n
              /\ cut[k] \in Nat /\ cut[k + 1] \in Nat /\ cut[k] >= 1
              /\ cut[k] < cut[k + 1] /\ cut[k + 1] <= c
              /\ l[cut[k]] = SP
              /\ w[k + 1] = Piece(l, cut[k], cut[k + 1] - 1)
  <2>1. k \in 1..n /\ k + 1 \in 1..n /\ k + 1 - 1 = k /\ k # n
    OBVIOUS
  <2>2. cut[k - 1] \in Nat /\ cut[k] \in Nat /\ cut[k - 1] < cut[k]
    BY <1>8, <2>1
  <2>3. /\ cut[k + 1] \in Nat /\ cut[k + 1 - 1] < cut[k + 1] /\ cut[k + 1] <= c
        /\ w[k + 1] = Piece(l, cut[k + 1 - 1], cut[k + 1] - 1)
    BY <1>8, <2>1
  <2> QED BY <1>7, <2>1, <2>2, <2>3
<1>11. e \in [1..n -> Nat] /\ e[n] = Len(l) /\ \A k \in 1..n - 1 : e[k] = cut[k] - 1
  <2>1. \A k \in 1..n : k # n => k \in 1..n - 1
    OBVIOUS
  <2>2. ASSUME NEW k \in 1..n PROVE (IF k = n THEN Len(l) ELSE cut[k] - 1) \in Nat
    <3>1. CASE k = n
      BY <1>2, <3>1
    <3>2. CASE k # n
      <4>1. cut[k] \in Nat /\ cut[k] >= 1
        BY <1>10, <2>1, <3>2
      <4> QED BY <3>2, <4>1
    <3> QED BY <3>1, <3>2
  <2> QED BY <2>1, <2>2
<1> HIDE DEF e
<1>12. ASSUME NEW k \in 1..n - 1
       PROVE  e[k] <= e[k + 1] /\ Arg(k - 1) = Piece(l, e[k], e[k + 1])
  <2>1. PICK a \in Nat, b \in Nat :
          /\ a = cut[k] /\ b = cut[k + 1] /\ a >= 1 /\ a < b /\ b <= c
          /\ l[a] = SP /\ w[k + 1] = Piece(l, a, b - 1)
    BY <1>10
  <2>2. e[k] = a - 1 /\ k + 1 \in 1..n
    BY <1>10, <1>11, <2>1
  <2>3. CASE LongLast(l) /\ k = n - 1
    <3>1. a = c - 1 /\ e[k + 1] = Len(l) /\ c <= Len(l) /\ l[c] = COLON
      BY <1>2, <1>5, <1>11, <2>1, <2>3
    <3>2. k - 1 = m.nparams - 1 /\ m.longlast /\ k - 1 = n - 2
      BY <1>6, <2>3
    <3>3. m.params[k - 1].text = Piece(l, c, Len(l))
      BY <1>6, <2>3, <3>2, BlockFields
    <3>4. Arg(k - 1) = <<SP, COLON>> \o Piece(l, c, Len(l))
      BY <3>2, <3>3, Zenon
    <3>5. <<l[c]>> \o Piece(l, c, Len(l)) = Piece(l, c - 1, Len(l))
      <4>1. 1 <= c /\ Len(l) <= Len(l)
        BY <1>2
      <4> QED BY <1>2, <3>1, <4>1, PiecePrepend
    <3>6. <<l[a]>> \o Piece(l, a, Len(l)) = Piece(l, a - 1, Len(l))
      <4>1. 1 <= a /\ a <= Len(l) /\ Len(l) <= Len(l)
        BY <1>2, <2>1, <3>1
      <4> QED BY <1>2, <4>1, PiecePrepend
    <3>7. ASSUME NEW p \in Seq(Char) PROVE <<SP, COLON>> \o p = <<SP>> \o (<<COLON>> \o p)
      <4>1. SP \in Char /\ COLON \in Char
        BY DEF Char
      <4>2. <<SP, COLON>> \in Seq(Char) /\ <<SP>> \in Seq(Char) /\ <<COLON>> \in Seq(Char)
        BY <4>1
      <4>3. <<COLON>> \o p \in Seq(Char) /\ <<SP, COLON>> \o p \in Seq(Char)
        BY <4>2
      <4>4. <<SP>> \o (<<COLON>> \o p) \in Seq(Char)
        BY <4>2, <4>3
      <4>5. Len(<<SP, COLON>> \o p) = 2 + Len(p) /\ Len(<<SP>> \o (<<COLON>> \o p)) = 2 + Len(p)
        BY <4>2, <4>3
      <4>6. \A i \in 1..2 + Len(p) : (<<SP, COLON>> \o p)[i] = (<<SP>> \o (<<COLON>> \o p))[i]
        BY <4>2, <4>3
      <4> QED BY <4>3, <4>4, <4>5, <4>6, SeqEqual
    <3>8. Piece(l, c, Len(l)) \in Seq(Char)
      BY <1>2, <3>1, SubSeqAt DEF Piece
    <3>9. Arg(k - 1) = Piece(l, a - 1, Len(l))
      BY <2>1, <3>1, <3>4, <3>5, <3>6, <3>7, <3>8
    <3> QED BY <1>2, <2>1, <2>2, <3>1, <3>9
  <2>4. CASE ~(LongLast(l) /\ k = n - 1)
    <3>1. k - 1 \in 0..n - 2 /\ k - 1 + 2 = k + 1 /\ (k - 1 = n - 2 <=> k = n - 1)
      OBVIOUS
    <3>2. m.params[k - 1].text = w[k + 1]
      <4>1. m.params[k - 1] = Block("tokens", k - 1 + 1, w[k - 1 + 2])
        BY <1>6, <2>4, <3>1
      <4>2. m.params[k - 1].text = w[k - 1 + 2]
        BY <4>1 DEF Block
      <4> QED BY <3>1, <4>2
    <3>3. ~(m.longlast /\ k - 1 = m.nparams - 1)
      <4>1. m.nparams = n - 1 /\ (m.longlast <=> LongLast(l))
        BY <1>6
      <4>2. CASE ~LongLast(l)
        BY <4>1, <4>2
      <4>3. CASE k # n - 1
        BY <4>1, <4>3
      <4> QED BY <2>4, <4>2, <4>3
    <3>4. Arg(k - 1) = <<SP>> \o w[k + 1]
      BY <3>2, <3>3, Zenon
    <3>5. b - 1 \in Nat /\ a <= b - 1 /\ b - 1 <= Len(l)
      BY <1>2, <2>1
    <3>6. <<SP>> \o w[k + 1] = Piece(l, a - 1, b - 1)
      <4>1. <<l[a]>> \o Piece(l, a, b - 1) = Piece(l, a - 1, b - 1)
        BY <2>1, <3>5, PiecePrepend
      <4> QED BY <2>1, <4>1
    <3>7. e[k + 1] = b - 1
      <4>1. CASE k + 1 = n
        BY <1>2, <1>7, <1>11, <2>1, <2>4, <4>1
      <4>2. CASE k + 1 # n
        <5>1. k + 1 \in 1..n - 1
          BY <4>2
        <5> QED BY <1>11, <2>1, <5>1
      <4> QED BY <4>1, <4>2
    <3>8. e[k] <= e[k + 1]
      BY <2>2, <3>5, <3>7
    <3> QED BY <2>2, <3>4, <3>6, <3>7, <3>8
  <2> QED BY <2>3, <2>4
<1> HIDE DEF Arg
<1>13. /\ Len(q) = n - 1 /\ (n = 1 => q = <<>>)
       /\ \A k \in 1..n - 1 : q[k] = Piece(l, e[k], e[k + 1])
  <2>1. q = [k \in 1..n - 1 |-> Arg(k - 1)] /\ n - 1 \in Nat
    BY <1>6
  <2> HIDE DEF q
  <2>2. Len(q) = n - 1
    BY <2>1
  <2>3. n = 1 => q = <<>>
    BY <2>1
  <2> QED BY <1>12, <2>1, <2>2, <2>3
<1> HIDE DEF q
<1>14. Piece(l, 0, e[1]) \o FlattenSeq(q) = l
  BY <1>11, <1>12, <1>13, Pieces
<1>15. m.cmd.text = Piece(l, 0, e[1])
  <2>1. m.cmd.text = w[1] /\ 1 \in 1..n /\ 1 - 1 = 0
    BY <1>6, BlockFields
  <2>2. w[1] = Piece(l, 0, cut[1] - 1)
    BY <1>7, <1>8, <2>1
  <2>3. e[1] = cut[1] - 1
    <3>1. CASE n = 1
      <4>1. ~LongLast(l)
        BY <1>5, <3>1
      <4> QED BY <1>2, <1>7, <1>11, <3>1, <4>1
    <3>2. CASE n # 1
      <4>1. 1 \in 1..n - 1
        BY <3>2
      <4> QED BY <1>11, <4>1
    <3> QED BY <3>1, <3>2
  <2> QED BY <2>1, <2>2, <2>3
<1> QED BY <1>9, <1>14, <1>15

\* A word holds neither a space nor a colon.
LEMMA WordOfLetters ==
  ASSUME NEW l \in Seq(Char), NEW c, FirstColon(l, c), NEW w, NEW cut, WordCuts(w, cut, l, c),
         NEW k \in 1..Len(w)
  PROVE  w[k] \in Seq(Letters)
<1>1. /\ c \in Nat /\ Len(l) \in Nat /\ c <= Len(l) + 1 /\ \A j \in 1..c - 1 : l[j] # COLON
  BY DEF FirstColon
<1>2. PICK a \in Nat, b \in Nat :
        /\ a = cut[k - 1] /\ b = cut[k] - 1 /\ a <= b /\ b <= c - 1
        /\ w[k] = SubSeq(l, a + 1, b)
        /\ \A j \in a + 1..b : l[j] # SP
  <2>1. /\ cut[k - 1] \in Nat /\ cut[k] \in Nat /\ cut[k - 1] < cut[k] /\ cut[k] <= c
        /\ w[k] = SubSeq(l, cut[k - 1] + 1, cut[k] - 1)
        /\ \A j \in cut[k - 1] + 1..cut[k] - 1 : l[j] # SP
    BY <1>1, CutTyped
  <2>2. cut[k] - 1 \in Nat /\ cut[k - 1] <= cut[k] - 1 /\ cut[k] - 1 <= c - 1
    BY <1>1, <2>1
  <2> QED BY <2>1, <2>2
<1>3. a <= b /\ b <= c - 1 /\ b <= Len(l)
  BY <1>1, <1>2
<1> DEFINE t == SubSeq(l, a + 1, b)
<1>4. t \in Seq(Char) /\ Len(t) = b - a /\ \A i \in 1..b - a : t[i] = l[a + i]
  BY <1>3, SubSeqAt
<1>5. w[k] = t
  BY <1>2
<1> HIDE DEF t
<1>6. ASSUME NEW i \in 1..Len(t) PROVE t[i] \in Letters
  <2>1. PICK j \in Nat : /\ j = a + i /\ j \in a + 1..b /\ j \in 1..c - 1 /\ j \in 1..Len(l)
                         /\ i \in 1..b - a
    BY <1>1, <1>3, <1>4
  <2>2. l[j] # SP
    BY <1>2, <2>1
  <2>3. l[j] # COLON
    BY <1>1, <2>1
  <2>4. l[j] \in Char
    BY <2>1
  <2> QED BY <1>4, <2>1, <2>2, <2>3, <2>4 DEF Char
<1>7. t \in Seq(Letters)
  BY <1>4, <1>6
<1> QED BY <1>5, <1>7

\* What IInv says of a message that was parsed.
LEMMA ParsedIs ==
  ASSUME IInv, Parsed
  PROVE  /\ line \in Seq(Char) /\ line # <<>> /\ ~Overruns(line)
         /\ msg = FromString(line)
BY LinesTyped DEF IInv, TypeOK, Life, Parsed

\* A parameter that is counted and missing comes from two adjacent spaces.
LEMMA HoleCause ==
  ASSUME IInv
  PROVE  HolesOnlyFromEmptyWords
<1> SUFFICES ASSUME Parsed, NEW i \in 0..msg.nparams - 1, msg.params[i] = NULL
             PROVE  EmptyWord(line)
  BY DEF HolesOnlyFromEmptyWords
<1> DEFINE w == Words(line)
           n == CountWords(w)
<1>1. /\ line \in Seq(Char) /\ line # <<>> /\ ~Overruns(line)
      /\ msg = FromString(line)
  BY ParsedIs
<1>2. /\ n \in 0..MaxParams
      /\ LongLast(line) => n \in 0..MaxParams - 1
      /\ w \in Seq(Seq(Char))
  BY <1>1, CountBounds, WordsTyped
<1>3. /\ LongLast(line) => msg.nparams = n + 1 /\ msg.params = [Slots(line) EXCEPT ![n] = Rest(line)]
      /\ ~LongLast(line) => msg.nparams = n /\ msg.params = Slots(line)
  BY <1>1, FromStringFields
<1>4. DOMAIN Slots(line) = 0..MaxParams - 1 /\ MaxParams \in Nat
  BY MessageAssumption DEF Slots
<1>5. Rest(line) # NULL
  BY <1>1, RestTyped, MessageAssumption
<1> HIDE DEF w, n
<1>6. i \in Nat /\ i < n /\ i \in 0..MaxParams - 1 /\ Slots(line)[i] = NULL
  <2>1. CASE LongLast(line)
    <3>1. n \in 0..MaxParams - 1 /\ i \in 0..n
      BY <1>2, <1>3, <2>1
    <3>2. msg.params = [Slots(line) EXCEPT ![n] = Rest(line)]
      BY <1>3, <2>1
    <3>3. i # n
      BY <1>4, <1>5, <3>1, <3>2
    <3>4. i \in 0..MaxParams - 1 /\ i \in Nat /\ i < n
      BY <1>4, <3>1, <3>3
    <3> QED BY <1>4, <3>2, <3>3, <3>4
  <2>2. CASE ~LongLast(line)
    <3>1. msg.params = Slots(line) /\ i \in 0..n - 1
      BY <1>3, <2>2
    <3> QED BY <1>2, <1>4, <3>1
  <2> QED BY <2>1, <2>2
<1>7. ~WordAt(w, i)
  <2> SUFFICES ASSUME WordAt(w, i) PROVE FALSE
    OBVIOUS
  <2>1. ParamAt(w, i) = NULL
    BY <1>6 DEF Slots, w
  <2>2. i + 2 \in 1..Len(w) /\ i + 1 \in 0..MaxParams
    BY <1>2, <1>4, <1>6 DEF WordAt
  <2>3. w[i + 2] \in Seq(Char)
    BY <1>2, <2>2
  <2> QED BY <2>1, <2>2, <2>3, BlockTyped DEF ParamAt
<1>8. i + 2 \in 2..Len(w) - 1 /\ w[i + 2] = <<>>
  BY <1>2, <1>6, <1>7, HoleInside DEF n
<1>9. PICK c : FirstColon(line, c)
  BY <1>1, HasFirstColon
<1>10. c = 1 \/ c > 1
  BY <1>9 DEF FirstColon
<1>11. CASE c = 1
  <2>1. w = <<>>
    BY <1>1, <1>9, <1>11, NoWords DEF w
  <2> QED BY <1>8, <2>1
<1>12. CASE c > 1
  <2>1. PICK cut : WordCuts(w, cut, line, c)
    BY <1>1, <1>9, <1>12, HasWordCuts DEF w
  <2> QED BY <1>1, <1>8, <1>9, <2>1, EmptyWordInside
<1> QED BY <1>10, <1>11, <1>12
-------------------------------------------------------------------------------
(* Theorems *)

\* Every variable stays in its type, and nothing is stored beyond params: the overrun
\* of a line with too many parameters is the only way out.
THEOREM Typed == Spec => []TypeOK
<1>1. IInv => TypeOK
  BY DEF IInv
<1> QED BY <1>1, Invariant, PTL

\* A handler runs only for the command that is its name.
THEOREM ByName == Spec => []DispatchedByName
<1>1. ASSUME IInv PROVE DispatchedByName
  <2> SUFFICES ASSUME pc \in {"handled", "closed"}
               PROVE  /\ handler # 0 => msg.cmd.text = Names[handler]
                      /\ handler = 0 => msg.cmd.text \notin Range(Names)
    BY DEF DispatchedByName
  <2>1. handler = Lookup(msg.cmd.text) /\ msg.cmd \in TypeBlock
    BY <1>1 DEF IInv, Life, TypeOK, TypeMessage
  <2>2. msg.cmd.text \in Seq(Char)
    BY <2>1 DEF TypeBlock, Char
  <2> QED BY <2>1, <2>2, LookupFinds
<1> QED BY <1>1, Invariant, PTL

\* The array of sdssplitlen never overflows, and message_destroy frees nothing twice.
THEOREM Memory == Spec => []MemorySafe
<1>1. ASSUME IInv PROVE MemorySafe
  <2>1. \A b \in DOMAIN freed : freed[b] = 1
    BY <1>1 DEF IInv, Life
  <2>2. ASSUME Parsed
        PROVE  SplitLen(line, COLON).room /\ SplitLen(SplitLen(line, COLON).tokens[1], SP).room
    <3>1. line \in Seq(Char) /\ line # <<>>
      BY <1>1, <2>2, LinesTyped DEF IInv, TypeOK, Parsed
    <3>2. SplitLen(line, COLON).tokens[1] \in Seq(Char)
      <4>1. PICK cut : Split(SplitLen(line, COLON).tokens, cut, line, COLON)
        BY <3>1, SplitLenCuts
      <4> QED BY <4>1 DEF Split
    <3>3. ASSUME NEW s \in Seq(Char), NEW sep PROVE SplitLen(s, sep).room = TRUE
      <4>1. CASE s = <<>>
        <5>1. Scan(<<>>, sep)[0] = Begin /\ Len(<<>>) = 0
          BY ScanUnfolds
        <5> QED BY <4>1, <5>1 DEF SplitLen, Begin
      <4>2. CASE s # <<>>
        BY <4>2, SplitLenCuts
      <4> QED BY <4>1, <4>2
    <3> QED BY <3>1, <3>2, <3>3
  <2> QED BY <2>1, <2>2 DEF MemorySafe
<1> QED BY <1>1, Invariant, PTL

\* A parameter that is counted and missing comes from two adjacent spaces.
THEOREM Holes == Spec => []HolesOnlyFromEmptyWords
BY HoleCause, Invariant, PTL

\* The thread dies in process_cmd only over a line that is empty or begins with a colon;
\* and a regular line is written beyond params exactly if it has too many parameters.
THEOREM Dies == Spec => []DiesOnlyByLine
<1>1. ASSUME IInv PROVE DiesOnlyByLine
  <2>1. pc = "crashed" => line = <<>> \/ line[1] = COLON
    <3> SUFFICES ASSUME pc = "crashed", line # <<>> PROVE line[1] = COLON
      OBVIOUS
    <3>1. /\ line \in Seq(Char) /\ msg = FromString(line) /\ msg.cmd \in {NULL, WILD}
      BY <1>1, LinesTyped DEF IInv, TypeOK, Life
    <3>2. Words(line) \in Seq(Seq(Char)) /\ (Words(line) = <<>> => line[1] = COLON)
      BY <3>1, WordsTyped
    <3>3. ASSUME Words(line) # <<>> PROVE FALSE
      <4>1. msg.cmd = Block("tokens", 0, Words(line)[1])
        BY <3>1, <3>3, FromStringFields
      <4>2. Words(line)[1] \in Seq(Char) /\ 0 \in 0..MaxParams
        BY <3>2, <3>3, MessageAssumption
      <4> QED BY <3>1, <4>1, <4>2, BlockTyped
    <3> QED BY <3>2, <3>3
  <2>2. ASSUME Regular(line)
        PROVE  pc = "overrun" <=> Cardinality({i \in Before(line) : line[i] = SP}) > MaxParams
    <3>1. line \in Seq(Char) /\ line # <<>>
      BY <1>1, <2>2, LinesTyped DEF IInv, TypeOK, Regular
    <3>2. pc = "overrun" <=> Overruns(line)
      BY <1>1, <3>1 DEF IInv, TypeOK, Life
    <3> QED BY <2>2, <3>1, <3>2, RegularOverruns
  <2> QED BY <2>1, <2>2 DEF DiesOnlyByLine
<1> QED BY <1>1, Invariant, PTL

\* message_from_string is the inverse of writing a message down.
THEOREM Inverts == Spec => []ParseInvertsJoin
<1>1. ASSUME IInv PROVE ParseInvertsJoin
  <2> SUFFICES ASSUME Parsed, Regular(line)
               PROVE  /\ \A i \in 0..msg.nparams - 1 : msg.params[i] # NULL
                      /\ line = Joined(msg)
                      /\ \A i \in 0..msg.nparams - 1 :
                           ~(msg.longlast /\ i = msg.nparams - 1) =>
                             msg.params[i].text \in Seq(Letters)
    BY DEF ParseInvertsJoin
  <2>1. /\ line \in Seq(Char) /\ line # <<>> /\ ~Overruns(line)
        /\ msg = FromString(line)
    BY <1>1, ParsedIs
  <2>2. line = Joined(msg)
    BY <2>1, RegularJoined
  <2>3. \A i \in 0..msg.nparams - 1 : msg.params[i] # NULL
    <3>1. ASSUME NEW i \in 0..msg.nparams - 1, msg.params[i] = NULL PROVE FALSE
      <4>1. EmptyWord(line)
        BY <1>1, <3>1, HoleCause DEF HolesOnlyFromEmptyWords
      <4> QED BY <4>1 DEF Regular
    <3> QED BY <3>1
  <2>4. PICK c : FirstColon(line, c)
    BY <2>1, HasFirstColon
  <2>5. c > 1
    BY <2>1, <2>4, RegularColon
  <2>6. PICK cut : WordCuts(Words(line), cut, line, c)
    BY <2>1, <2>4, <2>5, HasWordCuts
  <2> DEFINE w == Words(line)
  <2>7. /\ msg.nparams = Len(w) - 1 /\ (msg.longlast <=> LongLast(line))
        /\ \A i \in 0..Len(w) - 2 : ~(LongLast(line) /\ i = Len(w) - 2) =>
             msg.params[i] = Block("tokens", i + 1, w[i + 2])
    BY <2>1, <2>4, <2>6, RegularParams
  <2>8. \A k \in 1..Len(w) : w[k] \in Seq(Letters)
    BY <2>1, <2>4, <2>6, WordOfLetters
  <2>9. Len(w) \in Nat
    BY <2>6 DEF WordCuts
  <2> HIDE DEF w
  <2>10. ASSUME NEW i \in 0..msg.nparams - 1, ~(msg.longlast /\ i = msg.nparams - 1)
         PROVE  msg.params[i].text \in Seq(Letters)
    <3>1. i \in 0..Len(w) - 2 /\ ~(LongLast(line) /\ i = Len(w) - 2) /\ i + 2 \in 1..Len(w)
      BY <2>7, <2>9, <2>10
    <3> QED BY <2>7, <2>8, <3>1, BlockFields
  <2> QED BY <2>2, <2>3, <2>10
<1> QED BY <1>1, Invariant, PTL
===============================================================================
