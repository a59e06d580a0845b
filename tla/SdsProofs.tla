------------------------------- MODULE SdsProofs -------------------------------
(***************************************************************************)
(* Theorems about Sds, for every width of the headers, every amount of     *)
(* preallocation and every argument: the header never lies about the       *)
(* memory, and no call writes beyond it.                                   *)
(***************************************************************************)
EXTENDS Sds, SequenceTheorems, TLAPS

\* A number that fits a field is stored as it is.
LEMMA StoredFits ==
  ASSUME NEW type \in Types, NEW n \in Nat, n <= MaxOf[type]
  PROVE  Stored(n, type) = n
<1>1. MaxOf[type] \in Nat
  BY SdsAssumption
<1>2. \A m \in Nat : n <= m => n % (m + 1) = n
  BY SMT
<1> QED BY <1>1, <1>2 DEF Stored

\* sdsReqType finds a type whose header can note the length, if any can.
LEMMA ReqTypeFits ==
  ASSUME NEW n \in Nat, n <= MaxOf[4]
  PROVE  ReqType(n) \in Types /\ n <= MaxOf[ReqType(n)]
<1>1. MaxOf[0] \in Nat /\ MaxOf[1] \in Nat /\ MaxOf[2] \in Nat /\ MaxOf[3] \in Nat /\ MaxOf[4] \in Nat
  BY SdsAssumption DEF Types
<1> QED BY <1>1 DEF ReqType, Types

\* The same for the type sdsMakeRoomFor takes, which is never type 5.
LEMMA GrownTypeFits ==
  ASSUME NEW n \in Nat, n <= MaxOf[4]
  PROVE  GrownType(n) \in Types \ {0} /\ n <= MaxOf[GrownType(n)]
<1>1. ReqType(n) \in Types /\ n <= MaxOf[ReqType(n)]
  BY ReqTypeFits
<1>2. MaxOf[0] \in Nat /\ MaxOf[1] \in Nat /\ MaxOf[0] < MaxOf[1]
  BY SdsAssumption DEF Types
<1>3. CASE ReqType(n) = 0
  BY <1>1, <1>2, <1>3 DEF GrownType, Types
<1>4. CASE ReqType(n) # 0
  BY <1>1, <1>4 DEF GrownType, Types
<1> QED BY <1>3, <1>4
-------------------------------------------------------------------------------
\* A string whose header tells the truth, and whose buf is what was allocated.
Strings(cap) == [type : Types, len : Nat, alloc : Nat, cap : {cap}, buf : [0..cap -> Byte]]
Sound(s) ==
  /\ s.cap \in Nat /\ s \in Strings(s.cap)
  /\ s.len <= Alloc(s) /\ Alloc(s) <= s.cap
  /\ Alloc(s) <= MaxOf[s.type]
  /\ s.type # 0 => s.alloc = s.cap

\* What a step has to establish about a record it makes out of another one.
LEMMA SoundRecord ==
  ASSUME NEW type \in Types, NEW len \in Nat, NEW alloc \in Nat, NEW cap \in Nat,
         NEW buf \in [0..cap -> Byte],
         len <= cap, alloc <= MaxOf[type], len <= MaxOf[type],
         type # 0 => alloc = cap
  PROVE  Sound([type |-> type, len |-> len, alloc |-> alloc, cap |-> cap, buf |-> buf])
  BY DEF Sound, Strings, Alloc

\* A write within the memory changes those bytes and nothing else.
LEMMA PutWithin ==
  ASSUME NEW s, Sound(s), NEW at \in Nat, NEW t \in Seq(Byte), at + Len(t) <= s.cap + 1
  PROVE  LET r == Put(s, at, t)
         IN  /\ Sound(r)
             /\ r.type = s.type /\ r.len = s.len /\ r.alloc = s.alloc /\ r.cap = s.cap
             /\ \A i \in 0..s.cap : r.buf[i] = IF i \in at..at + Len(t) - 1
                                               THEN t[i - at + 1] ELSE s.buf[i]
<1> DEFINE g == [i \in 0..s.cap |-> IF i \in at..at + Len(t) - 1
                                    THEN t[i - at + 1] ELSE s.buf[i]]
<1>1. s.cap \in Nat /\ s \in Strings(s.cap) /\ s.buf \in [0..s.cap -> Byte]
  BY DEF Sound, Strings
<1>2. DOMAIN s.buf = 0..s.cap /\ Len(t) \in Nat
  BY <1>1
<1>3. DOMAIN s.buf \cup at..at + Len(t) - 1 = 0..s.cap
  BY <1>1, <1>2
<1>4. Put(s, at, t) = [s EXCEPT !.buf = g]
  BY <1>3 DEF Put
<1>5. \A i \in 0..s.cap : g[i] \in Byte
  <2> SUFFICES ASSUME NEW i \in 0..s.cap PROVE g[i] \in Byte
    OBVIOUS
  <2>1. CASE i \in at..at + Len(t) - 1
    <3>1. i - at + 1 \in 1..Len(t)
      BY <1>1, <1>2, <2>1
    <3> QED BY <2>1, <3>1
  <2>2. CASE i \notin at..at + Len(t) - 1
    BY <1>1, <2>2
  <2> QED BY <2>1, <2>2
<1>6. g \in [0..s.cap -> Byte]
  BY <1>5
<1> HIDE DEF g
<1>7. Sound([s EXCEPT !.buf = g])
  BY <1>1, <1>6 DEF Sound, Strings, Alloc
<1>8. [s EXCEPT !.buf = g].buf = g
  BY <1>1 DEF Strings
<1>9. /\ [s EXCEPT !.buf = g].type = s.type /\ [s EXCEPT !.buf = g].len = s.len
      /\ [s EXCEPT !.buf = g].alloc = s.alloc /\ [s EXCEPT !.buf = g].cap = s.cap
  BY <1>1 DEF Strings
<1> QED BY <1>4, <1>7, <1>8, <1>9 DEF g

\* A length within the space that the header notes is stored as it is.
LEMMA SetLenWithin ==
  ASSUME NEW s, Sound(s), NEW n \in Nat, n <= s.cap, n <= MaxOf[s.type]
  PROVE  LET r == SetLen(s, n)
         IN  Sound(r) /\ r.len = n /\ r.type = s.type /\ r.cap = s.cap /\ r.buf = s.buf
<1>1. s.cap \in Nat /\ s \in Strings(s.cap) /\ s.type \in Types
  BY DEF Sound, Strings
<1>2. Stored(n, s.type) = n
  BY <1>1, StoredFits
<1>3. SetLen(s, n) = [s EXCEPT !.len = n]
  BY <1>2 DEF SetLen
<1>4. /\ [s EXCEPT !.len = n].len = n /\ [s EXCEPT !.len = n].type = s.type
      /\ [s EXCEPT !.len = n].cap = s.cap /\ [s EXCEPT !.len = n].buf = s.buf
      /\ [s EXCEPT !.len = n].alloc = s.alloc /\ [s EXCEPT !.len = n] \in Strings(s.cap)
  BY <1>1 DEF Strings
<1>5. Sound([s EXCEPT !.len = n])
  <2>1. CASE s.type = 0
    BY <1>1, <1>4, <2>1 DEF Sound, Alloc
  <2>2. CASE s.type # 0
    BY <1>1, <1>4, <2>2 DEF Sound, Alloc
  <2> QED BY <2>1, <2>2
<1> QED BY <1>3, <1>4, <1>5

\* A string that has just been given memory for n bytes, with its length and its
\* alloc field filled in, has a header that tells the truth, and its bytes are the
\* old ones as far as they were kept.
LEMMA MovedSound ==
  ASSUME NEW s, Sound(s), NEW type \in Types, NEW n \in Nat, NEW kept \in 0..s.cap,
         s.len <= n, s.len <= kept, n <= MaxOf[type], type = 0 => s.len = n
  PROVE  LET r == SetAlloc(IF type = s.type THEN Moved(s, type, n, kept)
                           ELSE SetLen(Moved(s, type, n, kept), s.len), n)
         IN  /\ Sound(r)
             /\ r.len = s.len /\ r.type = type /\ r.cap = n
             /\ \A i \in 0..s.len : r.buf[i] = s.buf[i]
<1> DEFINE buf == [i \in 0..n |-> IF i <= kept THEN s.buf[i] ELSE JUNK]
           m == Moved(s, type, n, kept)
           l == IF type = s.type THEN m ELSE SetLen(m, s.len)
<1>1. s.cap \in Nat /\ s \in Strings(s.cap) /\ s.len \in Nat
  BY DEF Sound, Strings
<1>2. buf \in [0..n -> Byte]
  BY <1>1 DEF Strings, Byte
<1>3. m = [s EXCEPT !.type = type, !.cap = n, !.buf = buf]
  BY DEF Moved
<1> HIDE DEF buf, m
<1>4. /\ m.type = type /\ m.len = s.len /\ m.alloc = s.alloc /\ m.cap = n /\ m.buf = buf
      /\ m \in Strings(n)
  BY <1>1, <1>2, <1>3 DEF Strings
<1>5. Stored(s.len, type) = s.len /\ Stored(n, type) = n
  <2>1. MaxOf[type] \in Nat
    BY SdsAssumption
  <2>2. s.len <= MaxOf[type]
    BY <1>1, <2>1
  <2> QED BY <1>1, <2>2, StoredFits
<1>6. l = m
  BY <1>1, <1>4, <1>5 DEF SetLen, Strings
<1> HIDE DEF l
<1>7. \A i \in 0..s.len : buf[i] = s.buf[i]
  BY <1>1 DEF buf
<1>8. CASE type = 0
  <2>1. SetAlloc(l, n) = m
    BY <1>4, <1>6, <1>8 DEF SetAlloc
  <2>2. Sound(m)
    BY <1>1, <1>4, <1>8 DEF Sound, Alloc
  <2> QED BY <1>4, <1>7, <2>1, <2>2 DEF l, m
<1>9. CASE type # 0
  <2>1. SetAlloc(l, n) = [m EXCEPT !.alloc = n]
    BY <1>4, <1>5, <1>6, <1>9 DEF SetAlloc
  <2>2. /\ [m EXCEPT !.alloc = n].type = type /\ [m EXCEPT !.alloc = n].len = s.len
        /\ [m EXCEPT !.alloc = n].alloc = n /\ [m EXCEPT !.alloc = n].cap = n
        /\ [m EXCEPT !.alloc = n].buf = buf /\ [m EXCEPT !.alloc = n] \in Strings(n)
    BY <1>4 DEF Strings
  <2>3. Sound([m EXCEPT !.alloc = n])
    BY <1>1, <1>9, <2>2 DEF Sound, Alloc
  <2> QED BY <1>7, <2>1, <2>2, <2>3 DEF l, m
<1> QED BY <1>8, <1>9
-------------------------------------------------------------------------------
\* sdsMakeRoomFor gives the room that was asked for and leaves the bytes, the
\* terminator included, where they were.
LEMMA MakeRoomForSound ==
  ASSUME NEW s, Sound(s), NEW n \in Nat, s.len + n <= MaxRoom
  PROVE  LET r == MakeRoomFor(s, n)
         IN  /\ Sound(r)
             /\ r.len = s.len /\ Avail(r) >= n /\ r.len + n <= r.cap
             /\ r.len + n <= MaxOf[r.type]
             /\ n > 0 => r.type # 0
             /\ \A i \in 0..s.len : r.buf[i] = s.buf[i]
<1> DEFINE newlen == Grown(s.len + n)
           type == GrownType(newlen)
           r == MakeRoomFor(s, n)
<1>1. /\ s.cap \in Nat /\ s \in Strings(s.cap) /\ s.len \in Nat /\ s.type \in Types
      /\ s.alloc \in Nat /\ s.len <= s.cap /\ MaxOf[s.type] \in Nat
  BY SdsAssumption DEF Sound, Strings, Alloc, Types
<1>2. CASE Avail(s) >= n
  <2>1. r = s
    BY <1>2 DEF MakeRoomFor
  <2>2. s.type = 0 => n = 0
    BY <1>1, <1>2 DEF Avail
  <2>3. s.len + n <= Alloc(s)
    BY <1>1, <1>2, <2>2 DEF Avail, Alloc
  <2> QED BY <1>1, <1>2, <2>1, <2>2, <2>3 DEF Sound, Alloc
<1>3. CASE ~(Avail(s) >= n)
  <2>1. newlen \in Nat /\ s.len + n <= newlen /\ newlen <= MaxOf[4]
    <3>1. /\ MaxOf[4] \in Nat /\ Prealloc \in Nat /\ MaxRoom \in Nat
          /\ 2 * MaxRoom <= MaxOf[4] /\ MaxRoom + Prealloc <= MaxOf[4]
      BY SdsAssumption DEF Types
    <3>2. s.len + n \in Nat
      BY <1>1
    <3>3. CASE s.len + n < Prealloc
      <4>1. newlen = 2 * (s.len + n)
        BY <3>3 DEF Grown
      <4> HIDE DEF newlen
      <4> QED BY <3>1, <3>2, <4>1
    <3>4. CASE ~(s.len + n < Prealloc)
      <4>1. newlen = s.len + n + Prealloc
        BY <3>4 DEF Grown
      <4> HIDE DEF newlen
      <4> QED BY <3>1, <3>2, <4>1
    <3> QED BY <3>3, <3>4
  <2>2. type \in Types \ {0} /\ newlen <= MaxOf[type]
    BY <2>1, GrownTypeFits
  <2> DEFINE kept == IF type = s.type THEN s.cap ELSE s.len
  <2>3. kept \in 0..s.cap /\ s.len <= kept
    BY <1>1
  <2>4. r = SetAlloc(IF type = s.type THEN Moved(s, type, newlen, kept)
                     ELSE SetLen(Moved(s, type, newlen, kept), s.len), newlen)
    BY <1>3 DEF MakeRoomFor
  <2> HIDE DEF newlen, type, kept, r
  <2>5. s.len <= newlen
    BY <1>1, <2>1
  <2>6. /\ Sound(r) /\ r.len = s.len /\ r.type = type /\ r.cap = newlen
        /\ \A i \in 0..s.len : r.buf[i] = s.buf[i]
    BY <2>1, <2>2, <2>3, <2>4, <2>5, MovedSound
  <2>7. r.alloc = newlen
    BY <2>2, <2>6 DEF Sound
  <2>8. Avail(r) >= n
    BY <1>1, <2>1, <2>2, <2>6, <2>7 DEF Avail
  <2>9. r.len + n <= MaxOf[r.type]
    <3>1. MaxOf[type] \in Nat
      BY <2>2, SdsAssumption
    <3> QED BY <1>1, <2>1, <2>2, <2>6, <3>1
  <2> QED BY <1>1, <2>1, <2>2, <2>6, <2>8, <2>9 DEF r
<1> QED BY <1>2, <1>3
-------------------------------------------------------------------------------
\* Writing a terminator within the memory.
LEMMA PutNulWithin ==
  ASSUME NEW s, Sound(s), NEW at \in 0..s.cap
  PROVE  LET r == PutNul(s, at)
         IN  /\ Sound(r)
             /\ r.type = s.type /\ r.len = s.len /\ r.alloc = s.alloc /\ r.cap = s.cap
             /\ r.buf[at] = NUL
             /\ \A i \in 0..s.cap : i # at => r.buf[i] = s.buf[i]
<1>1. <<NUL>> \in Seq(Byte) /\ Len(<<NUL>>) = 1 /\ <<NUL>>[1] = NUL
  BY DEF Byte
<1>2. s.cap \in Nat
  BY DEF Sound
<1>3. at \in Nat /\ at + Len(<<NUL>>) <= s.cap + 1
  BY <1>1, <1>2
<1> DEFINE t == <<NUL>>
           r == Put(s, at, t)
<1>4. t \in Seq(Byte) /\ Len(t) = 1 /\ t[1] = NUL /\ at + Len(t) <= s.cap + 1
  BY <1>1, <1>3
<1>5. PutNul(s, at) = r
  BY DEF PutNul
<1> HIDE DEF t
<1>6. /\ Sound(r)
      /\ r.type = s.type /\ r.len = s.len /\ r.alloc = s.alloc /\ r.cap = s.cap
      /\ \A i \in 0..s.cap : r.buf[i] = IF i \in at..at + Len(t) - 1
                                        THEN t[i - at + 1] ELSE s.buf[i]
  BY <1>3, <1>4, PutWithin
<1> HIDE DEF r
<1>7. \A i \in 0..s.cap : i \in at..at + Len(t) - 1 <=> i = at
  BY <1>2, <1>3, <1>4
<1>8. r.buf[at] = NUL
  BY <1>3, <1>4, <1>6, <1>7
<1>9. \A i \in 0..s.cap : i # at => r.buf[i] = s.buf[i]
  BY <1>6, <1>7
<1> QED BY <1>5, <1>6, <1>8, <1>9

\* Bytes are written behind the end of a string that has room for them, and its
\* length is set: what sdscatlen, sdscatfmt and the users of sdsIncrLen do.
LEMMA AppendSound ==
  ASSUME NEW s, Sound(s), NEW t \in Seq(Byte),
         s.len + Len(t) <= s.cap, s.len + Len(t) <= MaxOf[s.type]
  PROVE  LET r == SetLen(Put(s, s.len, t), s.len + Len(t))
         IN  /\ Sound(r)
             /\ r.len = s.len + Len(t) /\ r.type = s.type /\ r.cap = s.cap
             /\ \A i \in 0..s.len - 1 : r.buf[i] = s.buf[i]
             /\ \A i \in 1..Len(t) : r.buf[s.len + i - 1] = t[i]
<1> DEFINE p == Put(s, s.len, t)
           r == SetLen(p, s.len + Len(t))
<1>1. s.cap \in Nat /\ s.len \in Nat /\ Len(t) \in Nat
  BY DEF Sound, Strings
<1>2. s.len + Len(t) <= s.cap + 1 /\ s.len + Len(t) \in Nat
  BY <1>1
<1>3. /\ Sound(p)
      /\ p.type = s.type /\ p.len = s.len /\ p.alloc = s.alloc /\ p.cap = s.cap
      /\ \A i \in 0..s.cap : p.buf[i] = IF i \in s.len..s.len + Len(t) - 1
                                        THEN t[i - s.len + 1] ELSE s.buf[i]
  BY <1>1, <1>2, PutWithin
<1> HIDE DEF p
<1>4. Sound(r) /\ r.len = s.len + Len(t) /\ r.type = p.type /\ r.cap = p.cap /\ r.buf = p.buf
  BY <1>2, <1>3, SetLenWithin
<1> HIDE DEF r
<1>5. \A i \in 0..s.len - 1 : r.buf[i] = s.buf[i]
  BY <1>1, <1>3, <1>4
<1>6. \A i \in 1..Len(t) : r.buf[s.len + i - 1] = t[i]
  <2> SUFFICES ASSUME NEW i \in 1..Len(t) PROVE r.buf[s.len + i - 1] = t[i]
    OBVIOUS
  <2>1. s.len + i - 1 \in 0..s.cap /\ s.len + i - 1 \in s.len..s.len + Len(t) - 1
    BY <1>1
  <2>2. (s.len + i - 1) - s.len + 1 = i
    BY <1>1
  <2> QED BY <1>3, <1>4, <2>1, <2>2
<1> QED BY <1>3, <1>4, <1>5, <1>6 DEF p, r

\* The content is a sequence of bytes of the length the header notes.
LEMMA ContentSeq ==
  ASSUME NEW s, Sound(s)
  PROVE  /\ Content(s) \in Seq(Byte) /\ Len(Content(s)) = s.len
         /\ \A i \in 1..s.len : Content(s)[i] = s.buf[i - 1]
<1>1. s.cap \in Nat /\ s.len \in Nat /\ s.len <= s.cap /\ s.buf \in [0..s.cap -> Byte]
  BY DEF Sound, Strings, Alloc, Types
<1>2. \A i \in 1..s.len : s.buf[i - 1] \in Byte
  <2>1. \A i \in 1..s.len : i - 1 \in 0..s.cap
    BY <1>1
  <2> QED BY <1>1, <2>1
<1>3. Content(s) = [i \in 1..s.len |-> s.buf[i - 1]]
  BY DEF Content
<1> DEFINE c == [i \in 1..s.len |-> s.buf[i - 1]]
<1>4. c \in [1..s.len -> Byte]
  BY <1>2
<1>5. c \in Seq(Byte) /\ Len(c) = s.len
  <2> HIDE DEF c
  <2>1. s.len \in Nat /\ DOMAIN c = 1..s.len
    BY <1>1, <1>4
  <2> QED BY <1>4, <2>1
<1>6. \A i \in 1..s.len : c[i] = s.buf[i - 1]
  OBVIOUS
<1> HIDE DEF c
<1>7. Content(s) = c
  BY <1>3 DEF c
<1> QED BY <1>5, <1>6, <1>7

\* Two strings have the same content when the header and the bytes agree.
LEMMA ContentSame ==
  ASSUME NEW s, NEW r, Sound(s), Sound(r), r.len = s.len,
         \A i \in 0..s.len - 1 : r.buf[i] = s.buf[i]
  PROVE  Content(r) = Content(s)
<1>1. s.len \in Nat
  BY DEF Sound, Strings
<1>2. \A i \in 1..s.len : r.buf[i - 1] = s.buf[i - 1]
  BY <1>1
<1> QED BY <1>2 DEF Content

\* What the concatenation of two byte sequences is, byte by byte.
LEMMA ConcatBytes ==
  ASSUME NEW u \in Seq(Byte), NEW t \in Seq(Byte), NEW n \in Nat, Len(u) = n
  PROVE  /\ u \o t \in Seq(Byte) /\ Len(u \o t) = n + Len(t)
         /\ \A i \in 1..n : (u \o t)[i] = u[i]
         /\ \A i \in n + 1..n + Len(t) : (u \o t)[i] = t[i - n]
<1>1. Len(t) \in Nat
  OBVIOUS
<1>2. /\ u \o t \in Seq(Byte) /\ Len(u \o t) = Len(u) + Len(t)
      /\ \A i \in 1..Len(u) + Len(t) :
           (u \o t)[i] = IF i <= Len(u) THEN u[i] ELSE t[i - Len(u)]
  BY ConcatProperties
<1> DEFINE c == u \o t
<1> HIDE DEF c
<1>3. \A i \in 1..n : c[i] = u[i]
  BY <1>1, <1>2 DEF c
<1>4. \A i \in n + 1..n + Len(t) : c[i] = t[i - n]
  BY <1>1, <1>2 DEF c
<1> QED BY <1>2, <1>3, <1>4 DEF c

\* What AppendSound leaves behind is the concatenation.
LEMMA ContentAppend ==
  ASSUME NEW s, NEW r, Sound(s), Sound(r), NEW t \in Seq(Byte), r.len = s.len + Len(t),
         \A i \in 0..s.len - 1 : r.buf[i] = s.buf[i],
         \A i \in 1..Len(t) : r.buf[s.len + i - 1] = t[i]
  PROVE  Content(r) = Content(s) \o t
<1> DEFINE c == Content(s) \o t
<1>1. s.len \in Nat /\ Len(t) \in Nat
  BY DEF Sound, Strings
<1>2. /\ Content(s) \in Seq(Byte) /\ Len(Content(s)) = s.len
      /\ \A i \in 1..s.len : Content(s)[i] = s.buf[i - 1]
  BY ContentSeq
<1>3. /\ Content(r) \in Seq(Byte) /\ Len(Content(r)) = r.len
      /\ \A i \in 1..r.len : Content(r)[i] = r.buf[i - 1]
  BY ContentSeq
<1>4. /\ c \in Seq(Byte) /\ Len(c) = s.len + Len(t)
      /\ \A i \in 1..s.len : c[i] = Content(s)[i]
      /\ \A i \in s.len + 1..s.len + Len(t) : c[i] = t[i - s.len]
  BY <1>1, <1>2, ConcatBytes
<1> HIDE DEF c
<1>5. \A i \in 1..r.len : c[i] = r.buf[i - 1]
  <2> SUFFICES ASSUME NEW i \in 1..r.len PROVE c[i] = r.buf[i - 1]
    OBVIOUS
  <2>1. CASE i <= s.len
    <3>1. i \in 1..s.len /\ i - 1 \in 0..s.len - 1
      BY <1>1, <2>1
    <3> QED BY <1>2, <1>4, <3>1
  <2>2. CASE i > s.len
    <3>1. i - s.len \in 1..Len(t) /\ s.len + (i - s.len) - 1 = i - 1
      BY <1>1, <2>2
    <3>2. t[i - s.len] = r.buf[s.len + (i - s.len) - 1]
      BY <3>1
    <3>3. i \in s.len + 1..s.len + Len(t)
      BY <1>1, <2>2
    <3> QED BY <1>4, <3>1, <3>2, <3>3
  <2> QED BY <1>1, <2>1, <2>2
<1>6. \A i \in 1..r.len : c[i] = Content(r)[i]
  BY <1>3, <1>5
<1>7. c = Content(r)
  BY <1>3, <1>4, <1>6, SeqEqual
<1> QED BY <1>7 DEF c
-------------------------------------------------------------------------------
\* A string as callers may see it between two calls.
Clean(s) == \A i \in 0..s.len - 1 : s.buf[i] # JUNK
Presentable(s) == Sound(s) /\ Clean(s) /\ s.buf[s.len] = NUL

\* What is passed to a call is a sequence of initialised bytes.
LEMMA ArgBytes ==
  ASSUME NEW t \in Args
  PROVE  /\ t \in Seq(Byte) /\ Len(t) \in Nat
         /\ \A i \in 1..Len(t) : t[i] # JUNK
<1>1. t \in Seq(Chars)
  BY SdsAssumption
<1>2. Chars \subseteq Byte
  BY DEF Byte
<1>3. \A i \in 1..Len(t) : t[i] \in Chars
  BY <1>1
<1>4. t \in Seq(Byte)
  BY <1>1, <1>2, SeqMonotonic
<1> QED BY <1>1, <1>3, <1>4, SdsAssumption

\* A whole new content is written over the old one: sdscpylen and sdsrange.
LEMMA OverwriteSound ==
  ASSUME NEW s, Sound(s), NEW t \in Seq(Byte), Len(t) <= s.cap, Len(t) <= MaxOf[s.type],
         \A i \in 1..Len(t) : t[i] # JUNK
  PROVE  LET r == SetLen(PutNul(Put(s, 0, t), Len(t)), Len(t))
         IN  Presentable(r) /\ r.type = s.type /\ Content(r) = t
<1> DEFINE n == Len(t)
           p == Put(s, 0, t)
           q == PutNul(p, n)
           r == SetLen(q, n)
<1>1. s.cap \in Nat /\ n \in Nat /\ n \in 0..s.cap
  BY DEF Sound
<1>2. 0 + Len(t) <= s.cap + 1
  BY <1>1
<1>3. /\ Sound(p) /\ p.type = s.type /\ p.cap = s.cap
      /\ \A i \in 0..s.cap : p.buf[i] = IF i \in 0..0 + Len(t) - 1
                                        THEN t[i - 0 + 1] ELSE s.buf[i]
  BY <1>2, PutWithin
<1> HIDE DEF p
<1>4. \A i \in 0..n - 1 : p.buf[i] = t[i + 1]
  <2> SUFFICES ASSUME NEW i \in 0..n - 1 PROVE p.buf[i] = t[i + 1]
    OBVIOUS
  <2>1. i \in 0..s.cap /\ i \in 0..0 + Len(t) - 1 /\ i - 0 + 1 = i + 1
    BY <1>1
  <2> QED BY <1>3, <2>1
<1>5. /\ Sound(q) /\ q.type = p.type /\ q.cap = p.cap /\ q.buf[n] = NUL
      /\ \A i \in 0..p.cap : i # n => q.buf[i] = p.buf[i]
  BY <1>1, <1>3, PutNulWithin
<1> HIDE DEF q
<1>6. \A i \in 0..n - 1 : q.buf[i] = t[i + 1]
  BY <1>1, <1>3, <1>4, <1>5
<1>7. Sound(r) /\ r.len = n /\ r.type = q.type /\ r.cap = q.cap /\ r.buf = q.buf
  BY <1>1, <1>3, <1>5, SetLenWithin
<1> HIDE DEF r
<1>8. Clean(r)
  <2>1. \A i \in 0..n - 1 : i + 1 \in 1..Len(t)
    BY <1>1
  <2> QED BY <1>6, <1>7, <2>1 DEF Clean
<1>9. Content(r) = t
  <2>1. /\ Content(r) \in Seq(Byte) /\ Len(Content(r)) = r.len
        /\ \A i \in 1..r.len : Content(r)[i] = r.buf[i - 1]
    BY <1>7, ContentSeq
  <2>2. \A i \in 1..n : i - 1 \in 0..n - 1 /\ (i - 1) + 1 = i
    BY <1>1
  <2>3. \A i \in 1..n : Content(r)[i] = t[i]
    BY <1>6, <1>7, <2>1, <2>2
  <2> QED BY <1>7, <2>1, <2>3, SeqEqual
<1> QED BY <1>3, <1>5, <1>7, <1>8, <1>9 DEF Presentable, p, q, r

\* Bytes are appended where there is room, and the terminator after them.
LEMMA AppendTerminated ==
  ASSUME NEW s, Sound(s), Clean(s), NEW m, Sound(m), NEW t \in Seq(Byte),
         m.len = s.len, \A i \in 0..s.len : m.buf[i] = s.buf[i],
         s.len + Len(t) <= m.cap, s.len + Len(t) <= MaxOf[m.type],
         \A i \in 1..Len(t) : t[i] # JUNK
  PROVE  LET a == SetLen(Put(m, s.len, t), s.len + Len(t))
             r == PutNul(a, s.len + Len(t))
         IN  /\ Sound(a) /\ Clean(a) /\ a.len = s.len + Len(t) /\ a.type = m.type
             /\ Content(a) = Content(s) \o t
             /\ Presentable(r) /\ Content(r) = Content(s) \o t
<1> DEFINE n == Len(t)
           a == SetLen(Put(m, s.len, t), s.len + Len(t))
           r == PutNul(a, s.len + Len(t))
<1>1. s.len \in Nat /\ n \in Nat /\ m.cap \in Nat
  BY DEF Sound, Strings
<1>2. /\ Sound(a) /\ a.len = m.len + n /\ a.type = m.type /\ a.cap = m.cap
      /\ \A i \in 0..m.len - 1 : a.buf[i] = m.buf[i]
      /\ \A i \in 1..n : a.buf[m.len + i - 1] = t[i]
  BY AppendSound
<1> HIDE DEF a
<1>3. \A i \in 0..s.len - 1 : a.buf[i] = s.buf[i]
  BY <1>1, <1>2
<1>4. Clean(a)
  <2> SUFFICES ASSUME NEW i \in 0..a.len - 1 PROVE a.buf[i] # JUNK
    BY DEF Clean
  <2>1. CASE i < s.len
    <3>1. i \in 0..s.len - 1
      BY <1>1, <1>2, <2>1
    <3> QED BY <1>3, <3>1 DEF Clean
  <2>2. CASE i >= s.len
    <3>1. i - s.len + 1 \in 1..n /\ m.len + (i - s.len + 1) - 1 = i
      BY <1>1, <1>2, <2>2
    <3> QED BY <1>2, <3>1
  <2> QED BY <1>1, <1>2, <2>1, <2>2
<1>5. Content(a) = Content(s) \o t
  <2>1. /\ Sound(s) /\ Sound(a) /\ t \in Seq(Byte) /\ a.len = s.len + Len(t)
        /\ \A i \in 1..Len(t) : a.buf[s.len + i - 1] = t[i]
    BY <1>1, <1>2
  <2> QED BY <2>1, <1>3, ContentAppend
<1>6. s.len + n \in 0..a.cap
  BY <1>1, <1>2
<1>7. /\ Sound(r) /\ r.len = a.len /\ r.buf[s.len + n] = NUL
      /\ \A i \in 0..a.cap : i # s.len + n => r.buf[i] = a.buf[i]
  BY <1>2, <1>6, PutNulWithin
<1> HIDE DEF r
<1>8. \A i \in 0..a.len - 1 : r.buf[i] = a.buf[i]
  BY <1>1, <1>2, <1>6, <1>7
<1>9. Presentable(r)
  BY <1>2, <1>4, <1>7, <1>8 DEF Presentable, Clean
<1>10. Content(r) = Content(a)
  BY <1>2, <1>7, <1>8, ContentSame
<1> QED BY <1>2, <1>4, <1>5, <1>9, <1>10 DEF a, r
-------------------------------------------------------------------------------
\* sdsnewlen
LEMMA NewLenPresentable ==
  ASSUME NEW t \in Seq(Byte), Len(t) <= MaxOf[4], \A i \in 1..Len(t) : t[i] # JUNK
  PROVE  Presentable(NewLen(t)) /\ Content(NewLen(t)) = t
<1> DEFINE n == Len(t)
           type == IF n = 0 THEN 1 ELSE ReqType(n)
           junk == [i \in 0..n |-> JUNK]
           raw == [type |-> type, len |-> 0, alloc |-> 0, cap |-> n, buf |-> junk]
           set == SetAlloc(SetLen(raw, n), n)
           alloc == IF type = 0 THEN 0 ELSE n
           m == [type |-> type, len |-> n, alloc |-> alloc, cap |-> n, buf |-> junk]
           p == Put(set, 0, t)
           r == PutNul(p, n)
<1>1. t \in Seq(Byte) /\ n \in Nat /\ \A i \in 1..n : t[i] # JUNK
  OBVIOUS
<1>2. type \in Types /\ n <= MaxOf[type] /\ MaxOf[type] \in Nat
  <2>1. ReqType(n) \in Types /\ n <= MaxOf[ReqType(n)]
    BY <1>1, ReqTypeFits
  <2>2. 1 \in Types /\ \A k \in Types : MaxOf[k] \in Nat
    BY SdsAssumption DEF Types
  <2> QED BY <1>1, <2>1, <2>2
<1> HIDE DEF type
<1>3. junk \in [0..n -> Byte]
  BY DEF Byte
<1> HIDE DEF junk
<1>4. Stored(n, type) = n
  BY <1>1, <1>2, StoredFits
<1>5. set = m
  BY <1>1, <1>4 DEF SetAlloc, SetLen
<1>6. alloc \in Nat /\ alloc <= MaxOf[type] /\ (type # 0 => alloc = n)
  BY <1>1, <1>2
<1> HIDE DEF alloc
<1>7. Sound(m)
  BY <1>1, <1>2, <1>3, <1>6, SoundRecord
<1>8. m.len = n /\ m.cap = n /\ m.type = type
  OBVIOUS
<1> HIDE DEF m, set
<1>9. /\ Sound(p) /\ p.type = m.type /\ p.len = m.len /\ p.cap = m.cap
      /\ \A i \in 0..m.cap : p.buf[i] = IF i \in 0..0 + Len(t) - 1
                                        THEN t[i - 0 + 1] ELSE m.buf[i]
  <2>1. 0 + Len(t) <= m.cap + 1
    BY <1>1, <1>8
  <2> QED BY <1>1, <1>5, <1>7, <2>1, PutWithin
<1> HIDE DEF p
<1>10. \A i \in 0..n - 1 : p.buf[i] = t[i + 1]
  <2> SUFFICES ASSUME NEW i \in 0..n - 1 PROVE p.buf[i] = t[i + 1]
    OBVIOUS
  <2>1. i \in 0..m.cap /\ i \in 0..0 + Len(t) - 1 /\ i - 0 + 1 = i + 1
    BY <1>1, <1>8
  <2> QED BY <1>9, <2>1
<1>11. /\ Sound(r) /\ r.len = n /\ r.buf[n] = NUL
       /\ \A i \in 0..p.cap : i # n => r.buf[i] = p.buf[i]
  <2>1. n \in 0..p.cap
    BY <1>1, <1>8, <1>9
  <2> QED BY <1>8, <1>9, <2>1, PutNulWithin
<1> HIDE DEF r
<1>12. \A i \in 0..n - 1 : r.buf[i] = t[i + 1]
  <2>1. \A i \in 0..n - 1 : i \in 0..p.cap /\ i # n
    BY <1>1, <1>8, <1>9
  <2> QED BY <1>10, <1>11, <2>1
<1>13. \A i \in 1..n : r.buf[i - 1] = t[i]
  <2>1. \A i \in 1..n : i - 1 \in 0..n - 1 /\ (i - 1) + 1 = i
    BY <1>1
  <2> QED BY <1>12, <2>1
<1>14. Presentable(r)
  <2>1. \A i \in 0..n - 1 : i + 1 \in 1..n
    BY <1>1
  <2> QED BY <1>1, <1>11, <1>12, <2>1 DEF Presentable, Clean
<1>15. Content(r) = t
  <2>1. /\ Content(r) \in Seq(Byte) /\ Len(Content(r)) = r.len
        /\ \A i \in 1..r.len : Content(r)[i] = r.buf[i - 1]
    BY <1>11, ContentSeq
  <2>2. \A i \in 1..n : Content(r)[i] = t[i]
    BY <1>11, <1>13, <2>1
  <2> QED BY <1>1, <1>11, <2>1, <2>2, SeqEqual
<1>16. NewLen(t) = r
  BY DEF NewLen, r, p, set, type, junk
<1> QED BY <1>14, <1>15, <1>16

\* sdscatlen
LEMMA CatLenPresentable ==
  ASSUME NEW s, Presentable(s), NEW t \in Args, s.len + Len(t) <= MaxRoom
  PROVE  Presentable(CatLen(s, t)) /\ Content(CatLen(s, t)) = Content(s) \o t
<1> DEFINE m == MakeRoomFor(s, Len(t))
<1>1. t \in Seq(Byte) /\ Len(t) \in Nat /\ \A i \in 1..Len(t) : t[i] # JUNK
  BY ArgBytes
<1>2. Sound(s) /\ Clean(s)
  BY DEF Presentable
<1>3. /\ Sound(m) /\ m.len = s.len /\ m.len + Len(t) <= m.cap
      /\ m.len + Len(t) <= MaxOf[m.type] /\ \A i \in 0..s.len : m.buf[i] = s.buf[i]
  BY <1>1, <1>2, MakeRoomForSound
<1> HIDE DEF m
<1>4. s.len + Len(t) <= m.cap /\ s.len + Len(t) <= MaxOf[m.type]
  BY <1>3
<1>5. LET r == PutNul(SetLen(Put(m, s.len, t), s.len + Len(t)), s.len + Len(t))
      IN  Presentable(r) /\ Content(r) = Content(s) \o t
  BY <1>1, <1>2, <1>3, <1>4, AppendTerminated
<1> QED BY <1>5 DEF CatLen, m

\* sdscpylen
LEMMA CpyLenPresentable ==
  ASSUME NEW s, Presentable(s), NEW t \in Args, Len(t) <= MaxRoom
  PROVE  Presentable(CpyLen(s, t)) /\ Content(CpyLen(s, t)) = t
<1> DEFINE n == Len(t)
           m == IF Alloc(s) < Len(t) THEN MakeRoomFor(s, Len(t) - s.len) ELSE s
<1>1. t \in Seq(Byte) /\ n \in Nat /\ \A i \in 1..n : t[i] # JUNK
  BY ArgBytes
<1>2. /\ Sound(s) /\ s.len \in Nat /\ s.cap \in Nat /\ Alloc(s) \in Nat /\ s.len <= Alloc(s)
      /\ Alloc(s) <= s.cap /\ Alloc(s) <= MaxOf[s.type] /\ MaxOf[s.type] \in Nat
  BY SdsAssumption DEF Presentable, Sound, Strings, Alloc
<1>3. Sound(m) /\ n <= m.cap /\ n <= MaxOf[m.type]
  <2>1. CASE Alloc(s) < n
    <3>1. n - s.len \in Nat /\ s.len + (n - s.len) = n
      BY <1>1, <1>2, <2>1
    <3>2. /\ Sound(MakeRoomFor(s, n - s.len)) /\ MakeRoomFor(s, n - s.len).len = s.len
          /\ MakeRoomFor(s, n - s.len).len + (n - s.len) <= MakeRoomFor(s, n - s.len).cap
          /\ MakeRoomFor(s, n - s.len).len + (n - s.len)
               <= MaxOf[MakeRoomFor(s, n - s.len).type]
      BY <1>2, <3>1, MakeRoomForSound
    <3> QED BY <2>1, <3>1, <3>2
  <2>2. CASE ~(Alloc(s) < n)
    BY <1>1, <1>2, <2>2
  <2> QED BY <2>1, <2>2
<1> HIDE DEF m
<1>4. LET r == SetLen(PutNul(Put(m, 0, t), Len(t)), Len(t))
      IN  Presentable(r) /\ Content(r) = t
  BY <1>1, <1>3, OverwriteSound
<1> QED BY <1>4 DEF CpyLen, m

\* Where the characters that sdsrange keeps end: behind the last place, or the string.
CutEnd(len, end) == IF FromEnd(len, end) < len THEN FromEnd(len, end) + 1 ELSE len

\* sdsrange keeps what lies between the two places, as far as the string goes.
LEMMA RangeLenWithin ==
  ASSUME NEW len \in Nat, NEW start \in Int, NEW end \in Int
  PROVE  LET first == FromEnd(len, start)
             upto == CutEnd(len, end)
             n == RangeLen(len, first, FromEnd(len, end))
         IN  /\ first \in Nat /\ upto \in 0..len
             /\ n = IF first + 1 <= upto THEN upto - first ELSE 0
             /\ n \in Nat /\ n <= len /\ (n > 0 => first + n <= len)
<1> DEFINE first == FromEnd(len, start)
           last == FromEnd(len, end)
           upto == CutEnd(len, end)
           n == RangeLen(len, first, last)
<1>1. first \in Nat
  BY DEF FromEnd
<1>2. last \in Nat /\ upto = IF last < len THEN last + 1 ELSE len
  BY DEF FromEnd, CutEnd
<1> HIDE DEF first, last, upto
<1>3. upto \in 0..len
  BY <1>2
<1>4. n = IF first + 1 <= upto THEN upto - first ELSE 0
  BY <1>1, <1>2 DEF RangeLen
<1> HIDE DEF n
<1>5. n \in Nat /\ n <= len /\ (n > 0 => first + n <= len)
  BY <1>1, <1>3, <1>4
<1> QED BY <1>1, <1>3, <1>4, <1>5 DEF first, last, upto, n

LEMMA RangePresentable ==
  ASSUME NEW s, Presentable(s), NEW start \in Int, NEW end \in Int
  PROVE  /\ Presentable(SdsRange(s, start, end))
         /\ Content(SdsRange(s, start, end)) =
              SubSeq(Content(s), FromEnd(s.len, start) + 1, CutEnd(s.len, end))
<1>1. /\ Sound(s) /\ Clean(s) /\ s.len \in Nat /\ s.cap \in Nat /\ s.len <= s.cap
      /\ s.len <= MaxOf[s.type] /\ s.buf \in [0..s.cap -> Byte] /\ MaxOf[s.type] \in Nat
  <2>1. Sound(s) /\ Clean(s)
    BY DEF Presentable
  <2>2. s.type \in Types /\ s.len \in Nat /\ s.cap \in Nat /\ s.buf \in [0..s.cap -> Byte]
    BY <2>1 DEF Sound, Strings
  <2>3. MaxOf[s.type] \in Nat
    BY <2>2, SdsAssumption
  <2>4. s.len <= s.cap /\ s.len <= MaxOf[s.type]
    <3>1. s.type = 0 \/ s.alloc \in Nat
      BY <2>1 DEF Sound, Strings
    <3> QED BY <2>1, <2>2, <2>3, <3>1 DEF Sound, Alloc
  <2> QED BY <2>1, <2>2, <2>3, <2>4
<1>2. CASE s.len = 0
  <2> DEFINE first == FromEnd(s.len, start)
             upto == CutEnd(s.len, end)
  <2>1. SdsRange(s, start, end) = s
    BY <1>2 DEF SdsRange
  <2>2. first \in Nat /\ upto = 0
    <3>1. first \in Nat /\ upto \in 0..s.len
      BY <1>1, RangeLenWithin
    <3> HIDE DEF first, upto
    <3> QED BY <1>2, <3>1
  <2> HIDE DEF first, upto
  <2>3. SubSeq(Content(s), first + 1, upto) = <<>>
    BY <2>2, SubSeqEmpty
  <2>4. Content(s) = <<>>
    BY <1>1, <1>2, ContentSeq
  <2> QED BY <2>1, <2>3, <2>4 DEF first, upto
<1>3. CASE s.len > 0
  <2> DEFINE first == FromEnd(s.len, start)
             upto == CutEnd(s.len, end)
             n == RangeLen(s.len, first, FromEnd(s.len, end))
             t == [i \in 1..n |-> s.buf[first + i - 1]]
             r == SetLen(PutNul(Put(s, 0, t), n), n)
  <2>1. /\ first \in Nat /\ upto \in 0..s.len
        /\ n = IF first + 1 <= upto THEN upto - first ELSE 0
        /\ n \in Nat /\ n <= s.len /\ (n > 0 => first + n <= s.len)
    BY <1>1, RangeLenWithin
  <2>2. SdsRange(s, start, end) = r
    BY <1>1, <1>3 DEF SdsRange
  <2> HIDE DEF first, upto, n
  <2>3. \A i \in 1..n : first + i - 1 \in 0..s.len - 1
    BY <1>1, <2>1
  <2>4. \A i \in 1..n : s.buf[first + i - 1] \in Byte /\ s.buf[first + i - 1] # JUNK
    BY <1>1, <2>3 DEF Clean
  <2>5. /\ t \in Seq(Byte) /\ Len(t) = n /\ \A i \in 1..Len(t) : t[i] # JUNK
        /\ \A i \in 1..n : t[i] = s.buf[first + i - 1]
    <3>1. t \in [1..n -> Byte] /\ \A i \in 1..n : t[i] = s.buf[first + i - 1]
      BY <2>4
    <3> HIDE DEF t
    <3>2. t \in Seq(Byte) /\ Len(t) = n
      BY <2>1, <3>1
    <3> QED BY <2>4, <3>1, <3>2
  <2> HIDE DEF t
  <2>6. Len(t) <= s.cap /\ Len(t) <= MaxOf[s.type]
    BY <1>1, <2>1, <2>5
  <2>7. Presentable(r) /\ Content(r) = t
    BY <1>1, <2>5, <2>6, OverwriteSound
  <2> HIDE DEF r
  <2>8. t = SubSeq(Content(s), first + 1, upto)
    <3> DEFINE u == SubSeq(Content(s), first + 1, upto)
    <3>1. /\ Content(s) \in Seq(Byte) /\ Len(Content(s)) = s.len
          /\ \A i \in 1..s.len : Content(s)[i] = s.buf[i - 1]
      BY <1>1, ContentSeq
    <3>2. \A i \in first + 1..upto : Content(s)[i] \in Byte
      <4>1. \A i \in first + 1..upto : i \in 1..s.len
        BY <1>1, <2>1
      <4> QED BY <3>1, <4>1
    <3>3. first + 1 \in Int /\ upto \in Int
      BY <2>1
    <3>4. /\ u \in Seq(Byte)
          /\ Len(u) = IF first + 1 <= upto THEN upto - (first + 1) + 1 ELSE 0
          /\ \A i \in 1..upto - (first + 1) + 1 : u[i] = Content(s)[first + 1 + i - 1]
      BY <3>2, <3>3, SubSeqProperties
    <3> HIDE DEF u
    <3>5. Len(u) = n
      BY <2>1, <3>4
    <3>6. \A i \in 1..n : u[i] = t[i]
      <4> SUFFICES ASSUME NEW i \in 1..n PROVE u[i] = t[i]
        OBVIOUS
      <4>1. /\ i \in 1..upto - (first + 1) + 1 /\ first + 1 + i - 1 \in 1..s.len
            /\ (first + 1 + i - 1) - 1 = first + i - 1
        BY <1>1, <2>1
      <4> QED BY <2>5, <3>1, <3>4, <4>1
    <3> QED BY <2>1, <2>5, <3>4, <3>5, <3>6, SeqEqual DEF u
  <2> QED BY <2>2, <2>7, <2>8 DEF first, upto
<1> QED BY <1>1, <1>2, <1>3

\* sdsgrowzero
LEMMA GrowZeroPresentable ==
  ASSUME NEW s, Presentable(s), NEW n \in Nat, n <= MaxRoom
  PROVE  /\ Presentable(GrowZero(s, n))
         /\ Content(GrowZero(s, n)) = IF n <= s.len THEN Content(s)
                                      ELSE Content(s) \o Zeros(n - s.len)
<1>1. Sound(s) /\ Clean(s) /\ s.len \in Nat
  BY DEF Presentable, Sound, Strings
<1>2. CASE n <= s.len
  BY <1>1, <1>2 DEF GrowZero
<1>3. CASE n > s.len
  <2> DEFINE k == n - s.len
             m == MakeRoomFor(s, k)
             z == Zeros(k + 1)
             p == Put(m, s.len, z)
             r == SetLen(p, n)
  <2>1. k \in Nat /\ s.len + k = n
    BY <1>1, <1>3
  <2>2. GrowZero(s, n) = r
    BY <1>1, <1>3 DEF GrowZero
  <2>3. /\ Sound(m) /\ m.len = s.len /\ m.len + k <= m.cap /\ m.len + k <= MaxOf[m.type]
        /\ \A i \in 0..s.len : m.buf[i] = s.buf[i]
    BY <1>1, <2>1, MakeRoomForSound
  <2>4. /\ z \in Seq(Byte) /\ Len(z) = k + 1 /\ \A i \in 1..k + 1 : z[i] = NUL
    BY <2>1 DEF Zeros, Byte
  <2>5. m.cap \in Nat
    BY <2>3 DEF Sound
  <2> HIDE DEF k, m, z
  <2>6. /\ Sound(p) /\ p.type = m.type /\ p.len = m.len /\ p.cap = m.cap
        /\ \A i \in 0..m.cap : p.buf[i] = IF i \in s.len..s.len + Len(z) - 1
                                          THEN z[i - s.len + 1] ELSE m.buf[i]
    <3>1. s.len + Len(z) <= m.cap + 1
      BY <1>1, <2>1, <2>3, <2>4, <2>5
    <3> QED BY <1>1, <2>3, <2>4, <3>1, PutWithin
  <2> HIDE DEF p
  <2>7. \A i \in 0..s.len - 1 : p.buf[i] = s.buf[i]
    <3> SUFFICES ASSUME NEW i \in 0..s.len - 1 PROVE p.buf[i] = s.buf[i]
      OBVIOUS
    <3>1. i \in 0..m.cap /\ i \notin s.len..s.len + Len(z) - 1 /\ i \in 0..s.len
      BY <1>1, <2>1, <2>3, <2>5
    <3> QED BY <2>3, <2>6, <3>1
  <2>8. \A i \in s.len..n : p.buf[i] = NUL
    <3> SUFFICES ASSUME NEW i \in s.len..n PROVE p.buf[i] = NUL
      OBVIOUS
    <3>1. /\ i \in 0..m.cap /\ i \in s.len..s.len + Len(z) - 1
          /\ i - s.len + 1 \in 1..k + 1
      BY <1>1, <2>1, <2>3, <2>4, <2>5
    <3> QED BY <2>4, <2>6, <3>1
  <2>9. Sound(r) /\ r.len = n /\ r.buf = p.buf
    BY <2>1, <2>3, <2>6, SetLenWithin
  <2> HIDE DEF r
  <2>10. Presentable(r)
    <3>1. \A i \in 0..n - 1 : i \in 0..s.len - 1 \/ i \in s.len..n
      BY <1>1
    <3>2. n \in s.len..n
      BY <1>1, <1>3
    <3> QED BY <1>1, <2>7, <2>8, <2>9, <3>1, <3>2, SdsAssumption DEF Presentable, Clean
  <2>11. Content(r) = Content(s) \o Zeros(k)
    <3> DEFINE w == Zeros(k)
    <3>1. w \in Seq(Byte) /\ Len(w) = k /\ \A i \in 1..k : w[i] = NUL
      BY <2>1 DEF Zeros, Byte
    <3> HIDE DEF w
    <3>2. \A i \in 1..k : s.len + i - 1 \in s.len..n
      BY <1>1, <2>1
    <3>3. \A i \in 1..Len(w) : r.buf[s.len + i - 1] = w[i]
      BY <2>8, <2>9, <3>1, <3>2
    <3>4. r.len = s.len + Len(w)
      BY <2>1, <2>9, <3>1
    <3>5. \A i \in 0..s.len - 1 : r.buf[i] = s.buf[i]
      BY <2>7, <2>9
    <3>6. Content(r) = Content(s) \o w
      BY <1>1, <2>9, <3>1, <3>3, <3>4, <3>5, ContentAppend
    <3> QED BY <3>6 DEF w
  <2> QED BY <1>1, <1>3, <2>2, <2>10, <2>11 DEF k
<1> QED BY <1>1, <1>2, <1>3

\* sdsRemoveFreeSpace
LEMMA RemoveFreeSpacePresentable ==
  ASSUME NEW s, Presentable(s)
  PROVE  LET r == RemoveFreeSpace(s)
         IN  Presentable(r) /\ Content(r) = Content(s) /\ Avail(r) = 0
<1> DEFINE type == IF ReqType(s.len) > 1 THEN s.type ELSE ReqType(s.len)
           r == RemoveFreeSpace(s)
<1>1. /\ Sound(s) /\ Clean(s) /\ s.buf[s.len] = NUL /\ s.len \in Nat /\ s.cap \in Nat
      /\ s.len <= s.cap /\ s.len <= MaxOf[s.type] /\ s.type \in Types
      /\ \A k \in Types : MaxOf[k] \in Nat /\ MaxOf[k] <= MaxOf[4]
  <2>1. \A k \in Types : MaxOf[k] \in Nat /\ MaxOf[k] <= MaxOf[4]
    BY SdsAssumption DEF Types
  <2> QED BY <2>1 DEF Presentable, Sound, Strings, Alloc
<1>2. CASE Avail(s) = 0
  BY <1>1, <1>2 DEF RemoveFreeSpace
<1>3. CASE Avail(s) # 0
  <2>1. ReqType(s.len) \in Types /\ s.len <= MaxOf[ReqType(s.len)]
    <3>1. s.len <= MaxOf[4]
      BY <1>1, SdsAssumption DEF Types
    <3> QED BY <1>1, <3>1, ReqTypeFits
  <2>2. s.type # 0
    BY <1>3 DEF Avail
  <2>3. type \in Types /\ s.len <= MaxOf[type]
    BY <1>1, <2>1
  <2>4. r = SetAlloc(IF type = s.type THEN Moved(s, type, s.len, s.len)
                     ELSE SetLen(Moved(s, type, s.len, s.len), s.len), s.len)
    BY <1>3 DEF RemoveFreeSpace
  <2> HIDE DEF type, r
  <2>5. /\ Sound(r) /\ r.len = s.len /\ r.type = type /\ r.cap = s.len
        /\ \A i \in 0..s.len : r.buf[i] = s.buf[i]
    <3>1. s.len \in 0..s.cap
      BY <1>1
    <3> QED BY <1>1, <2>3, <2>4, <3>1, MovedSound
  <2>6. Presentable(r)
    BY <1>1, <2>5 DEF Presentable, Clean
  <2>7. Content(r) = Content(s)
    BY <1>1, <2>5, ContentSame
  <2>8. Avail(r) = 0
    BY <1>1, <2>5 DEF Avail, Sound
  <2> QED BY <2>6, <2>7, <2>8 DEF r
<1> QED BY <1>2, <1>3

\* sdsclear
LEMMA ClearPresentable ==
  ASSUME NEW s, Presentable(s)
  PROVE  /\ Presentable(PutNul(SetLen(s, 0), 0))
         /\ Content(PutNul(SetLen(s, 0), 0)) = <<>>
<1> DEFINE e == SetLen(s, 0)
           r == PutNul(e, 0)
<1>1. Sound(s) /\ s.cap \in Nat /\ MaxOf[s.type] \in Nat
  BY SdsAssumption DEF Presentable, Sound, Strings
<1>2. Sound(e) /\ e.len = 0 /\ e.cap = s.cap
  BY <1>1, SetLenWithin
<1> HIDE DEF e
<1>3. Sound(r) /\ r.len = e.len /\ r.buf[0] = NUL
  BY <1>1, <1>2, PutNulWithin
<1> HIDE DEF r
<1>4. Presentable(r)
  BY <1>2, <1>3 DEF Presentable, Clean
<1>5. Content(r) = <<>>
  BY <1>2, <1>3, ContentSeq
<1> QED BY <1>4, <1>5 DEF r, e

\* Room is made if it is not there: the test before each write of sdscatfmt.
LEMMA EnsureSound ==
  ASSUME NEW s, Sound(s), NEW n \in Nat, s.len + n <= MaxRoom
  PROVE  LET r == Ensure(s, n)
         IN  /\ Sound(r) /\ r.len = s.len
             /\ s.len + n <= r.cap /\ s.len + n <= MaxOf[r.type]
             /\ \A i \in 0..s.len : r.buf[i] = s.buf[i]
<1>1. CASE Avail(s) < n
  BY <1>1, MakeRoomForSound DEF Ensure
<1>2. CASE ~(Avail(s) < n)
  <2>1. /\ s.cap \in Nat /\ s.len \in Nat /\ s.alloc \in Nat /\ Alloc(s) <= s.cap
        /\ Alloc(s) <= MaxOf[s.type] /\ MaxOf[s.type] \in Nat /\ Alloc(s) \in Nat
    BY SdsAssumption DEF Sound, Strings, Alloc
  <2>2. s.len + n <= Alloc(s)
    BY <1>2, <2>1 DEF Avail, Alloc
  <2> QED BY <1>2, <2>1, <2>2 DEF Ensure
<1> QED BY <1>1, <1>2
-------------------------------------------------------------------------------
\* The invariant: in the loop of sdscatfmt the terminator is missing, but i is the
\* length.
Inv ==
  /\ Sound(str) /\ Clean(str)
  /\ pc \in {"idle", "fmt"} /\ fmt \in 0..MaxFmt /\ pos \in Nat
  /\ pc = "idle" => str.buf[str.len] = NUL
  /\ pc = "fmt" => pos = str.len

\* The empty string the state machine starts with.
LEMMA InvInit == Init => Inv
<1> SUFFICES ASSUME Init PROVE Inv
  OBVIOUS
<1>1. <<>> \in Seq(Byte) /\ Len(<<>>) = 0
  OBVIOUS
<1>2. MaxOf[4] \in Nat /\ MaxFmt \in Nat
  BY SdsAssumption DEF Types
<1> DEFINE t == <<>>
<1>3. t \in Seq(Byte) /\ Len(t) = 0
  BY <1>1
<1>4. str = NewLen(t)
  BY DEF Init
<1> HIDE DEF t
<1>5. Len(t) <= MaxOf[4] /\ \A i \in 1..Len(t) : t[i] # JUNK
  BY <1>2, <1>3
<1>6. Presentable(str)
  BY <1>3, <1>4, <1>5, NewLenPresentable
<1> QED BY <1>2, <1>6 DEF Init, Inv, Presentable

\* A call that leaves a presentable string keeps the invariant.
LEMMA CallKeepsInv ==
  ASSUME Inv, NEW s, Presentable(s), Call(s)
  PROVE  Inv'
<1>1. str' = s /\ pc' = "idle" /\ fmt' = fmt /\ pos' = pos
  BY DEF Call
<1>2. Presentable(str')
  BY <1>1
<1> QED BY <1>1, <1>2 DEF Inv, Presentable, Sound, Strings, Clean, Alloc

\* An idle string is presentable.
LEMMA IdlePresentable == ASSUME Inv, pc = "idle" PROVE Presentable(str)
  BY DEF Inv, Presentable

\* A new string replaces the old one.
LEMMA NewCall ==
  ASSUME Inv, NEW t \in Args, New(t)
  PROVE  Inv' /\ Content(str') = t
<1>1. t \in Seq(Byte) /\ Len(t) \in Nat /\ \A i \in 1..Len(t) : t[i] # JUNK
  BY ArgBytes
<1>2. MaxRoom \in Nat /\ MaxOf[4] \in Nat /\ MaxRoom <= MaxOf[4]
  BY SdsAssumption DEF Types
<1>3. Len(t) <= MaxRoom /\ Call(NewLen(t))
  BY DEF New
<1>4. Presentable(NewLen(t)) /\ Content(NewLen(t)) = t
  <2>1. Len(t) <= MaxOf[4]
    BY <1>1, <1>2, <1>3
  <2> QED BY <1>1, <2>1, NewLenPresentable
<1>5. str' = NewLen(t)
  BY <1>3 DEF Call
<1>6. Inv'
  BY <1>3, <1>4, CallKeepsInv
<1>7. Content(str') = t
  BY <1>4, <1>5
<1> QED BY <1>6, <1>7

\* sdscpylen.
LEMMA CpyCall ==
  ASSUME Inv, NEW t \in Args, Cpy(t)
  PROVE  Inv' /\ Content(str') = t
<1>1. t \in Seq(Byte) /\ Len(t) \in Nat /\ \A i \in 1..Len(t) : t[i] # JUNK
  BY ArgBytes
<1>2. MaxRoom \in Nat /\ MaxOf[4] \in Nat /\ MaxRoom <= MaxOf[4]
  BY SdsAssumption DEF Types
<1>3. Len(t) <= MaxRoom /\ Call(CpyLen(str, t)) /\ pc = "idle"
  BY DEF Cpy, Call
<1>4. Presentable(CpyLen(str, t)) /\ Content(CpyLen(str, t)) = t
  BY <1>3, IdlePresentable, CpyLenPresentable
<1>5. str' = CpyLen(str, t)
  BY <1>3 DEF Call
<1>6. Inv'
  BY <1>3, <1>4, CallKeepsInv
<1>7. Content(str') = t
  BY <1>4, <1>5
<1> QED BY <1>6, <1>7

\* sdscatlen.
LEMMA CatCall ==
  ASSUME Inv, NEW t \in Args, Cat(t)
  PROVE  Inv' /\ Content(str') = Content(str) \o t
<1>1. t \in Seq(Byte) /\ Len(t) \in Nat /\ \A i \in 1..Len(t) : t[i] # JUNK
  BY ArgBytes
<1>2. MaxRoom \in Nat /\ MaxOf[4] \in Nat /\ MaxRoom <= MaxOf[4]
  BY SdsAssumption DEF Types
<1>3. str.len + Len(t) <= MaxRoom /\ Call(CatLen(str, t)) /\ pc = "idle"
  BY DEF Cat, Call
<1>4. Presentable(CatLen(str, t)) /\ Content(CatLen(str, t)) = Content(str) \o t
  BY <1>3, IdlePresentable, CatLenPresentable
<1>5. str' = CatLen(str, t)
  BY <1>3 DEF Call
<1>6. Inv'
  BY <1>3, <1>4, CallKeepsInv
<1>7. Content(str') = Content(str) \o t
  BY <1>4, <1>5
<1> QED BY <1>6, <1>7

\* sdsMakeRoomFor, a write behind the end, and sdsIncrLen.
LEMMA ReadIntoCall ==
  ASSUME Inv, NEW t \in Args, ReadInto(t)
  PROVE  Inv' /\ Content(str') = Content(str) \o t
<1>1. t \in Seq(Byte) /\ Len(t) \in Nat /\ \A i \in 1..Len(t) : t[i] # JUNK
  BY ArgBytes
<1>2. MaxRoom \in Nat /\ MaxOf[4] \in Nat /\ MaxRoom <= MaxOf[4]
  BY SdsAssumption DEF Types
<1> DEFINE m == MakeRoomFor(str, Len(t))
           p == Put(m, str.len, t)
           r == PutNul(IncLen(p, Len(t)), str.len + Len(t))
<1>3. str.len + Len(t) <= MaxRoom /\ Call(r) /\ pc = "idle"
  BY DEF ReadInto, Call
<1>4. Presentable(str) /\ Sound(str) /\ Clean(str) /\ str.len \in Nat
  BY <1>3, IdlePresentable DEF Presentable, Sound, Strings
<1>5. /\ Sound(m) /\ m.len = str.len /\ m.len + Len(t) <= m.cap
      /\ m.len + Len(t) <= MaxOf[m.type] /\ \A i \in 0..str.len : m.buf[i] = str.buf[i]
  BY <1>1, <1>3, <1>4, MakeRoomForSound
<1> HIDE DEF m
<1>6. p.len = str.len
  <2>1. m.cap \in Nat
    BY <1>5 DEF Sound
  <2>2. str.len + Len(t) <= m.cap + 1
    BY <1>1, <1>4, <1>5, <2>1
  <2> QED BY <1>1, <1>4, <1>5, <2>2, PutWithin
<1>7. r = PutNul(SetLen(Put(m, str.len, t), str.len + Len(t)), str.len + Len(t))
  BY <1>6 DEF IncLen
<1>8. Presentable(r) /\ Content(r) = Content(str) \o t
  <2>1. str.len + Len(t) <= m.cap /\ str.len + Len(t) <= MaxOf[m.type]
    BY <1>5
  <2> QED BY <1>1, <1>4, <1>5, <1>7, <2>1, AppendTerminated
<1>9. str' = r
  BY <1>3 DEF Call
<1> HIDE DEF r
<1>10. Inv'
  BY <1>3, <1>8, CallKeepsInv
<1>11. Content(str') = Content(str) \o t
  BY <1>8, <1>9
<1> QED BY <1>10, <1>11

\* A turn of sdscatfmt's loop appends what the format gives it.
LEMMA CatfmtTurnAppends ==
  ASSUME Inv, NEW width \in 1..2, NEW t \in Args, CatfmtTurn(width, t)
  PROVE  Inv' /\ Content(str') = Content(str) \o t
<1>1. t \in Seq(Byte) /\ Len(t) \in Nat /\ \A i \in 1..Len(t) : t[i] # JUNK
  BY ArgBytes
<1>2. /\ pc = "fmt" /\ pos = str.len /\ Sound(str) /\ Clean(str) /\ str.len \in Nat
      /\ str.len + Len(t) + 1 <= MaxRoom /\ MaxRoom \in Nat
  BY SdsAssumption DEF CatfmtTurn, Inv, Sound, Strings
<1> DEFINE e == Ensure(str, 1)
           m == Ensure(e, Len(t))
           p == Put(m, str.len, t)
           r == SetLen(p, str.len + Len(t))
<1>3. /\ Sound(e) /\ e.len = str.len /\ \A i \in 0..str.len : e.buf[i] = str.buf[i]
  <2>1. str.len + 1 <= MaxRoom
    BY <1>1, <1>2
  <2> QED BY <1>2, <2>1, EnsureSound
<1> HIDE DEF e
<1>4. /\ Sound(m) /\ m.len = str.len
      /\ str.len + Len(t) <= m.cap /\ str.len + Len(t) <= MaxOf[m.type]
      /\ \A i \in 0..str.len : m.buf[i] = str.buf[i]
  <2>1. e.len + Len(t) <= MaxRoom
    BY <1>1, <1>2, <1>3
  <2> QED BY <1>1, <1>3, <2>1, EnsureSound
<1> HIDE DEF m
<1>5. Sound(r) /\ Clean(r) /\ r.len = str.len + Len(t) /\ Content(r) = Content(str) \o t
  BY <1>1, <1>2, <1>4, AppendTerminated
<1>6. p.len = str.len
  <2>1. m.cap \in Nat
    BY <1>4 DEF Sound
  <2>2. str.len + Len(t) <= m.cap + 1
    BY <1>1, <1>2, <1>4, <2>1
  <2>3. p.len = m.len
    BY <1>1, <1>2, <1>4, <2>2, PutWithin
  <2> QED BY <1>4, <2>3
<1>7. str' = r
  BY <1>2, <1>6 DEF CatfmtTurn, IncLen, m, e
<1> HIDE DEF r
<1>8. /\ pc' = "fmt" /\ pos' = str.len + Len(t) /\ fmt' = fmt - width
      /\ width <= fmt /\ fmt \in 0..MaxFmt
  BY <1>2 DEF CatfmtTurn, Inv
<1>9. fmt' \in 0..MaxFmt /\ pos' \in Nat
  <2>1. width \in Nat /\ MaxFmt \in Nat /\ Len(t) \in Nat /\ str.len \in Nat
    BY <1>1, <1>2, SdsAssumption
  <2> QED BY <1>8, <2>1
<1>10. Inv'
  BY <1>5, <1>7, <1>8, <1>9 DEF Inv, Sound, Strings, Clean, Alloc
<1> QED BY <1>5, <1>7, <1>10

\* The calls that make room and give it back.
LEMMA ReserveCall ==
  ASSUME Inv, NEW n \in 0..MaxRoom, Reserve(n)
  PROVE  Inv' /\ Content(str') = Content(str) /\ Avail(str') >= n
<1> DEFINE r == MakeRoomFor(str, n)
<1>1. str.len + n <= MaxRoom /\ Call(r) /\ pc = "idle" /\ str' = r
  BY DEF Reserve, Call
<1>2. n \in Nat /\ Presentable(str) /\ Sound(str) /\ Clean(str) /\ str.len \in Nat
      /\ str.buf[str.len] = NUL
  <2>1. n \in Nat
    BY SdsAssumption
  <2>2. Presentable(str)
    BY <1>1, IdlePresentable
  <2>3. Sound(str) /\ Clean(str) /\ str.buf[str.len] = NUL
    BY <2>2 DEF Presentable
  <2>4. str.len \in Nat
    BY <2>3 DEF Sound, Strings
  <2> QED BY <2>1, <2>2, <2>3, <2>4
<1>3. /\ Sound(r) /\ r.len = str.len /\ Avail(r) >= n
      /\ \A i \in 0..str.len : r.buf[i] = str.buf[i]
  BY <1>1, <1>2, MakeRoomForSound
<1> HIDE DEF r
<1>4. Presentable(r)
  BY <1>2, <1>3 DEF Presentable, Clean
<1>5. Content(r) = Content(str)
  BY <1>2, <1>3, ContentSame
<1>6. Inv'
  BY <1>1, <1>4, CallKeepsInv
<1> QED BY <1>1, <1>3, <1>5, <1>6

LEMMA ShrinkCall ==
  ASSUME Inv, Shrink
  PROVE  Inv' /\ Content(str') = Content(str) /\ Avail(str') = 0
<1> DEFINE r == RemoveFreeSpace(str)
<1>1. Call(r) /\ pc = "idle" /\ str' = r
  BY DEF Shrink, Call
<1>2. Presentable(r) /\ Content(r) = Content(str) /\ Avail(r) = 0
  BY <1>1, IdlePresentable, RemoveFreeSpacePresentable
<1> HIDE DEF r
<1>3. Inv'
  BY <1>1, <1>2, CallKeepsInv
<1> QED BY <1>1, <1>2, <1>3

LEMMA ClearCall == ASSUME Inv, Clear PROVE Inv' /\ Content(str') = <<>>
<1> DEFINE r == PutNul(SetLen(str, 0), 0)
<1>1. Call(r) /\ pc = "idle" /\ str' = r
  BY DEF Clear, Call
<1>2. Presentable(r) /\ Content(r) = <<>>
  BY <1>1, IdlePresentable, ClearPresentable
<1> HIDE DEF r
<1>3. Inv'
  BY <1>1, <1>2, CallKeepsInv
<1> QED BY <1>1, <1>2, <1>3

LEMMA PadCall ==
  ASSUME Inv, NEW n \in 0..MaxRoom, Pad(n)
  PROVE  /\ Inv'
         /\ Content(str') = IF n <= str.len THEN Content(str)
                            ELSE Content(str) \o Zeros(n - str.len)
<1> DEFINE r == GrowZero(str, n)
<1>1. n \in Nat /\ n <= MaxRoom
  BY SdsAssumption
<1>2. Call(r) /\ pc = "idle" /\ str' = r
  BY DEF Pad, Call
<1>3. /\ Presentable(r)
      /\ Content(r) = IF n <= str.len THEN Content(str)
                      ELSE Content(str) \o Zeros(n - str.len)
  BY <1>1, <1>2, IdlePresentable, GrowZeroPresentable
<1> HIDE DEF r
<1>4. Inv'
  BY <1>2, <1>3, CallKeepsInv
<1> QED BY <1>2, <1>3, <1>4

LEMMA CutCall ==
  ASSUME Inv, NEW start \in Indices, NEW end \in Indices, Cut(start, end)
  PROVE  Inv' /\ Content(str') = CutContent(start, end)
<1> DEFINE r == SdsRange(str, start, end)
<1>1. start \in Int /\ end \in Int
  BY SdsAssumption
<1>2. Call(r) /\ pc = "idle" /\ str' = r
  BY DEF Cut, Call
<1>3. str.len \in Nat
  BY DEF Inv, Sound, Strings
<1>4. Place(start) = FromEnd(str.len, start) /\ Place(end) = FromEnd(str.len, end)
  BY <1>1, <1>3 DEF Place, FromEnd
<1>5. /\ Presentable(r)
      /\ Content(r) = SubSeq(Content(str), FromEnd(str.len, start) + 1, CutEnd(str.len, end))
  BY <1>1, <1>2, IdlePresentable, RangePresentable
<1> HIDE DEF r
<1>6. Inv'
  BY <1>2, <1>5, CallKeepsInv
<1> QED BY <1>2, <1>4, <1>5, <1>6 DEF CutContent, CutEnd

\* sdscatfmt before and after its loop.
LEMMA CatfmtCall ==
  ASSUME Inv, NEW n \in 0..MaxFmt, Catfmt(n)
  PROVE  Inv' /\ Content(str') = Content(str)
<1> DEFINE k == str.len + 2 * n
           r == MakeRoomFor(str, k)
<1>1. /\ pc = "idle" /\ 2 * str.len + 2 * n <= MaxRoom /\ str' = r
      /\ pc' = "fmt" /\ fmt' = n /\ pos' = str.len
  BY DEF Catfmt
<1>2. n \in Nat /\ Sound(str) /\ Clean(str) /\ str.len \in Nat
  BY SdsAssumption DEF Inv, Sound, Strings
<1>3. k \in Nat /\ str.len + k <= MaxRoom
  <2>1. MaxRoom \in Nat
    BY SdsAssumption
  <2> QED BY <1>1, <1>2, <2>1
<1> HIDE DEF k
<1>4. /\ Sound(r) /\ r.len = str.len /\ \A i \in 0..str.len : r.buf[i] = str.buf[i]
  BY <1>2, <1>3, MakeRoomForSound
<1> HIDE DEF r
<1>5. Clean(r)
  BY <1>2, <1>4 DEF Clean
<1>6. Content(r) = Content(str)
  BY <1>2, <1>4, ContentSame
<1>7. Inv'
  BY <1>1, <1>2, <1>4, <1>5 DEF Inv, Sound, Strings, Clean, Alloc
<1> QED BY <1>1, <1>6, <1>7

LEMMA CatfmtEndCall ==
  ASSUME Inv, CatfmtEnd
  PROVE  Inv' /\ Content(str') = Content(str)
<1> DEFINE r == PutNul(str, str.len)
<1>1. /\ pc = "fmt" /\ pos = str.len /\ Sound(str) /\ Clean(str) /\ str.len \in Nat
      /\ str.cap \in Nat /\ str.len <= str.cap /\ fmt \in 0..MaxFmt
  BY DEF CatfmtEnd, Inv, Sound, Strings, Alloc
<1>2. str' = r /\ pc' = "idle" /\ pos' = 0 /\ fmt' = fmt
  BY <1>1 DEF CatfmtEnd
<1>3. /\ Sound(r) /\ r.len = str.len /\ r.buf[str.len] = NUL
      /\ \A i \in 0..str.len - 1 : r.buf[i] = str.buf[i]
  <2>1. str.len \in 0..str.cap
    BY <1>1
  <2>2. /\ Sound(r) /\ r.len = str.len /\ r.buf[str.len] = NUL
        /\ \A i \in 0..str.cap : i # str.len => r.buf[i] = str.buf[i]
    BY <1>1, <2>1, PutNulWithin
  <2>3. \A i \in 0..str.len - 1 : i \in 0..str.cap /\ i # str.len
    BY <1>1
  <2> QED BY <2>2, <2>3
<1> HIDE DEF r
<1>4. Clean(r)
  BY <1>1, <1>3 DEF Clean
<1>5. Content(r) = Content(str)
  BY <1>1, <1>3, ContentSame
<1>6. Inv'
  BY <1>1, <1>2, <1>3, <1>4 DEF Inv, Sound, Strings, Clean, Alloc
<1> QED BY <1>2, <1>5, <1>6
-------------------------------------------------------------------------------
\* Every step, or none, keeps the invariant.
LEMMA InvInductive == Inv /\ [Next]_vars => Inv'
<1> SUFFICES ASSUME Inv, [Next]_vars PROVE Inv'
  OBVIOUS
<1>1. CASE \E t \in Args : New(t) \/ Cat(t) \/ Cpy(t) \/ ReadInto(t)
  BY <1>1, NewCall, CatCall, CpyCall, ReadIntoCall
<1>2. CASE \E start, end \in Indices : Cut(start, end)
  BY <1>2, CutCall
<1>3. CASE Clear
  BY <1>3, ClearCall
<1>4. CASE Shrink
  BY <1>4, ShrinkCall
<1>5. CASE \E n \in 0..MaxRoom : Reserve(n) \/ Pad(n)
  BY <1>5, ReserveCall, PadCall
<1>6. CASE \E n \in 0..MaxFmt : Catfmt(n)
  BY <1>6, CatfmtCall
<1>7. CASE \E width \in 1..2, t \in Args : CatfmtTurn(width, t)
  BY <1>7, CatfmtTurnAppends
<1>8. CASE CatfmtEnd
  BY <1>8, CatfmtEndCall
<1>9. CASE UNCHANGED vars
  BY <1>9 DEF vars, Inv, Sound, Strings, Clean, Alloc
<1> QED BY <1>1, <1>2, <1>3, <1>4, <1>5, <1>6, <1>7, <1>8, <1>9 DEF Next

LEMMA InvAlways == Spec => []Inv
<1>1. Init => Inv
  BY InvInit
<1>2. Inv /\ [Next]_vars => Inv'
  BY InvInductive
<1> QED BY <1>1, <1>2, PTL DEF Spec

\* Type correctness of lib/sds: whatever it is asked for, a call writes only into the
\* memory that was allocated for the string.
THEOREM TypeCorrect == Spec => []TypeOK
<1>1. Inv => TypeOK
  BY DEF Inv, Sound, Strings, TypeOK
<1> QED BY <1>1, InvAlways, PTL

\* The length and the space a header notes never exceed the memory behind it, however
\* a string has moved between the five header types.
THEOREM HeaderAlwaysTruthful == Spec => []HeaderTruthful
<1>1. Inv => HeaderTruthful
  BY DEF Inv, Sound, HeaderTruthful
<1> QED BY <1>1, InvAlways, PTL

\* A string between two calls is a C string without uninitialised bytes.
THEOREM AlwaysTerminated == Spec => []Terminated
<1>1. Inv => Terminated
  BY DEF Inv, Clean, Terminated
<1> QED BY <1>1, InvAlways, PTL

\* Each call changes the content as sds.c says, for all lengths and indices.
LEMMA StepChangesContent == Inv => ContentStep
<1> SUFFICES ASSUME Inv PROVE ContentStep
  OBVIOUS
<1>1. ASSUME NEW t \in Args
      PROVE  /\ New(t) \/ Cpy(t) => Content(str') = t
             /\ Cat(t) \/ ReadInto(t) => Content(str') = Content(str) \o t
  BY <1>1, NewCall, CpyCall, CatCall, ReadIntoCall
<1>2. ASSUME NEW start \in Indices, NEW end \in Indices
      PROVE  Cut(start, end) => Content(str') = CutContent(start, end)
  BY <1>2, CutCall
<1>3. ASSUME NEW n \in 0..MaxRoom
      PROVE  /\ Reserve(n) => Content(str') = Content(str) /\ Avail(str') >= n
             /\ Pad(n) => Content(str') = IF n <= str.len THEN Content(str)
                                          ELSE Content(str) \o Zeros(n - str.len)
  BY <1>3, ReserveCall, PadCall
<1>4. Shrink => Content(str') = Content(str) /\ Avail(str') = 0
  BY ShrinkCall
<1>5. ASSUME NEW width \in 1..2, NEW t \in Args
      PROVE  CatfmtTurn(width, t) => Content(str') = Content(str) \o t
  BY <1>5, CatfmtTurnAppends
<1>6. CatfmtEnd \/ (\E n \in 0..MaxFmt : Catfmt(n)) => Content(str') = Content(str)
  BY CatfmtCall, CatfmtEndCall
<1>7. Clear => Content(str') = <<>>
  BY ClearCall
<1> QED BY <1>1, <1>2, <1>3, <1>4, <1>5, <1>6, <1>7 DEF ContentStep

\* What the calls of lib/sds promise about the content holds of every step.
THEOREM StepsAsDocumented == Spec => ContentsAsDocumented
<1>1. Inv /\ [Next]_vars => [ContentStep]_vars
  BY StepChangesContent
<1> QED BY <1>1, InvAlways, PTL DEF Spec, ContentsAsDocumented
===============================================================================
