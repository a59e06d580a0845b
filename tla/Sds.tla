---------------------------------- MODULE Sds ----------------------------------
(***************************************************************************)
(* One string of lib/sds: the header before the characters, the memory     *)
(* behind it, and what the calls of the library do to both.  Every message *)
(* the server parses and every reply it sends is built by these calls.     *)
(*                                                                         *)
(* The five header types differ in the largest length they can note:       *)
(* MaxOf[0] stands for 2^5 - 1 (a type that notes no free space), MaxOf[1] *)
(* for 2^8 - 1, and so on.  A number stored in a header is cut to its      *)
(* width.  A write beyond the memory is not lost: it makes the domain of   *)
(* buf exceed 0..cap.  malloc does not fail.                               *)
(*                                                                         *)
(* sdscatfmt is a loop and has a step for each turn; any other call is one *)
(* step.                                                                   *)
(***************************************************************************)
EXTENDS Integers, Sequences

CONSTANTS
  Chars, NUL,  \* bytes a caller passes, and the null byte
  JUNK,        \* a byte malloc or realloc has left uninitialised
  Args,        \* strings that calls are given
  Indices,     \* indices that sdsrange is given
  MaxOf,       \* MaxOf[t]: the largest length a header of type t notes
  Prealloc,    \* SDS_MAX_PREALLOC
  MaxFmt,      \* bound: length of a format
  MaxRoom      \* bound: length of the string plus the room asked for

Types == 0..4

ASSUME SdsAssumption ==
  /\ NUL # JUNK /\ JUNK \notin Chars
  /\ Args \subseteq Seq(Chars) /\ Indices \subseteq Int
  /\ MaxOf \in [Types -> Nat] /\ MaxOf[0] < MaxOf[1] /\ MaxOf[1] < MaxOf[2]
  /\ MaxOf[2] < MaxOf[3] /\ MaxOf[3] < MaxOf[4]
  /\ Prealloc \in Nat \ {0} /\ MaxFmt \in Nat /\ MaxRoom \in Nat
  /\ 2 * MaxRoom <= MaxOf[4] /\ MaxRoom + Prealloc <= MaxOf[4]

Byte == Chars \cup {NUL, JUNK}

VARIABLES
  str,  \* [type, len, alloc, cap, buf]: the header, the bytes that were allocated
        \* (less one for the terminator), and what they hold
  pc,   \* "idle", or "fmt": in the loop of sdscatfmt
  fmt,  \* characters of the format the loop has still to process
  pos   \* its i: where it writes next

vars == <<str, pc, fmt, pos>>

\* sdsReqType
ReqType(n) ==
  IF n <= MaxOf[0] THEN 0
  ELSE IF n <= MaxOf[1] THEN 1
  ELSE IF n <= MaxOf[2] THEN 2
  ELSE IF n <= MaxOf[3] THEN 3 ELSE 4

\* An assignment to a field of the header, or to the upper bits of its flags.
Stored(n, type) == n % (MaxOf[type] + 1)

SetLen(s, n) == [s EXCEPT !.len = Stored(n, s.type)]          \* sdssetlen
IncLen(s, n) == SetLen(s, s.len + n)                          \* sdsinclen
SetAlloc(s, n) == IF s.type = 0 THEN s                        \* sdssetalloc
                  ELSE [s EXCEPT !.alloc = Stored(n, s.type)]
Alloc(s) == IF s.type = 0 THEN s.len ELSE s.alloc             \* sdsalloc
Avail_TerminatorToo(s) == IF s.type = 0 THEN 0 ELSE s.alloc - s.len + 1
Avail(s) == IF s.type = 0 THEN 0 ELSE s.alloc - s.len         \* sdsavail

\* memcpy of the bytes t to s + at, and s[at] = '\0'.
Put(s, at, t) ==
  [s EXCEPT !.buf = [i \in DOMAIN s.buf \cup at..at + Len(t) - 1 |->
                       IF i \in at..at + Len(t) - 1 THEN t[i - at + 1] ELSE s.buf[i]]]
PutNul(s, at) == Put(s, at, <<NUL>>)

\* What a caller sees: the bytes the header counts.
Content(s) == [i \in 1..s.len |-> s.buf[i - 1]]

\* realloc, and malloc with memcpy of the first bytes: n bytes and a terminator.
Moved(s, type, n, kept) ==
  [s EXCEPT !.type = type, !.cap = n,
            !.buf = [i \in 0..n |-> IF i <= kept THEN s.buf[i] ELSE JUNK]]
-------------------------------------------------------------------------------
\* sdsnewlen; an empty string gets a type that can grow.
NewLen(t) ==
  LET type == IF Len(t) = 0 THEN 1 ELSE ReqType(Len(t))
      raw == [type |-> type, len |-> 0, alloc |-> 0, cap |-> Len(t),
              buf |-> [i \in 0..Len(t) |-> JUNK]]
  IN  PutNul(Put(SetAlloc(SetLen(raw, Len(t)), Len(t)), 0, t), Len(t))

\* How much sdsMakeRoomFor allocates for newlen bytes.
Grown(newlen) == IF newlen < Prealloc THEN 2 * newlen ELSE newlen + Prealloc
GrownType(n) == IF ReqType(n) = 0 THEN 1 ELSE ReqType(n)

\* sdsMakeRoomFor: room for n more bytes, and more than was asked for.
MakeRoomFor_TypeOfRequest(s, n) ==
  LET newlen == s.len + n
      type == GrownType(newlen)
      new == Moved(s, type, Grown(newlen), IF type = s.type THEN s.cap ELSE s.len)
  IN  IF Avail(s) >= n THEN s
      ELSE SetAlloc(IF type = s.type THEN new ELSE SetLen(new, s.len), Grown(newlen))
MakeRoomFor(s, n) ==
  LET newlen == Grown(s.len + n)
      type == GrownType(newlen)
      new == Moved(s, type, newlen, IF type = s.type THEN s.cap ELSE s.len)
  IN  IF Avail(s) >= n THEN s
      ELSE SetAlloc(IF type = s.type THEN new ELSE SetLen(new, s.len), newlen)

\* sdsRemoveFreeSpace: the header changes only to type 5 or to type 8.
RemoveFreeSpace(s) ==
  LET type == IF ReqType(s.len) > 1 THEN s.type ELSE ReqType(s.len)
      new == Moved(s, type, s.len, s.len)
  IN  IF Avail(s) = 0 THEN s
      ELSE SetAlloc(IF type = s.type THEN new ELSE SetLen(new, s.len), s.len)

\* sdscatlen, sdscat and sdscatsds
CatLen(s, t) ==
  PutNul(SetLen(Put(MakeRoomFor(s, Len(t)), s.len, t), s.len + Len(t)), s.len + Len(t))

\* sdscpylen and sdscpy
CpyLen_NoTerminator(s, t) ==
  SetLen(Put(IF Alloc(s) < Len(t) THEN MakeRoomFor(s, Len(t) - s.len) ELSE s, 0, t), Len(t))
CpyLen(s, t) ==
  LET room == IF Alloc(s) < Len(t) THEN MakeRoomFor(s, Len(t) - s.len) ELSE s
  IN  SetLen(PutNul(Put(room, 0, t), Len(t)), Len(t))

\* sdsgrowzero
Zeros(n) == [i \in 1..n |-> NUL]
GrowZero(s, n) ==
  IF n <= s.len THEN s
  ELSE SetLen(Put(MakeRoomFor(s, n - s.len), s.len, Zeros(n - s.len + 1)), n)

\* sdsrange: from start to end, both included; a negative index counts from the end.
FromEnd_OneShort(len, i) == IF i >= 0 THEN i ELSE IF len + i < 1 THEN 0 ELSE len + i - 1
FromEnd(len, i) == IF i >= 0 THEN i ELSE IF len + i < 0 THEN 0 ELSE len + i
RangeLen(len, first, last) ==
  IF first > last \/ first >= len THEN 0
  ELSE IF last >= len THEN len - first ELSE last - first + 1
SdsRange(s, start, end) ==
  LET first == FromEnd(s.len, start)
      newlen == RangeLen(s.len, first, FromEnd(s.len, end))
      kept == [i \in 1..newlen |-> s.buf[first + i - 1]]
  IN  IF s.len = 0 THEN s ELSE SetLen(PutNul(Put(s, 0, kept), newlen), newlen)
-------------------------------------------------------------------------------
Init ==
  /\ str = NewLen(<<>>)
  /\ pc = "idle"
  /\ fmt = 0
  /\ pos = 0

Call(s) ==
  /\ pc = "idle"
  /\ str' = s
  /\ UNCHANGED <<pc, fmt, pos>>

\* The string is freed and a new one created; sdsnew and sdsdup lead here too.
New(t) == Len(t) <= MaxRoom /\ Call(NewLen(t))
Cat(t) == str.len + Len(t) <= MaxRoom /\ Call(CatLen(str, t))
Cpy(t) == Len(t) <= MaxRoom /\ Call(CpyLen(str, t))
Cut(start, end) == Call(SdsRange(str, start, end))
Clear == Call(PutNul(SetLen(str, 0), 0))
Reserve(n) == str.len + n <= MaxRoom /\ Call(MakeRoomFor(str, n))
Shrink == Call(RemoveFreeSpace(str))
Pad(n) == n <= MaxRoom /\ Call(GrowZero(str, n))

\* What sdsIncrLen is for: sdsMakeRoomFor, a write behind the end, and the length.
ReadInto(t) ==
  LET room == MakeRoomFor(str, Len(t))
  IN  /\ t # <<>> /\ str.len + Len(t) <= MaxRoom
      /\ Call(PutNul(IncLen(Put(room, str.len, t), Len(t)), str.len + Len(t)))

\* sdscatfmt with a format of n characters: the room it starts with.
Catfmt(n) ==
  /\ pc = "idle" /\ 2 * str.len + 2 * n <= MaxRoom
  /\ str' = MakeRoomFor(str, str.len + 2 * n)
  /\ pc' = "fmt" /\ fmt' = n /\ pos' = str.len

\* One turn of the loop: a character of the format is copied, or the two of a
\* conversion are replaced by the bytes t.
Ensure(s, n) == IF Avail(s) < n THEN MakeRoomFor(s, n) ELSE s
CatfmtTurn(width, t) ==
  /\ pc = "fmt" /\ width <= fmt /\ str.len + Len(t) + 1 <= MaxRoom
  /\ width = 1 => Len(t) = 1
  /\ str' = IncLen(Put(Ensure(Ensure(str, 1), Len(t)), pos, t), Len(t))
  /\ pos' = pos + Len(t)
  /\ fmt' = fmt - width
  /\ UNCHANGED pc
CatfmtEnd ==
  /\ pc = "fmt" /\ fmt = 0
  /\ str' = PutNul(str, pos)
  /\ pc' = "idle" /\ pos' = 0
  /\ UNCHANGED fmt

Next ==
  \/ \E t \in Args : New(t) \/ Cat(t) \/ Cpy(t) \/ ReadInto(t)
  \/ \E start, end \in Indices : Cut(start, end)
  \/ Clear \/ Shrink
  \/ \E n \in 0..MaxRoom : Reserve(n) \/ Pad(n)
  \/ \E n \in 0..MaxFmt : Catfmt(n)
  \/ \E width \in 1..2, t \in Args : CatfmtTurn(width, t)
  \/ CatfmtEnd

Spec == Init /\ [][Next]_vars
-------------------------------------------------------------------------------
(* Properties *)

\* Every variable stays in its type, and buf in the memory that was allocated: no
\* call writes beyond it.
TypeOK ==
  /\ str \in [type : Types, len : Nat, alloc : Nat, cap : Nat, buf : [0..str.cap -> Byte]]
  /\ pc \in {"idle", "fmt"} /\ fmt \in 0..MaxFmt /\ pos \in Nat

\* The header tells the truth about the memory: the length is within the space it
\* notes, that space is within what was allocated, and neither was cut to the width
\* of its field when a string moved from one header type to another.
HeaderTruthful ==
  /\ str.len <= Alloc(str) /\ Alloc(str) <= str.cap
  /\ Alloc(str) <= MaxOf[str.type]
  /\ str.type # 0 => str.alloc = str.cap
  /\ pc = "fmt" => pos = str.len

\* Between calls a string can be handed to strlen, strncmp and HASH_FIND_STR: it is
\* terminated where the header says it ends, and no uninitialised byte is part of it.
Terminated ==
  /\ pc = "idle" => str.buf[str.len] = NUL
  /\ \A i \in 0..str.len - 1 : str.buf[i] # JUNK

\* The place an index of sdsrange means: counted from the end where it is negative,
\* and before the beginning it is the first.
Place(i) == CASE i >= 0 -> i
              [] i < 0 /\ str.len + i >= 0 -> str.len + i
              [] OTHER -> 0

\* What sdsrange leaves: the characters from one place to the other, both included,
\* as far as there are any.
CutContent(start, end) ==
  SubSeq(Content(str), Place(start) + 1,
         IF Place(end) < str.len THEN Place(end) + 1 ELSE str.len)

\* A call does to the content what sds.c says of it, whichever header the string
\* has, whether or not the call moves it, and no matter what earlier strings have
\* left in the memory; making room and giving it back change nothing, and nor does
\* sdsgrowzero where the string is long enough.
ContentStep ==
  /\ \A t \in Args : /\ New(t) \/ Cpy(t) => Content(str') = t
                     /\ Cat(t) \/ ReadInto(t) => Content(str') = Content(str) \o t
  /\ \A start, end \in Indices : Cut(start, end) => Content(str') = CutContent(start, end)
  /\ Clear => Content(str') = <<>>
  /\ \A n \in 0..MaxRoom :
       /\ Reserve(n) => Content(str') = Content(str) /\ Avail(str') >= n
       /\ Pad(n) => Content(str') = IF n <= str.len THEN Content(str)
                                    ELSE Content(str) \o Zeros(n - str.len)
  /\ Shrink => Content(str') = Content(str) /\ Avail(str') = 0
  /\ \A width \in 1..2, t \in Args :
       CatfmtTurn(width, t) => Content(str') = Content(str) \o t
  /\ CatfmtEnd \/ (\E n \in 0..MaxFmt : Catfmt(n)) => Content(str') = Content(str)
ContentsAsDocumented == [][ContentStep]_vars
===============================================================================
