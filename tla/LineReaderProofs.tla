---------------------------- MODULE LineReaderProofs ----------------------------
(***************************************************************************)
(* Theorems about LineReader, for every buffer size, alphabet and stream.  *)
(***************************************************************************)
EXTENDS LineReader, FiniteSetTheorems, TLAPS

\* Both parts of the invariant are kept together by the steps.
Inv == TypeOK /\ FlagMarksCR

\* What the loop looks at next is a byte, and what it leaves for later is bytes.
LEMMA HeadAndTail ==
  ASSUME TypeOK, recv_msg # <<>>
  PROVE  Head(recv_msg) \in Bytes /\ Tail(recv_msg) \in Seq(Bytes)
  BY DEF TypeOK

\* So a turn of the loop keeps the two sequences it moves a byte between.
LEMMA ConsumeType ==
  ASSUME TypeOK, recv_msg # <<>>, Consume
  PROVE  recv_msg' \in Seq(Bytes) /\ stream' \in Seq(Bytes)
<1>1. Head(recv_msg) \in Bytes /\ Tail(recv_msg) \in Seq(Bytes)
  BY HeadAndTail
<1>2. stream \in Seq(Bytes)
  BY DEF TypeOK
<1>3. Append(stream, Head(recv_msg)) \in Seq(Bytes)
  BY <1>1, <1>2
<1> QED BY <1>1, <1>3 DEF Consume

\* The initial states satisfy the invariant.
LEMMA InvInit == Init => Inv
<1> SUFFICES ASSUME Init PROVE TypeOK /\ FlagMarksCR
  BY DEF Inv
<1>1. /\ recv_msg \in Seq(Bytes) /\ buffer \in Seq(Bytes) /\ Len(buffer) = 0
      /\ stream \in Seq(Bytes)
  BY DEF Init
<1>2. commands \in Seq(Seq(Bytes))
  BY DEF Init
<1>3. Len(buffer) <= BufferSize
  BY <1>1, LineReaderAssumption
<1>4. TypeOK
  BY <1>1, <1>2, <1>3 DEF Init, TypeOK
<1>5. FlagMarksCR
  BY DEF Init, FlagMarksCR
<1> QED BY <1>4, <1>5

\* A step keeps it.
LEMMA InvInductive == Inv /\ [Next]_vars => Inv'
<1> SUFFICES ASSUME TypeOK, FlagMarksCR, [Next]_vars PROVE TypeOK' /\ FlagMarksCR'
  BY DEF Inv
<1> USE LineReaderAssumption
<1>1. CASE Recv
  <2>1. PICK n \in 1..BufferSize : recv_msg' \in [1..n -> Bytes]
    BY <1>1 DEF Recv
  <2>2. recv_msg' \in Seq(Bytes)
    BY <2>1
  <2> QED BY <1>1, <2>2 DEF Recv, TypeOK, FlagMarksCR
<1>2. CASE RecvFails
  BY <1>2 DEF RecvFails, TypeOK, FlagMarksCR
<1>3. CASE ScanDone
  BY <1>3 DEF ScanDone, TypeOK, FlagMarksCR
<1>4. CASE EndLine
  <2>1. buffer # <<>>
    BY <1>4 DEF EndLine, LineEnds, FlagMarksCR
  <2>2. SubSeq(buffer, 1, Len(buffer) - 1) \in Seq(Bytes)
    BY <2>1 DEF TypeOK
  <2>3. commands' \in Seq(Seq(Bytes))
    BY <1>4, <2>2 DEF EndLine, TypeOK
  <2>4. recv_msg' \in Seq(Bytes) /\ stream' \in Seq(Bytes)
    BY <1>4, ConsumeType DEF EndLine
  <2>5. CASE Reset /\ UNCHANGED pc
    <3>1. buffer' \in Seq(Bytes) /\ Len(buffer') = 0 /\ flag' = FALSE /\ pc' = pc
      BY <2>5 DEF Reset
    <3>2. Len(buffer') <= BufferSize
      BY <3>1
    <3>3. TypeOK'
      BY <2>3, <2>4, <3>1, <3>2 DEF TypeOK
    <3>4. FlagMarksCR'
      BY <3>1 DEF FlagMarksCR
    <3> QED BY <3>3, <3>4
  <2>6. CASE pc' = "closed" /\ UNCHANGED <<buffer, flag>>
    BY <2>3, <2>4, <2>6 DEF TypeOK, FlagMarksCR
  <2> QED BY <1>4, <2>5, <2>6 DEF EndLine
<1>5. CASE StoreByte
  <2>1. recv_msg' \in Seq(Bytes) /\ stream' \in Seq(Bytes)
    BY <1>5, ConsumeType DEF StoreByte
  <2>2. Head(recv_msg) \in Bytes /\ buffer' = Append(buffer, Head(recv_msg))
    BY <1>5, HeadAndTail DEF StoreByte
  <2>3. buffer' \in Seq(Bytes) /\ Len(buffer') = Len(buffer) + 1
        /\ buffer'[Len(buffer')] = Head(recv_msg)
    BY <2>2 DEF TypeOK
  <2>4. Len(buffer') <= BufferSize
    BY <1>5, <2>3 DEF StoreByte, Room, TypeOK
  <2>5. flag' = (Head(recv_msg) = CR)
    BY <1>5 DEF StoreByte, FlagAfter
  <2>6. FlagMarksCR'
    <3>1. buffer' # <<>>
      BY <2>3 DEF TypeOK
    <3> QED BY <2>3, <2>5, <3>1 DEF FlagMarksCR
  <2>7. flag' \in BOOLEAN
    BY <2>5
  <2> QED BY <1>5, <2>1, <2>3, <2>4, <2>6, <2>7 DEF StoreByte, TypeOK
<1>6. CASE Overrun
  <2>1. recv_msg' \in Seq(Bytes) /\ stream' \in Seq(Bytes)
    BY <1>6, ConsumeType DEF Overrun
  <2> QED BY <1>6, <2>1 DEF Overrun, TypeOK, FlagMarksCR
<1>7. CASE UNCHANGED vars
  BY <1>7 DEF vars, TypeOK, FlagMarksCR
<1> QED BY <1>1, <1>2, <1>3, <1>4, <1>5, <1>6, <1>7 DEF Next

\* The invariant holds in every reachable state.
LEMMA Invariance == Spec => []Inv
  BY InvInit, InvInductive, PTL DEF Spec

\* The buffer is never written past its end in the behaviours that C defines.
THEOREM TypeCorrect == Spec => []TypeOK
<1>1. Inv => TypeOK
  BY DEF Inv
<1> QED BY Invariance, <1>1, PTL

\* A line is cut off exactly at the carriage return that ended it, and the length
\* handed to sdscpylen is never negative.
THEOREM FlagCorrect == Spec => []FlagMarksCR
<1>1. Inv => FlagMarksCR
  BY DEF Inv
<1> QED BY Invariance, <1>1, PTL

\* While the buffer is written within its bounds, it holds what was sent after the last
\* line, and a carriage return that was looked at last is marked.
Tracks ==
  pc \in {"recv", "scan"} =>
    /\ Len(buffer) <= Len(stream)
    /\ \A i \in LineEndings(stream) : i <= Len(stream) - Len(buffer)
    /\ Len(stream) > 0 /\ stream[Len(stream)] = CR => flag

\* A byte that does not end a line for the code does not end one.
LEMMA NewEnding ==
  ASSUME TypeOK, Tracks, pc = "scan", recv_msg # <<>>, Consume, ~LineEnds(Head(recv_msg))
  PROVE  /\ Len(stream') = Len(stream) + 1 /\ stream'[Len(stream')] = Head(recv_msg)
         /\ \A i \in 1..Len(stream) : stream'[i] = stream[i]
         /\ LineEndings(stream') = LineEndings(stream)
         /\ \A i \in LineEndings(stream') : i <= Len(stream) - Len(buffer)
<1> DEFINE b == Head(recv_msg)
<1>1. b \in Bytes /\ stream \in Seq(Bytes) BY HeadAndTail DEF TypeOK
<1>2. stream' = Append(stream, b) BY DEF Consume
<1> HIDE DEF b
<1>3. /\ Len(stream') = Len(stream) + 1 /\ stream'[Len(stream')] = b
      /\ \A i \in 1..Len(stream) : stream'[i] = stream[i]
  BY <1>1, <1>2
<1>4. Len(stream) \in Nat BY <1>1
<1>5. ASSUME NEW i \in LineEndings(stream') PROVE i \in LineEndings(stream)
  <2>1. i \in 2..Len(stream) + 1 /\ stream'[i] = LF /\ stream'[i - 1] = CR
    BY <1>3 DEF LineEndings
  <2>2. i # Len(stream) + 1
    <3> SUFFICES ASSUME i = Len(stream) + 1 PROVE FALSE
      OBVIOUS
    <3>1. b = LF BY <2>1, <1>3
    <3>2. Len(stream) > 0 /\ stream[Len(stream)] = CR BY <2>1, <1>3, <1>4
    <3>3. flag BY <3>2 DEF Tracks
    <3> QED BY <3>1, <3>3 DEF LineEnds, b
  <2>3. i \in 2..Len(stream) /\ i - 1 \in 1..Len(stream) BY <2>1, <2>2, <1>4
  <2> QED BY <2>1, <2>3, <1>3 DEF LineEndings
<1>6. ASSUME NEW i \in LineEndings(stream) PROVE i \in LineEndings(stream')
  <2>1. i \in 2..Len(stream) /\ i - 1 \in 1..Len(stream) BY <1>4 DEF LineEndings
  <2> QED BY <2>1, <1>3, <1>4 DEF LineEndings
<1>7. LineEndings(stream') = LineEndings(stream) BY <1>5, <1>6
<1> QED BY <1>3, <1>7 DEF Tracks, b

LEMMA TracksInductive ==
  ASSUME TypeOK, Tracks, OverrunOnlyByLongLine, [Next]_vars
  PROVE  Tracks' /\ OverrunOnlyByLongLine'
<1> USE LineReaderAssumption
<1>1. CASE Recv \/ RecvFails \/ ScanDone
  BY <1>1 DEF Recv, RecvFails, ScanDone, Tracks, OverrunOnlyByLongLine
<1>2. CASE UNCHANGED vars
  BY <1>2 DEF vars, Tracks, OverrunOnlyByLongLine
<1>3. CASE EndLine
  <2>1. Head(recv_msg) = LF /\ Consume /\ recv_msg # <<>> BY <1>3 DEF EndLine, LineEnds
  <2>2. stream' = Append(stream, LF) /\ stream \in Seq(Bytes) /\ LF \in Bytes
    BY <2>1 DEF Consume, TypeOK, Bytes
  <2>3. Len(stream') \in Nat /\ stream'[Len(stream')] = LF BY <2>2
  <2>4. \A i \in LineEndings(stream') : i <= Len(stream') BY <2>3 DEF LineEndings
  <2>5. pc' # "overrun" BY <1>3 DEF EndLine
  <2>6. pc' \in {"recv", "scan"} => Len(buffer') = 0 BY <1>3 DEF EndLine, Reset
  <2> QED BY <2>3, <2>4, <2>5, <2>6 DEF Tracks, OverrunOnlyByLongLine
<1>4. CASE StoreByte
  <2>1. /\ Len(stream') = Len(stream) + 1 /\ stream'[Len(stream')] = Head(recv_msg)
        /\ \A i \in LineEndings(stream') : i <= Len(stream) - Len(buffer)
    BY <1>4, NewEnding DEF StoreByte
  <2>2. Len(buffer') = Len(buffer) + 1 /\ flag' = (Head(recv_msg) = CR) /\ pc' = "scan" /\ pc = "scan"
    BY <1>4, HeadAndTail DEF StoreByte, FlagAfter, TypeOK
  <2>3. Len(buffer) \in Nat /\ Len(stream) \in Nat /\ Len(buffer) <= Len(stream)
    BY <2>2 DEF TypeOK, Tracks
  <2>4. Len(stream') - Len(buffer') = Len(stream) - Len(buffer) /\ Len(buffer') <= Len(stream')
    BY <2>1, <2>2, <2>3
  <2> QED BY <2>1, <2>2, <2>4 DEF Tracks, OverrunOnlyByLongLine
<1>5. CASE Overrun
  <2>1. /\ Len(stream') = Len(stream) + 1
        /\ \A i \in LineEndings(stream') : i <= Len(stream) - Len(buffer)
    BY <1>5, NewEnding DEF Overrun
  <2>2. Len(buffer) \in Nat /\ Len(stream) \in Nat /\ Len(buffer) <= Len(stream) /\ pc' = "overrun"
    BY <1>5 DEF TypeOK, Tracks, Overrun
  <2>3. Len(buffer) = BufferSize BY <1>5, <2>2 DEF Overrun, Room, TypeOK
  <2>4. Len(stream') - BufferSize = Len(stream) - Len(buffer) + 1 BY <2>1, <2>2, <2>3
  <2>5. \A i \in LineEndings(stream') : i \in Nat BY <2>1, <2>2 DEF LineEndings
  <2>6. /\ Len(stream') - BufferSize > 0
        /\ \A i \in LineEndings(stream') : i < Len(stream') - BufferSize
    BY <2>1, <2>2, <2>4, <2>5
  <2> QED BY <2>2, <2>6 DEF Tracks, OverrunOnlyByLongLine
<1> QED BY <1>1, <1>2, <1>3, <1>4, <1>5 DEF Next

\* Only a client that sends more than MAX_BUFFER_SIZE bytes without a CRLF overruns the
\* buffer, whatever it sent before and however TCP cut it.
THEOREM OverrunsExplained == Spec => []OverrunOnlyByLongLine
<1>1. Init => Tracks /\ OverrunOnlyByLongLine
  <2> SUFFICES ASSUME Init PROVE Tracks /\ OverrunOnlyByLongLine
    OBVIOUS
  <2>1. Len(buffer) = 0 /\ Len(stream) = 0 /\ LineEndings(stream) = {} /\ pc = "recv"
    BY DEF Init, LineEndings
  <2> QED BY <2>1 DEF Tracks, OverrunOnlyByLongLine
<1>2. Inv => TypeOK
  BY DEF Inv
<1>3. TypeOK /\ (Tracks /\ OverrunOnlyByLongLine) /\ [Next]_vars => (Tracks /\ OverrunOnlyByLongLine)'
  BY TracksInductive
<1> QED BY Invariance, <1>1, <1>2, <1>3, PTL DEF Spec

\* What the buffer holds is the end of the stream, from the last line ending on.
Follows ==
  pc \in {"recv", "scan"} =>
    /\ Len(stream) - Len(buffer) \in {0} \cup LineEndings(stream)
    /\ \A i \in 1..Len(buffer) : buffer[i] = stream[Len(stream) - Len(buffer) + i]

LEMMA EndingsFinite ==
  ASSUME NEW s \in Seq(Bytes)
  PROVE  IsFiniteSet(LineEndings(s)) /\ LineEndings(s) \subseteq 2..Len(s)
<1>1. LineEndings(s) \subseteq 2..Len(s) BY DEF LineEndings
<1>2. IsFiniteSet(2..Len(s)) BY FS_Interval
<1> QED BY <1>1, <1>2, FS_Subset

LEMMA PartFacts ==
  ASSUME NEW s \in Seq(Bytes), NEW a \in Nat \ {0}, NEW e \in Nat, a <= e + 1, e <= Len(s),
         NEW p, p = SubSeq(s, a, e)
  PROVE  /\ p \in Seq(Bytes) /\ Len(p) = (e + 1) - a
         /\ \A i \in 1..Len(p) : p[i] = s[a + i - 1]
<1>1. p \in Seq(Bytes) OBVIOUS
<1>2. Len(p) = (e + 1) - a OBVIOUS
<1>3. ASSUME NEW i \in 1..Len(p) PROVE p[i] = s[a + i - 1]
  BY <1>2
<1> QED BY <1>1, <1>2, <1>3

\* A part of the stream stays what it is when the stream grows.
LEMMA PartStays ==
  ASSUME NEW s \in Seq(Bytes), NEW t \in Seq(Bytes), Len(s) <= Len(t),
         \A i \in 1..Len(s) : t[i] = s[i], NEW b \in Nat, NEW e \in Nat, e <= Len(s) 
  PROVE  SubSeq(t, b + 1, e) = SubSeq(s, b + 1, e)
<1> DEFINE p == SubSeq(t, b + 1, e)
           q == SubSeq(s, b + 1, e)
<1>1. p \in Seq(Bytes) /\ q \in Seq(Bytes) OBVIOUS
<1>2. Len(p) = Len(q) OBVIOUS
<1>3. ASSUME NEW i \in 1..Len(p) PROVE p[i] = q[i]
  <2>1. b + 1 <= e /\ i \in 1..e - b BY <1>3
  <2>2. p[i] = t[b + i] /\ q[i] = s[b + i] BY <2>1
  <2>3. b + i \in 1..Len(s) BY <2>1
  <2> QED BY <2>2, <2>3
<1> HIDE DEF p, q
<1>4. p = q BY <1>1, <1>2, <1>3
<1> QED BY <1>4 DEF p, q

\* A step that looks at no byte, or at one that does not end a line.
LEMMA LinesKept ==
  ASSUME TypeOK, LinesExact, commands' = commands, stream' \in Seq(Bytes),
         Len(stream) <= Len(stream'), \A i \in 1..Len(stream) : stream'[i] = stream[i],
         LineEndings(stream') = LineEndings(stream)
  PROVE  LinesExact'
<1> DEFINE ends == LineEndings(stream)
<1>1. stream \in Seq(Bytes) /\ ends \subseteq 2..Len(stream) BY EndingsFinite DEF TypeOK
<1>2. ASSUME NEW e \in ends, NEW b \in {0} \cup ends
      PROVE  SubSeq(stream', b + 1, e - 2) = SubSeq(stream, b + 1, e - 2)
  <2>1. b \in Nat /\ e - 2 \in Nat /\ e - 2 <= Len(stream) BY <1>1
  <2> QED BY <1>1, <2>1, PartStays
<1> QED BY <1>2 DEF LinesExact

\* The step that ends a line adds the line that ends.
LEMMA LineAdded ==
  ASSUME TypeOK, FlagMarksCR, Tracks, Follows, LinesExact, EndLine
  PROVE  LinesExact'
<1> USE LineReaderAssumption
<1> DEFINE ends == LineEndings(stream)
           n == Len(stream) + 1
           m == Len(stream) - Len(buffer)
<1>1. pc = "scan" /\ recv_msg # <<>> /\ Head(recv_msg) = LF /\ flag
      /\ stream \in Seq(Bytes) /\ buffer \in Seq(Bytes) /\ commands \in Seq(Seq(Bytes))
  BY DEF EndLine, LineEnds, TypeOK
<1>2. stream' = Append(stream, LF) BY <1>1 DEF EndLine, Consume
<1>3. /\ stream' \in Seq(Bytes) /\ Len(stream') = n /\ stream'[n] = LF
      /\ \A i \in 1..Len(stream) : stream'[i] = stream[i]
  BY <1>1, <1>2 DEF Bytes
<1>4. /\ Len(buffer) \in Nat \ {0} /\ Len(buffer) <= Len(stream) /\ Len(stream) \in Nat
      /\ m \in {0} \cup ends /\ m \in Nat /\ \A i \in ends : i <= m
      /\ \A i \in 1..Len(buffer) : buffer[i] = stream[m + i]
  <2>1. Len(buffer) \in Nat \ {0} BY <1>1 DEF FlagMarksCR
  <2> QED BY <2>1, <1>1 DEF Tracks, Follows
<1>5. stream[Len(stream)] = CR
  BY <1>1, <1>4 DEF FlagMarksCR
<1>a. n = Len(stream) + 1 /\ m = Len(stream) - Len(buffer) /\ ends = LineEndings(stream)
  OBVIOUS
<1> HIDE DEF n, m
<1>6. LineEndings(stream') = ends \cup {n}
  <2>1. ASSUME NEW i \in LineEndings(stream'), i # n PROVE i \in ends
    <3>1. i \in 2..n /\ stream'[i] = LF /\ stream'[i - 1] = CR BY <1>3 DEF LineEndings
    <3>2. i \in 2..Len(stream) /\ i \in 1..Len(stream) /\ i - 1 \in 1..Len(stream)
      BY <2>1, <3>1, <1>4, <1>a
    <3>3. stream[i] = LF /\ stream[i - 1] = CR BY <3>1, <3>2, <1>3
    <3> QED BY <3>2, <3>3 DEF LineEndings
  <2>2. ASSUME NEW i \in ends PROVE i \in LineEndings(stream')
    <3>1. i \in 2..Len(stream) /\ stream[i] = LF /\ stream[i - 1] = CR BY DEF LineEndings
    <3>2. i \in 2..n /\ i \in 1..Len(stream) /\ i - 1 \in 1..Len(stream) BY <3>1, <1>4, <1>a
    <3>3. stream'[i] = LF /\ stream'[i - 1] = CR BY <3>1, <3>2, <1>3
    <3> QED BY <3>2, <3>3, <1>3 DEF LineEndings
  <2>3. n \in LineEndings(stream')
    <3>1. n \in 2..n /\ n - 1 = Len(stream) /\ Len(stream) \in 1..Len(stream) BY <1>4, <1>a
    <3>2. stream'[n - 1] = CR BY <3>1, <1>3, <1>5
    <3> QED BY <3>1, <3>2, <1>3 DEF LineEndings
  <2> HIDE DEF ends
  <2> QED BY <2>1, <2>2, <2>3
<1>7. IsFiniteSet(ends) /\ ends \subseteq 2..Len(stream) BY <1>1, EndingsFinite
<1>8. n \notin ends BY <1>4, <1>7, <1>a
<1>9. Cardinality(ends \cup {n}) = Cardinality(ends) + 1 /\ Cardinality(ends) \in Nat
  BY <1>7, <1>8, FS_AddElement, FS_CardinalityType
<1> DEFINE line == SubSeq(buffer, 1, Len(buffer) - 1)
<1>10. commands' = Append(commands, line) BY DEF EndLine
<1>11. line \in Seq(Bytes) BY <1>1, <1>4
<1>12. Len(commands) = Cardinality(ends) BY DEF LinesExact
<1>13. /\ Len(commands') = Cardinality(ends) + 1 /\ commands'[Cardinality(ends) + 1] = line
       /\ \A k \in 1..Cardinality(ends) : commands'[k] = commands[k]
  <2> HIDE DEF line
  <2> QED BY <1>1, <1>10, <1>11, <1>12
<1>14. line = SubSeq(stream', m + 1, n - 2)
  <2> DEFINE part == SubSeq(stream', m + 1, n - 2)
  <2>1. /\ m + 1 \in Nat \ {0} /\ n - 2 \in Nat /\ (n - 2) + 1 - (m + 1) = Len(buffer) - 1
        /\ m + 1 <= (n - 2) + 1 /\ n - 2 <= Len(stream')
    BY <1>3, <1>4, <1>a
  <2>2. part = SubSeq(stream', m + 1, n - 2) OBVIOUS
  <2> HIDE DEF part
  <2>3. /\ part \in Seq(Bytes) /\ Len(part) = Len(buffer) - 1
        /\ \A i \in 1..Len(part) : part[i] = stream'[(m + 1) + i - 1]
    <3> DEFINE a == m + 1
               e == n - 2
    <3>1. /\ a \in Nat \ {0} /\ e \in Nat /\ (e + 1) - a = Len(buffer) - 1 /\ a <= e + 1
          /\ e <= Len(stream') /\ part = SubSeq(stream', a, e)
      BY <2>1, <2>2
    <3> HIDE DEF a, e
    <3>2. /\ part \in Seq(Bytes) /\ Len(part) = (e + 1) - a
          /\ \A i \in 1..Len(part) : part[i] = stream'[a + i - 1]
      BY <3>1, <1>3, PartFacts
    <3> QED BY <3>1, <3>2 DEF a
  <2>4. 1 \in Nat \ {0} /\ Len(buffer) - 1 \in Nat /\ (Len(buffer) - 1) + 1 - 1 = Len(buffer) - 1
        /\ 1 <= (Len(buffer) - 1) + 1 /\ Len(buffer) - 1 <= Len(buffer)
    BY <1>4
  <2>5. line = SubSeq(buffer, 1, Len(buffer) - 1) OBVIOUS
  <2> HIDE DEF line
  <2>6. /\ line \in Seq(Bytes) /\ Len(line) = Len(buffer) - 1
        /\ \A i \in 1..Len(line) : line[i] = buffer[1 + i - 1]
    BY <2>4, <2>5, <1>1, PartFacts
  <2>7. ASSUME NEW i \in 1..Len(buffer) - 1 PROVE line[i] = part[i]
    <3>1. i \in Nat /\ 1 + i - 1 = i /\ i \in 1..Len(line) BY <2>6, <1>4
    <3>4. line[i] = buffer[i] BY <2>6, <3>1
    <3>2. part[i] = stream'[m + i] BY <2>3, <1>4
    <3>3. m + i \in 1..Len(stream) /\ i \in 1..Len(buffer) BY <1>4, <1>a
    <3> QED BY <3>2, <3>3, <3>4, <1>3, <1>4
  <2>8. line = part BY <2>3, <2>6, <2>7
  <2> QED BY <2>8 DEF part
<1> HIDE DEF line, ends
<1>15. ASSUME NEW e \in ends \cup {n}, NEW b \in {0} \cup ends \cup {n}, b < e,
              \A i \in ends \cup {n} : i <= b \/ e <= i
       PROVE  commands'[Cardinality({i \in ends \cup {n} : i <= e})] = SubSeq(stream', b + 1, e - 2)
  <2>1. n \in Nat /\ n = Len(stream) + 1 /\ m < n /\ \A i \in ends : i \in Nat /\ i >= 2 /\ i < n
    BY <1>4, <1>7, <1>a
  <2>2. b \in {0} \cup ends BY <1>15, <2>1
  <2>3. CASE e = n
    <3>1. \A i \in ends \cup {n} : i <= e BY <2>1, <2>3
    <3>a. {i \in ends \cup {n} : i <= e} = ends \cup {n} BY <3>1
    <3>2. b = m BY <1>4, <1>15, <2>1, <2>2, <2>3
    <3> QED BY <3>a, <3>2, <2>3, <1>9, <1>13, <1>14
  <2>4. CASE e \in ends
    <3>1. {i \in ends \cup {n} : i <= e} = {i \in ends : i <= e} BY <2>1, <2>4
    <3>2. commands[Cardinality({i \in ends : i <= e})] = SubSeq(stream, b + 1, e - 2)
      BY <1>15, <2>2, <2>4 DEF LinesExact, ends
    <3>3. Cardinality({i \in ends : i <= e}) \in 1..Cardinality(ends)
      <4>1. /\ IsFiniteSet({i \in ends : i <= e}) /\ Cardinality({i \in ends : i <= e}) \in Nat
            /\ Cardinality({i \in ends : i <= e}) <= Cardinality(ends)
        BY <1>7, FS_Subset, FS_CardinalityType
      <4>2. e \in {i \in ends : i <= e} BY <2>1, <2>4
      <4>3. Cardinality({i \in ends : i <= e}) # 0 BY <4>1, <4>2, FS_EmptySet
      <4> QED BY <4>1, <4>3, <1>9
    <3>4. SubSeq(stream', b + 1, e - 2) = SubSeq(stream, b + 1, e - 2)
      <4>1. b \in Nat /\ e - 2 \in Nat /\ e - 2 <= Len(stream) /\ Len(stream) <= Len(stream')
        BY <2>1, <2>2, <2>4, <1>3, <1>4
      <4>2. /\ stream \in Seq(Bytes) /\ stream' \in Seq(Bytes)
            /\ \A i \in 1..Len(stream) : stream'[i] = stream[i]
        BY <1>1, <1>3
      <4>3. ASSUME NEW j \in Nat, j = e - 2
            PROVE  SubSeq(stream', b + 1, j) = SubSeq(stream, b + 1, j)
        <5>1. j <= Len(stream) BY <4>1, <4>3
        <5> HIDE DEF ends, line, Bytes
        <5> QED BY <4>1, <4>2, <5>1, PartStays
      <4> QED BY <4>1, <4>3
    <3> QED BY <3>1, <3>2, <3>3, <3>4, <1>13
  <2> QED BY <2>3, <2>4
<1> QED BY <1>6, <1>9, <1>13, <1>15 DEF LinesExact

LEMMA LinesInductive ==
  ASSUME TypeOK, TypeOK', FlagMarksCR, Tracks, Follows, LinesExact, [Next]_vars
  PROVE  Follows' /\ LinesExact'
<1> USE LineReaderAssumption
<1>1. CASE Recv \/ RecvFails \/ ScanDone \/ UNCHANGED vars
  <2>1. stream' = stream /\ commands' = commands /\ buffer' = buffer
        /\ (pc' \in {"recv", "scan"} => pc \in {"recv", "scan"})
    BY <1>1 DEF Recv, RecvFails, ScanDone, vars
  <2> QED BY <2>1 DEF Follows, LinesExact
<1>2. CASE EndLine
  <2>1. LinesExact' BY <1>2, LineAdded
  <2>2. Follows'
    <3> SUFFICES ASSUME Reset PROVE Follows'
      BY <1>2 DEF EndLine, Follows
    <3>1. pc = "scan" /\ recv_msg # <<>> /\ Head(recv_msg) = LF /\ flag
      BY <1>2 DEF EndLine, LineEnds
    <3>2. stream' = Append(stream, LF) /\ stream \in Seq(Bytes) /\ LF \in Bytes
      BY <3>1, <1>2 DEF EndLine, Consume, TypeOK, Bytes
    <3>3. /\ Len(buffer) \in Nat \ {0} /\ Len(buffer) <= Len(stream)
          /\ stream[Len(stream)] = CR /\ Len(stream) \in Nat
      <4>1. buffer \in Seq(Bytes) /\ Len(buffer) \in Nat \ {0} /\ buffer[Len(buffer)] = CR
        BY <3>1 DEF FlagMarksCR, TypeOK
      <4>2. /\ Len(stream) \in Nat /\ Len(buffer) <= Len(stream)
            /\ \A i \in 1..Len(buffer) : buffer[i] = stream[Len(stream) - Len(buffer) + i]
        BY <3>1, <3>2 DEF Tracks, Follows
      <4>3. Len(buffer) \in 1..Len(buffer)
        BY <4>1
      <4>4. Len(stream) - Len(buffer) + Len(buffer) = Len(stream)
        BY <4>1, <4>2
      <4> QED BY <4>1, <4>2, <4>3, <4>4
    <3>4. Len(stream') \in LineEndings(stream')
      <4>1. /\ Len(stream') = Len(stream) + 1 /\ stream'[Len(stream) + 1] = LF
            /\ stream'[Len(stream)] = stream[Len(stream)]
        <5>1. Len(stream) \in 1..Len(stream) BY <3>3
        <5>2. Len(stream') = Len(stream) + 1 /\ stream'[Len(stream) + 1] = LF
          BY <3>2
        <5>3. \A i \in 1..Len(stream) : stream'[i] = stream[i]
          BY <3>2
        <5> QED BY <5>1, <5>2, <5>3
      <4> QED BY <4>1, <3>3 DEF LineEndings
    <3>5. Len(buffer') = 0 BY DEF Reset
    <3>6. Len(stream') - Len(buffer') = Len(stream') BY <3>2, <3>5
    <3> QED BY <3>4, <3>5, <3>6 DEF Follows
  <2> QED BY <2>1, <2>2
<1>3. CASE StoreByte
  <2>1. /\ Len(stream') = Len(stream) + 1 /\ stream'[Len(stream')] = Head(recv_msg)
        /\ \A i \in 1..Len(stream) : stream'[i] = stream[i]
        /\ LineEndings(stream') = LineEndings(stream) /\ commands' = commands
    BY <1>3, NewEnding DEF StoreByte
  <2>2. Len(stream) \in Nat /\ Len(buffer) \in Nat /\ pc = "scan" /\ Len(buffer) <= Len(stream)
    BY <1>3 DEF TypeOK, StoreByte, Tracks
  <2>3. LinesExact' BY <2>1, <2>2, LinesKept DEF TypeOK
  <2>4. /\ Len(buffer') = Len(buffer) + 1 /\ buffer'[Len(buffer')] = Head(recv_msg)
        /\ \A i \in 1..Len(buffer) : buffer'[i] = buffer[i]
    BY <1>3, HeadAndTail DEF StoreByte, TypeOK
  <2>5. Len(stream') - Len(buffer') = Len(stream) - Len(buffer) BY <2>1, <2>2, <2>4
  <2>6. ASSUME NEW i \in 1..Len(buffer') PROVE buffer'[i] = stream'[Len(stream') - Len(buffer') + i]
    <3>1. CASE i = Len(buffer') 
      <4>1. Len(stream') - Len(buffer') + i = Len(stream') BY <3>1, <2>1, <2>2, <2>4
      <4> QED BY <3>1, <4>1, <2>1, <2>4
    <3>2. CASE i # Len(buffer')
      <4>1. i \in 1..Len(buffer) /\ Len(stream) - Len(buffer) + i \in 1..Len(stream)
        BY <3>2, <2>2, <2>4
      <4>2. buffer[i] = stream[Len(stream) - Len(buffer) + i] BY <4>1, <2>2 DEF Follows
      <4> QED BY <4>1, <4>2, <2>1, <2>4, <2>5
    <3> QED BY <3>1, <3>2
  <2>7. Len(stream') - Len(buffer') \in {0} \cup LineEndings(stream')
    BY <2>1, <2>2, <2>5 DEF Follows
  <2> QED BY <2>3, <2>6, <2>7 DEF Follows
<1>4. CASE Overrun
  <2>1. /\ Len(stream') = Len(stream) + 1
        /\ \A i \in 1..Len(stream) : stream'[i] = stream[i]
        /\ LineEndings(stream') = LineEndings(stream) /\ commands' = commands
    BY <1>4, NewEnding DEF Overrun
  <2>2. LinesExact' BY <2>1, LinesKept DEF TypeOK
  <2> QED BY <1>4, <2>2 DEF Overrun, Follows
<1> QED BY <1>1, <1>2, <1>3, <1>4 DEF Next

\* The commands are the lines of the stream, one for one and in order, for every stream,
\* every way of cutting it into chunks, and every size of the buffer.
THEOREM LinesCorrect == Spec => []LinesExact
<1>1. Init => Tracks /\ OverrunOnlyByLongLine /\ Follows /\ LinesExact
  <2> SUFFICES ASSUME Init PROVE Tracks /\ OverrunOnlyByLongLine /\ Follows /\ LinesExact
    OBVIOUS
  <2>1. /\ Len(buffer) = 0 /\ Len(stream) = 0 /\ LineEndings(stream) = {} /\ pc = "recv"
        /\ Len(commands) = 0
    BY DEF Init, LineEndings
  <2>2. Cardinality(LineEndings(stream)) = 0 BY <2>1, FS_EmptySet
  <2> QED BY <2>1, <2>2 DEF Tracks, OverrunOnlyByLongLine, Follows, LinesExact
<1>2. /\ Inv /\ Inv' /\ (Tracks /\ OverrunOnlyByLongLine /\ Follows /\ LinesExact) /\ [Next]_vars
      => (Tracks /\ OverrunOnlyByLongLine /\ Follows /\ LinesExact)'
  BY TracksInductive, LinesInductive DEF Inv
<1> QED BY Invariance, <1>1, <1>2, PTL DEF Spec
===============================================================================
