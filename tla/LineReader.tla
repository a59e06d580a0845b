------------------------------- MODULE LineReader -------------------------------
(***************************************************************************)
(* The receive loop of one worker thread (service_single_client): recv     *)
(* gives any number of bytes, the loop copies them one by one to a buffer  *)
(* of fixed size, and a line feed after a carriage return hands what the   *)
(* buffer holds before that carriage return to process_cmd.                *)
(*                                                                         *)
(* A byte is CR, LF or another one.  One step is one call of recv or one   *)
(* turn of the inner loop.  What happens once the buffer is overrun is not *)
(* defined by C and not modelled: the reader stops at "overrun".           *)
(***************************************************************************)
EXTENDS Naturals, Sequences, FiniteSets

CONSTANTS
  Other,      \* bytes that are neither CR nor LF
  CR, LF,
  BufferSize, \* MAX_BUFFER_SIZE: of buffer, and the most recv returns
  MaxStream   \* bound: bytes the client sends

ASSUME LineReaderAssumption ==
  /\ CR # LF /\ CR \notin Other /\ LF \notin Other
  /\ BufferSize \in Nat \ {0} /\ MaxStream \in Nat

Bytes == Other \cup {CR, LF}

VARIABLES
  pc,         \* "recv", "scan" (in the for loop), "closed", or "overrun"
  recv_msg,   \* bytes recv returned that the loop has still to look at
  buffer,     \* buffer[0 .. ptr - 1]; Len(buffer) is ptr
  flag,
  commands,   \* lines handed to process_cmd, in order
  stream      \* every byte the loop has looked at (a ghost)

vars == <<pc, recv_msg, buffer, flag, commands, stream>>

Init ==
  /\ pc = "recv"
  /\ recv_msg = <<>>
  /\ buffer = <<>>
  /\ flag = FALSE
  /\ commands = <<>>
  /\ stream = <<>>

\* recv(client_fd, recv_msg, MAX_BUFFER_SIZE, 0)
Recv ==
  /\ pc = "recv"
  /\ \E n \in 1..BufferSize : \E chunk \in [1..n -> Bytes] :
       /\ Len(stream) + n <= MaxStream
       /\ recv_msg' = chunk
  /\ pc' = "scan"
  /\ UNCHANGED <<buffer, flag, commands, stream>>

\* recv returned 0 or -1.
RecvFails ==
  /\ pc = "recv"
  /\ pc' = "closed"
  /\ UNCHANGED <<recv_msg, buffer, flag, commands, stream>>

\* The for loop is over.
ScanDone ==
  /\ pc = "scan" /\ recv_msg = <<>>
  /\ pc' = "recv"
  /\ UNCHANGED <<recv_msg, buffer, flag, commands, stream>>

\* The loop moves on to the next byte.
Consume ==
  /\ stream' = Append(stream, Head(recv_msg))
  /\ recv_msg' = Tail(recv_msg)

\* c == '\n' && flag: sdscpylen takes ptr - 1 bytes of the buffer.  When
\* process_cmd returns -1 the thread ends there.
LineEnds(c) == c = LF /\ flag
Reset_FlagStays == buffer' = <<>> /\ UNCHANGED flag
Reset_BufferStays == flag' = FALSE /\ UNCHANGED buffer
Reset == buffer' = <<>> /\ flag' = FALSE

EndLine ==
  /\ pc = "scan" /\ recv_msg # <<>> /\ LineEnds(Head(recv_msg))
  /\ commands' = Append(commands, SubSeq(buffer, 1, Len(buffer) - 1))
  /\ Consume
  /\ \/ Reset /\ UNCHANGED pc
     \/ pc' = "closed" /\ UNCHANGED <<buffer, flag>>

\* buffer[ptr++] = c; flag = c == '\r';
FlagAfter_EverSeen(c) == flag \/ c = CR
FlagAfter(c) == c = CR

Room_OneTooMany(ptr) == ptr <= BufferSize
Room(ptr) == ptr < BufferSize

StoreByte ==
  /\ pc = "scan" /\ recv_msg # <<>> /\ ~LineEnds(Head(recv_msg))
  /\ Room(Len(buffer))
  /\ buffer' = Append(buffer, Head(recv_msg))
  /\ flag' = FlagAfter(Head(recv_msg))
  /\ Consume
  /\ UNCHANGED <<pc, commands>>

\* ptr is past the end of the buffer; nothing in the code looks.
Overrun ==
  /\ pc = "scan" /\ recv_msg # <<>> /\ ~LineEnds(Head(recv_msg))
  /\ ~Room(Len(buffer))
  /\ pc' = "overrun"
  /\ Consume
  /\ UNCHANGED <<buffer, flag, commands>>

Next == Recv \/ RecvFails \/ ScanDone \/ EndLine \/ StoreByte \/ Overrun

Spec == Init /\ [][Next]_vars
-------------------------------------------------------------------------------
(* Properties *)

\* Every variable stays in its type: the buffer never holds more than it has room
\* for as long as the reader is in the code's defined behaviour.
TypeOK ==
  /\ pc \in {"recv", "scan", "closed", "overrun"}
  /\ recv_msg \in Seq(Bytes)
  /\ buffer \in Seq(Bytes) /\ Len(buffer) <= BufferSize
  /\ flag \in BOOLEAN
  /\ commands \in Seq(Seq(Bytes))
  /\ stream \in Seq(Bytes)

\* flag is raised only while the last byte of the buffer is a carriage return: so
\* ptr - 1, the length handed to sdscpylen, is never -1, and exactly the carriage
\* return is cut off, wherever the chunks were divided.
FlagMarksCR == flag => buffer # <<>> /\ buffer[Len(buffer)] = CR

\* Positions in s at which a line ends.
LineEndings(s) == {i \in 2..Len(s) : s[i] = LF /\ s[i - 1] = CR}

\* What is handed to process_cmd is the list of CRLF-terminated lines of the byte
\* stream, however TCP cut the stream into chunks: a CR at the end of a chunk and
\* the LF at the head of the next one still end a line, a lone CR or LF never
\* does.  The k-th command is what lies between the k-th line ending and the one before.
LinesExact ==
  LET ends == LineEndings(stream)
      Rank(e) == Cardinality({i \in ends : i <= e})
  IN  /\ Len(commands) = Cardinality(ends)
      /\ \A e \in ends, b \in {0} \cup ends :
           b < e /\ (\A i \in ends : i <= b \/ e <= i) =>
             commands[Rank(e)] = SubSeq(stream, b + 1, e - 2)

\* The buffer is overrun only by a client that sends more than MAX_BUFFER_SIZE
\* bytes without a CRLF among them: a legal line of 512 bytes always fits.
OverrunOnlyByLongLine ==
  pc = "overrun" => LET rest == Len(stream) - BufferSize
                    IN  rest > 0 /\ \A i \in LineEndings(stream) : i < rest
===============================================================================
