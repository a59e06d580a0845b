-------------------------------- MODULE Message --------------------------------
(***************************************************************************)
(* A message_t from calloc to message_destroy: message_from_string cuts a  *)
(* line into command and parameters, process_cmd looks for the handler     *)
(* that the command names, and message_destroy frees what the message      *)
(* refers to.  message_construct and message_add_parameter build a message *)
(* out of strings the caller has.                                          *)
(*                                                                         *)
(* A string is its characters and the memory block it lives in.  What      *)
(* happens after a write beyond params, or after a read through NULL or    *)
(* through a pointer that was never set, is not defined by C: the model    *)
(* stops there.                                                            *)
(***************************************************************************)
EXTENDS Integers, Sequences, FiniteSets, SequencesExt

CONSTANTS
  Letters, SP, COLON, \* characters of a line
  Names,              \* handler_entries: the commands, in the order of the table
  MaxParams,          \* length of params (15)
  FirstSlots,         \* slots sdssplitlen starts with (5)
  MaxLine,            \* bound: characters of a line
  NULL, WILD          \* a null pointer, and one that was never set

\* A string: the memory block it lives in, the array of strings it belongs to and its
\* place there, and its characters.
TypeBlock == [array : {"tokens", "s", "caller"}, at : 0..MaxLine + MaxParams,
              text : Seq(Letters \cup {SP, COLON})]
Block(array, at, text) == [array |-> array, at |-> at, text |-> text]

ASSUME MessageAssumption ==
  /\ SP # COLON /\ SP \notin Letters /\ COLON \notin Letters
  /\ Names \in Seq(Seq(Letters))
  /\ MaxParams \in Nat \ {0} /\ FirstSlots \in Nat \ {0} /\ MaxLine \in Nat
  /\ NULL \notin TypeBlock /\ WILD \notin TypeBlock

Lines == UNION {[1..n -> Letters \cup {SP, COLON}] : n \in 0..MaxLine}

VARIABLES
  pc,      \* "none", "parsed", "built", "handled", "destroyed"; or the end of the
           \* thread: "closed", "overrun", "crashed"
  line,    \* the line the message was made of (a ghost)
  msg,     \* the message_t
  handler, \* index of the handler that was called, 0: handler_UNKNOWNCOMMAND
  freed    \* how often each block was given to sdsfree

vars == <<pc, line, msg, handler, freed>>

Calloc == [cmd |-> NULL, nparams |-> 0, longlast |-> FALSE,
           params |-> [i \in 0..MaxParams - 1 |-> NULL]]
-------------------------------------------------------------------------------
\* sdssplitlen: element is what lies between start and j; room says whether every
\* element was written within the slots of the array.
SplitTurn_RoomForOne(acc, c, sep) ==
  LET slots == IF acc.slots < Len(acc.tokens) + 1 THEN 2 * acc.slots ELSE acc.slots
  IN  IF c = sep
      THEN [tokens |-> Append(acc.tokens, acc.element), element |-> <<>>, slots |-> slots,
            room |-> acc.room /\ Len(acc.tokens) < slots]
      ELSE [acc EXCEPT !.element = Append(@, c), !.slots = slots]
SplitTurn(acc, c, sep) ==
  LET slots == IF acc.slots < Len(acc.tokens) + 2 THEN 2 * acc.slots ELSE acc.slots
  IN  IF c = sep
      THEN [tokens |-> Append(acc.tokens, acc.element), element |-> <<>>, slots |-> slots,
            room |-> acc.room /\ Len(acc.tokens) < slots]
      ELSE [acc EXCEPT !.element = Append(@, c), !.slots = slots]

\* The loop over s, and the element that is added after it; an empty string has none.
Scan(s, sep) ==
  LET acc[i \in 0..Len(s)] ==
        IF i = 0 THEN [tokens |-> <<>>, element |-> <<>>, slots |-> FirstSlots, room |-> TRUE]
                 ELSE SplitTurn(acc[i - 1], s[i], sep)
  IN  acc
SplitLen(s, sep) ==
  LET last == Scan(s, sep)[Len(s)]
  IN  IF s = <<>> THEN last
      ELSE [last EXCEPT !.tokens = Append(@, last.element),
                        !.room = @ /\ Len(last.tokens) < last.slots]

\* message_from_string: the words before the first colon, then the rest of the line.
\* An empty word is stored nowhere, but the words after it do not move up.
WordAt_EmptyToo(tokens, i) == i + 2 <= Len(tokens)
WordAt(tokens, i) == i + 2 <= Len(tokens) /\ tokens[i + 2] # <<>>
ParamAt_OffByOne(tokens, i) == Block("tokens", i, tokens[i + 1])
ParamAt(tokens, i) == Block("tokens", i + 1, tokens[i + 2])

Words(l) == SplitLen(SplitLen(l, COLON).tokens[1], SP).tokens
LongLast(l) == Len(SplitLen(l, COLON).tokens) > 1

\* sdsrange(s, sdslen(before_colon) + 1, sdslen(s) - 1)
Rest(l) == Block("s", 0, SubSeq(l, Len(SplitLen(l, COLON).tokens[1]) + 2, Len(l)))

CountWords_EmptyToo(tokens) == Len(tokens) - 1
CountWords(tokens) == Cardinality({i \in 0..Len(tokens) : WordAt(tokens, i)})
Overruns(l) ==
  \/ \E i \in MaxParams..Len(Words(l)) : WordAt(Words(l), i)
  \/ LongLast(l) /\ CountWords(Words(l)) >= MaxParams

FromString_LastNotCounted(l) ==
  LET tokens == Words(l)
      n == CountWords(tokens)
      words == [i \in 0..MaxParams - 1 |-> IF WordAt(tokens, i) THEN ParamAt(tokens, i) ELSE NULL]
  IN  [cmd |-> IF tokens = <<>> THEN WILD ELSE Block("tokens", 0, tokens[1]),
       nparams |-> n,
       longlast |-> LongLast(l),
       params |-> IF LongLast(l) THEN [words EXCEPT ![n] = Rest(l)] ELSE words]
FromString(l) ==
  LET tokens == Words(l)
      n == CountWords(tokens)
      words == [i \in 0..MaxParams - 1 |-> IF WordAt(tokens, i) THEN ParamAt(tokens, i) ELSE NULL]
  IN  [cmd |-> IF tokens = <<>> THEN WILD ELSE Block("tokens", 0, tokens[1]),
       nparams |-> IF LongLast(l) THEN n + 1 ELSE n,
       longlast |-> LongLast(l),
       params |-> IF LongLast(l) THEN [words EXCEPT ![n] = Rest(l)] ELSE words]

\* strncmp(s, t, n) = 0
SameUpTo(s, t, n) ==
  LET first(u) == IF Len(u) < n THEN u ELSE SubSeq(u, 1, n)
  IN  first(s) = first(t)

\* process_cmd: the first entry of the table that the command equals.
Lookup_Prefix(cmd) ==
  LET matches == {i \in DOMAIN Names : SameUpTo(cmd, Names[i], Len(cmd))}
  IN  IF matches = {} THEN 0 ELSE CHOOSE i \in matches : \A j \in matches : i <= j
Lookup(cmd) ==
  LET longer(s, t) == IF Len(s) > Len(t) THEN Len(s) ELSE Len(t)
      matches == {i \in DOMAIN Names : SameUpTo(cmd, Names[i], longer(cmd, Names[i]))}
  IN  IF matches = {} THEN 0 ELSE CHOOSE i \in matches : \A j \in matches : i <= j
-------------------------------------------------------------------------------
Init ==
  /\ pc = "none"
  /\ line = <<>>
  /\ msg = Calloc
  /\ handler = 0
  /\ freed = <<>>

\* The service loop has a line.  Nobody looks at the -1 returned for an empty one.
Parse(l) ==
  /\ pc = "none"
  /\ line' = l
  /\ IF l = <<>> THEN pc' = "parsed" /\ msg' = Calloc
     ELSE IF Overruns(l) THEN pc' = "overrun" /\ UNCHANGED msg
     ELSE pc' = "parsed" /\ msg' = FromString(l)
  /\ UNCHANGED <<handler, freed>>

\* process_cmd takes the length of the command first.  A handler only reads the
\* message; if it returns -1 the thread ends.
ProcessCmd ==
  /\ pc = "parsed"
  /\ IF msg.cmd \in {NULL, WILD}
     THEN pc' = "crashed" /\ UNCHANGED handler
     ELSE pc' \in {"handled", "closed"} /\ handler' = Lookup(msg.cmd.text)
  /\ UNCHANGED <<line, msg, freed>>

\* message_destroy; sdsfree(NULL) does nothing.  The loop forgets the message.
Blocks(m) == [i \in 0..m.nparams |-> IF i = 0 THEN m.cmd ELSE m.params[i - 1]]
Destroy ==
  /\ pc \in {"handled", "built"}
  /\ freed' = [b \in {Blocks(msg)[i] : i \in 0..msg.nparams} \ {NULL} |->
                 Cardinality({i \in 0..msg.nparams : Blocks(msg)[i] = b})]
  /\ pc' = "destroyed"
  /\ UNCHANGED <<line, msg, handler>>
Forget ==
  /\ pc = "destroyed"
  /\ pc' = "none" /\ line' = <<>> /\ msg' = Calloc /\ handler' = 0 /\ freed' = <<>>

\* message_add_parameter; a parameter is a string of the caller's.
AddParameter_OneTooMany(m, text, longlast) ==
  IF m.nparams > MaxParams \/ m.longlast \/ text = <<>> THEN m
  ELSE [m EXCEPT !.params[m.nparams] = Block("caller", m.nparams + 1, text),
                 !.nparams = @ + 1, !.longlast = longlast]
AddParameter(m, text, longlast) ==
  IF m.nparams = MaxParams \/ m.longlast \/ text = <<>> THEN m
  ELSE [m EXCEPT !.params[m.nparams] = Block("caller", m.nparams + 1, text),
                 !.nparams = @ + 1, !.longlast = longlast]

\* message_construct
Construct(cmd, nick) ==
  /\ pc = "none"
  /\ msg' = AddParameter([Calloc EXCEPT !.cmd = Block("caller", 0, cmd)], nick, FALSE)
  /\ pc' = "built"
  /\ UNCHANGED <<line, handler, freed>>
Add(text, longlast) ==
  /\ pc = "built"
  /\ msg' = AddParameter(msg, text, longlast)
  /\ UNCHANGED <<pc, line, handler, freed>>

Texts == {<<>>} \cup {<<c>> : c \in Letters}
Next ==
  \/ \E l \in Lines : Parse(l)
  \/ ProcessCmd \/ Destroy \/ Forget
  \/ \E t, u \in Texts : Construct(t, u)
  \/ \E t \in Texts, b \in BOOLEAN : Add(t, b)

Spec == Init /\ [][Next]_vars
-------------------------------------------------------------------------------
(* Properties *)

TypeMessage == [cmd : TypeBlock \cup {NULL, WILD}, nparams : 0..MaxParams, longlast : BOOLEAN,
                params : [0..MaxParams - 1 -> TypeBlock \cup {NULL}]]

\* Every variable stays in its type; nothing is stored beyond params.
TypeOK ==
  /\ pc \in {"none", "parsed", "built", "handled", "destroyed", "closed", "overrun", "crashed"}
  /\ line \in Lines
  /\ msg \in TypeMessage
  /\ handler \in 0..Len(Names)
  /\ DOMAIN freed \subseteq TypeBlock

Parsed == pc \in {"parsed", "handled", "closed", "destroyed"} /\ line # <<>>

\* Characters before the first colon, and whether two spaces stand next to each other
\* among them.
Before(l) == {i \in DOMAIN l : \A j \in 1..i : l[j] # COLON}
EmptyWord(l) == \E i \in Before(l) : i + 1 \in Before(l) /\ l[i] = SP /\ l[i + 1] = SP

\* A line as a client should write it: it begins with a word, single spaces separate
\* the words, none ends the line, and a colon introduces the last parameter after a
\* space.
Regular(l) ==
  /\ l # <<>> /\ l[1] \in Letters /\ l[Len(l)] # SP /\ ~EmptyWord(l)
  /\ \A i \in DOMAIN l : l[i] = COLON /\ (\A j \in 1..i - 1 : l[j] # COLON) => l[i - 1] = SP

\* The line that stands for a message.
Joined(m) ==
  LET Arg(i) == IF m.longlast /\ i = m.nparams - 1 THEN <<SP, COLON>> \o m.params[i].text
                ELSE <<SP>> \o m.params[i].text
  IN  m.cmd.text \o FlattenSeq([k \in 1..m.nparams |-> Arg(k - 1)])

\* message_from_string is the inverse of writing a message down: a regular line is the
\* line of the message it is parsed to, and no word of that message but the last one
\* contains a separator.
ParseInvertsJoin ==
  Parsed /\ Regular(line) =>
    /\ \A i \in 0..msg.nparams - 1 : msg.params[i] # NULL
    /\ line = Joined(msg)
    /\ \A i \in 0..msg.nparams - 1 :
         ~(msg.longlast /\ i = msg.nparams - 1) => msg.params[i].text \in Seq(Letters)

\* A handler that has asked for n parameters finds n of them: a parameter that is
\* counted is missing only after a line with two adjacent spaces before its first colon.
HolesOnlyFromEmptyWords ==
  Parsed /\ (\E i \in 0..msg.nparams - 1 : msg.params[i] = NULL) => EmptyWord(line)

\* The thread dies in process_cmd only over a line that is empty or has no command
\* before its first colon; and a regular line is written beyond params if, and only
\* if, it has more parameters than there is room for.
DiesOnlyByLine ==
  /\ pc = "crashed" => line = <<>> \/ line[1] = COLON
  /\ Regular(line) =>
       (pc = "overrun" <=> Cardinality({i \in Before(line) : line[i] = SP}) > MaxParams)

\* A handler runs only for the command that is its name, not for a part of it nor for
\* a longer one; a command nobody has is answered as unknown.
DispatchedByName ==
  pc \in {"handled", "closed"} =>
    /\ handler # 0 => msg.cmd.text = Names[handler]
    /\ handler = 0 => msg.cmd.text \notin Range(Names)

\* The array that sdssplitlen returns never holds more than was allocated for it, and
\* however a message came about, message_destroy gives no string to sdsfree twice.
MemorySafe ==
  /\ Parsed => SplitLen(line, COLON).room /\ SplitLen(SplitLen(line, COLON).tokens[1], SP).room
  /\ \A b \in DOMAIN freed : freed[b] = 1
===============================================================================
