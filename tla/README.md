# A TLA+ model of the IRC server

The server (`src/src/*.c`, about 3000 lines of C) is a single-process IRC server
with one thread per client. This directory holds TLA+ modules that model it, the
TLC configurations that check them on small instances, and theorems about them
that TLAPS checks for every value of the constants.

Paths below are relative to `src/src/` unless they start otherwise.

## 1. Inventory

| Component | State | Operations | Modules |
|---|---|---|---|
| accept loop (`main.c` 231-277) | listening socket | accept, add the connection, create user and thread; undo when `pthread_create` fails | `Connections` |
| connection table (`context.c` 82-163, `connection.c`) | `connection_t` by descriptor: unknown / user / registered | add, modify state, delete, count | `Connections` |
| receive loop (`single_service.c`) | buffer, `ptr`, `flag` of a thread | cut the stream into lines, dispatch, close and clean up | `LineReader`, and from the outside in `Server`, `Session`, `Connections` |
| message parser (`message.c`), dispatch (`command.c`) | a `message_t` | line to command and parameters, look up the handler, build, destroy | `Message` |
| handlers (`handler.c`) | the thread's local variables | NICK USER QUIT JOIN PART MODE PRIVMSG NOTICE LIST WHOIS LUSERS OPER PING PONG | `Server` (interleaved), `Session` (whole) |
| nickname table (`context.c` 165-236) | `user_t` by nickname, `mutex_user_table` | add, rename, get, delete | `UserTable` (links), `Server`, `Session`, `NickRegistry` (what it promises) |
| channel table (`context.c` 238-362) | `channel_t` by name, `mutex_channel_table` | get, get or create, channels of a user, rename on all channels | `Server`, `Session` |
| channels (`channel.c`) | `membership_t` by nickname, a mutex each | join, leave, rename, operator flag, list members | `Server`, `Session`, `ChannelDirectory` (what they promise) |
| users (`user.c`) | nick, username, registered, operator, descriptor | create, destroy, can_register | `Server`, `Session`, `Connections` |
| hash table (`lib/uthash.h`) | handles inside the elements, buckets | add, delete, find, iterate, double | `Uthash` |
| strings (`lib/sds`) | header and bytes | create, room, append, copy, format, range | `Sds`; `sdssplitlen` in `Message` |
| options and start-up, logging, `reply.h`, tests | | | not modelled |

How they interact: every thread calls the helpers of `context.c` and `channel.c`
directly; the only communication between threads is these tables, four mutexes,
the `user_t` and `channel_t` pointers the helpers hand out, and `send` on another
client's descriptor. There is no persistence and there are no timeouts.

What is hard in it:

- **Two mutexes are held across calls.** `update_user_nick` holds
  `mutex_user_table` while it takes `mutex_channel_table`; `handler_PART` holds
  `mutex_channel_table` while its relay takes `mutex_user_table`, and has returns
  that do not release it.
- **Handles outlive locks.** `get_user`, `get_channel` and `try_get_channel`
  release the mutex and return the pointer; the object can be freed, emptied or
  taken out of the table before it is used.
- **Membership is by nickname.** Member tables are keyed by nickname, the nickname
  belongs to the user table, a rename changes one table after the other, and a
  client that leaves is not taken out of its channels.
- **Registration comes in two halves**, NICK and USER, in either order; a client
  with one half is in some tables and not in others.
- **Descriptors are keys.** The connection table is keyed by a number that the
  kernel gives out again as soon as it is closed, which a worker does first.
- **Handles of the hash table are part of the elements.** Adding an element twice
  or deleting one that is not there is not noticed and breaks the table.
- **Lines come from outside.** TCP divides them anywhere, the buffer and the
  parameter array have no bounds check, and an odd line makes a message with holes.

What makes each component correct: nicknames are unique and lead to their user;
mutual exclusion and the end of every command; a listed channel has members, its
member entries follow renames, only the client that made it is its operator; relays
reach members only; the counts of LUSERS are true; descriptors have one owner and
every connection is entered and taken out once; the commands processed are the
lines of the stream, and the message is what the line says; lists and chains of a
hash table are what was added and not deleted; a string is what its header says.
The list `hazards` of PROJECT.json names the lines at which each of these could
fail.

## 2. Modules

| Module | What it is |
|---|---|
| `NickRegistry` | abstract specification: a partial function from nicknames to users, changed by one register, rename or leave at a time; `Serves(u)` is what a call for user `u` may do to it |
| `ChannelDirectory` | abstract specification: channels as sets of users with their operators, changed by one join, part or change of an operator at a time; renames do not occur in it |
| `Server` | the worker threads of registered clients on the shared tables, interleaved; refines `NickRegistry` (the mapping is the identity on `owner`) |
| `Session` | one command at a time: clients from accept to close with every refusal, reply and return code; refines `NickRegistry` WITH `owner <- table`, and `ChannelDirectory` WITH each entry of a member table replaced by the client it is for |
| `Uthash` | the macros of `uthash.h` as operators on head, table and handles |
| `UserTable` | the nickname table on these handles; refines `NickRegistry` WITH `owner` the function that `HASH_FIND_STR` computes |
| `Connections` | the accept loop, the descriptors and the connection table |
| `LineReader` | the receive loop byte by byte |
| `Message` | a message from `calloc` to `message_destroy`: parsing, dispatch, construction |
| `Sds` | one string: header, memory and content under any sequence of calls |
| `ServerProofs`, `ServerStayProofs`, `SessionProofs`, `ConnectionsProofs`, `LineReaderProofs`, `MessageProofs`, `SdsProofs`, `UserTableProofs` | the theorems of section 4 |
| `MCServer`, `MCSession`, `MCUserTable`, `MCLineReader`, `MCMessage`, `MCSds` | values and symmetry sets for TLC |

The modules meet where one relies on what another shows. `LineReader` delivers
lines to `Message`; its `EndLine` is the line that `Parse` takes. The kinds of
arguments that `Session` gives a command (`few`, `hole`, `only_last`, `other`, `ok`)
are the kinds of messages `Message` produces, and `HolesOnlyFromEmptyWords` says when
a hole can come. `Server` and `Session` use the nickname table as a function;
`UserTable` shows that its links are one. `Server` takes whole commands apart into
the steps between which threads interfere, for registered clients; `Session` has
clients in every state and ends at whatever C does not define. The mark of the
connection, one field in `Session`, goes through the table in `Connections`.

### Server

A thread is a program counter `pc[t]` and the local variables that survive from
one step to the next: the command, the channel handle, the sets of channels and of
member entries a loop has still to visit, the user handle. One step is what the
thread does between two points at which another thread can interfere:

- `mutex_user_table` and `mutex_channel_table` are held across calls and sends, so
  they are variables (`lockU`, `lockC`). A helper that takes one of them for a
  single lookup is one step that waits until it is free.
- `mutex_member_table` of a channel and `mutex_op_num` are taken and released in
  one helper without another call in between; each such helper is one step.

| Code | Actions |
|---|---|
| `service_single_client`, `free_data` | `RecvCommand`, `RecvFails`, `Close`, `DeleteUser`, `DestroyUser` |
| `add_user_nick` and the welcome | `AddUserNick`, `SendCounts`, `CountChannels` |
| `handler_NICK`, `update_user_nick`, `update_nick_on_channel` | `NickLock`, `NickLockChannels`, `NickOnChannel`, `NickUnlockChannels`, `NickCommit`, `NextChannel` |
| `handler_JOIN` | `TryGetChannel`, `JoinChannel`, then the relay |
| `handler_PART` | `PartLock`, `LeaveChannel`, `PartReply`, the relay, `PartUnlock` |
| `notify_all_channel_members` | `Snapshot`, `LookupMember`, `SendToMember`, `EndNotify` |
| `handler_MODE` | `GetChannel`, `CheckOnChannel`, `ModeAuthorise`, `UpdateMemberMode` |
| `handler_PRIVMSG`, `handler_NOTICE` | `GetUser`, `SendToUser`; `GetChannel`, `CheckOnChannel`, relay |
| `handler_WHOIS`, `LIST`, `LUSERS`, `OPER`, `PING`, `QUIT` | `GetUser`, `Whois`; `ListLock`, `ListUnlock`; `SendCounts`, `CountChannels`; `Oper`; `Reply`; `QuitChannels`, `NextChannel` |
| the peer | `PeerGone` |

Abstractions, and their reasons:

- A member entry carries a ghost field, who joined (`by`), and whether its nick
  pointer is still the user's own string (`own`): `join_channel` stores that
  pointer, `update_member_nick` a copy. When the user is destroyed, entries with
  the pointer read as before or as garbage (`NoNick`).
- `HASH_FIND_STR` among entries of the same nickname returns any of them: which one
  it is depends on the history of the hash chain.
- A `channel_t` that has been taken out of the table is not freed by the code. The
  model uses its object again for the next `create_channel` once no thread has a
  handle to it.
- PRIVMSG and NOTICE differ in the replies to a refusal only and are one kind of
  command per kind of target. LIST of one channel takes the mutex for one lookup,
  which is `CountChannels`. A command that is refused for its parameters is
  `Reply`.
- `send` succeeds on an open socket, may fail once the peer has reset it, and fails
  after `close`. It does not block.

Scope: a client has sent USER before its first NICK and stays until that NICK has
registered it; a connection does not come back. The memory of replies is not
tracked. `Session` has clients that are not registered and replies that are freed
twice.

### Session

One step is one whole command of one client: the handler with the helpers it calls,
the sends and the code it returns. What interleaving adds is in `Server`.

| Code | Actions |
|---|---|
| accept to the worker's thread | `Connect` |
| `recv`, `close`, `free_data` | `PeerGone`, `RecvFails`, `Close` |
| `process_cmd`, `check_registered`, `check_insufficient_param` | `Handle`, `CheckRegistered`, `CheckParams` |
| `handler_NICK`, `add_user_nick`, `update_user_nick`, `update_member_nick` | `Nick`, `AddUserNick`, `UpdateUserNick`, `Mark` |
| `handler_USER` | `User`, `Mark` |
| `handler_PRIVMSG`, `handler_NOTICE`, `notify_all_channel_members` | `Msg`, `SendToChannel`, `RelayFails` |
| `handler_JOIN`, `handler_PART`, `handler_MODE`, `handler_OPER`, `handler_QUIT` | `Join`, `Part`, `Mode`, `Oper`, `Quit` |
| `handler_WHOIS`, `handler_UNKNOWNCOMMAND`, the others | `Whois`, `Unknown`, `Answer`, `Pong` |

`server` says whether the process is up. It is `crashed` where a NULL pointer is
dereferenced, `undefined` where freed memory is used (a reply freed by `send_reply`
and again by its caller, the nickname of a destroyed user), `locked` where
`handler_PART` returns with `mutex_channel_table`; the model stops there. `deserted`
and `last` are ghosts for the properties: whether a member has ever left the server
without PART, and whom the last command was relayed to. A channel is in the table
when it has members. Of a username only whether it is set is modelled. A second
NICK before USER is left to `UserTable`. A registered client leaves the connection
table as `Connections` says, which here is `Close`.

### Uthash and UserTable

A table is a record: the caller's head pointer, the `UT_hash_table`, and the handle
of every element. The macros are operators on it, line by line as to which link is
written. A loop that follows links is a function of the walk so far (`Turn`), applied
once more often than there are elements; a walk that is then longer than there are
elements goes round in a circle. `Expand` says where the items of an old chain go by
their places in it: the loop of `HASH_EXPAND_BUCKETS` puts each before those that are
in the new chain already, so a new chain is in the opposite order. A key's hash value is a constant function, `HashOf`. `UserTable` has one action for each
function of `context.c` on this table; each runs under `mutex_user_table` and is one
step. `Habits` are what a client may do that no caller guards against
(`leave_nickless`, `renick`); `user_table` runs without them.

### Message

`FromString` is `message_from_string` with its two calls of `sdssplitlen`, a loop
over the characters (`Scan`, a recursive function) that also notes whether an element was ever written beyond the
slots allocated. A string is its characters and the block it lives in, so that what
`message_destroy` frees can be told apart; `freed` counts. `Parse` ends in `overrun`
where a parameter would be stored beyond `params`, and `ProcessCmd` in `crashed` where
the command is NULL or was never set. The last parameter after a colon is the line's
own string, cut by `sdsrange`.

### Sds

`str` is the header (type, length, space) and the memory behind it, with what `malloc`
leaves as `JUNK`. A store into a header field is cut to its width. A store beyond the
memory is kept, so that `TypeOK` sees it. `sdscatfmt` is a loop and has a step for each
turn (`CatfmtTurn`): a turn appends any bytes for one or two characters of the format,
which covers every conversion. The five headers note lengths of up to 1, 2, 4, 8
and 16 in the run and any in the proofs.

### Connections

`pc[c]` follows one connection from main's loop (`accepted`, `listed`, or `undo`,
`undo_close`, `refused` when `pthread_create` fails) to its worker (`recv`, `mark`,
`unlist`, `gone`). Clients are numbered in the order of accept, which is sequential
because main is one thread, and `accept` returns the lowest descriptor that is not
open, as POSIX says. `listed` holds the connections in the table; a lookup finds,
among those with one descriptor, the one added last. That is how uthash chains them
until it expands the table (ten entries in a bucket, which turns the chains round);
larger tables are out of scope. NICK and USER before registration come in any order
and number. The handle that `modify_connection_state` uses after the unlock is part
of the same step: the only other writer of that connection would be a client with
the same open descriptor, and there is none (`DescriptorsOwned`).

### LineReader

Bytes are CR, LF or another one. `Recv` is one call of `recv` with any chunk,
`EndLine` and `StoreByte` are the two branches of the loop body, and `Overrun` is
the store past the end of the buffer, after which C defines nothing and the model
stops. `stream` is a ghost: the bytes looked at so far, for `LinesExact` to compare
the commands with.

## 3. Runs

Runs that pass:

| Run | Instance | What it shows |
|---|---|---|
| `server_all` | 2 clients, 3 nicknames, 1 channel name, 2 channel objects, every command, 3 commands each | `TypeOK`, `LockDiscipline`, `NicksConsistent`, and `RegistrySpec`: the server implements `NickRegistry` under interleaving, and each thread moves its own client's nickname only |
| `server_stay` | 2 clients that stay, NICK JOIN PART, 5 commands each | `InhabitedChannels`, `MembersFaithful`, `OneCreator`, `MembershipByOwnCommand` |
| `server_live` | 2 clients, 3 nicknames, 1 channel object, NICK, JOIN, PRIVMSG/NOTICE to a channel and to a nickname, LIST, LUSERS, QUIT and resets, 3 commands each, fair threads | `CommandsComplete`, `DisconnectsReclaimed` |
| `session` | 2 clients, 3 nicknames, 1 channel, any command with any kind of arguments, any number of them | `StateTruthful` (the counts of LUSERS, one welcome), `RegularSessionSafe` (who behaves cannot stop the server, but for PART), `OneEntryEach`, `RegistrySpec`, `ClosedForCause`, `RelaysReachMembers`, and `DirectorySpec`: the channels implement `ChannelDirectory` |
| `user_table` | 3 users, 7 nicknames in 3 classes of hash values, 2 buckets doubled up to 8, threshold 3 | `ListWellFormed`, `ChainsWellFormed`, `RegistrySpec`: the links implement `NickRegistry`, and a call for one user moves that user's nickname only |
| `connections` | 4 connections, 2 descriptors | `DescriptorsOwned`, `TableBalanced`, `FreedNotListed`, `OwnEntryExact` |
| `lines` | streams of up to 8 bytes over 4 values, buffer and chunks of up to 4 | `FlagMarksCR`, `LinesExact`, `OverrunOnlyByLongLine` |
| `message` | every line of up to 7 characters over 4, room for 2 parameters, 2 slots | `ParseInvertsJoin`, `HolesOnlyFromEmptyWords`, `DiesOnlyByLine`, `DispatchedByName`, `MemorySafe` |
| `sds` | 3 argument strings over 2 characters, lengths up to 6, indices -2 to 2, five headers of up to 1 to 16 | `HeaderTruthful`, `Terminated`, and `ContentsAsDocumented` of every call, `sdsrange` with indices before, within and beyond the string included; deadlock is checked |

All but `user_table` check their module's `TypeOK` too; there the links themselves are
the subject.

Runs that end in a counterexample, each of a statement the repository makes:

| Run | Violated | What the trace shows |
|---|---|---|
| `wait_cycle` | `NoWaitCycle` | a rename and a PART wait for each other's mutex; without PART nobody does (`DeadlockNeedsPart`) |
| `fd_reuse` | `CountsExact` | with every thread at rest, LUSERS counts a new client with the state of the connection that had its descriptor before |
| `nickless_leave` | `RegistrySpec` | a client that leaves before its first NICK is deleted from a table it is not in, which frees the table with everybody's nicknames |

### Conditions

Several properties hold under a condition that is part of their statement, because
the code breaks them otherwise. These are the known behaviours behind each:

- `deserted` (`OneEntryEach`, `RelaysReachMembers`, `DirectorySpec`): a client
  that leaves is not taken out of its channels. Whoever takes its nickname inherits
  its place and its operator flag, and a member that renames itself to that nickname
  has two entries. The properties of `server_stay` leave out QUIT and resets for the
  same reason.
- `Regular` (`RegularSessionSafe`): somebody who connects and leaves without NICK, a
  peer that has gone while a message is relayed to it, a line with two adjacent
  spaces, PART with its only parameter after a colon, USER with too few parameters
  before NICK, and WHOIS of a client that has yet to send USER all end in a NULL
  dereference or in freed memory. The property says that these are all.
- PART (`RegularSessionSafe`, and left out of `server_live`): a PART of a channel the
  client is not on returns with `mutex_channel_table` locked.
- `Habits` (`user_table`): leaving without a nickname, and a second NICK before USER,
  which adds the same handle to the table twice. `nickless_leave` runs with the first
  of them; with the second (`Habits = {"renick"}`, no run of its own) `ListWellFormed`
  fails three steps from the start.
- `Regular` lines (`Message`): an empty word leaves a hole, an empty line or one that
  starts with a colon has no command, and too many parameters are written beyond
  `params`.

- Late joins (`MembershipByOwnCommand`): a JOIN that got its handle from
  `try_get_channel` can add its member at any later time (handler.c:508). If
  somebody's PART has found the channel empty in between and has not yet come to
  `HASH_DEL` (603), that PART takes the new member off the list of channels together
  with the channel. The property therefore names two ways out of the channel of a
  name, one's own PART and such a deletion, and says that a PART comes to delete only
  a channel it has itself emptied; who is deleted with it has come in since.

Not stated as properties, but steps of `Server`: a JOIN that got its handle before
the last member left joins a channel that is no longer in the table; a relay that
misses a member who renames, and reaches a newcomer with the old nickname; a user
that is freed while `get_user`'s handle to it is in use.

### Bounds

All in the .cfg files. `MaxCmds`, the commands of a client, its registering NICK
included; the sizes of `Users`, `Nicks`, `Names`, `Chans`; `MaxClients` and `MaxFds`;
`BufferSize` and `MaxStream`; `MaxOper`, accepted OPER commands; `MaxBuckets`;
`MaxLine`, `MaxFmt` and `MaxRoom`, lengths.

Two clients are enough for every race of two threads. One channel name is enough
because threads meet in one channel; two channel objects let a channel be deleted
and created again while a handle to the old one is still in use. Three nicknames for
two clients let one be free while both are registered, so renames succeed and hold
`mutex_user_table` while the other client's commands want it. `server_live` needs one
channel object, since nothing but PART deletes a channel; it leaves out PART for the
reason above, WHOIS, whose steps are those of a message to a nickname, OPER and PING,
which take no mutex that is held across a step, and MODE, whose two lookups are those of
a channel message. With 5
commands a client registers, joins, renames, parts and joins again. `session` has no
bound on commands, so every sequence of them is covered. Three users in a table of
threshold 3 fill a bucket, which makes it double; nicknames of one class collide
whatever its size, so that doubling twice does not help and `noexpand` is set, and
the seventh leaves its class at the first doubling. Indices of -2 to 2 lie before,
in and behind strings of up to 6 characters, as counted from either end. Four connections on two
descriptors let each descriptor be given out twice, once with its former entry still
in the table. A stream of 8 bytes over a buffer of 4 has two full lines, an overrun
after a line, and a chunk boundary at every place. A line of 7 characters has room
for a command, two words, a third that overruns, empty words at each place and a
colon in each. Strings of up to 6 characters with
the space sds reserves pass through headers of all five types.

Deadlock checking is off where the system may stop: clients stop sending when their
budget is used up, and do not come back; the process can die.
Symmetry is used in runs of invariants and action properties only.

### Fairness

`WF_vars(Step(t))` for each thread. Threads are run by the kernel's
scheduler and a mutex that is free again and again is eventually taken (in
`server_live` the two mutexes are released for good once the clients' commands run
out, so weak fairness is enough). Nothing is assumed of clients: they need not
send, and need not leave.

## 4. Proofs

All for arbitrary sets of clients, nicknames, channels, any bound on commands, any
number of connections and descriptors, any buffer size. The assumptions are the
named `ASSUME`s of the modules: the null values are not elements of the sets, CR,
LF and the other bytes are distinct, and bounds are natural numbers.

`ServerProofs`. The inductive invariant is `IInv == TypeInv /\ NickInv`.

- `TypeInv` is `TypeOK` with `Fits`: at a label, the command is one of those whose
  code the label belongs to, and the handle is a channel where the code uses it.
  Without it `chanOf[cmd[t].name]` could not be shown to be in the domain.
- `NickInv` joins `LockDiscipline`, `NicksConsistent`, `Registered` (who runs a
  handler other than the first NICK has a nickname) and `RenameTargetFree` (the
  nickname a rename has checked stays free until the commit). The last one is
  inductive only with mutual exclusion, and `NicksConsistent` only with the last
  one: a rename overwrites `owner` at the new nickname, which is right because
  nobody took it since `NickLock`, which is right because `lockU` was held.
- The refinement proof takes each action of a thread to a step of `NickRegistry` for
  that thread's own client (`Registry!Serves`), or to a stutter.
- `ChannelMutexReturned` shows what the deadlock of `wait_cycle` depends on. If no
  client sends PART, `mutex_channel_table` belongs to nobody but a thread inside
  `update_nick_on_channel` or LIST of all channels, and neither waits for a mutex
  there: the order is always the user table first, and the channel mutex is always
  returned, whichever peers go away. So `NoWaitCycle` holds of every other mix of
  commands, and both hazards of the channel mutex are PART's.

Theorems: `TypeCorrect`, `MutualExclusion`, `NicknamesConsistent`,
`ImplementsRegistry`, `DeadlockNeedsPart`.

`ServerStayProofs`. Every property that `server_stay` checks is proved, under the
condition on the constants that makes a client stay (`Stay`: neither QUIT nor DROP is
among `Cmds`) and, for `OneCreator`, that nobody sends MODE. To `IInv` the invariant
adds

- `Staying`: every connection is open, so that every send succeeds and no thread is on
  its way out. A PART whose reply fails would leave an empty channel in the table.
- `OneName` and `PartHandle`: a channel object is in the table under one name, and PART
  works on the object its argument names, so the entry that PART deletes is the one
  that leads to the channel it has emptied. Both need mutual exclusion on
  `mutex_channel_table`: nothing changes the table between `PartLock` and `PartUnlock`.
- `Filed`: an entry carries the nickname of the user that joined, or the new one on the
  channels that its rename has visited, and a user has one entry per channel. With
  `NicksConsistent` and `RenameTargetFree` a lookup by nickname then finds the client's
  own entry and no other (`OwnEntry`), also while somebody else's rename is half done.
- `PartedGone`, for `MembershipByOwnCommand`: while a client's PART goes on after
  `leave_channel`, the client has no entry on that channel. So a deletion takes nobody
  along but others, and `EntersDeletion` and `LeftEmpty` say that the channel was
  emptied by the very PART that deletes it.
- `Creator`, for `OneCreator`: no two threads are the creator of the same channel, and
  it has no operator until its creator joins. `Fresh` is what makes this inductive: a
  new channel is put where no thread has a handle.

A step that changes none of the tables these speak of is `Quiet` (`QuietSteps`); the
others have a lemma each. Theorems: `ChannelsInhabited`, `MembersAreFaithful`,
`LeavesByOwnCommand`, `OneOperator`.

`SessionProofs`. Every property that `session` checks is proved, for any clients,
nicknames, channels and bound. The inductive invariant is `IInv`: `TypeOK`,
`StateTruthful`, `RegularSessionSafe`, and

- `FreshOrGone`: a client that has yet to connect has nothing, one that has left has
  no nickname. So whoever the nickname table leads to is there.
- `TableExact`: the table is the inverse of `user_t.nick`. A rename and a close
  delete the entry under the client's own nickname, which is the client's own only
  for this reason.
- `MembersExact`, until somebody deserts a channel: an entry belongs to a client that
  is there, carries that client's nickname, and is that client's only one. With
  `TableExact` a lookup by nickname finds a client's own entry and no other
  (`OwnEntry`), and the holders of the nicknames a relay reads are the members
  (`RelayReaches`). These two lemmas carry `OneEntry`, `RelaysCorrect` and
  `ImplementsDirectory`.

`Good` is the invariant after a step together with the two action properties and a
step, or a stutter, of `NickRegistry` and of `ChannelDirectory`. There is one lemma for each handler that says its
steps are `Good`, and `NextGood` puts them together. For `RegularSafe` each way in
which the server stops is shown to need a client or a line that is not regular
(`CalmClients`, `CalmEntry`, `CalmRelay`), but for `PartRefused`. In the refinement of
`ChannelDirectory` JOIN, PART and MODE are the steps of that name, taken by the client
whose command it is (`actor`); OPER makes an operator of the server; every other command,
NICK above all, is a `Look`, which changes nothing; and leaving a channel by leaving the
server is `Desert`, where the promise ends. What could go wrong is that a command finds
somebody else's entry by nickname, which `OwnEntry` excludes.

Theorems: `TypeCorrect`, `RegistrationsTruthful`, `RegularSafe`, `OneEntry`,
`ImplementsRegistry`, `ImplementsDirectory`, `ClosesForCause`, `RelaysCorrect`.

`ConnectionsProofs`. The invariant adds to the five properties that main is
sequential and accepts in order (`MainIsSequential`), that the owner of a
descriptor is the last to whom it was given (`DescriptorsGiven`), and what is known
of entries and users before they are marked. Its core is `FindsOwn`: a lookup under
a descriptor, by the client that still has it open, finds that client's own entry
if that is in the table at all. `TableBalanced` is proved by counting: a deletion
takes one entry and one client from the same descriptor, whichever entry it is.

`LineReaderProofs`. Every property that `lines` checks is proved, for any stream, any
division into chunks and any size of the buffer. The invariant adds to the properties
`Tracks` (the buffer is no longer than what was sent since the last line ending, and
`flag` is up whenever the last byte was a CR) and `Follows` (the buffer is exactly the
end of the stream, from the last line ending on). Without the second half of `Tracks`
a CR at the end of one chunk could be missed by the LF of the next; without `Follows`
nothing is known of the bytes `sdscpylen` takes. `LinesExact` says which part of the
stream each command is by its rank among the line endings, not by a recursive
definition of the lines, so no induction over sequences is needed: the step that ends
a line (`LineAdded`) adds one ending, one command, and leaves the ranks of the others.
Theorems: `TypeCorrect`, `FlagCorrect`, `LinesCorrect`, `OverrunsExplained`.

`MessageProofs`. Every property that `message` checks is proved, for lines of any
length, any table of commands and any length of `params`. The state hardly matters
here: `IInv` is `TypeOK` with `Life`, which says at each place of a message's life
what it is (of `calloc`, `FromString(line)`, or built out of a caller's strings), and
all depends on what the parser computes. That is shown in four steps.

- The splitter. `Reading` is the invariant of the loop of `sdssplitlen`: the elements so
  far lie between the separators so far, the element in work reaches to the current
  character, and there is a free slot. `ReadingAll` is induction over the characters.
  The induction theorems of the library cannot be instantiated, so `LeastNumber` derives
  the least-number principle from the well-foundedness of `<`, `Induction` follows for
  any set of numbers, and the recursive functions are shown to exist by the same lemma
  (`ScanExists`, `FlattenExists`). From `Reading` follows that the array never
  overflows, with any number of slots to begin with.
- Cuts. What the splitter returns is stated by the places of the separators (`Split`);
  applied twice, the words of a line lie between the spaces before its first colon
  (`HasFirstColon`, `HasWordCuts`). A word is empty where two cuts are adjacent.
- Counting. The number of words is one more than the number of spaces; the stored ones
  are an initial segment unless a word is empty. So a counted parameter that is missing
  lies before a stored one, between two adjacent spaces (`HoleCause`), and a regular line
  overruns by its number of spaces alone (`RegularOverruns`).
- Joining. The pieces between the places at which a string is cut are the string when
  put together again (`Pieces`), and those of a regular line are its command and its
  parameters with what stands before each (`RegularJoined`).

Theorems: `Typed`, `Inverts`, `Holes`, `Dies`, `ByName`, `Memory`.

`SdsProofs`. The invariant is the conjunction of the three invariants: `TypeOK`
says that no store left the memory, which needs the header to be truthful, and
`Terminated` needs both. The assumptions are that the widths increase and that the
last one holds what can be asked for (2^64 in the code). Each function of the library
has a lemma that says of its result that it is well formed and what its content is;
the steps cite the lemmas. For `sdsrange` that is a subsequence of the old content
between two places, for any two integers (`RangeLenWithin`, `RangePresentable`).
Theorems: `TypeCorrect`, `HeaderAlwaysTruthful`,
`AlwaysTerminated`, `StepsAsDocumented`.

`UserTableProofs`. That the links of `user_hash_table` are right, for any users,
nicknames, hash function, number of buckets and threshold, whatever is added, renamed
and deleted in which order. The theorems say so of clients that keep to the protocol,
`Habits = {}`: who leaves before the first NICK or sends a second one before USER breaks
the table, as the run `nickless_leave` shows, and nothing in the code prevents it.

- Order. `Linked` says of a set of elements that in some numbering of them the first
  pointer is the least, and every next and previous pointer the neighbour. Each link the
  macros write is shown to keep that with another numbering: a new head is numbered
  below all (`LinkedPrepends`), a new tail above all (`LinkedAppends`), an element taken
  out leaves the numbers of the others (`LinkedRemoves`), and what `HASH_EXPAND_BUCKETS`
  makes of a chain is the part that stays together with all numbers negated
  (`LinkedReverses`). No step needs to know the sequence.
- Walks. A walk along links that are `Linked` meets every member once, in the order of
  the numbers, and ends (`WalkMeetsAll`, `WalkThrough`), by induction over its length
  with the induction principle derived as in `MessageProofs`. This takes the invariant
  to the properties, and an old chain of `Expand` to the items in it.
- The invariant is `TableInv`. The handles of the users with a nickname are linked from
  the head and, bucket by bucket, from each `hh_head`; the table's tail and counts are
  right; the number of buckets is a positive number; a listed user's hash value is that of its
  key; and two listed users have two keys. Twice as many buckets divide the chain of
  each old one (`BucketsDivide`), so that growing neither loses nor doubles a user.
- The refinement. Two keys differ, so a lookup finds the owner of a nickname and nobody
  else (`FindFinds`), and adding, renaming or deleting a user moves that user's
  nickname only (`OwnerMoves`).

- Length. An invariant of its own, `RoomInv`: no bucket holds `(expand_mult + 1)` times
  the threshold unless `noexpand` is set. Only `HASH_ADD_TO_BKT` raises a count, by one,
  and it expands when that fills the bucket (`AddToBucketRoom`). After an expansion a
  chain over the ideal length has its length divided by the ideal one as `expand_mult`,
  which `HASH_EXPAND_BUCKETS` counts up item by item; that leaves room exactly because the
  ideal length is below the threshold (`MultSuffices`, `ExpandRoom`). Deletions
  lower counts and change neither multiplier nor flag (`DeleteRoom`).

The last argument needs `Few`, that there are at most
`2 * InitialBuckets * (Threshold - 1)` users: 576 for the 32 buckets and the threshold
of ten in `uthash.h`, 8 in the run, which has 3. It keeps the ideal length in every
grown table below the threshold. It is sufficient and not tight, but some bound
is needed: with a threshold of one a single user fills its bucket, and after the
expansion the one it was moved to.

Theorems: `ListAlwaysWellFormed`, `ChainsAlwaysLinked` (`ChainsWellFormed` without its
second half, and without `Few`), `ChainsAlwaysShort`, `LinksImplementRegistry`.

Only model-checked: liveness (`CommandsComplete`, `DisconnectsReclaimed`), which
the prover cannot do.

## 5. Plan

Done: every module of section 2. To come, in this order:

1. A `Server` whose clients register in two halves, so that leaving early races with
   the commands of others.

Not modelled, and why: options and start-up (before there is a second thread, no
state afterwards); logging (its lock is never held across another one); `reply.h`
(constants); the wording of replies and the channel counts and names that LIST and
NAMES print (nothing reads them back); `message_to_string` (never called); the parts
of uthash and sds that the server does not call; a peer that does not read, so that
`send` blocks; memory that cannot be allocated (the code exits or ignores it).
