# Rubo: a verification project

Rubo is a small game-server skeleton in C++: a **Gate** that clients and
back-end servers connect to, **Logic** servers that do the work, a MySQL
database of accounts, and the utilities under them (sockets, epoll, buffers,
threads). This directory models the parts of it that are hard to test, checks
them with TLC on small instances, and proves what can be proved for all
instances with TLAPS.

## 1. Inventory

| Component | State | Operations | Hard because |
|---|---|---|---|
| `util/RingBuff` | circular byte array, `_head`, `_tail`, `_len` | `add_data`, `read_begin`, `read_del_begin`, `del_data`, `step`, `append_size` | wrap-around, growth, the slot that must stay free |
| `util/UserManager` | a user by descriptor, a user by uid | `add_user`, `add_conn`, `del_conn`, look-ups | descriptors and uids are reused; two maps must agree |
| `server/Gate/GateIO` | `_unlogin_users`, `_unlogin_events`, `_unlogin_reads`, `_rsp_msgs`, the workers; its epoll set | `run()`: `epoll_one`, `handler_data`, `handler_unlogin_msgs`, `handler_replys`, `notify_workers` | hands descriptors to other threads; lists that outlive connections |
| `server/Gate/GateWorker` | `_logic`, `_users`, event queue, `_fd_set`, `_epev_users`, `_rd_users`, the messages gathered; its epoll set | `thread_loop()`: `handler_ioevent`, `handler_epevent`, `handler_epdata`, `handler_msgs` | closes descriptors while the IO thread accepts; shares a queue and `_fd_set` with it |
| `util/TcpOp`, `SocketOp`, `EpollOp` | sockets, `_rd_buff`, `_wt_buff`, `_can_wt` | read, write, accept, close, watch | partial writes, errors together with data |
| `msgs/MsgCenter` | parse buffer | `parse_package`, `gen_msg` | broken lengths, unknown ids, frames left behind |
| `server/Gate/Gate`, `server/DB/MysqlDb` | the account table | login, registration, verification | check-then-insert, a query that fails |
| `server/Logic/*` | the connection to the Gate, workers with users and message lists, `MutexList` of answers | verification, dispatch by uid, online / offline / dosth, answers | condition variable without predicate, ordering, stop |
| `util/IThread`, `CondSync`, `MutexList` | thread flags, condition | start, stop, join, wait, notify | unsynchronised flags |
| `server/ServerMain`, `ServerBase`, managers | the servers | init, run, stop | order of stopping, double `unit()` |
| `util/LineBuffer` | an array, its size | grow, clear, append | two of them serve all connections of a thread and are never cleaned of old bytes |
| `msgs/protocols/login.pb.*` | message objects: has-bits, members, string pointers | constructors, accessors, `Clear`, `MergeFrom`, `CopyFrom`, `Swap`, parse, serialize | one empty string is shared by all messages of all threads; strings change hands |
| `Timer`, `Time`, `Encrypt`, `utils`, `comm/*` | none that matters | pure helpers, logging | - |

How they interact. A client or a Logic connects to the Gate. The IO thread
accepts it, watches it, and takes one frame: login, registration or
verification. A verified Logic gets a `GateWorker` thread of its own; a logged
in user is handed to the worker with the fewest descriptors: an event goes into
the worker's `_events_io`, the descriptor leaves the IO's epoll, and at the end
of the loop `notify_workers` moves the events to the worker's side under its
mutex. The worker makes its own user object, watches the descriptor, tells the
Logic (`Online`), forwards what the user sends under its uid, hands the Logic's
answers to the user they name, and tells the Logic when the user's connection
ends (`Offline`). The threads share the event queue, `_fd_set` and, through the
kernel, the *numbers* of descriptors: a number closed by a worker may be given
to the next connection the IO thread accepts.

What makes each part correct:

- RingBuff: it is a FIFO queue of bytes, whatever the lengths.
- GateIO and GateWorker: a descriptor is watched by one thread; an object is only
  used for the connection it was made for; a user is known under the uid it
  logged in with; a handed-over user is served; its messages and its end reach the
  Logic once; the answers reach it.
- Logic: no message and no answer is lost, doubled or reordered between the threads; the worker touches
  the IO thread's list only when that thread has ended; `stop` ends every thread.
- Framing: the messages of a connection come out of it once and in order, however its bytes are split.
- Writing to a socket: no byte is written twice; a byte is lost or overtaken only where section 6 says.
- Accounts: a service with one account for a name; success means the account is there.
- Lifecycle: every stop returns, all threads joined and all descriptors closed; nobody closes another's number.
- Message objects: they are values, and each string has one owner.

`PROJECT.json` lists every component and, under `hazards`, every place in the code that
is hard to test, with the properties that cover it, or why none does.

## 2. Modules

| Module | Models |
|---|---|
| `ByteQueue` | what a ring buffer promises: a FIFO queue of bytes |
| `RingBuff` | `util/RingBuff` in detail; `Queue == INSTANCE ByteQueue WITH q <- Contents` |
| `UserManager` | `util/UserManager` as operators on a record of two maps |
| `GateState` | the variables of the Gate, the kernel (descriptor table, epoll sets, socket reads), `parse_package` by frames, the peers' actions |
| `GateIO` | the IO thread: one action per part of `run()` |
| `GateWorker` | a worker thread: one action per part of `thread_loop()` |
| `Gate` | the composition of the three, its fairness and its properties |
| `LogicService` | what the Logic promises the Gate: messages handled once and in order, answers sent once and in order |
| `LogicServer` | `server/Logic`: the main thread, `LogicIO`, one `LogicWorker`, their lists, flags and condition variable; `Service == INSTANCE LogicService WITH ...` |
| `GateLogic` | the composition of `Gate` and `LogicService` over one connection |
| `SocketSend` | `SocketOp::send` and `write`, `TcpOp::event_op`, `_wt_buff`, `_can_wt`, against a kernel buffer that fills |
| `Protobuf` | what the message classes write and read: varints, strings, fields, cut input |
| `MessageChannel` | what framing promises: known messages arrive once and in order |
| `Framing` | `SocketOp::read`, `gen_msg`, `parse_package`, `LineBuffer`: one thread, many connections, bytes; `Channel == INSTANCE MessageChannel WITH ...` |
| `MessageValues` | what a message object promises: it is a value |
| `Messages` | the objects of `login.pb.*`: has-bits, string pointers, the shared empty string; `V == INSTANCE MessageValues WITH ...` |
| `AccountService` | what registration and login promise: one account for a name |
| `Accounts` | `Gate`'s account handlers and `MysqlDb`, statement by statement; `Service == INSTANCE AccountService WITH ...` |
| `Lifecycle` | `ServerMain`, `init`, `run`, `stop`, `unit` of Gate and Logic, threads and the table of descriptors |
| `RingBuffProofs` | type correctness, memory safety and refinement of `RingBuff` |
| `GateProofs` | type correctness of the composed Gate, who owns a descriptor (`OneWatcher`, `ReadsOwn`), what a worker knows of its users (`LoginAuthentic`, `MapsAgree`, `NotStranded`); and with a Logic behind it, what the Logic is told of users and what becomes of messages and answers (`PresenceTold`, `NeverUnknown`, `ForwardedOnce`, `AnsweredOnce`) |
| `LogicProofs` | type correctness, the ownership of `_io_msgs` and the refinement of `LogicServer` |
| `SocketSendProofs` | `NothingTwice` and `KeptInOrder` |
| `AccountsProofs` | type correctness and refinement of `Accounts`, what follows from the service, and `Truthful` |
| `FramingProofs` | what the functions of `Protobuf` and `Framing` compute, for all messages; that every message reads back (`Codec`), `RoomToRead` and the refinement of `MessageChannel` |
| `MessagesProofs` | what each call on a message object does, for any objects and values: `OwnedOnce`, `ObjectsAreValues`, `WritesWhatItHolds` |
| `LifecycleProofs` | type correctness of `Lifecycle`, `NumbersOwn` and `CleanlyDown` |
| `MC...` (nine) | instances for TLC |

### How state and actions correspond to the code

`RingBuff`: the variables `buff`, `len`, `head`, `tail` are the members. `data` is the
argument of the `add_data` that is running: `AddBegin` enters it, `AppendSize` is
one turn of its loop, `AddCopy` the rest. `ret` is the last call's result and
the bytes it copied, so that the abstract queue fixes them too. The copies are
described by the spans of slots they touch (`AddSpans`, `ReadSpans`), and the
branches of the code by how these spans are chosen. `step` has no caller in the servers;
the model calls it as its name promises, after a `read_begin` of as many bytes.

`Gate*`: a *connection* is an identity that does not exist in the code; it is
what tells two uses of one number apart. C++ objects are named by the
connection they were made for (`io_rd[c]`, `wk_uid[c]`, ...), they keep the number
(`sfd[c]`), and `openfd` says what a number denotes now. Closing a number takes
it out of every epoll set, as the kernel does.

- Steps. Each handler of a loop is one or more actions, split where another thread can
  see or change something in between: a worker's `epoll_wait`, the reading of each user
  (`handler_epevent`), the bookkeeping after a close (`worker_conn_offline`: the close and
  `del_conn`/`del_fd` are separate steps), the parsing of each frame, and the
  writing. The IO's `handler_data` reads all its users in one step: no other thread reads
  or closes these descriptors, and peers' steps commute with it.
- Messages are records of a kind and the header's uid. A login carries the uid its name and
  password stand for in the database, -1 if there is none.
- Frames arrive whole. A frame that has not arrived completely parses as nothing and can
  be taken as not sent yet; but a frame followed by a part of another gets its sender
  kicked out, as two frames do.
- Sockets are always writable; what the code does when they are not is in `SocketSend`.
- An accepted socket whose options or epoll entry cannot be set is closed again by `TcpOp::accept`; it is taken as
  not accepted.
- The worker's failing `init` is a branch of `on_logic_verifyed`.
- `_unlogin_reads` and `_rd_users` are never cleared in the code, and are not in the model.
- `inbox[c]`, what was written to a peer, is a set; how many answers were written is counted in `GateLogic`'s `heard`.

`GateLogic`: `WriteMsgs` is `GateWorker`'s `handler_msgs` together with what arrives at the Logic (`pending`) and at the users.
`LogicHandles` and `LogicSends` are the service's steps; an answer it sends is a frame said on the connection `Logic`. `told` and
`heard` are history: what was written to the Logic, in order, and how many answers for each user were written to connections.

`LogicServer`: a program counter per thread (`io_pc`, `w_pc`, `main_pc`) and the lists a message passes:
`wire`, `parsed` (`handler_epevent`'s), `io_msgs`, `msgs_in`, `w_msgs` (`handler_msgs`'), and back
`out_msgs`, `to_io` (the `MutexList`), `io_out` (`handler_worker_msgs`'), `sent`.

- A section under a mutex is one action (`IOPush`, `WTake`, `IOGet`, `handler_reply`); the notification that
  follows one is another. `w_pc = "wait"` is the wait set of the condition variable: `notify_all` moves it to
  `"woken"` and does nothing otherwise, and `WSpurious` is the wakeup the C++ standard allows.
- `users[u]` is the `_uid` of the object `_users` keeps under `u`: `on_user_online` adds one if there is none,
  `on_user_offline` only writes the uid it has.
- `stop` is the call of `Logic::stop`; `StopWorker`, `Poke`, `PokeEnds` and `join` are its way to the end. There is
  one worker, as in `Logic::init`, so `get_worker` returns it (its `_uids` is never filled) and the early
  `break` of `stop` does not matter.
- Assumed of the Gate: the uid in an Online's and an Offline's body is the header's, as `GateWorker` writes them; frames come whole.
- `LogicIO::_verifyed` is never set and never read; the answer to the verification is only logged.

`SocketSend`: byte `i` of message `n` is `<<n, i>>`. `write_msg` and `event_op` are the two ways into `send`; each
`::write` is an action (`Send`, `SendRefused`, `SendFails`), `pc` says who called, `Returned` what that caller does
with the result, `FD_EVENT` values being numbers and their tests bit tests, as in the code. The kernel takes what
it has room for, which may be a part of the piece offered. `trouble` is a history variable: what has happened
that the properties make exceptions for.

`Framing`: bytes are numbers and messages records of id, uid and fields, which `Protobuf` turns into bytes and back. `pc` and
`cur` say what the thread does for which connection: `"read"` is `SocketOp::read`, one `::read` of any part of what has come per
`ReadSome`, `AddRead` the `add_data` at its end; `"parse"` is `parse_package`, one frame per `ParseOne`. `rd_buff` is a sequence: that
`RingBuff` is one is shown there. `line` and `line_size` are the `LineBuffer` of `SocketOp`, which only grows; `parse_buff` is the one of
`MsgCenter`, with the bytes that earlier messages left in it, because the body is used as a C string; `Junk` is what may
lie in memory behind it. `taken` counts frames taken out of the buffer, known or not. The sizes of the code are constants.

`Messages`: the state of an object is its has-bits and its members; a string member is an address, 0 (`kEmptyString`) the one of
the shared empty string; `heap` says what is at an address, or that it is free. The classes differ in tables, each translated from its own
lines: members, has-bits, constructor, order of `MergeFrom` and required bits. Each call is an action that changes objects and heap as
the code does and, by `V!`, the history variables `val` and `strings` as the abstract module says; `ObjectsAreValues` relates the two.

`Accounts`: `pc` is the next statement of the handler; each of them can fail before or after its work (`CheckFails`,
`InsertFails`, ...), and `Crash` ends the process between any two. `orphans` are inserts that the
process had sent when it ended: `Arrive` runs them later. Names the database compares as equal are one name.

`Lifecycle`: `open[f]` is what number `f` denotes, `num[o]` the number an object remembers, which it never forgets. `unit()` is one close per step
(`todo`), as many times as the code calls it. `pc` is the place of the main thread, `th[t]` of each thread: `"loop"`, `"stopping"` others, `"unit"`,
`"over"`, `"joined"`. What the loops do is reduced to the descriptors they open and close: `Accept`, `Verified`, `Logined`, `ConnEnds`, `LogicEnds`.

## 3. Runs

| Run | What it shows |
|---|---|
| `ring_buffer` | `TypeOK`, `SpansInside`, `ImplementsByteQueue`, `AddTerminates` for all sequences of calls with strings of 1-3 bytes, reads of 0-2, up to 4 stored bytes. The array starts at 2, doubles once, then grows by 2: both ways of growing, and every wrap-around, occur. |
| `gate_logic` | A Gate with a Logic behind it; `u1` logs in as user 1 and acts, `u2` logs in as 1 or as 2; both may close at any moment. `TypeOK`, `LoginAuthentic`, `NeverUnknown`, `PresenceTold`, `ForwardedOnce`, `AnsweredOnce`, `MapsAgree`: through closes, reused numbers and two connections of one user, the Logic hears everything once, and never of a user before its Online. |
| `gate_two_logics` | Two Logics, hence up to two workers; the first may go; a user registers, logs in and acts. **Two descriptors for three connections**, so that numbers are reused at every point. `OneWatcher`, `ReadsOwn`, `NotStranded`. |
| `gate_live` | Three descriptors, weak fairness: `HandoverCompletes`, `ForwardedInTheEnd`, `EndIsTold`. `u2` logs in, or sends a frame of unknown id. |
| `logic` | One user, all kinds of messages, two answers told apart, three messages; the Gate may close and `stop` may be called at any moment. Three messages are enough for one to be in the worker's hands, one in `_msgs_in` and one in `_io_msgs`. `TypeOK`, `IoMsgsOwned`, `ImplementsService`, `WokenDrains`, `AnswersGoOut`, `StopCompletes`. |
| `socket_send` | Three messages of one or three bytes, pieces of two, room for three: a message of two pieces, a short write, a refused one, a second refusal while `_wt_buff` is sent, and a message that overtakes all occur. `NothingTwice`, `KeptInOrder`, `ReachesPeer`. |
| `framing` | Two connections, their bytes in any pieces; whole messages, cut ones, one that fills the `LineBuffer`, one too short, one too long, one unknown, each in front of another, and an end behind a message. `RoomToRead`, `ImplementsChannel`, `AllParsed`. |
| `accounts` | Four requests for two names and two passwords, two faults. Four requests are enough for a registration that fails half-way, its repetition, and a login of each party. `TypeOK`, `OneAccount`, `ImplementsService`, `Truthful`. |
| `lifecycle` | A Gate, a Logic, or both in one process, two users, one failing system call anywhere, seven numbers, which is one less than could be open at once. `TypeOK`, `NumbersOwn`, `CleanlyDown`, `StopCompletes`. |
| `messages` | Two objects of each of the eleven classes (they are alike, hence symmetry), a string of the user, strings empty and not, an `int32` of ten bytes and one of two; every sequence of calls. `OwnedOnce`, `WritesWhatItHolds`, `ObjectsAreValues`. |
| `gate_forward`, `framing_required` | A comment and a `required` that the code does not keep (section 6). |

The properties are defined in the module each run's MC module extends, each with a comment.

Bounds. `MaxSend` bounds the frames of each peer: enough for a login that fails to
arrive in time, a registration and a message. `MaxQueue` bounds the events waiting for
a worker: without it the read events of an unserved descriptor, which epoll reports in
every loop, fill the queue for ever. `MaxWorkers` bounds the verified Logics that get a worker.
`MaxData` bounds the bytes stored in a buffer, `MaxSaid` the messages the Gate sends to the Logic,
`MaxMsgs` those written to a socket, `MaxRequests` the requests for accounts, `MaxFaults` the faults. None is a limit of the
code. The sizes of `Framing` are the code's, scaled down: a read asks for 6 bytes at most (`READ_SIZE`), a `LineBuffer` starts at 8,
doubles up to 16 and grows by 4 from there, and a message has at most 16 bytes (`MAX_PKG`): so that a buffer grows within a
message, a message fills it, and a frame takes several reads.

An assumption of the safety runs of the Gate: no peer sends a frame of an id the protocol does not
know. Such a frame makes `parse_package` leave what follows in the buffer, and
`_unlogin_reads` keeps its sender for ever: what is behind it may be parsed when the sender's number denotes another
connection. The liveness of the others does not depend on it: in `gate_live` one may send such a frame.
In `gate_logic` and `gate_live` the Logic's connection does not close; what happens
when it does is in `gate_two_logics` and `gate_forward`.

Every run checks for deadlock too: the Gate's loops never stop. The Logic may, after `stop` (`Stopped`), and so
do a closed connection in `SocketSend` (`Closed`), a process in `Lifecycle` (`Ended`), and the requests in `Accounts`
(`Finished`); in `Framing` a thread may have nothing to do (`Idle`). These say so by an action that changes nothing.

Fairness. Each thread is a loop without a blocking call: `epoll_wait` has a timeout, and the
mutexes are held for a copy of a list. So each thread (`IONext`, and `WorkerNext(w)` for every
worker) is weakly fair, as the scheduler provides; within a thread the code fixes the
order. Peers are not fair: nobody has to connect, send or close. `RingBuff` assumes that a
call that was entered goes on. In `LogicServer` the same holds of the IO thread, the worker (`WorkerNext`, to which a
spurious wakeup does not belong: a waiting worker may wait for ever) and the main thread, once it runs or has
called `stop`. Neither the Gate nor the call of `stop` is fair. In `SocketSend` the thread and the peer's
reading are; that the peer speaks again and again is a premise of `ReachesPeer`, for only then does the code look at `_wt_buff`.
In `Framing` the thread is weakly fair; of the network it is assumed that what is on its way comes in the end: a connection that
`epoll_wait` reports again and again is read (`ReadBegins`, strongly fair), and a read of it finds bytes at last rather than
`EAGAIN` each time (`ReadSome`, strongly fair). In `Lifecycle` the main thread and each thread's end are weakly fair: `epoll_wait` returns after
100 ms, and then the loop looks at `_quit`. That a command is read is not assumed.

What the Logic does *not* promise: that a message is handled without a later one. A notification that finds the
worker at work is lost, since `handler_msgs` waits without looking at `_msgs_in`, and the messages stay there
until something else wakes it. `WokenDrains` is what remains.

Every property has a mutant in `PROJECT.json`: a definition changed as a bug in that code would
change it, which TLC finds to violate the property.

## 4. Proofs

The proof modules EXTEND the specification that the runs check; their assumptions are the
named ASSUMEs of the modules (`RingBuffAssumption`, `UserManagerAssumption`,
`GateAssumption`, `GateLogicAssumption`, `LogicAssumption`, `SendAssumption`, `AccountsAssumption`, `LifecycleAssumption`, `FramingAssumption`, `PeersAssumption`,
`MessagesAssumption`, `ValuesAssumption`), which TLC
evaluates in the runs. Three theorems' premises are not assumptions of a module but said in the theorems, because they are about peers:
`KnownFrames`, `OneLogic` and `UsersSay`, explained below. `MCGateLogic` has TLC evaluate them on its instance. A fourth premise, `Codec`, joins
two modules: it is a fact about `Protobuf`, a theorem in one (`MessagesReadBack`) and used by the theorems of the other (`MessagesProofs`).

`RingBuffProofs`, for every set of bytes, all argument strings and lengths, every
initial size of at least 2 and every growth limit:

- `TypeCorrect`: `Spec => []TypeOK`. The inductive invariant is `TypeOK /\ PeekedIsThere`: what
  `read_begin` has returned is still there when `step` drops it, without which `step` might move `_tail` past `_head`.
- `CopiesStayInside`: `Spec => []SpansInside`.
- `Refinement`: `Spec => ImplementsByteQueue`. The core is arithmetic modulo `len`
  (`WrapOnce`, `DataSize`), how each operation changes `Contents`
  (`AppendKeepsContents`, `AddCopyAppends`, `DeleteAdvances`, `CopyOutIsPrefix`), and one step per action.

`GateProofs`, for any number of connections, descriptors, workers, users and frames, unknown ids included:

- `TypeCorrect`: `Spec => []TypeOK`. `TypeOK` is more than types: every place that
  holds a connection (the IO's map and lists, the events in all three queues, the workers' maps
  and lists) holds an *accepted* one, and every reply and event a real descriptor.
  A reply takes its descriptor from the user object, so without the first half the second is not inductive.
  There is one lemma per action, and lemmas for what the operators return
  (`OrdersType`, `ParsedType`, `ReadFramesType`, `AddConnType`, `DelConnType`, ...).

The same module, as long as no peer sends a frame of unknown id (`KnownFrames`, a premise of the theorems):

- `WatchedOnce`: `Spec => []OneWatcher`, and `ReadsOwnConnection`: `Spec => []ReadsOwn`. Neither is inductive. The invariant `Own`
  says where a number can be: known to the IO thread, which then watches it, and denoting that user's connection
  (`IOOwns`); on its way, in exactly one place of one worker's queue (`QueuesOwn`); or watched by one worker, whose map has its connection
  (`WatchersOwn`, `UsersOwn`); or lost to all of them, open and unwatched. `ListsFresh` says how long the IO thread's lists mean what
  they say: within one turn of its loop. The queue of a worker is the concatenation of the three
  lists its events pass (`w_evs`, `ioevs_in`, `events_io`), so that most steps move a boundary in it, change one end of it, or leave it.
- Why `KnownFrames`: `_unlogin_reads` is never cleared. That this is harmless rests on stale users having nothing left to parse,
  which holds because a parse empties a buffer of known frames and a number that is reused gets a new user object.

And of what a worker knows of its users, under the same premise:

- `LoginsAreAuthentic`: `Spec => []LoginAuthentic`. The invariant `Authentic` follows a login
  along its way: the frames in a user's buffer were said by its connection, a user's uid by one of those,
  a connect event's uid by its connection, and a worker's map by its own. Each handing over uses `Own` for whose object it is.
- `MapsAlwaysAgree`: `Spec => []MapsAgree`. `add_conn` leaves the old uid's entry alone and `del_conn` runs a step after the close;
  the invariant `Mapped` adds `ClosingGone`, what the maps still hold of the connection whose end is half done.
- `UsersAreNotStranded`: `Spec => []NotStranded`. The invariant `Followed` starts before the hand-over: in a turn
  of the IO thread a number gets one reply at most (`RepliedOnce`), a user that has its uid and is still kept under its number has the reply to
  come that will hand it over (`LoginReplied`), and then is in one queue or watched by one worker until its number is closed (`Kept`).

The same module, for the Gate with a Logic behind it (`GateLogic`):

- `AuthenticWithLogic`: the types, `LoginAuthentic` and `MapsAgree` hold in the composition too. Its only step
  that the Gate does not take itself, an answer on the Logic's connection, is shown to keep the invariants above.
- `PresenceIsTold`: `GateLogicSpec => []PresenceTold`, and `UsersAreKnown`: `GateLogicSpec => []NeverUnknown`, under two more premises, both
  about peers. `OneLogic`: one connection verifies itself as a Logic, and it stays; a verification has no password in the code, and what
  becomes of users whose Logic goes is in `gate_two_logics` and `gate_forward`. `UsersSay`: a user's program sends no Online, no Offline and no
  answer, which the Gate would forward as they are, and a name and password do not stand for uid 0, which `IOUser` has for "not logged in".
- For the first, `PresenceTold` is an equation between what was told or gathered and who is served. Each step changes both sides alike or neither: an
  Online is gathered where a connection enters a worker's map, an Offline where it leaves it, and `handler_msgs` moves what was gathered to what was told,
  which needs that the worker's Logic is there (`LogicStays`). That the map gains exactly one connection and that connection is on no other worker rests
  on `Own`; that its uid is the one the Offline will have, on `Mapped` and `UidsServed`.
- For the second, the invariant `OnlineFirst` says of each of the lists that a message of a user has the user's Online before it there or further ahead, and
  of each connection a worker serves that its Online is at least gathered.
- `AnswersAreOwn`: `GateLogicSpec => []AnsweredOnce`, under the same premises. The invariant `AnswersFlow` counts the answers for a user
  in all the places one can be: heard, gathered by a worker (`logic_msgs_in`), in the buffer of the Logic's user, on the connection, not yet written by
  the Logic, and its unhandled messages, each of which may still become one. Together they never exceed the messages it was told. Each step
  moves one between two places, drops some, or tells as many as it leaves to handle; that a worker's write
  reaches one connection per answer is `AnswersCounted`. Whose connection that is follows from `Own`, `Mapped` and `Authentic` (`WrittenRight`).
- `MessagesForwardedOnce`: `GateLogicSpec => []ForwardedOnce`, under the same premises. The property is itself an equation between the counts of what was
  read, told and left (`Balanced`), which a read by a worker, a parsed frame and `handler_msgs` change alike on both sides. It says nothing of a connection before a
  worker takes it over, and then counts all that was ever read from it, the IO thread's reads too: so the invariant `UnservedSilent` says that no
  message was read from a connection that is on its way to a worker, because the IO thread closes whoever sends one before it replies to its
  login, and that none waits in a worker's buffer for it. A connection's way from there to the worker is `PassedSteps`, which rests on every frame
  the IO thread has being parsed before a reply (`AllParsed`) and on `Own`.

`LifecycleProofs`, for any table of descriptors and users:

- `TypeCorrect`, `NumbersAreOwn`: `Spec => []NumbersOwn`, `StopsCleanly`: `Spec => []CleanlyDown`. `unit()` closes a number and keeps it, up to four
  times. The invariant says at which places of `pc` numbers can be obtained at all (`MainWay`, `Obtained`), what each thread may be doing there
  (`ThreadsOK`, `WorkerOK`, `LogicHere`), whose an open number is (`Numbers`, `NumbersKept`) and that what is left of a `unit()` closes
  everything that is still open (`UnitsClose`): a number is given out only while nobody is going to close it again.

`LogicProofs`, for all users, messages and numbers of messages:

- `TypeCorrect`, `IoMsgsSafe`: from the inductive invariant `TypeOK /\ ThreadOrder`. `ThreadOrder` says how far each
  thread can be when the main thread is where it is, above all that the worker's `_quit` is set only when the IO
  thread is over: without it nothing keeps the worker's `unit` out of `_io_msgs`.
- `Refinement`: `Spec => ImplementsService`. The messages under way are `(w_msgs \o msgs_in) \o io_msgs` and the answers
  `(io_out \o to_io) \o out_msgs`: each step of a thread moves a boundary between two of the lists, which
  changes neither, or is one step of the service. It rests on facts about the head of a concatenation
  (`HeadTailConcat`) and on its associativity.

`SocketSendProofs`, for all sizes of pieces, room in the kernel and lengths of messages:

- `WrittenOnce`: `Spec => []NothingTwice`, and `KeptWholeAndInOrder`: `Spec => []KeptInOrder`. What was written is in four sequences,
  `got`, `kern`, `data` and `wt_buff`; a step moves a boundary between two of them, adds a new message at an end, or leaves bytes out. The
  invariant adds that `data` is empty between calls, that `_wt_buff` is empty during a call unless a message is overtaking it, and that every byte is of a message written already
  (`SendTypes`, `SendOrder`, `OnlyWritten`).

`AccountsProofs`, for all names, passwords, numbers of requests and of faults:

- `TypeCorrect` and `Refinement` (`Spec => ImplementsService`). The invariant: ids in use are below `next_uid`; a name whose insert was
  answered has a row; and what is being answered is the row of the name and password of the request (`UidsBelow`, `RegisteredHaveRows`, `OwnRow`).
- `AccountsAgree`: `Spec => []OneAccount`. It follows from `AccountService` alone, and so of whatever implements it.
- `AnswersAreTrue`: `Spec => Truthful`, an action property. The invariant `FaultFree`: as long as nothing has failed no insert is on its way behind the process's
  back, and a name that the check found free is still free at the insert.

`FramingProofs`, for any connections, any sequences of messages with values of their types (`PeersAssumption`: numbers of 32 bits, strings of bytes, lengths
that are ints; zero bytes, unknown ids and senseless lengths included), any sizes of reads and buffers, and whatever lies in memory behind a `LineBuffer`:

- `FramingImplementsChannel`: `Spec => ImplementsChannel`, and `ReadHasRoom`: `Spec => []RoomToRead`, from one invariant: `StaysAligned` says that the bytes of the
  frames not taken yet are those in `rd_buff`, those in the `LineBuffer` while it is read, and those on their way, in this order (`Behind`); the rest is that a read leaves a
  byte of room (`HasRoom`) and that `parse_buff` has one of the sizes it can grow to. Without alignment a length would be read from the middle of a frame. A turn of
  `parse_package` moves the boundary by one frame (`BehindTake`); the other steps move bytes between the three parts.
- That what is taken is the message that was written is a chain of lemmas about data: where the parts of a concatenation lie (`FlattenParts`); what `Varint` writes, how long it is,
  where it ends and that `ReadVarint` reads it back, negative numbers included (`VarintFacts`, `VarintRead`); that `ByteSize` is the length of what is written
  (`SerializeFacts`), which is the length in the header; that reading a body up to its first zero yields `Left`, for every class and every set of
  fields (`MergeOfBody`); that a body without a zero byte has only fields without one (`ZeroFreeBody`), which is the case of a body as long as the `LineBuffer`, where what follows
  in memory is read too; and that `_parse_buff`, cleaned, grown and filled, has zeros behind the body (`FilledIs`, `CStringIs`), whatever it held.
- `MessagesReadBack`: `Codec`, which is of `Protobuf` alone. For every class and all values of its fields, `ByteSize` is the length of what `Serialize` writes and `Merge`
  reads the same fields from it; and from any bytes at all, however they are cut or nonsensical, `Merge` reads nothing but values of the fields' types.
- Induction over bytes, fields and buffer sizes is done with a set and the least element that is not in it (`Induct`), since the library's induction theorems
  cannot be applied here; a recursive function is unfolded once it is shown to exist.
- The attempt found a mistake in the model: the cases of `VarintSize` overlapped, which TLC resolves by taking the first but the logic does not. They are nested now.

`MessagesProofs`, for any number of objects and of strings of the user, any values of the types, and each of the eleven classes. The premise is `Codec`, which is
`MessagesReadBack`: without it nothing would be known of what `ParseFromString` puts into the members:

- `StringsOwnedOnce`: `Spec => []OwnedOnce`, `ObjectsStayValues`: `Spec => []ObjectsAreValues`, `MessagesWriteWhatTheyHold`: `Spec => []WritesWhatItHolds`, from one inductive
  invariant, `Inv`. Its parts: `Good`, every owner, a string member or a hand of the user, has the shared empty string, or no string, or a string of the heap that no
  other owner has, and no string is without owner; `Blanks`, a string member that is set has a string of its own, and what is not set reads as the default
  even where an old string is still kept for it; and `val` and `strings` are what objects and hands hold. None of the three properties is inductive without `Blanks`:
  `Clear` skips what is not set, and `release` of an unset member hands over the string that is kept there, which must be empty.
- Ownership is argued once for owners of any kind (`Own`: `OwnWrite`, `OwnNew`, `OwnDelete`, `OwnSwap`), with members leaving and joining the owners
  one by one; that there is a free address while an owner has no string is counting (`RoomLeft`).
- Each accessor changes one member and no other reads differently (`SetIs`, `ClearIs`, `ReleaseIs`, `SetAllocatedIs`). The calls that go through all members of a
  class are folds over one to three members, which are unfolded (`DeleteFolds`, `ResetFolds`, `CopyFolds`, `ReadFolds`) and followed member by member
  (`TurnedAll`). The tables of the classes are looked at in one lemma only (`ClassesAre`): the rest uses what is true of all of them, such as that
  two members of a class never share a has-bit and that `MergeFrom` and `IsInitialized` forget none.
- What a call makes of the objects as values is said by one lemma for each (`CtorHolds`, `ClearAllHolds`, `MergedHolds`, `CopyHolds`, `CopiedHolds`, `ParsedHolds`, `BecomesHolds`,
  `HandedInv`), which is what `MessageValues` says of it.

Only model-checked: all liveness (`AddTerminates` and `AllParsed` included), since
liveness under fairness and ENABLED are out of the prover's reach.

## 5. Plan

All that the first plan named is there: the ring buffer, the Gate, the Logic, their composition, sending, framing, accounts,
the lifecycle and the message objects, with proofs of every safety property that a passing run checks. What would come next, most important first:

1. `SocketSend` under the Gate and the Logic, so that what overtakes in `_wt_buff` reaches the properties of `GateLogic`.
2. A Logic that verifies, goes and comes back in `GateLogic`.

## 6. Where the code departs from its comments

Shown by a run:

- `GateWorker.hpp:22`: a worker stands for one Logic connection. It outlives it and writes to its number
  (`gate_forward`).
- `login.proto:46`: fields are `required`. A body with a zero byte is cut at it, because it is used as a C string (`MsgCenter.cpp:226`), and the
  result of the parser is ignored (`MsgCenter.cpp:235`): a message is handed out without its fields, for example when a uid is 0
  (`framing_required`).

Met while modelling, and built into the models as the code has it:

- `GateWorker.hpp:64`: only connect events are handed over. A login without a worker is dropped but stays
  in the IO's epoll, and its read events are handed to a later worker.
- `GateWorker.hpp:37`: `_fd_set` records the worker's user descriptors. A close before `del_fd` lets it
  lose one that is in use.
- `GateIO.cpp:116`: an unknown connection must first log in or verify. A frame left behind an unknown id logs in
  the next connection with the number: hence the assumption of section 3.
- `SocketNode.hpp:53`: `_can_wt` says whether the socket can be written. It is never cleared, so that a message written
  after a refusal overtakes the rest of the refused one (`trouble` in `SocketSend`).
- `SocketOp.cpp:164`: `send` adds `one_len`, not what `::write` took, to `wt_len`, which is how bytes are lost.
- `TcpOp.cpp:218`: `event_op` compares `wt_ret & FD_EVENT_WRITE`, which is 0 or 2, with `true`, so that `epoll_out` is
  never called and `out` stays FALSE.
- `TcpOp.cpp:121`, `EpollOp.cpp:99`: `unit()` closes a number and keeps it. This does no harm (`NumbersOwn`) but in one case: a Gate
  gives up the Logic of its own process, `event_op` closes `LogicIO`'s socket, and its `unit()` closes the number again when a
  user's connection may have it (`dropped`).
- `Gate.cpp:161`: a registration whose last query fails answers success, with the id -1.

## 7. Not modelled

- `LogicMngr` (no caller), `LogicNode`, `LogicUser` (empty), more than one Logic worker (`Logic::init` makes one), `UserManager::del_user`
  and `get_conn`, `GateWorker::kick_out` (no callers), `IThread`'s `timer_events` hooks (they only log).
- `Timer`, `Time`, `Encrypt`, `utils`, `comm/*`, Redis: helpers without behaviour the servers' correctness depends on. Logging and
  the wording of messages everywhere.
- The data race on `_fd_set` (`GateIO.cpp:355` inserts without the mutex): what a `std::set` does then is undefined, and nothing is left to
  state of it. In the model its steps are atomic.
- Of the database: the SQL text, its collation (names that it takes for equal are one name) and the connection to it.
- Of the message classes: unknown fields, the cached size (it matters for nested messages, which there are none of), reflection, the
  default instances and the registration of descriptors.
- `tests/`, `Includes/rapidjson` (only a test uses it), makefiles.
