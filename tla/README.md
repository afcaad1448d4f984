# Verification of netframework

netframework is a small C++ library for remote method calls: a worker thread
class, handler objects that own one, two network servers (one on Boost.Asio with
SSL, one on `select()`), a packet format, a text serialisation and a wrapper of
the MySQL client. This directory holds TLA+ models of its parts, the TLC
configurations that check them on small instances, and TLAPS proofs about
all of them, for instances of every size.

```
tlc -workers 2 -config WorkerThread.cfg MCWorkerThread    # one run
tlapm HandlerBaseProofs.tla                               # the proofs of one module
```

## 1. Inventory

| Part | State it keeps | Operations | Meets others through |
|---|---|---|---|
| `WorkerThread` (lib/workerthread) | `m_queue`, `m_timerExit`, two threads | `CreateThread`, `PostMsg`, `ExitThread`, destructor, `Process`, `TimerThread` | callbacks run on its thread; any thread posts |
| `ThreadedClass` (lib/threadedclass.h) | its `WorkerThread` | `checkThread`: run here or post | base of every handler |
| `HandlerBase`, `NetInfo` (lib/handlerbase, netinfo) | `functions_`, `currNetInfo_` | `handleCall`, `sendAnswer`, `REGISTER_RMI*` | called by `HandlerManager`, answers through `NetInfo`'s callback |
| `HandlerManager`, `RMIPacket` | `handlers_`, `netInfos_`, `sendData_` | `registerHandler`, `handlePacket` | from `SessionImpl` to `HandlerBase` |
| `SessionImpl` (lib/netbase.cpp) | `data_`, `incBuffer_`, two output buffers | handshake, `processRead`, `sendData`, `handleWrite`, `delete this` | Asio completion handlers on one thread |
| `NetBase::Impl` (lib/netbase.cpp) | `sessions_`, acceptor, `io_context_` | `start_accept`, `handleAccept`, `clientSessionDestroyed`, `start`, `stop` | owns sessions by raw pointer |
| `coreproto` (lib/coreproto.h) | none | `createPacket`, `isPacketStart`, `isPacketComplete`, `fetchData` | used by sessions and `ClientNet` |
| `Server`, `ClientConnection` (lib/server) | `clientSockets`, `writingSockets`, `dataToSend`, fd sets | `poll`, `sendData`, `receiveDataFromSocket`, `sendDataToSocket`, `init`, `listen` | application callbacks; any thread may call `sendData` |
| serialisation, `RemoteCall` (lib/serialisation, remotecall.h) | none | `serialize`, `nextToken`, `deserialize`, `ObjectSer`, `ObjectDeser`, `make_call` | both ends of a call |
| `retvalserialisation.h`, `consthelpers.hpp` | none | `serialiseAnswer`, `parseAnswer` | answers of calls |
| `ClientNet` (lib/clientnet) | a socket, `reply_` | blocking `connect`, `send` | `NetBase` on the other end |
| `Client` (lib/client) | a socket | blocking `connect` | unfinished |
| `PreparedStatement`, `MySQL` (dblib) | bindings, column map, `isConnected_` | `connect`, `prepare`, `bindValue`, `execute`, `nextResult`, `value` | MySQL client library, through pointers to the bindings |
| `Log` | a `FILE*` | `log` | everyone |

What is hard here: messages of three kinds of senders in one queue, with a timer
that posts once more after it was told to stop; destruction of objects whose
threads still run; one `currNetInfo_` for nested calls; a stream that the network
cuts where it likes; completion handlers bound to raw pointers of objects that
delete themselves; a `select()` loop that shares a set of raw pointers with other
threads; a text format whose writer and reader disagree about a brace; a map of
raw pointers to handlers that their owner may destroy; a client that takes one
read for one reply; buffers that a database library reads and writes through
pointers while the vectors around them are resized.
`PROJECT.json` lists these hazards at their lines with the properties that watch
them.

What makes each part correct:

* worker thread: no lost wakeup, no lost or reordered callback, an exit that
  waits for the backlog, no thread after a destructor that could join it,
  termination;
* handler: each method sees its own client, each answer reaches its caller in
  order, every known call is answered;
* session: packets arrive intact and in step with the stream, nothing stale and
  nothing from behind a buffer is delivered;
* NetBase: the session list is exact, accepting never stops, writes do not
  overlap, messages keep their order and are written;
* remote calls: every call reaches the handler responsible for it, in order and
  under its client's id; a shutdown that joins the io thread before handlers are
  destroyed touches no destroyed one;
* client: what `send` returns is the reply to what it sent;
* server: the socket map is exact, waiting data is always somebody's job as long
  as the set of writers is not changed by two threads at once, no deleted
  connection is followed;
* serialisation: what was written is read back;
* prepared statement: parameters arrive as bound, values are of the current row,
  and the library writes only into buffers made for its query.

## 2. Modules

| Module | Models | Notes |
|---|---|---|
| `SerialExecutor` | abstract | what the worker promises: calls start one at a time, once, in order, until it closes |
| `WorkerThread` | lib/workerthread.cpp | refines `SerialExecutor` |
| `HandlerBase` | lib/handlerbase, threadedclass.h | extends `WorkerThread`: the queued callbacks are calls of `handleCall` |
| `HandlerTest` | test/handlertest.cpp | extends `HandlerBase` with the test's `sendAndWait` |
| `CoreProto` | lib/coreproto.h | packet format over streams of cells; extended by `Session` and `ClientNet` |
| `Session` | `SessionImpl::processRead` | one session and its byte stream |
| `NetBase` | the rest of lib/netbase.cpp | life of sessions, accepting, writing |
| `HandlerManager` | lib/handlermanager with its neighbours | composes sessions, dispatch and handlers, each neighbour as abstract as its own module allows |
| `ClientNet` | lib/clientnet.cpp | one client, a server that may repeat itself, a network |
| `Server` | POSIX part of lib/server.cpp | poll thread and one other sender |
| `PreparedStatement` | dblib/db.cpp, dblib/mysql_backend.cpp | one statement and the client library behind it |
| `Tokens` | lib/serialisation.cpp | the text format: writing ints, strings and lists, the tokeniser; pure functions without `RECURSIVE` |
| `Serialisation` | lib/serialisation, `make_call`, `readData`, `serialiseAnswer`, `parseAnswer`, rmipacket.h | extends `Tokens` with nested values and a round trip; uses `RECURSIVE`, hence no theorems |
| `MC*` | | instances for TLC |
| `HandlerBaseProofs`, `SessionProofs`, `NetBaseProofs`, `HandlerManagerProofs`, `ClientNetProofs`, `ServerProofs`, `PreparedStatementProofs` | | the theorems about the module each is named after; `HandlerBaseProofs` has those about `WorkerThread`, too, and `HandlerManagerProofs` those about `Tokens`, the text of the packets that it dispatches |
| `SequenceLemmas` | | facts about sequences, indices and smallest elements that several of these proofs need |

Definitions whose name has the form `X_Something` are deliberately wrong variants
of `X`; each one stands before `X`, and `PROJECT.json` says which property it
breaks.

### WorkerThread

`m_queue` holds records of a type and a number. Every access in the code is under
`m_mutex`, so one critical section is one step, and `Push` is the push and the
notify under one lock. `process` and `timer` are the program counters of the two
threads; being inside `m_cv.wait` is a state of its own, left by a notify or a
spurious wakeup. Callbacks are numbered by acceptance, and each message carries
the number of the last accepted callback, so a message in the queue shows its
place among them; the number is a history, no guard reads it. `m_timerExit`
starts with either value because the code does not initialise it. `TimerPush`
does not look at the flag, as the code does not.

`owner` follows the destructor. Run by any other thread it waits in `join()` until
`Process()` has returned. Run by a callback, on the worker's own thread, it cannot:
`join()` throws, the `catch` swallows the exception, and the destructor returns with
both threads running and the thread object leaked (`DestructorOnWorker`, `owner` is
`leaked`). What the two threads do from then on is undefined; the model only records
that one of them has used the object (`used`, `UseAfterDestruction`). `CleanExit` says
that this is the only way to such a use.

### HandlerBase

`frames` is the stack of `handleCall` activations on the worker: a call made on
the worker's own thread runs inline. `currNetInfo_` is set at the start and reset
at the end of an activation to a default `NetInfo`, whose `clientId_` the code
does not initialise: any value. The destructors run in C++ order: the members of
the derived class and of `HandlerBase`, then `~ThreadedClass` (which posts the
exit), then `thread_` (which joins, or cannot, when the method that runs is what
destroys the handler). A call that runs meanwhile uses destroyed
members: the model then stops with a `fault`, as it does when an exception leaves
the worker thread (unreadable arguments, an empty return callback).

### CoreProto and Session

The stream is made of cells: bytes, and the four bytes of the size as one cell
(cuts inside the size are not distinguished). `data_` keeps its old contents
behind the bytes of a read, because `isPacketComplete` looks at all of it.
`ProcessRead(n)` is the whole handler for any `n` the network returns. `pkgSize`
is a choice where the code compares it uninitialised. `aligned` records whether
all reads so far respected the packets (the header in one piece, no read across
packets, a packet that fits in one read): this is how a peer behaves that waits
for each packet to arrive, and under it the framing is exact. A cell knows whether
it ends a packet, and `Consumed` counts the ends among the cells read. For other cuts the
code delivers stale bytes or drops packets; the model shows both, and no
statement of the repository denies them.

### NetBase

One thread runs the `io_context`, so a completion handler is one step. `Stop` is the
moment when `run()` returns after `stop()`, between two completion handlers, and
`~NetBase` comes after the join of that thread, as in test/serverclienttest.cpp:66-67.
`ops` and
`inFlight` are the outstanding operations. Asio calls the handlers of aborted
operations with an error: `HandlerOnDeleted` is the second deletion that follows
when a read and a write were outstanding. Messages of a session are numbered in
the order of `sendData`; `written` is the set of those that a write has brought to
the peer. The code never clears the buffer it has written, so the model also sends
everything again for ever: a buffer is `InTurn` when what is new in it is what comes
next, in order.

### HandlerManager

The module joins three parts that have modules of their own. The sessions of
`NetBase` are connections whose packets arrive in order (`Session`, for aligned
reads), with the ids that `handleAccept` gives out. A handler's worker is a
`SerialExecutor`, which is what the worker of a handler is proved to be: `calls` are
the calls posted, `started` counts those begun, `busy` says one runs. A call ends as
in `HandlerBase`: unreadable arguments, or an answer through the empty return
callback of a `NetInfo` that nobody filled, throw and end the program; an unknown
signature is ignored. Packets are told apart by name and kind (readable or not, a
known signature or not, readable arguments or not). `registered` keeps the order of
registration, which `map::insert` makes significant. `CallsTraceable` compares, for
each handler and session, the places of the calls (`CallsFrom`) with the places of
the packets the handler is responsible for (`PacketsFor`): there is a bijection
between them that keeps the order and the contents. Handlers
are registered before `start()`: `handlers_` has no lock.

A read is two steps of the io thread: the packet is taken (`ProcessRead`, `inHand`),
and it is passed on to its handler (`PassOn`). The owner's steps fall anywhere between
them. `stop()` only sets `stopped`: no further completion is begun, and a packet in
hand is still passed on. The thread of `start()` can be joined when it holds none
(`JoinIoThread`). `early` records that a handler was destroyed before that join or
before it had finished its calls; `OrderlyShutdown` says that otherwise no thread uses
a destroyed handler. An owner that stops, sees nothing pending and destroys a handler
without the join does reach "use after destruction" in the model.

### ClientNet

`send` is two steps, the write and the one `read_some`, between which the server
and the network act. `reply_` keeps what longer replies left in it. The server
answers requests in order with any payload and may send its last packet once more,
as the swapped buffers of `NetBase` do; the network returns any part of what is
there. The error of a write is ignored and there is no timeout: a client whose
server does not answer stays in `send` until the connection breaks. `whole` records that every read so far was exactly one packet.

### Server

`init()` and `listen()` come first, with the outcomes of the system calls they
ignore: `listener` says what `listenSocket` is afterwards. A socket that is not
bound listens on a port nobody knows, one that does not listen makes `accept` fail,
and `FD_SET` of -1 is a choice between an abort and a bad descriptor.
`poll()` is cut where other threads can interfere: at the lock of
`writingSockets`, at `select()`, between the unlocked erase and the deletion of a
connection, and at each socket of a round. `sendData` by another thread is two
steps, one for each lock. Descriptors are the lowest free ones and are reused.
The erase in `poll()` takes no lock. If the other thread is in `sendData` it may
overlap the insert there: `EraseRaces` then ends the program or leaves any part of the
set, so that the registration of any connection may be gone, and `raced` records it.
`PendingScheduled` is claimed up to such a race; TLC finds it violated without that
condition.
`missed` records the connections that their round did not find writable, which
the code forgets. The application is taken to be careful: it does not start
`sendData` on a connection reported as disconnected, and its Disconnected
callback waits for one in progress. The listening socket has the lowest number (it is opened
before any client connects). The destructor closes it and leaves the connections.

### Tokens and Serialisation

Text is a sequence of characters; values are ints (digits), strings, sequences,
objects. `NextToken` follows the tokeniser, with its habit of taking the
character after a closing bracket, and `Restorable` says which texts survive it:
no brackets of an enclosing kind in strings, no backslash at the end of a string,
no comma in a string that is an element of a sequence. Strings come back with
their quotes escaped, as test/maintest.cpp expects. An answer carries the return
value and the arguments that are references to non-const objects (`retvals_`);
only the three-argument overload of `serialiseAnswer` exists. A packet
(`RMIPacket`) carries the argument list as a string; it comes back with its quotes
escaped, so string arguments reach the method with the backslashes.

### PreparedStatement

Parameters and columns live in vectors of `PSImpl`, and the client library is given
pointers to them. A binding of an int therefore remembers the allocation of
`paramBindData` it points into (`storage`), and `Pointee` is what the library reads
through it. Of the library (5.7) the model keeps what db.cpp can observe: the
prepared query, whether result buffers are bound (a prepare forgets them), whether
rows may be left, the row fetched last, and whether the handle has lost its
connection. Every call to it may fail. Queries are records of the number of question
marks in the text, the number of real parameters, and the columns; values are two
strings, one of them negative as a number and as long as its column. Writing behind
a vector or through a wrong pointer ends the model with a `fault`. `bound`, `sent`,
`got`, `columnsFor` are histories that only properties read.

## 3. Runs

| Run | Bounds | Shows |
|---|---|---|
| `worker` | 3 posts, 2 exits, 2 pending timer messages | eight properties of the worker, refinement and liveness included |
| `handler` | 3 posted calls, nesting 2, 3 clients | clients and answers are never mixed up; known calls are answered |
| `session` | 2 packets, buffer of 5 cells, sizes to 4 | framing for aligned reads; buffer contents and bounds for all cuts |
| `netbase` | 3 sessions, 3 messages each | session list, accept loop, writes |
| `rmi` | 3 handlers (2 with one name), 2 connections, 3 packets of 4 kinds | every call is traceable to a packet, shutdown order against the io thread and the workers, posted calls run |
| `client_net` | 3 requests, payloads to 4 cells, buffer of 5, one repetition | results are the replies to their requests |
| `server` | 3 connections on 2 descriptors, 3 sends | socket map, scheduling of data, no dangling writer |
| `serialisation` | strings to 2 characters over all special ones, nesting 2 | round trips |
| `prepared_statement` | 2 prepares of 4 queries, 2 values; binds, executes, fetches unbounded | parameters, values and buffers |
| `handler_test` | the test's one call | violation, see below |
| `session_large_packets` | 1 packet | violation |
| `serialisation_calls` | as `serialisation` | violation |

The bounds are enough for what the properties tell apart. Two exits and two timer
messages give a message before, between and after exits; three posts give a
callback in progress, one queued and one posted late. Three calls and nesting two
give an outer call disturbed by an inner one with neighbours on both sides. Two
packets are enough for one to spoil the next, and the buffer of five cells holds
an empty packet and one of two bytes but not one of four. Three messages fill
both output buffers and leave one more. Three connections on two descriptors force
a reuse. Three packets on two connections give two calls of one client around one of
another; with two handlers of one name and a third there are calls that must and
that must not be mixed. Three requests leave room for a reply that spoils the next
two. Two prepares are enough for every effect of a second query on what the first
left; everything else in that run is unbounded. Bounds appear in guards only (`MaxPosts`, `MaxExits`,
`MaxPendingTimers`, `MaxDepth`, `MaxPackets`, `MaxSessions`, `MaxSends`,
`MaxConns`, `MaxFd`, `MaxPrepares`). `TimerPush` ignores its bound once the exit was requested,
because there it would keep the worker from joining the timer.
Session, client and serialisation runs may stop (nothing more arrives), so deadlock
is not checked there.

### What the violation runs show

* `handler_test`: test/handlertest.cpp:64 expects the answer of the call, but
  `handleCall` only posts it, and `sendAndWait` returns `answer_` at once.
* `session_large_packets`: the check in `fetchData` for vectors
  (coreproto.h:61) is inverted, so a packet that needs more than one read is
  delivered empty, although coreproto.h:13 allows packets up to 1 GB.
* `serialisation_calls`: `make_call` takes the text before `ObjectSer`'s
  destructor writes the closing brace; `ObjectDeser` cuts one character
  nevertheless, `// cut '}'` (serialisation.cpp:93). A last string argument only
  loses its closing quote and survives; a last number loses its last digit.

## 4. Fairness

* `WorkerThread`, `HandlerBase`: weak fairness of the worker and of the timer
  thread (the operating system schedules both, callbacks return) and of the end of
  a join. Nobody has to post, to call `ExitThread` or to destroy the object.
* `HandlerManager`: weak fairness of every worker thread, and of the io thread while
  it has a packet in hand. Peers need not send, and nobody need stop or join.
* `NetBase`: every write completes, with or without an error.
* `Server`: the poll thread runs and `select()` returns while it waits for
  sockets to become writable (peers read or go away).

## 5. Proofs

The theorems hold for every value of the constants, and hence for any number of
posts, connections, packets, messages, clients or queries and behaviours of any
length. All of them are of the form `Spec => []P` except `ExitDrainsBacklog` (an
action property), the three refinements `Refinement`, `HandlerUsesWorker` and
`HandlerIsSerial`, and `ObjectIsRead` and `CallIsRead`, which are about functions.

| Module | Theorem | Property |
|---|---|---|
| `HandlerBaseProofs` | `TypeCorrect` | `TypeOK` of the worker |
| | `WakeupNotLost` | `NoLostWakeup` |
| | `CallsNotLost` | `NoCallLost` |
| | `CleanShutdown` | `CleanExit` |
| | `ExitDrainsBacklog` | `ExitAfterBacklog` |
| | `Refinement` | `ImplementsSerialExecutor` |
| | `HandlerTypeCorrect` | `HandlerTypeOK` |
| | `MethodsSeeTheirClient` | `OwnNetInfo` |
| | `AnswersReachTheirCallers` | `AnswersMatchCalls` |
| | `KnownCallsAnswered` | `OnlyUnknownUnanswered` |
| | `HandlerUsesWorker` | `HandlerSpec => Spec`, the worker's specification |
| | `HandlerIsSerial` | `ImplementsSerialExecutor` |
| `SessionProofs` | `TypeCorrect` | `TypeOK` |
| | `StaysInStep` | `FramingInStep` |
| | `BufferIsFresh` | `BufferIsRecentInput` |
| | `DeliveriesAreWithinBuffers` | `NoOverread` |
| `NetBaseProofs` | `TypeCorrect` | `TypeOK` |
| | `LookupsAreSafe` | `SessionsTracked` |
| | `AcceptsGoOn` | `OneAcceptPending` |
| | `SilentSessionsEndClean` | `NoOpOnDeleted` |
| | `MessagesInTurn` | `WritesInTurn` |
| `HandlerManagerProofs` | `TypeCorrect` | `TypeOK` |
| | `CallsAreThePackets` | `CallsTraceable` |
| | `ShutdownIsSafe` | `OrderlyShutdown` |
| | `ObjectIsRead` | a written object of scalars is read back, as in `ObjectsReadBack` |
| | `CallIsRead` | so are the arguments of a call, as in `CallsReadBack` |
| `ClientNetProofs` | `ResultsAreReplies` | `RepliesMatchRequests` |
| `ServerProofs` | `TypeCorrect` | `TypeOK` |
| | `LookupsFindLive` | `ClientSocketsLive` |
| | `NothingForgotten` | `PendingScheduled` |
| | `WritersExist` | `NoDanglingWriter` |
| `PreparedStatementProofs` | `TypeCorrect` | `TypeOK` |
| | `ParametersArrive` | `ExecutedAsBound` |
| | `BuffersSafe` | `BuffersFitQuery` |
| | `ValuesAreCurrent` | `ValueOfCurrentRow` |

Each proof has an inductive invariant (`IInv`; `HandlerInv` for the handler) with
one lemma or step for each action of `Next`, and each invariant was checked by TLC
on the instance of the component's run before it was proved.

**Assumptions.** Bounds are natural numbers. Beyond that:
`NetBase` has room for one session at least (`start_accept` makes one); `Server` has
room for one descriptor besides the listening one; `Session` assumes that `data_` is
larger than a header and smaller than the largest packet (`max_length` is 1024,
`maxPacketSize` 0x3FFFFFFF), that payloads are bytes and not larger than
`maxPacketSize`, and that the oversize claims are; `ClientNet` assumes the same of the
server's payloads; `HandlerBase`, `HandlerManager`
and `PreparedStatement` say what calls, packets and queries are (a query has at
least as many question marks in its text as parameters). TLC evaluates all of these
on the instances it checks.

**WorkerThread.** `IInv` adds two facts. `ThreadsInStep` relates the places of the
two threads: the timer runs and `m_timerExit` is false while the worker serves
messages, and the timer is done once the worker drains the queue; this is what makes
the drain final for timer messages and a destructor that joins safe. `QueueNumbered` says
that the numbers in the queue count the callbacks from `lastRun + 1` to `accepted`
without gaps or repetitions, each other message repeating the number before it; from
it follow that no callback is lost, that the exit message is reached with nothing
before it left, and that the callback at the front is the next one of the abstract
executor. The lemmas `PushKeepsNumbering`, `PopKeepsNumbering`, `PushKeepsCalls` and
`PopKeepsCalls` say what a push and a pop do to the numbering.

**HandlerBase.** Every step of a handler is a step of its worker thread or leaves it
alone (`HandlerStepsAreWorkerSteps`), so a handler implements its worker
(`HandlerUsesWorker`), everything proved of the worker holds of the handler's, and
`HandlerManager` may take a handler for a serial executor (`HandlerIsSerial`). The
worker's `IInv` carries over without being proved again. Added are: the posted calls are the accepted callbacks
(`CallsCounted`), the stack of activations belongs to the callback in progress and
all but the innermost have made their nested call (`FramesInStep`), and what is
answered is what was started, except for the call that runs (`AnswersInStep`,
`LastCallSettled`).

**Session.** `NoOverread` and `BufferIsRecentInput` hold for every cut of the stream
and need only that nothing in the stream or in `data_` is itself from behind a
buffer. `FramingInStep` needs to know the stream: `Layout(e, sent, wire)` says that
`wire` is the packets with the payloads `sent`, one after the other, `e[k]` being the
end of the k-th, and `Progress(e, k)` that the first k are read and dealt with and
that what was read beyond them is the beginning of a packet too large for `data_` and
is all in `incBuffer_`. The two lemmas `ReadBeginning` and `ReadFurther` follow
`processRead` for an empty and for a filled `incBuffer_`; a read keeps the rest of
the invariant however it is cut (`ReadBase`).

**NetBase.** `LifeInv` ties the outstanding operations of a session to its place in
its life and the ids to the counter. `BuffersAgree` is about one session: what is
being written comes in turn after what was written, what waits comes in turn after
both, and together they are all messages sent. It speaks of values, not of
variables, so one lemma for each of swapping, appending and completing serves every
session.

**HandlerManager.** `FirstIsFound` connects the order of registration with the map,
`SessionsFirst` makes registration end before the first session, and `IdsDiffer`
keeps calls of different sessions apart; with them a packet extends the bijection of
`CallsTraceable` at its end for the handler responsible, and for no other.
`DestroyedIdle` (a handler that was not destroyed early was destroyed after the join and
has nothing to do) and `PassedOnByIoThread` (a packet in hand means that the io thread
was not joined) are the reason for `OrderlyShutdown`.

**Text.** `ObjectIsRead` and `CallIsRead` are about lists of any length of ints and
strings of any length, over any set of characters that has those of the format. Their
conclusion, `FieldsRead`, says that reading tokens one after the other, as
`ObjectDeser` does, gives the written values in order (strings with their quotes
escaped) and leaves nothing. Strings must not end in a backslash (the quote behind it
would be taken for an escaped one) or contain a closing brace; opening braces, commas,
brackets and quotes are allowed, which is more than `Restorable` allows, and enough
for the data of a call inside a packet. The theorems cover an `RMIPacket`, the
arguments of `make_call` and the text of `serialiseAnswer` as long as the values are
not nested. The argument goes from `EscapeFacts` (every quote that
`replaceInString` leaves has a backslash before it, and the last character stays
what it was) over the two kinds of tokens (`StringTokenFacts`, `PlainTokenFacts`)
and the layout of a list (`FieldsWritten`) to `FieldsAreRead`, which also holds when
the last quote is missing: `CallIsRead` rests on that. `FlattenSeq` is
a recursive function; `FlattenFacts` and `FlattenLayout` in `SequenceLemmas` show
that it exists and what it computes, by taking the smallest index at which the claim
fails. The characters of the format have names because the SMT backend fails on
string literals with punctuation.

**ClientNet.** `StreamInStep` describes the stream with `Layout` as in `SessionProofs`,
and says that as long as all reads were whole packets the client has read exactly as
many packets as it has results; the end marks of the cells are needed here, because
`whole` is defined by them and `WholeRead` must conclude from them that a read was the
next packet and nothing else. `ResultsArePackets` says what those results are: the
size in the header makes `fetchData` take the payload of this packet and nothing
that a longer one left in `reply_`. `Counts` relates results, requests and packets: a
server that sends nothing twice is never ahead of the requests, so that nothing is left to
be read between two calls.

**Server.** The invariant says what each place in `poll()` may rely on: at `select()`
the connections taken from `writingSockets` exist (`SelectSound`), in a round the
sockets still to be serviced are in use (`RoundSound`), between erasing and deleting
a connection nobody registers it again unless another thread sends (`ClosingSound`).
A race on the set of writers takes another sender, and the socket map does not depend on
that set: only `PendingScheduled` has to exclude it.

**PreparedStatement.** A binding made since the last `prepare` points into the vector
that is there now (`BindingsCurrent`), every real parameter has a binding
(`ParamsHaveBindings`), bound columns hold the row fetched last (`BuffersHoldRow`),
and rows imply columns (`RowsHaveColumns`).

**Only model-checked.** Liveness (`DueCallsRun`, `ShutdownCompletes`, `CallsAnswered`,
`SendsWritten`, `PacketsRun`, `DataSent`): fairness is out of the prover's reach.
`ObjectsReadBack`, `CallsReadBack` and `AnswersReadBack` for nested objects and for
sequences: their reader and writer are `RECURSIVE` operators, and the prover does
without its SMT backend in a module that has one; what is proved of them is
`ObjectIsRead` and `CallIsRead`, for values that are not nested.
The violation runs are counterexamples and need no proof. Properties that would select
subsequences with a predicate (`SelectSeq`) are stated with index sets instead,
because the provers do not reason about that operator.

## 6. Not modelled

* The Windows branch of `Server::poll`, which is not built together with the
  other one.
* `Client`: unfinished (`sendData` is declared and not defined) and unused. Its
  `connect` takes the result 0 of the system call, success, for a failure.
* `Database::setSchema` and `execute`, which change nothing on the client's side.
* Contents and partial sends of `ClientConnection` data: `dataToSend` is a
  number, and `receivedData` with the application's completeness callback only
  decides whether a callback may send.
* Registration of handlers while the network runs, and descriptors beyond
  `FD_SETSIZE`: memory under a race or behind an array has no model here. What the
  threads of a `WorkerThread` do after a destructor that could not join, and what a
  `writingSockets` damaged by the race does later, are not followed either.
* The SSL layer, Asio, the MySQL client library and the C library, except for the behaviour the code relies
  on (marked external in `PROJECT.json`).
* Cuts inside the four bytes of a size; negative numbers and overflow in
  `std::stoi`.
* `Log` (formatting, and one `fputs` for each part of a line), `ProtocolBase` (a
  name), the entry point: no state that matters.

## 7. State of the project

Modelled are the worker thread with its abstract specification, handlers, dispatch of
remote calls, sessions, NetBase, the Asio client, the select server, serialisation and
prepared statements. Every safety property of the runs `worker`, `handler`, `session`,
`netbase`, `rmi`, `client_net`, `server` and `prepared_statement` is proved, and of
`serialisation` the part about values that are not nested. What could follow: the same
for nested objects, which needs the writer and the reader as recursive functions over
a set of values, and an induction over the depth of a value.
