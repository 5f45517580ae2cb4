# Verification of async-echo-server

TLA+ models of the echo server in `src/`, the TLC runs that check them on small
instances, and TLAPS proofs of the properties that matter most. The models are
translated from the code of `Server-version-3-multi-thread/` ("the server" below);
where `Server-version-3/` ("version 3") or `Server/` ("version 2.1") differ in a way
a property can tell, the model has both: the difference is a constant, or a variable
that is chosen in `Init` and never changes, so that one run goes through both
programs.

## The system

| Component | State | Operations | Threads |
|---|---|---|---|
| wire format (`MsgNode.cpp`, `Server/Session.h`, clients) | none | write and read id and length | all |
| `CSession`, read side | `_data`, `_recv_head_node`, `_recv_msg_node`, `_b_head_parse` | `Start`, `HandleRead` | the session's io_context |
| `CSession`, write side | `_send_que`, the socket | `Send`, `HandleWrite`, `Close` | logic thread, io_context |
| `LogicSystem` | `_msg_que`, `_mutex`, `_consume`, `_b_stop`, `_fun_callbacks` | constructor, `PostMsgToQue`, `DealMsg`, `HelloWordCallBack`, destructor | all io_contexts, the worker, main |
| `Singleton` | `_instance` | `GetInstance` | all |
| `CServer` | `_sessions`, the acceptor | `StartAccept`, `HandleAccept`, `ClearSession` | main's io_context, pool |
| `AsioIOServicePool` | io_contexts, threads, `_nextIOService` | `GetIOService`, `Stop` | main |
| `main` | io_context, signal set | start, signal, shutdown | main |
| clients | one socket per thread | request and reply loop | one or two threads (`json-Client`: ten) |

How they work together: the acceptor gives each new connection to an io_context of
the pool (round robin), which one thread runs. `HandleRead` cuts what arrives into
messages and posts each, with a `shared_ptr` to its session, to the `LogicSystem`.
Its worker looks up the callback of the message's id; the only callback parses the
body as JSON and hands an answer to the session's `Send`. `Send` queues it, and
`async_write`/`HandleWrite` send the queue one node at a time. On an error a session
closes its socket and has the server erase it.

What is hard: the byte stream comes in arbitrary pieces; four kinds of threads meet
in two queues; a notification is given only on the empty-to-non-empty transition and
outside the lock; `_b_stop` is written without the lock; writes go on while the
other side closes the socket; lengths and ids are signed shorts. `PROJECT.json`
lists these hazards at their lines, with the properties that cover them.

What makes each part correct:

- wire format: both sides read what the other one wrote;
- read side: the frames of the stream are posted whole, once and in order, whatever
  the pieces; a session never goes deaf; it is dropped only for cause;
- write side: one write at a time, from a buffer that is alive; no stall, no loss on
  a working connection; a bounded queue;
- logic layer: order, one answer per known message, no lost wakeup, nothing left
  behind, an end;
- table and pool: a session is in the table exactly as long as it lives, the
  io_contexts get the same share;
- shutdown: the signal is noticed, every thread ends, in an order in which nothing
  dangles;
- the whole: a client gets the answer to each of its requests, once and in order.

## Modules

| Module | What it is |
|---|---|
| `WireFormat` | operators: 16-bit fields, byte order, narrowing, sign |
| `HeaderExchange`, `MCHeaderExchange` | client and server exchange headers, for each version |
| `FrameReader`, `MCFrameReader` | read side of one session |
| `SendService` | abstract specification of a session's write side |
| `SendQueue` | write side of one session; refines `SendService` |
| `SessionTable` | acceptor, pool and table, with several sessions |
| `LogicService` | abstract specification of the logic layer |
| `LogicSystem` | the logic layer; refines `LogicService` |
| `SignalWait` | version 3's `main` and its signal handler |
| `Shutdown` | the end of both server programs, from the signal to the statics |
| `DirectEcho` | a session of version 2.1, whose `HandleRead` sends itself |
| `EchoService` | abstract specification of the server with its clients |
| `EchoServer` | clients, sessions and logic layer together; refines `EchoService` |
| `HeaderExchangeProofs` (with `WireFormat`), `FrameReaderProofs`, `SendQueueProofs`, `LogicSystemProofs`, `SessionTableProofs`, `ShutdownProofs` (with `SignalWait`), `DirectEchoProofs`, `EchoServerProofs` | theorems and proofs |

**WireFormat.** A header is a sequence of bytes in memory order on a little-endian
host. `EncodeShort`/`DecodeShort` are what `SendNode` and `HandleRead` do:
`host_to_network_short` and `memcpy`, and back. The fields are signed, so
`DecodeShort` ends in `AsShort`. The codecs of version 2.1 (`MsgNodeHead`) and of
`SyncClient` (`SyncClientHead`, `SyncClientLen`) are kept as they are.

**FrameReader.** `stream` is what the peer sends, with the positions where its
frames begin; the properties use these positions, the handler does not. `read` is
the state of the one `async_read_some`; `ReadSome(n)` moves any n bytes up to
`MAX_LENGTH` into `data`, `ReadFails` ends the connection. `HandleRead` begins the
handler and each iteration of its loop is a step, one action per branch:
`HeadPartial`, `HeadRefused`, `RecvNodeThrows`, `HeadThenPartialBody`,
`HeadThenWholeBody`, `BodyPartial`, `BodyWhole`. The code arms the next read before
it sets `_b_head_parse`; `SetHeadParse` is a step of its own so that a completion
may come in between. `head` and `msg` are the nodes' first `_cur_len` bytes. The
cases of `life` tell how a session ends: `Close` and `ClearSession`, `ClearSession`
alone, or an exception that the handler catches.

A negative length passes `HandleRead`'s test. Below -1 the allocation of the node
throws (`RecvNodeThrows`). For -1 it does not: `new char[0]` succeeds, and because
`bytes_transferred < msg_len` compares a `size_t` with a short (`size_less`), the body
always counts as partial. All the peer sends from then on, up to `MAX_LENGTH` bytes a
read, is copied behind an array of no bytes, and the read is re-armed. The model does
the same: `HeadThenPartialBody` and `BodyPartial` put the bytes into the node and
`overrun` records it. Such a write is undefined behaviour; afterwards the process may
end at any moment (`Crash`) or live on with its handlers running as before. `NodeInv`
states that this header is the only way a node gets more bytes than fit in it and
that it comes after every frame of the stream has been posted; `Framing`,
`RefusedForCause` and the first part of `NodeInv` speak of the time before it, and
`NeverDeaf` and `TypeOK` of all the time. The map names version 3's code for the
branches; the multi-thread version differs by the `try` block alone. With `WithId =
FALSE` the header is the length only, which is version 2.1.

**SendQueue.** Nodes are numbered as `Send` accepts them. `writes` is a sequence of
operations, not one operation, so that a second `async_write` would be seen; each
puts its node on `wire` in `Parts` pieces. `Send` and the success branch of
`HandleWrite` hold `_send_lock` throughout, so each is one step. `socket` goes from
open to broken (the connection fails) or closed (`Close`); an operation on a socket
that is not open fails, one that has already completed is handled as a success, as
asio does. After an error the queue is left as it is. The same code is in version 3.
`Send` tests the length with `>` before it pushes, so the queue holds one node more
than `MAX_SENDQUE`, which `src/README.md` calls its maximum (`QueueBound`).

**SendService.** What those that call `Send` may rely on: a node is accepted while
fewer than `MAX_SENDQUE` wait and refused only if that many do; the peer gets the
accepted ones once, in the order of the calls, and all of them as long as the
connection works. `SendQueue` implements it with `delivered` mapped to the nodes that
have gone out whole and `up` to an open socket. With exactly `MAX_SENDQUE` nodes
waiting the service leaves both outcomes open, and has to: the queue then holds that
many nodes, or one more that has gone out and whose `HandleWrite` has not run.
`EchoServer` and `DirectEcho` take a write as one step on the strength of this.

**LogicSystem.** A step is what a thread does between two points where another one
can interfere. Producers go through `GetInstance` (with the construction in
`call_once`), lock, push, unlock, notify. The worker's `wait` releases the mutex and
sleeps in one step and may wake up by itself. The callback is a step of its own,
with the mutex held as in the code. The destructor runs when the producers are idle,
because `main` has joined the pool by then; it writes `b_stop` without the mutex.
`notifyUnderLock` tells version 3 from the multi-thread version. A producer that
wants the mutex waits while a callback runs (`DealMsg` holds it), which the README's
reason for a logic layer would not lead one to expect. Messages are model values:
those in `Known` have a callback, those in `IllTyped` make it throw, which ends the
process.

**LogicService.** What the sessions may rely on: a FIFO of pending messages, dealt
with one at a time. `LogicSystem` implements it with `pending` mapped to `msg_que`
without the message that has been answered and not popped yet.

**SessionTable.** `accept` is the state of `async_accept` and `HandleAccept`, whose
`Start` and insertion are two steps (`HandleAcceptStart`, `HandleAcceptInsert`)
because the pool's thread may run the session's handlers in between; in version 3
(`pooled` is `FALSE`) they have to wait. A handler is one step here, by its outcome:
a message, an error, a refused header, an exception. `MaxMsgs` bounds the messages,
not the headers that are refused or throw, so a session may be refused while an
answer of its is being written. `Held` lists what has a
`shared_ptr` to a session. `early` records the sessions that erased themselves
before they were inserted, and is there for the properties only.

**HeaderExchange.** One connection, request and reply in turn; `meant` is what the
sender means, `heard` what the receiver decodes. An answer whose node size is
negative as a short makes the allocation throw, which is why no answer of 32764 bytes
or more goes out with a negative length (`ReplyUnderstood`). From 65536 bytes on the
size wraps round and the answer goes out with a length that is too small; the
property stops there. `ExchangeAssumption` leaves out the few sizes whose narrowed
value makes the copy into the node undefined.

**SignalWait.** `frames` holds, for each thread, the signal handlers that run on top
of it: the kernel may deliver a signal to `main`'s own thread between any two of its
steps, and `SIGTERM` while the handler of `SIGINT` runs. The handler locks
`mutex_terminated`, which is not recursive: if the thread underneath holds it, the
thread blocks itself (`BlockedOnItself`). The loop in `main` tests
`is_server_terminated` without the mutex, so a notification between the test and the
wait is lost; `missed` records that. The properties say that these two are the only
ways in which a signal does not end the wait, and that a second signal repairs the
first. The specification's names begin with `Wait` because `ShutdownProofs` extends
both this module and `Shutdown`.

**Shutdown.** `main` goes through the lists the code goes through: `Stop`'s loop
over the io_contexts, its loop of joins, the end of the `try` block, the static
instances in the reverse order of their registration (`at` is the position in the
list). An io_context's thread polls, is in a handler, has exited or thrown; the handlers
appear by what they use: a handler with an error uses the `CServer`, one with a
message the `LogicSystem`, and the worker a socket, which belongs to an io_context.
`gone` is what has been destroyed and `dangling` what was used after that. The
constructor of `CServer` may throw (the port is in use): `main` of the pooled
program then leaves its block with the pool's threads still joinable, and the pool's
destructor ends the process. An exception that no `try` block of its thread catches
ends the process wherever `main` is: one of the worker's, in both programs
(`WorkerThrows`), and in version 3 one of the network thread's, from the constructor
of `CServer` or from a `HandleRead` with a length below -1 (`HandleThrows`), also in a
handler still under way after `ioc.stop()`. The pooled server's `HandleRead` catches
the same exception. `TerminatedForCause` says that these, and the pooled server that
could not be constructed, are all: no thread is left unjoined on the way from `Stop`
to the end. `pooled` tells the two programs apart. In version 3 the
worker does use something destroyed: the io_context is a local of `main`, and
messages still in the queue when `main` leaves its block are answered on its
sockets. `NothingDangles` makes that one exception.

**DirectEcho.** In version 2.1 a `HandleRead` calls `Send` for every message of a
read before any `HandleWrite` can run, on the server's only thread. A peer that
pipelines its requests can therefore fill the send queue by itself, and `Send` then
discards messages. `window` bounds the requests it leaves unanswered:
`MAX_SENDQUEUE` of them are safe; with one more a message does get lost, because the
node whose write has completed stays in the queue until `HandleWrite`.

**EchoServer, EchoService.** The threads of `json-Client`, each with one connection
and one request under way, the sessions of version 3, and the logic layer's queue as
`LogicService` promises it. A message is the number of its request, a connection may
fail at any time, and a session that has been closed still gets answers into its
queue. `EchoService` says what a client may rely on: each request is answered on its
own connection, once and in order, unless it gives up.

## Runs

| Run | Result | What it shows |
|---|---|---|
| `frame_reader` | pass | all cuttings of all streams of up to 2 frames and a remainder: `Framing`, `NodeInv`, `NeverDeaf`, `RefusedForCause`, `AllFramesPosted` |
| `logic_system` | pass | 3 producers, 4 messages, notification under the lock or after it: `NoLostWakeup`, `NothingLeftBehind`, `ImplementsService` with liveness |
| `logic_stop` | violation | the destructor's notification can be lost and `join` hangs |
| `send_queue` | pass | 6 sends, limit 2, 3 pieces each: `WireInOrder`, `BufferAlive`, `NoStall`, `ImplementsSend` with liveness, and the bound of the queue in `TypeOK` |
| `session_table` | pass | 3 sessions, on 2 io_contexts or on one thread for everything: `Balanced`, `ReadersRegistered`, `DeadInTable`, `Released` |
| `header_exchange` | pass | version 3 and its clients: `RequestUnderstood`, `ReplyUnderstood` |
| `header_sync_client` | violation | version 2.1 drops `SyncClient` for a length it never sent |
| `header_reply_v2` | violation | version 2.1 sends a length of 0 with every answer |
| `direct_echo` | pass | 6 requests, of which the peer leaves 1 to all 6 unanswered: `EchoedInOrder`, `NothingDiscarded`, `AllEchoed`, `EndsReleased` |
| `echo_server` | pass | 2 clients with 3 requests each: `NothingLost`, `TwoQueued`, `ImplementsEcho` with liveness, `ClientsEnd` |
| `signal_wait` | pass | two signals on any of the threads, three times: `NoLostSignal`, `SignalEndsWait` |
| `shutdown` | pass | both programs: `NothingDangles`, `TerminatedForCause`, `AllJoined`, `StopReturns` |

Each violation is a finding in `PROJECT.json`, with the line of the README or of a
comment that says otherwise.

Bounds. `frame_reader` has `MAX_LENGTH = 5`, so that a read may hold more than a
header, less than a header, the end of a frame and the beginning of the next; the
header has both fields, as in the server and version 3; the bodies are empty, short,
of the maximal length, and one looks like a header; the remainders are empty, a
partial header, a partial body, an id too large, a length too large, a length
below -1, the length -1 with more bytes behind it. Two frames are enough to see a frame both after a frame and in front of a
remainder; the proof removes the bound, and covers version 2.1's header of one field
as well. `logic_system` needs two producers for a notification to come late, and a
third for a post between another's push and notification. Four messages let the
queue be empty, have one and have two while others are on their way. In `send_queue`
six sends overrun a queue of three. `session_table` has a session more than
io_contexts, so that two share one, and one message per session besides a header that
is refused or throws, which is enough for a write to be under way when the session
ends in any of its ways; what a second message changes is in `SendQueue`. The sets of `MCHeaderExchange` are the values on both sides of a byte,
of `MAX_LENGTH`, and of a short. `echo_server` needs two clients for messages to
overtake each other in the logic layer, and three requests so that a client asks
again with its previous node still in the send queue. `direct_echo` lets a read hold
several messages and the queue fill up and empty again. `signal_wait` has a thread
besides `main`'s, and enough signals for one to be lost, one to interrupt another
and one to come after. `shutdown` has two io_contexts, so that one has stopped while
the other one still posts.

Fairness. A thread that can go on does (`WF` of the handlers, of the worker, of
every producer inside `PostMsgToQue`, of the destructor once it has begun): the
operating system schedules them, and each io_context has a thread in `run`. A mutex
the worker keeps taking could in principle starve a producer; no liveness property
checked depends on a particular producer getting it, because the service promises
nothing for a message that is not posted yet. Reads and writes under way complete or
fail: TCP either makes progress or gives up. Spurious wakeups may happen at any
time, even for ever, but need not, so nothing can rely on them. Nothing is assumed
of the peer's decision to send, of `Send` being called, or of the process being
stopped. In `SignalWait` and `Shutdown` no signal has to come, and in `Shutdown`
nothing makes the worker see the stop request (see `logic_stop`), so `StopReturns`
ends where the singletons are destroyed. In `EchoServer` the clients go on too,
because `json-Client` loops by itself; a connection need not fail. (`FrameReader`
alone assumes that its one read completes with data or with an error: what it asks
is whether the session then does its part.)

## Proofs

For every value of the constants (any number of producers, messages and sends, any
`MAX_LENGTH`, any set of streams of any length):

- `FrameReader`: `TypeCorrect`, `FramingCorrect`, `BufferCorrect`, `NodesCorrect`,
  `NeverDeafCorrect`, `RefusalCorrect`, for both kinds of header. The inductive
  invariant has two parts. `Base` (types, `BufferInv`, `NeverDeaf`, a header node
  that is never full between iterations) holds whatever the peer sends. `Track` follows the position in the
  stream until a node of length -1 is made and is kept as it is from then on.
  `Framing` alone is not inductive: that a posted message is a frame follows from
  `NodesHoldFrame` (the nodes hold the bytes of the current frame up to the position),
  which needs `BufferInv` (which bytes of the stream are in `_data` and how many are
  used). The lemmas are about slices of sequences and about what `Advance` and
  `Rearm` do to the position. Assumed: `MaxLengthAssumption`, `WithIdAssumption` and
  `StreamsAssumption`, which says that the positions given with a stream are those
  of its frames; no stream is excluded.
- `LogicSystem`: `TypeCorrect`, `WakeupCorrect`, `NothingLeftCorrect`, `Refinement`.
  The inductive invariant adds to the properties who holds the mutex at which step,
  what of the life cycle goes with what (no stop request before the constructor,
  idle producers after it), that a worker about to wait has an empty queue, and that
  the message being called is in front of the queue. A lost wakeup is ruled out
  because nobody can push between the worker's test and its wait. `Refinement` is
  the safety part of `ImplementsService`; its liveness part is checked by TLC.
- `SendQueue`: `TypeCorrect`, `WireCorrect`, `BufferCorrect`, `NoStallCorrect`,
  `BoundCorrect`. The inductive invariant says that at most one write is under way
  and that it is of the front node, that the queue holds consecutive numbers up to
  `accepted`, and which piece has to come next on the wire. `Refinement` is the safety
  part of `ImplementsSend`. It needs one more invariant, `DeliveredInv`: the nodes
  that have not gone out are those in the queue but for a front node whose handler has
  not run. As long as the session works this follows from the others; once a write has
  failed the queue only grows and nothing goes out, so it has to be carried along.
- `SessionTable`: `TypeCorrect`, `ReadersRegisteredCorrect`, `DeadInTableCorrect`,
  `BalancedCorrect`, for the pool and for version 3's one thread. The invariant adds
  that nothing has happened to a session that has not been started and that the
  answers of a session do not outnumber its messages. `DeadInTable` rests on the
  fact that a session that ends before its insertion is the acceptor's last one. For
  `Balanced` the io_contexts in front of `_nextIOService` have one session more than
  those behind it.
- `HeaderExchange`: `RequestsUnderstood` for both server versions and
  `RepliesUnderstood` for version 3, with the clients that use the network byte
  order: all ids, lengths and sizes. `SentFits` is the fact that a size below 64 KB
  which does not fit a short makes the node's size negative. They rest on the arithmetic of `WireFormat`:
  `FieldRoundTrip`, that decoding inverts encoding on all shorts, and the lemmas that
  split a 16-bit number into its bytes and swap them twice.
- `Shutdown`: `TypeCorrect`, `NothingDanglesCorrect`, `TerminatedForCauseCorrect`,
  `AllJoinedCorrect`, for both programs. The invariant goes by where `main` is: by the
  time it leaves its block every thread has exited, or no session was ever accepted
  (the pooled server could not be constructed); the worker exits with an empty queue,
  before the pool goes. `UncaughtHolds` is the end by an exception of version 3's
  network thread, which is possible only while `main` has not joined it.
- `SignalWait`: `WaitTypeCorrect`, `OwnerCorrect`, `NoLostSignalCorrect`, for any
  number of threads and signals and any depth of handlers that interrupt each other.
  `NoLostSignal` is not inductive: it says nothing of `main` on its way to the wait.
  The invariant adds `OwnerInv`, that `mutex_terminated` belongs to `main` between its
  lock and its unlock or to the one handler past its lock, and `SleepInv`, that before
  the wait too a signal that `main` has not seen has a handler that will still notify,
  or its notification is recorded in `missed`. When `main` holds the mutex no handler
  does, so it cannot go to sleep on a signal that is not recorded. Assumed: the
  threads have names other than `main` and `nobody`.
- `DirectEcho`: `TypeCorrect`, `EchoedInOrderCorrect`, `NothingDiscardedCorrect`, for
  every limit of the queue, every window and every number of requests in a read. The
  invariant says that the requests on their way, from the answers the peer has through
  the queue and `_data` to the connection, are increasing and are all that were sent
  but for the discarded ones (`OrderInv`), and that the peer keeps to its window. With
  a window of at most `MAX_SENDQUEUE` the queue has room whenever `HandleRead` sends,
  because the message being echoed is itself one of those unanswered; the one node
  that may have been answered already is what the `>` in `Send` leaves room for.
- `EchoServer`: `TypeCorrect`, `NothingLostCorrect`, `TwoQueuedCorrect`,
  `Refinement`. The invariant adds to `NothingLost` that an answer on its way to the
  client is the one it waits for even after the connection has failed, and that only
  the front of a send queue is being written. `Refinement` is the safety part of
  `ImplementsEcho`.

Every invariant that a run checks is stated by a theorem. Only model-checked: the
liveness properties (`AllFramesPosted`, `Released`, `AllEchoed`, `EndsReleased`,
`ClientsEnd`, `StopReturns`, `SignalEndsWait`, and the liveness parts of
`ImplementsService`, `ImplementsSend` and `ImplementsEcho`; liveness under fairness is
out of the prover's reach), and the runs that end in a violation. No module uses
a `RECURSIVE` operator, which the prover does not support; the frames of a stream are
given by their positions instead, so that no induction over data is needed.

## Not modelled

- The text of messages and JSON: a callback answers or throws.
- What the bytes written outside a node (length -1) overwrite, beyond the end of the
  process, and the answer sizes that make the copy into a node undefined.
- The missing `return` of `json-Client`'s lambda, whose result type is `int` by the
  `return 0` of a failed connection and which flows off its end after its requests;
  `EchoServer` takes that for a return.
- The data race between `Close` and `async_write` on one socket, which asio does not
  define.
- `MAX_RECVQUE`, `_b_close` and `PrintAddress`, which nothing uses.
- `SyncClient`'s two threads: version 2.1 refuses the first header it sends
  (`header_sync_client`). A peer that pipelines as they do is in `DirectEcho`.
- A second signal while the pooled program is in `Stop`, which ends the process by
  default.
- Version 3's copy of the pool, which is not linked into its program.
- `json-Client-multi-thread` beyond its headers: one request, one answer.
- A pool of no io_context, which `GetIOService` indexes all the same.

## Plan

Done: wire format, read side, logic layer, write side, header exchange, session
table, shutdown with version 3's wait, the session of version 2.1, the whole server
with its clients, and the theorems above.

Left, in this order:

1. `SendService` in place of the atomic write of `EchoServer`, so that its refinement
   rests on `SendQueue`'s by a theorem and not by an argument.
2. The safety part of `ClientsEnd` as theorems: where a request is once its
   connection has failed.
