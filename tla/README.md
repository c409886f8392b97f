# A TLA+ model of proto_rpc

proto_rpc is an RPC framework in C++: protobuf services (`proto_rpc/`) over a
multi-threaded, event-driven TCP library (`network/`, in the style of muduo).
This directory holds TLA+ modules that model its core, TLC configurations that
check them on small instances, and proofs that TLAPS checks for every instance.

Tools: `tlc -workers 2 -config X.cfg M` checks a configuration,
`tlapm M.tla` checks the proofs of a module. `PROJECT.json` lists the runs, maps
every definition to the lines it models, and lists the hazards that the
properties are for.

## 1. Inventory

| Component (source) | State | Operations | What makes it correct |
|---|---|---|---|
| EventLoop (`network/src/EventLoop.cc`) | `pendingFunctors_` under `mutex_`, atomic `quit_`, `callingPendingFunctors_`, the wakeup eventfd, `activeChannels_` | `loop`, `quit`, `runInLoop`, `queueInLoop`, `wakeup`, `handleRead`, `doPendingFunctors` | callbacks run once, in order, in the loop thread; no wakeup and no quit is lost |
| Channel, Poller (`Channel.cc`, `Poller.cc`) | `events_`, `index_`, `channels_`, the epoll set, the event list | `update`, `remove`, `handleEvent`; `poll`, `updateChannel`, `removeChannel` | channel and epoll agree; handlers are called in the right order |
| TcpConnection (`TcpConnection.cc`) | `state_`, `reading_`, the buffers, its channel, its reference count | `send`, `shutdown`, `forceClose`, `forceCloseWithDelay`, `startRead`, `stopRead`, the four `handle…`, `connectEstablished`, `connectDestroyed` | bytes leave in order; the end is reported once; output is flushed before shutdown; nothing runs on a destroyed object |
| TcpServer, Acceptor (`TcpServer.cc`, `Acceptor.cc`) | `connections_`, `started_`; listening socket, reserve fd | `start`, `newConnection`, `removeConnection[InLoop]`, destructor; `listen`, `handleRead` | a connection is started, removed and destroyed once, each step in the right loop; every client is accepted or refused; every socket is closed |
| EventLoopThread, EventLoopThreadPool | `loop_`, mutex and condition variable; `loops_`, `next_` | `startLoop`, `threadFunc`, destructor; `start`, `getNextLoop` | start and destructor return; loops handed out are alive and used evenly |
| Connector, TcpClient | `connect_`, `state_`, `channel_`; `connection_`, `retry_`, `connect_` | `start`, `stop`, `restart`, `handleWrite`, `handleError`, `resetChannel`; `connect`, `disconnect`, `stop`, `newConnection`, `removeConnection`, destructor | no socket leaks; stop ends the attempts; the channel is freed once; a connection left behind ends |
| Buffer (`Buffer.h`, `Buffer.cc`) | a vector and two indices | `append`, `prepend`, `retrieve`, `unwrite`, `makeSpace`, `readFd` | a reader gets what was put in, in order |
| ProtoRpcCodec (`proto_rpc/rpc_framework/RpcCodec.cc`) | none of its own; the input buffer | `send`, `onMessage` | messages are found in a stream cut anywhere |
| RpcChannel, RpcServer | `id_`, `outstandings_` under `mutex_`, `conn_`; `services_`, a channel per connection | `CallMethod`, `setConnection`, `onRpcMessage`, `handle_request_msg`, `handle_response_msg`, `doneCallback`; `onConnection` | a call gets its own answer, once |
| Examples (`examples/client.cc`, `server.cc`) | – | a monitor client that reconnects, and its server | – |

**Interaction.** One thread per EventLoop. Objects that live on a loop are changed
in its thread; other threads reach them through `runInLoop()`/`queueInLoop()`.
A server accepts on its base loop and gives each connection to a loop of the
pool. A connection that ends goes through three steps in two loops:
`handleClose()` in its own loop, `removeConnectionInLoop()` in the server's,
`connectDestroyed()` in its own again; shared pointers in the queued callbacks
keep it alive meanwhile. User callbacks run in the loop thread and call back
into the objects. On top, threads call stub methods; `CallMethod()` numbers and
registers the call, the codec frames it, and the loop thread that reads the
response completes it.

**What is hard.** The swap of the callback queue against posts from other
threads; the wakeup against the poll; `state_` of a connection, which threads
test and set without a lock; raw `this` in queued callbacks; the life of a
connection over two loops, and the end of the server meanwhile; descriptors
that run out and are used again; accepted sockets, which are blocking, and a `write()` that holds a
loop; partial writes and cut reads; the condition variable
and the destructor of EventLoopThread; the Connector's channel, freed by a later
callback while `restart()` makes a new one; call numbers, answers and
connections that break. There are no timeouts in the framework (`Timestamp` and
timers of the original library were removed), no persistence, and no tests.
`PROJECT.json` lists each hazard at its line.

## 2. Modules

| Module | Models | Uses |
|---|---|---|
| `FunctorQueue` | abstract: what a loop promises the objects that live on it | |
| `EventLoop` | `EventLoop.cc` | refines `FunctorQueue` |
| `EventLoopProofs` | theorems about `EventLoop` | |
| `TcpConnection` | one connection with its Channel, its entry in the Poller, its loop, its owner (`TcpServer::removeConnection*`) and the threads that use it | |
| `TcpServer` | server, Acceptor, several connections in several loops with their Pollers, clients; composes what `TcpConnection` and `EventLoopThreadPool` have in detail | |
| `RpcCalls` | abstract: a call is handled and completed at most once | |
| `RpcChannel` | client channel, server channels, `RpcServer::onConnection`, the example client's `onConnection` | refines `RpcCalls` |
| `EventLoopThreadPool` | the pool and its `EventLoopThread`s | |
| `TcpClient` | Connector and TcpClient on one loop, with the destructor of the client | |
| `Buffer` | operators on buffers | |
| `BufferProofs` | theorems about `Buffer` | |
| `RpcCodec` | framing over `Buffer`, one direction of a connection | `Buffer` |
| `MC…` | constants for TLC | |

Names are those of the code. The correspondence in short:

- **EventLoop.** `pc` is the place of the loop thread in `loop()`; each statement
  that other threads can fall between is an action (`testQuit`, `poll`,
  `handleRead`, `handleEvent`, `enterDoPendingFunctors`, `swapFunctors`,
  `runFunctor`, `leaveDoPendingFunctors`). A push and the `wakeup()` after it are two
  steps (`waking` is the set of threads between them), as are `quit_ = true` and its
  wakeup. Callbacks and event handlers may themselves queue and quit. `pushed` and
  `ran` are history.
- **TcpConnection.** The loop is the callback queue of `FunctorQueue`: `phase`, `pending`, `batch`.
  `todo` is what remains of the handler the loop thread is in, so that a thread can
  run between `handleClose()`'s assignment of `state_` and its callbacks. A
  thread's `shutdown()` or `forceClose()` tests `state_`, sets it, and queues, in
  three steps. The socket is external: `peer` is what the next read or write meets,
  a write takes any part of the data, epoll is level-triggered and reports HUP and ERR
  whatever the mask. `Alive` is the reference count: the map, the queued and the
  running callbacks with a `shared_ptr`, the threads. An assert is a guard, and the
  property `NoAbort` says that it holds where the code evaluates it.
- **TcpServer.** Loop 0 is the server's, the others are the pool's; each has its place in
  `loop()` (`phase`), its queue and batch, its active channels, its registered channels and the size of
  its event list. One event handler or one queued callback is one step. A connection is kept
  to what its life needs: `state_`, loop, descriptor. It exists while the map, a queue or a
  batch refers to it (`Referenced`), and its descriptor is in use exactly as long. A
  poll reports as many ready channels as fit, in any choice. Accepted sockets are blocking (`Socket.cc:69`): a message
  callback that sends an answer may stay in `write()` as long as its client does not read (`writeWaits`,
  `writeReturns`; `stalled`), and its loop does nothing meanwhile. That callback stands for every place where a loop writes.
  `destroy`, `destroyConnection`,
  `stopThread` and `destroyAcceptor` are `~TcpServer()` with its members' destructors; a
  pool thread that leaves `loop()` drops its queue, as its EventLoop does. `LiveDtor` says whether
  the owner may destroy the server while it has connections or waits until it is `Quiet`.
- **RpcChannel.** `caller[t]` is the place of thread `t` in `CallMethod()`: it
  numbers the call, registers it under the mutex, hands `conn_` to the codec and
  sends. `id_` starts anywhere (it is not initialised) and wraps at `IdSpace`.
  A thread that calls `send()` through a pointer that is null or dangles sets `crashed`, and nothing happens any more;
  `CallersWait` says that no call is made before the first connection.
  Connections are pairs of FIFO queues, which is what `StreamIntact` and the codec run
  establish; they break, losing what is in transit, and each side notices on its own.
- **EventLoopThreadPool.** The base thread's `pc` goes through `start()`,
  `getNextLoop()` and the destructor; `thread[t]` is the place in `threadFunc()`.
  Sections under `mutex_` are one step, `cv_.wait()` is two, and it may wake
  spuriously.
- **TcpClient.** Connector functions run in the loop; `call` is where the other thread
  is in `connect()` or `stop()`, whose assignments and `queueInLoop()` are separate
  steps. `connect(2)` may be in progress, be refused, or fail for good; a socket may
  become writable with SO_ERROR set, connected to itself, or with an error event in the
  same poll. `fds` is who owns which descriptor. `destroy` is `~TcpClient()` from a queued
  callback; the connection it leaves behind is `orphan`, whose close callback no longer knows the
  client (`removeOrphan`). `held` is a TcpConnectionPtr that the user has taken (`keep`), as RpcChannel's `conn_` is; it
  keeps an ended connection and its descriptor, and `~TcpClient()`, which tests `unique()`, does not close a connection that
  has another pointer. The user may then close it (`closeHeld`) and give the pointer up (`release`). `removeConnection()`'s test
  of `retry_` and `connect_`, `restart()` and its `startInLoop()` are three steps, since a thread's `stop()` may fall between
  them. A failed assert sets `aborted`.
- **Buffer, RpcCodec.** A buffer is the record of the class's fields with the same
  index arithmetic. A cell stands for some bytes, a 32-bit word is `Word` cells, so that
  a length field can arrive in halves. `send()` builds the frame with the Buffer
  operations of `fillEmptyBuffer()`; `handleRead(n)` takes any number of cells from the
  wire.

**Abstractions common to all.** Logging, names and addresses are left out. The
eventfd's counter is "readable or not". Payloads are model values. Protobuf's
serialization is opaque and adler32 is taken to tell contents apart. Memory is not
exhausted. The application ignores SIGPIPE (the library does not, so a write to a reset
connection would end a process that leaves the default action in place). The build is
a Debug build (`CMakeLists.txt`), so asserts are active.

## 3. Runs

Every passing run covers all reachable states of its instance.

| Run | Instance | Shows |
|---|---|---|
| `EventLoop` | loop thread, 2 threads, 2 callbacks, 3 posts | `NoLostWakeup`, `NoLostQuit`, `FunctorsRunInOrder`, `ImplementsFunctorQueue`; with fairness `QueuedFunctorRuns` |
| `TcpConnection_disciplined` | a thread that sends; callbacks that send, shut down, force-close; 3 calls; the peer closes or resets | no assert fails, nothing runs on a destroyed object, the end is reported once, output drains before shutdown; with fairness the connection ends and is removed |
| `TcpConnection_races` | all six operations from a thread and from callbacks | `PollerAgrees` and `StreamIntact` hold in spite of the races below |
| `TcpServer` | 2 clients that connect, send, read or not, close and come back; up to 2 connections on no or one pool thread, one at a time on 2 threads; 1 or 2 descriptors; an event list that starts with room for 1; the server is stopped and destroyed when quiet | `NoAbort`, `LifeCycle`; with fairness `ClientAnswered`, `SocketReleased` |
| `RpcChannel` | 2 threads, 3 calls (one rejected by the server), 2 connections that may break, 3 call numbers, a service that answers at once or later | `OwnAnswer`, `ResponsesExpected`, `CrashNeedsReplacement`, `ImplementsRpcCalls`; with fairness `CallCompletes` unless a connection is lost |
| `EventLoopThreadPool` | 0 to 3 threads, 2 calls of `getNextLoop()`, destroyed at any time after `start()` | `LoopsUsable`, `RoundRobin`; with fairness `StartReturns`, and `JoinReturns` if the threads have reached `loop()` |
| `TcpClient` | 4 descriptors, 4 calls of a thread, callbacks that disconnect, stop and force-close; one `connect()`; the client may be destroyed; the user takes, closes and drops a TcpConnectionPtr | `NoAbort`, `SocketsAccounted`; with fairness `StopEnds` |
| `RpcCodec` | 3 messages of lengths 0, 1, 3 (the longest allowed) and one too long; words of 2 cells; room for 8 cells, extrabuf of 5 | `InputIsStream`, `NothingLeftBehind` |
| `TcpConnection_stopRead`, `TcpServer_dtor`, `RpcChannel_async`, `TcpClient_reconnect` | | the findings of section 5: each is expected to be violated |

**Why the bounds are enough.** In `EventLoop` three posts reach the three places a
callback can be (run, batch, queue) at once, and two threads reach two wakeups under way
at once. The theorems of section 4 lift this run's safety properties to any bounds. In
`TcpConnection` messages are two bytes and one byte, so that a write can be partial,
a second message can follow a buffered one, and three calls reach a send, a shutdown or
close, and one more call after it. In `RpcChannel` the number of calls equals the number
space, so that `id_` wraps in the middle of it; two connections let an answer arrive on,
or be lost with, the older one. Three pool threads and a wrap of `next_` need at most three
loops; the pools with 0, 1 and 2 threads wrap within two calls. In
`TcpClient` four calls reach connect, stop and two more after it, and four descriptors are
enough for an attempt always to find a free one: at that time at most three connections that have ended still have theirs, one that the user
keeps among them. In `TcpServer` two clients reach a connection being removed in one loop while
another is started in it or in the next, a client that finds no descriptor, one that gets the
descriptor of the connection before, and more ready channels than the event list has room for; two pool
threads let consecutive connections of one client live in different loops. In `RpcCodec` the sizes make the buffer fill exactly, spill into
extrabuf, move its content and grow, and `kMaxMessageLen` is met exactly.

**Deadlock** is checked in `EventLoop`, `TcpConnection_disciplined` and `TcpClient`. It
is not in `RpcChannel`, `RpcCodec` and `EventLoopThreadPool`, where the system stops when all
calls are made, all messages received, or the pool is destroyed, nor in
`TcpConnection_races`, where the races end in failed asserts, which stop the process, nor in
`TcpServer`, which ends when the server is destroyed.

**Fairness.**

- `EventLoop`: weak fairness of the loop thread, since the thread is scheduled and
  `epoll_wait` returns after `kPollTimeMs`, and of the wakeup a thread has begun. No
  fairness of who queues what. `QueuedFunctorRuns` therefore also holds without the
  wakeup; that the wakeup itself is not lost is `NoLostWakeup`, a safety property.
- `TcpConnection`: weak fairness of the loop, of the server's loop and of the calls threads
  have begun; strong fairness of polls that report writability, that is, the peer keeps
  reading and the kernel's buffer drains again and again. TCP guarantees nothing better;
  with a peer that stops reading, `DisconnectingEnds` is false for this code. The loop of this module has one connection;
  that a loop is held in `write()` on the blocking socket of another one is in `TcpServer`.
- `TcpServer`: the loops' threads are scheduled, callbacks that are not in `write()` return, and so does the destructor
  once it has begun. `write()` returns when its client has closed; no client is asked to read. `ClientAnswered` and `SocketReleased`
  therefore hold although other clients keep the loop busy, and name the one way out: the loop is held for ever by a
  client that neither reads nor closes (`Hangs`), the server's own loop for `ClientAnswered`, the connection's for
  `SocketReleased`. Both are void once the server's loop is stopped.
- `RpcChannel`: threads and loops are scheduled, the service runs the closures it was
  given, both ends notice a broken connection. Nothing is assumed about connections
  coming up. Each of these holds until the client crashes.
- `EventLoopThreadPool`: every thread is scheduled; no fairness of spurious wakeups.
- `TcpClient`: the loop and the thread are scheduled; nothing makes a socket ready, so an
  attempt may hang for ever. The user may keep a pointer for ever.

Under `TcpConnection_disciplined` "disciplined" means: threads other than the loop's only
send, reading is not stopped, and a thread keeps its pointer while a callback it queued with a
raw `this` waits (`SafeRelease`). The code requires all three and says so nowhere; what
happens otherwise is in section 5. In `TcpServer` the owner's part is `Quiet`: the server is destroyed after
`loop()` has returned with nothing queued in its loop and, if there are pool threads, with no connection left.
In `TcpClient` it is `SafeToDestroy`: the client is destroyed with a connection and while nothing queued points to its
Connector; and `SafeToRelease`: the user does not drop the last pointer to a connection that `~TcpClient()` left open
before it is being closed, which `~TcpConnection()` asserts. (The example's RpcClient destroys its RpcChannel, and with it
the pointer, before its TcpClient.) That `forceClose()` of such a connection sets `state_` and then queues is one step
here; its races are those of `TcpConnection`. In `RpcChannel` it is `CallersWait`; the example client does not do its part.

## 4. Proofs

### EventLoopProofs

For any set of threads, any callbacks and any number of posts:

- `TypeCorrect` – the type invariant, with the link between `pc`, `callingPendingFunctors_`
  and the local vector of `doPendingFunctors()`.
- `WakeupNeverLost`, `QuitNeverLost` – the loop never blocks on work or after `quit()` without
  a wakeup written or about to be. `NoLostWakeup` alone is not inductive: a callback found
  waiting at the poll was queued earlier, while the batch ran or while `quit_` was tested.
  The inductive invariant `WakeupInv` says of all three places what `NoLostWakeup` says of the
  poll. The point of the argument is that a post between the swap and the end of the batch
  sees `callingPendingFunctors_` set, so that even the loop thread writes a wakeup.
- `FunctorOrder` – callbacks run once and in order: `OrderInv`, which adds the types to the
  property, with three lemmas on sequences.
- `Refinement` – `EventLoop` implements `FunctorQueue`: each step maps to a step of the queue or
  leaves `pending`, `batch` and `phase` alone.

Assumptions: the loop thread is not one of the others, the bound is a number.

### BufferProofs

For buffers of any size, over any cells (`Buffers(Cell)`: indices in order and in bounds):
`NewBuffer`, `RetrieveContent`, `MakeSpaceAssert`, `EnsureWritableContent`, `AppendContent`,
`ReadFdContent`, `PrependContent`, `UnwriteContent`. The content of a buffer is a slice of its vector; the lemmas `GrowSlice`,
`MoveSlice`, `ExtendSlice` and `PrefixSlice` say what growing, moving, writing after it and writing before it do to a slice, and the
theorems follow by cases as the code does. `MakeSpaceAssert` is the assert of `makeSpace()`, and
`EnsureWritableContent` contains that of `ensureWritableBytes()`. Assumption: the sizes are numbers.

### EventLoopThreadPoolProofs

For any number of threads, any number of calls of `getNextLoop()` and any spurious wakeups: `TypeCorrect`,
`PoolLoopsUsable` (every loop the pool hands out exists or has been told to quit, a joined thread has left its function)
and `PoolRoundRobin`. The inductive invariant `PoolInv` adds what start() and the destructor have done so far: `loops_` is
`1, 2, ...` up to the thread that `start()` waits for; threads not reached do not run, those returned by `startLoop()` have
published their loop, those joined have exited; the loops up to `next_` have been given once more than the others.

### RpcChannelProofs

For any callers, calls and connections, connections that break at any time and services that answer late or never:
`TypeCorrect`, `EveryCallOwnAnswer`, `EveryResponseExpected`, `CrashOnlyAfterReplacement` and `ChannelImplementsRpcCalls`, the
refinement of `RpcCalls`. The
invariant `RpcInv` links three things the code keeps apart: the numbers the threads in `CallMethod()` hold, the keys of
`outstandings_`, and the messages in transit. Its core is `IdsRecent`: a number in use was given out less than
`Cardinality(called)` calls ago, so that the next `++id_` does not meet it even when the counter wraps. Assumption
(`IdsAssumption`): there are no more calls than numbers, which 64 bits justify. The rest says that a call has one request or
one response at a time, and that it is handled before it is done. `CrashOnlyAfterReplacement` adds `Senders`: what a thread took from
`conn_` is not null and not newer than `conn_` is now. A pointer that no longer lives is then older than `conn_`, and
`OneConnection` says that its connection was lost. Of the theorems this one alone asks that calls wait for the first connection.

### TcpConnectionProofs

For any messages, threads and calls of the interface, in three layers:

- Without any condition: `TypeCorrect`, `ChannelAndPollerAgree` and `OutputIsAStream`. Every step leaves the channel alone,
  updates its events or removes it, and leaves the output alone, accepts a message or writes (`ChannelStep`, `StreamStep`). Assumption
  (`MessagesAssumption`): a message is a nonempty sequence.
- If no other thread calls `shutdown()`, `forceClose()` or `forceCloseWithDelay()` (`NoThreadSets`): `WriterIsArmed`,
  `ShutdownAfterOutput` and `EndReportedOnce`, by `OutputInv`. The condition is needed: those calls test and then set `state_` without a
  lock, and the run `TcpConnection_races` leaves these properties out for that reason (section 5). The callbacks of the loop
  thread may call all three.
- If, moreover, threads only send, reading is not stopped and a pointer outlives the raw `this` queued with it (`Disciplined`):
  `ConnectionNeverAborts` and `HandlersRunOnLiveObject`, by `LifeInv`. It says in which order the handlers' steps and the queued
  callbacks may stand (`LoopShape`, `QueueShape`), that `connectEstablished()` and `connectDestroyed()` are queued once, and who keeps the
  object in each stage (`Life`, `Kept`). Finding 1 is why stopping must be excluded.

### RpcCodecProofs

For messages of any content, words and buffers of any size and any way TCP cuts the stream: `TypeCorrect`, `MessagesAreAStream`
(the cells in the input buffer and in transit are exactly the frames of the messages not yet received) and
`NothingIsLeftBehind`. The invariant `CodecInv` is the conjunction of the three. The buffer's part comes from `BufferProofs`;
`FrameContent`, `Int32Read` and `BodyParses` say that what `fillEmptyBuffer()` wrote is what `parse()` reads.
`FlattenSeq` is recursive: `LeastNat` (a set of numbers that is not empty has a least element) replaces the induction for
`FlatteningExists` and the lemmas on its first and last message. Assumptions: the sizes are numbers, a word fits before the
content of a new buffer (`WordAssumption`, `kCheapPrepend` is 8 and a word 4), and a length fits its word
(`PayloadsAssumption`: up to twice `kMaxMessageLen`, 64 MiB, where the code's `int32_t` goes to 2 GiB; longer than `kMaxMessageLen` is allowed, since
`send()` does not refuse it).

### TcpClientProofs

For any number of descriptors and calls: `TypeCorrect`, `ClientNeverAborts` and `EverySocketAccounted`, if connect() is called once
and not from the connection callback (`ConnectedOnce`; finding 3 is why). `SocketsAccounted` counts queued callbacks; the lemmas
`CountAppend`, `CountTail` and `QueuedSwap` say what queueing, running and the swap do to a count. The
invariant `ClientInv` adds three arguments to the properties: `startInLoop()` runs once, and until it has run there is
nothing (`StartOnce`); an attempt excludes a connection and a callback (`Attempt`); and the Connector has no channel when a
connection ends. The last one is the subtle one: `resetChannel()` is queued by the `handleWrite()` that makes the connection, and
a `forceClose()` can only be queued behind it, in the same turn of the loop (`ResetBeforeEnd`, `Forces`), so that `restart()` always meets an
empty `channel_`. `Held` is the part about the user's pointer: it is to a connection that exists, and a connection that only the
user keeps is the one it points to. The connection left by `~TcpClient()` has a `forceClose()` queued or is the user's
(`OrphanCloses`).

### TcpServerProofs

For any clients, pool threads and descriptors: `ServerTypes`, `ServerNeverAborts`, `ServerLifeCycle` and `ServerDtorAsserts`, if
the server is destroyed only after its connections (`LiveDtor = FALSE`). The condition is needed: finding 4 is the
counterexample to `DtorAsserts` without it. Assumption (`AcceptorAssumption`): the Acceptor is not a client; it is there because
the model keeps both in one set of channels. The invariant `ServerInv` rests on these arguments:

- `Stages`: a connection is absent, accepted, serving, closed or removed, and each stage says which one callback of its life waits,
  and in which loop. They are stated over `work`, the callbacks a loop still has to run (the rest of its batch, then its queue), so
  that the swap in `doPendingFunctors()` changes nothing; `WorkPut`, `WorkRun` and `WorkRunPut` say what queueing and running do.
- `Descriptors`: connections that are still referred to have different descriptors, and a descriptor is closed only with its
  connection. So a descriptor that `accept()` reuses is not registered any more in any Poller.
- `Actives` and `Closing`: a connection whose events wait to be handled is still open, because only its own loop ends it, in the
  handler of its own events or in a callback after all handlers; a `kDisconnecting` connection has its `forceClose()`
  waiting in its own loop.
- `Stalls`: a loop that is in `write()` is in the handler of an event of an open connection, and does not leave it meanwhile.
- `Ending`: when the destructor starts, nothing refers to a connection any more, or there are no pool threads and it destroys
  each connection itself, in the server's loop, which has nothing queued.

The descriptor that `accept()` takes is the least free one; `LeastFree` shows that nothing uses it (`LeastNat`, as for the codec).

### Only model-checked

Liveness, everywhere: it needs fairness and ENABLED, which the prover does not treat. Every invariant
of the passing runs is stated by a theorem, the ones of TcpConnection, TcpClient and TcpServer under the conditions named above.
The four findings are counterexamples and have nothing to prove.

## 5. Findings

Runs that TLC shows to be violated by what the code does:

1. **A stopped channel comes back** (`TcpConnection_stopRead`). `Poller::updateChannel()` adds a `kDeleted`
   channel to epoll even if it has no events. After `stopRead()`, `disableAll()` in `handleClose()` registers the
   descriptor again with an empty mask; EPOLLHUP is reported all the same, and the assert of `handleClose()` fails.
2. **`done` after the end of the connection** (`RpcChannel_async`). The closure of a request holds the
   server's RpcChannel by a raw pointer; `RpcServer::onConnection()` destroys it when the connection ends.
3. **The example client's reconnect** (`TcpClient_reconnect`). `connect()` from the connection callback finds the
   Connector in `kConnected` and aborts.
4. **A server destroyed with connections in its pool** (`TcpServer_dtor`). `~TcpServer()` queues
   `connectDestroyed()` to the pool's loops and then stops them. A loop that has already taken its last batch
   sees `quit_` before the queue; the connection is destroyed with the EventLoop, in `kConnecting` if its
   `connectEstablished()` was lost too (the shortest counterexample), or connected and registered, and the assert of
   `~TcpConnection()` fails.

Seen while modelling, and not given a run of their own (most are under "hazards"): `forceClose()` and `shutdown()` test and set `state_`
without a lock, and a `handleClose()` in between leads to a second `handleClose()` and `assert(n == 1)` in
`removeConnectionInLoop()`, or to the destructor's assert (`TcpConnection.cc:53`); a pool destroyed before its threads are in
`loop()` waits for ever, since `loop()` overwrites `quit_` (`EventLoop.cc:75`); `startRead()` after the end leaves a channel
with events to `connectDestroyed()` (`Channel.cc:35`); `send()`, `shutdown()`, `startRead()` and `stopRead()` queue a
raw `this`; accepted sockets are blocking, although `Socket.h:33` says "set to non-blocking and close-on-exec", so that a client that
does not read holds up all connections of its loop; the user's last pointer to a connection that `~TcpClient()` left open runs into
the assert of `~TcpConnection()`; `forceCloseWithDelay()` sets `kDisconnecting` and schedules nothing; `CallMethod()` dereferences a null
`conn_` before the first connection (the example client's first call may come that early) and reads `conn_` without a lock, so that it may send on a
connection that was replaced and freed; a call whose request or answer is lost never
completes, and an error answer looks like success; `Connector::retry()` does not retry; `disconnect()` while connecting
has no effect; a message over `kMaxMessageLen` is sent and blocks its receiver for ever; `~TcpClient()` without a
connection queues a raw pointer to the Connector it destroys; `~TcpServer()` on a connection with a queued `forceClose()` fails `Channel.cc:35`; a second `TcpServer::start()` aborts although `TcpServer.h:54` calls it harmless.

## 6. Not modelled, and the plan

Not modelled: `InetAddress`, `Endian`, socket options and the rest of `SocketsOps` (wrappers and conversions without
state), `registerService()` and the service table of `RpcServer` (filled before `start()`, then constant), the generated
protobuf code, the build files. Of the lifetimes, a TcpClient destroyed without a connection is left out, because the
queued `stopInLoop()` then always finds its Connector gone, and so is a server or client destroyed from an event handler
(`EventLoop.cc:141`). `epoll_wait` that fails is only logged by the code and is left out.

The plan was, and its steps are done: (1) EventLoop and its abstraction, because
everything else runs on it; (2) TcpConnection with Channel and Poller; (3) RpcChannel; (4) EventLoopThreadPool;
(5) TcpClient; (6) Buffer and RpcCodec; (7) proofs of EventLoop and Buffer; (8) TcpServer with Acceptor, several
connections and the destructor; (9) the destructor of TcpClient, several descriptors in a Poller and the growth of its
event list; (10) proofs of EventLoopThreadPool, RpcChannel with the refinement of `RpcCalls`,
TcpConnection, RpcCodec and TcpClient; (11) proofs of TcpServer. What is left to TLC is liveness. Next: conditions of these
theorems that can be made weaker, first of all which calls of other threads `TcpConnection` tolerates.
