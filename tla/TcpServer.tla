------------------------------ MODULE TcpServer ------------------------------
(***************************************************************************)
(* network/TcpServer with its Acceptor, the event loops it gives its       *)
(* connections to and their Pollers: accepting, serving and removing       *)
(* several connections, and the destruction of the server.                 *)
(*                                                                         *)
(* Loop 0 is the server's own loop, 1..numThreads are the threads of the   *)
(* pool, already in loop() (EventLoopThreadPool has how they get there).   *)
(* A loop polls, handles the active channels, swaps its queue and runs the *)
(* batch; one handler or one queued callback is one step.  A poll that     *)
(* reports nothing and leads to nothing is left out, and so is the wakeup: *)
(* epoll_wait returns after kPollTimeMs at the latest.                     *)
(*                                                                         *)
(* A TcpConnection is kept to its life: TcpConnection has the rest.  It    *)
(* exists, with its descriptor, while a TcpConnectionPtr refers to it, and *)
(* is watched for input while it is open.  An assert that fails sets       *)
(* aborted, and nothing happens any more.                                  *)
(***************************************************************************)
EXTENDS Naturals, Sequences, FiniteSets, FiniteSetsExt

CONSTANTS Clients,     \* clients of the server, each with one connection at a time
          MaxThreads,  \* bound: the largest number of threads of the pool
          MaxFds,      \* bound: the most descriptors RLIMIT_NOFILE leaves for connections
          Setups,      \* <<numThreads, limit>> the server may run with
          InitEvents,  \* kInitEventListSize
          LiveDtor     \* the server may be destroyed while it has connections

ASSUME BoundsAssumption == {MaxThreads, MaxFds} \subseteq Nat /\ InitEvents \in Nat \ {0}
ASSUME SetupsAssumption == Setups \subseteq (0..MaxThreads) \X (1..MaxFds)
ASSUME FlagAssumption == LiveDtor \in BOOLEAN

VARIABLES
  limit,               \* descriptors RLIMIT_NOFILE leaves for connections
  numThreads, next_,   \* EventLoopThreadPool
  connections_,        \* TcpServer
  server,              \* where the life of the TcpServer object is
  joining,             \* the thread its destructor has asked to quit, or 0
  state_, ioLoop, fd,  \* each client's TcpConnection: state, loop and descriptor
  phase, quit_, pending, batch, ran,  \* EventLoop; ran: callbacks of the batch that have run
  active,              \* activeChannels_ that are not handled yet
  channels_, size,     \* Poller: the registered connections, and events_.size()
  backlog,             \* the kernel's queue of the listening socket
  input, ended,        \* clients with unread bytes, and clients that closed
  stalled,             \* clients that do not read, while their loop is in write() to them
  refused,             \* clients whose socket was closed without a TcpConnection
  aborted              \* an assert has failed

poolVars   == <<limit, numThreads, next_>>
serverVars == <<server, joining, connections_>>
connVars   == <<state_, ioLoop, fd>>
queueVars  == <<pending, batch, ran>>
loopVars   == <<phase, quit_, active, size, queueVars>>
netVars    == <<backlog, input, ended, refused, stalled>>
vars == <<poolVars, serverVars, connVars, loopVars, channels_, netVars, aborted>>

Base == 0
Loops == Base..MaxThreads
AllLoops == Base..numThreads
Acceptor == "acceptor"   \* stands for acceptChannel_ among the active channels

\* Both are kept in active, so their names must differ.
ASSUME AcceptorAssumption == Acceptor \notin Clients

Init ==
  /\ \E setup \in Setups : numThreads = setup[1] /\ limit = setup[2]
  /\ next_ = 0
  /\ server = "new" /\ joining = 0 /\ connections_ = {}
  /\ state_ = [c \in Clients |-> "none"]
  /\ ioLoop = [c \in Clients |-> Base] /\ fd = [c \in Clients |-> 0]
  /\ phase = [l \in Loops |-> "poll"] /\ quit_ = [l \in Loops |-> FALSE]
  /\ pending = [l \in Loops |-> <<>>] /\ batch = [l \in Loops |-> <<>>]
  /\ ran = [l \in Loops |-> 0] /\ active = [l \in Loops |-> {}]
  /\ channels_ = [l \in Loops |-> {}] /\ size = [l \in Loops |-> InitEvents]
  /\ backlog = <<>> /\ input = {} /\ ended = {} /\ refused = {} /\ stalled = {}
  /\ aborted = FALSE

-----------------------------------------------------------------------------
Functor(op, c) == [op |-> op, conn |-> c]
Open(c) == state_[c] \in {"kConnected", "kDisconnecting"}

\* A batch keeps its pointers until its last callback has run.
Referenced(c) ==
  \/ c \in connections_
  \/ \E l \in AllLoops : \/ \E i \in DOMAIN pending[l] : pending[l][i].conn = c
                         \/ \E i \in DOMAIN batch[l] : batch[l][i].conn = c

FreeFds == (1..limit) \ {fd[c] : c \in {d \in Clients : Referenced(d)}}

queueInLoop(l, op, c) == pending' = [pending EXCEPT ![l] = Append(@, Functor(op, c))]

-----------------------------------------------------------------------------
(* TcpConnection and Poller, in the thread of loop l.                      *)

\* Poller::updateChannel() of a new channel.
enableReading(l, c) ==
  /\ channels_' = [channels_ EXCEPT ![l] = @ \cup {c}]
  /\ aborted' = \E d \in channels_[l] : fd'[d] = fd'[c]     \* assert

connectEstablished(l, c) ==
  IF state_[c] = "kConnecting"
  THEN state_' = [state_ EXCEPT ![c] = "kConnected"] /\ enableReading(l, c)
  ELSE aborted' = TRUE /\ UNCHANGED <<state_, channels_>>

\* Faulty: the channel stays in the Poller.
connectDestroyedKeepsChannel(l, c) ==
  /\ state_' = [state_ EXCEPT ![c] = IF @ = "kConnected" THEN "kDisconnected" ELSE @]
  /\ UNCHANGED <<channels_, aborted>>

\* Channel::remove() asserts that the channel waits for no events, and
\* Poller::removeChannel() that it is there.
connectDestroyed(l, c) ==
  /\ state_' = [state_ EXCEPT ![c] = IF @ = "kConnected" THEN "kDisconnected" ELSE @]
  /\ channels_' = [channels_ EXCEPT ![l] = @ \ {c}]
  /\ aborted' = (state_'[c] # "kDisconnected" \/ c \notin channels_[l])

\* Faulty: the connection is destroyed in the server's loop.
removeConnectionHere(c) ==
  /\ aborted' = (c \notin connections_)
  /\ connections_' = connections_ \ {c}
  /\ queueInLoop(Base, "connectDestroyed", c)

removeConnectionInLoop(c) ==
  /\ aborted' = (c \notin connections_)        \* assert(n == 1)
  /\ connections_' = connections_ \ {c}
  /\ queueInLoop(ioLoop[c], "connectDestroyed", c)

\* Faulty: only asks the server's loop if it is another one.
removeConnectionElsewhere(l, c) ==
  IF l = Base
  THEN UNCHANGED <<pending, aborted, connections_>>
  ELSE queueInLoop(Base, "removeConnection", c) /\ UNCHANGED <<aborted, connections_>>

\* TcpServer::removeConnection(), the closeCallback_: the removal runs at once in
\* the server's own loop.
removeConnection(l, c) ==
  IF l = Base
  THEN removeConnectionInLoop(c)
  ELSE queueInLoop(Base, "removeConnection", c) /\ UNCHANGED <<aborted, connections_>>

handleClose(l, c) ==
  IF Open(c)
  THEN state_' = [state_ EXCEPT ![c] = "kDisconnected"] /\ removeConnection(l, c)
  ELSE aborted' = TRUE /\ UNCHANGED <<state_, pending, connections_>>

forceCloseInLoop(l, c) ==
  IF Open(c) THEN handleClose(l, c) ELSE UNCHANGED <<state_, pending, connections_, aborted>>

-----------------------------------------------------------------------------
(* Accepting, in the server's loop.                                        *)

\* setThreadNum() was called before; start() is called before loop() and
\* listens at once.
start ==
  /\ server = "new"
  /\ server' = "up"
  /\ UNCHANGED <<poolVars, joining, connections_, connVars, loopVars, channels_, netVars, aborted>>

\* Faulty: next_ never starts over.
getNextLoopOnward == IF numThreads = 0 THEN <<Base, next_>> ELSE <<next_ + 1, next_ + 1>>

\* EventLoopThreadPool::getNextLoop(): the loop, and the next value of next_.
getNextLoop ==
  IF numThreads = 0 THEN <<Base, next_>> ELSE <<next_ + 1, (next_ + 1) % numThreads>>

newConnection(c, f) ==
  LET l == getNextLoop[1] IN
  /\ next_' = getNextLoop[2]
  /\ connections_' = connections_ \cup {c}
  /\ ioLoop' = [ioLoop EXCEPT ![c] = l]
  /\ fd' = [fd EXCEPT ![c] = f]
  /\ IF l = Base
     THEN state_' = [state_ EXCEPT ![c] = "kConnected"] /\ enableReading(l, c) /\ UNCHANGED pending
     ELSE /\ state_' = [state_ EXCEPT ![c] = "kConnecting"]
          /\ queueInLoop(l, "connectEstablished", c)
          /\ UNCHANGED <<channels_, aborted>>

Drop(c) == backlog' = Tail(backlog) /\ refused' = refused \cup {c}

\* Faulty: a client for which there is no descriptor stays in the backlog.
acceptWithoutReserve(c) == UNCHANGED <<backlog, refused>>

\* EMFILE: the reserve idleFd_ is closed, taken for the client, closed and
\* opened again.  No other thread opens descriptors meanwhile.
acceptWithReserve(c) == Drop(c)

\* Acceptor::handleRead(): one client at a time.  A client that has closed may make
\* accept() fail, with its socket gone.
handleRead ==
  /\ phase[Base] = "handle" /\ Acceptor \in active[Base]
  /\ active' = [active EXCEPT ![Base] = @ \ {Acceptor}]
  /\ LET c == Head(backlog) IN
       \/ /\ FreeFds # {}
          /\ newConnection(c, Min(FreeFds))
          /\ backlog' = Tail(backlog) /\ UNCHANGED refused
       \/ /\ \/ FreeFds = {} /\ acceptWithReserve(c)
             \/ c \in ended /\ Drop(c)         \* ECONNABORTED
          /\ UNCHANGED <<next_, connections_, connVars, pending, channels_, aborted>>
  /\ UNCHANGED <<limit, numThreads, server, joining, phase, quit_, size, batch, ran, input, ended,
                 stalled>>

-----------------------------------------------------------------------------
(* EventLoop::loop() of loop l.                                            *)

Ready(l) ==
  {c \in channels_[l] : Open(c) /\ c \in input \cup ended}
    \cup (IF l = Base /\ backlog # <<>> THEN {Acceptor} ELSE {})

\* Poller::poll() doubles events_ when it was filled.
grow(l, n) == size' = [size EXCEPT ![l] = IF n = @ THEN 2 * @ ELSE @]

\* The test of quit_ and the poll: as many ready channels as events_ has room for,
\* in any choice.
poll(l) ==
  /\ phase[l] = "poll" /\ ~quit_[l] /\ server # "new"
  /\ Ready(l) # {} \/ pending[l] # <<>>
  /\ LET n == Min({size[l], Cardinality(Ready(l))}) IN
       /\ \E chosen \in kSubset(n, Ready(l)) : active' = [active EXCEPT ![l] = chosen]
       /\ grow(l, n)
  /\ phase' = [phase EXCEPT ![l] = "handle"]
  /\ UNCHANGED <<poolVars, serverVars, connVars, quit_, queueVars, channels_, netVars, aborted>>

\* loop() returns.  A thread of the pool ends, and the queue goes with its
\* EventLoop; the server's EventLoop lives on.
leave(l) ==
  /\ phase[l] = "poll" /\ quit_[l]
  /\ phase' = [phase EXCEPT ![l] = "out"]
  /\ pending' = [pending EXCEPT ![l] = IF l = Base THEN @ ELSE <<>>]
  /\ UNCHANGED <<poolVars, serverVars, connVars, quit_, active, size, batch, ran, channels_,
                 netVars, aborted>>

\* The end of the message callback, which may call forceClose().
messageReturns(l, c) ==
  \/ UNCHANGED <<state_, pending>>
  \/ /\ Open(c)
     /\ state_' = [state_ EXCEPT ![c] = "kDisconnecting"]
     /\ queueInLoop(l, "forceClose", c)

\* The callback sends an answer.  The socket is a blocking one, since Socket::accept() does
\* not make it anything else: write() waits for room while the client does not read.
writeWaits(c) ==
  /\ state_[c] = "kConnected"
  /\ stalled' = stalled \cup {c}
  /\ UNCHANGED <<state_, pending>>

\* TcpConnection::handleRead(): the message callback runs; the end of the stream closes
\* the connection.
handleEvent(l, c) ==
  /\ phase[l] = "handle" /\ c \in active[l]
  /\ active' = [active EXCEPT ![l] = @ \ {c}]
  /\ \/ /\ c \in input
        /\ input' = input \ {c}
        /\ UNCHANGED <<connections_, aborted>>
        /\ (messageReturns(l, c) /\ UNCHANGED stalled) \/ writeWaits(c)
     \/ /\ c \notin input /\ c \in ended
        /\ handleClose(l, c)
        /\ UNCHANGED <<input, stalled>>
  /\ UNCHANGED <<poolVars, server, joining, ioLoop, fd, phase, quit_, size, batch, ran, channels_,
                 backlog, ended, refused>>

doPendingFunctors(l) ==
  /\ phase[l] = "handle" /\ active[l] = {}
  /\ phase' = [phase EXCEPT ![l] = IF pending[l] = <<>> THEN "poll" ELSE "functors"]
  /\ batch' = [batch EXCEPT ![l] = pending[l]]
  /\ pending' = [pending EXCEPT ![l] = <<>>]
  /\ UNCHANGED <<poolVars, serverVars, connVars, quit_, active, size, ran, channels_, netVars,
                 aborted>>

runFunctor(l) ==
  /\ phase[l] = "functors" /\ ran[l] < Len(batch[l])
  /\ ran' = [ran EXCEPT ![l] = @ + 1]
  /\ UNCHANGED fd
  /\ LET f == batch[l][ran[l] + 1] IN
       \/ /\ f.op = "connectEstablished"
          /\ connectEstablished(l, f.conn)
          /\ UNCHANGED <<pending, connections_>>
       \/ /\ f.op = "forceClose"
          /\ forceCloseInLoop(l, f.conn)
          /\ UNCHANGED channels_
       \/ /\ f.op = "removeConnection"
          /\ removeConnectionInLoop(f.conn)
          /\ UNCHANGED <<state_, channels_>>
       \/ /\ f.op = "connectDestroyed"
          /\ connectDestroyed(l, f.conn)
          /\ UNCHANGED <<pending, connections_>>
  /\ UNCHANGED <<poolVars, server, joining, ioLoop, phase, quit_, active, size, batch, netVars>>

\* The batch dies with its pointers, and connections that nothing refers to any
\* more with them: their sockets are closed.
endBatch(l) ==
  /\ phase[l] = "functors" /\ ran[l] = Len(batch[l])
  /\ phase' = [phase EXCEPT ![l] = "poll"]
  /\ batch' = [batch EXCEPT ![l] = <<>>]
  /\ ran' = [ran EXCEPT ![l] = 0]
  /\ UNCHANGED <<poolVars, serverVars, connVars, quit_, active, size, pending, channels_, netVars,
                 aborted>>

\* write() returns, because the client has read or is gone, and the callback goes on.
writeReturns(c) ==
  /\ c \in stalled
  /\ stalled' = stalled \ {c}
  /\ messageReturns(ioLoop[c], c)
  /\ UNCHANGED <<poolVars, serverVars, ioLoop, fd, phase, quit_, active, size, batch, ran, channels_,
                 backlog, input, ended, refused, aborted>>

LoopStep(l) ==
  /\ \A c \in stalled : ioLoop[c] # l
  /\ \/ poll(l) \/ leave(l) \/ doPendingFunctors(l) \/ runFunctor(l) \/ endBatch(l)
     \/ \E c \in Clients : handleEvent(l, c)
     \/ l = Base /\ handleRead

-----------------------------------------------------------------------------
(* The end of the server, in the thread of its loop once loop() returned.  *)

\* EventLoop::quit() on the server's loop, from any thread.
quit ==
  /\ server = "up" /\ ~quit_[Base]
  /\ quit_' = [quit_ EXCEPT ![Base] = TRUE]
  /\ UNCHANGED <<poolVars, serverVars, connVars, phase, active, size, queueVars, channels_,
                 netVars, aborted>>

\* What a careful owner waits for: no callback is left in the server's loop,
\* and with threads no connection exists.
Quiet == pending[Base] = <<>> /\ (numThreads = 0 \/ \A c \in Clients : ~Referenced(c))

destroy ==
  /\ server = "up" /\ phase[Base] = "out"
  /\ LiveDtor \/ Quiet
  /\ server' = "dtor"
  /\ UNCHANGED <<poolVars, joining, connections_, connVars, loopVars, channels_, netVars, aborted>>

\* ~TcpServer(), for one of its connections.
destroyConnection(c) ==
  /\ server = "dtor" /\ c \in connections_
  /\ connections_' = connections_ \ {c}
  /\ IF ioLoop[c] = Base
     THEN connectDestroyed(Base, c) /\ UNCHANGED pending
     ELSE queueInLoop(ioLoop[c], "connectDestroyed", c) /\ UNCHANGED <<state_, channels_, aborted>>
  /\ UNCHANGED <<poolVars, server, joining, ioLoop, fd, phase, quit_, active, size, batch, ran,
                 netVars>>

\* ~EventLoopThread() of the next thread of the pool: quit(), then join().
stopThread ==
  /\ server = "dtor" /\ connections_ = {}
  /\ joining < numThreads /\ (joining > 0 => phase[joining] = "out")
  /\ joining' = joining + 1
  /\ quit_' = [quit_ EXCEPT ![joining + 1] = TRUE]
  /\ UNCHANGED <<poolVars, server, connections_, connVars, phase, active, size, queueVars,
                 channels_, netVars, aborted>>

\* ~Acceptor() closes the listening socket, and then the server's EventLoop is
\* destroyed with what is left in its queue.
destroyAcceptor ==
  /\ server = "dtor" /\ connections_ = {}
  /\ joining = numThreads /\ (joining > 0 => phase[joining] = "out")
  /\ server' = "gone"
  /\ backlog' = <<>>
  /\ refused' = refused \cup {backlog[i] : i \in DOMAIN backlog}
  /\ pending' = [pending EXCEPT ![Base] = <<>>]
  /\ UNCHANGED <<poolVars, joining, connections_, connVars, phase, quit_, active, size, batch, ran,
                 channels_, input, ended, stalled, aborted>>

Destructor ==
  (\E c \in Clients : destroyConnection(c)) \/ stopThread \/ destroyAcceptor

-----------------------------------------------------------------------------
(* The clients.                                                            *)

Served(c) == state_[c] # "none" /\ Referenced(c)
Waiting(c) == \E i \in DOMAIN backlog : backlog[i] = c

\* A client connects, again if its last connection is gone.
connect(c) ==
  /\ server = "up" /\ ~Served(c) /\ ~Waiting(c)
  /\ backlog' = Append(backlog, c)
  /\ state_' = [state_ EXCEPT ![c] = "none"]
  /\ ioLoop' = [ioLoop EXCEPT ![c] = Base] /\ fd' = [fd EXCEPT ![c] = 0]
  /\ input' = input \ {c} /\ ended' = ended \ {c} /\ refused' = refused \ {c}
  /\ UNCHANGED <<poolVars, serverVars, loopVars, channels_, stalled, aborted>>

send(c) ==
  /\ Served(c) /\ c \notin ended \cup input
  /\ input' = input \cup {c}
  /\ UNCHANGED <<poolVars, serverVars, connVars, loopVars, channels_, backlog, ended, refused,
                 stalled, aborted>>

close(c) ==
  /\ (Served(c) \/ Waiting(c)) /\ c \notin ended
  /\ ended' = ended \cup {c}
  /\ UNCHANGED <<poolVars, serverVars, connVars, loopVars, channels_, backlog, input, refused,
                 stalled, aborted>>

ClientStep(c) == connect(c) \/ send(c) \/ close(c)

Next ==
  /\ ~aborted
  /\ \/ start \/ quit \/ destroy \/ Destructor
     \/ \E l \in AllLoops : LoopStep(l)
     \/ \E c \in Clients : ClientStep(c) \/ writeReturns(c)

Spec == Init /\ [][Next]_vars

\* The threads of the loops are scheduled, callbacks that are not in write() return
\* and epoll_wait times out; write() to a client that closed fails.  Nothing is asked of
\* the other clients, which need not read, nor that the server is stopped.
FairSpec ==
  /\ Spec
  /\ \A l \in Loops : WF_vars(~aborted /\ l \in AllLoops /\ LoopStep(l))
  /\ \A c \in Clients : WF_vars(~aborted /\ c \in ended /\ writeReturns(c))
  /\ WF_vars(~aborted /\ Destructor)

-----------------------------------------------------------------------------
Functors == [op : {"connectEstablished", "forceClose", "removeConnection", "connectDestroyed"},
             conn : Clients]

\* The variables keep their types; next_ is a thread of the pool, a batch and active
\* channels exist only in their phase of the loop, and a loop waits in write() only
\* inside a handler, for a connection that is open.
TypeOK ==
  /\ limit \in 1..MaxFds /\ numThreads \in 0..MaxThreads /\ next_ \in 0..MaxThreads
  /\ next_ < numThreads \/ next_ = 0
  /\ server \in {"new", "up", "dtor", "gone"} /\ joining \in 0..numThreads
  /\ connections_ \subseteq Clients
  /\ state_ \in [Clients -> {"none", "kConnecting", "kConnected", "kDisconnecting",
                             "kDisconnected"}]
  /\ ioLoop \in [Clients -> AllLoops] /\ fd \in [Clients -> 0..MaxFds]
  /\ phase \in [Loops -> {"poll", "handle", "functors", "out"}]
  /\ quit_ \in [Loops -> BOOLEAN] /\ aborted \in BOOLEAN
  /\ \A l \in Loops :
       /\ pending[l] \in Seq(Functors) /\ batch[l] \in Seq(Functors)
       /\ ran[l] \in 0..Len(batch[l]) /\ (batch[l] # <<>> <=> phase[l] = "functors")
       /\ active[l] \subseteq Clients \cup {Acceptor} /\ (active[l] # {} => phase[l] = "handle")
       /\ channels_[l] \subseteq Clients /\ size[l] \in Nat \ {0}
  /\ backlog \in Seq(Clients)
  /\ input \subseteq Clients /\ ended \subseteq Clients /\ refused \subseteq Clients
  /\ stalled \subseteq Clients
  /\ \A c \in stalled : state_[c] = "kConnected" /\ phase[ioLoop[c]] = "handle"

\* No assert fails in connectEstablished(), handleClose(), removeConnectionInLoop()
\* and connectDestroyed(), nor in Poller::updateChannel() when a descriptor is used
\* again while other loops are still removing connections.
NoAbort == ~aborted

\* The callbacks of the removal, and of the start, of c that have not run yet.
Owed(c) ==
  UNION {LET rest == SubSeq(batch[l], ran[l] + 1, Len(batch[l])) \o pending[l]
         IN {<<l, i, rest[i].op>> : i \in {j \in DOMAIN rest : rest[j].conn = c
                                                           /\ rest[j].op # "forceClose"}}
         : l \in AllLoops}
Owes(c, op, l) == \E i \in 1..(Len(batch[l]) + Len(pending[l])) : Owed(c) = {<<l, i, op>>}
RegisteredIn(c) == {l \in AllLoops : c \in channels_[l]}

\* newConnection() to connectDestroyed(): a connection is handed from loop to loop
\* and is at every moment in exactly one place.  It waits for connectEstablished()
\* in its own loop; it is open, in the map and in its own Poller; or, ended, it is
\* removed once by the server's loop and then destroyed once by its own.
LifeCycle ==
  \A c \in Clients :
    \/ /\ state_[c] = "none" /\ Owed(c) = {} /\ RegisteredIn(c) = {} /\ c \notin connections_
    \/ /\ state_[c] = "kConnecting" /\ c \in connections_
       /\ Owes(c, "connectEstablished", ioLoop[c]) /\ RegisteredIn(c) = {}
    \/ /\ Open(c) /\ c \in connections_ /\ Owed(c) = {} /\ RegisteredIn(c) = {ioLoop[c]}
    \/ /\ state_[c] = "kDisconnected" /\ c \in connections_
       /\ Owes(c, "removeConnection", Base) /\ RegisteredIn(c) = {ioLoop[c]}
    \/ /\ state_[c] = "kDisconnected" /\ c \notin connections_
       /\ Owes(c, "connectDestroyed", ioLoop[c]) /\ RegisteredIn(c) = {ioLoop[c]}
    \/ /\ state_[c] = "kDisconnected" /\ c \notin connections_
       /\ Owed(c) = {} /\ RegisteredIn(c) = {}

\* ~TcpConnection() and ~Channel(): a connection that nothing refers to any more has been
\* disconnected and taken from its Poller.
DtorAsserts ==
  \A c \in Clients : state_[c] # "none" /\ ~Referenced(c)
                     => state_[c] = "kDisconnected" /\ RegisteredIn(c) = {}

\* Loop l is in write() to a client that neither reads nor closes.
Hangs(l) == \E c \in stalled \ ended : ioLoop[c] = l

\* Acceptor::handleRead() and Poller::poll(): while the server runs, a client that
\* connects is accepted or refused, even when no descriptor is left, and however
\* many events the other connections have.  In a server without threads a client
\* that never reads its answers can keep the loop from it, for ever in write().
ClientAnswered ==
  \A c \in Clients : Waiting(c) ~> ~Waiting(c) \/ quit_[Base] \/ []Hangs(Base)

\* handleClose() to ~TcpConnection(): when a client closes, the server's socket is closed
\* too and its descriptor can be used again, unless the server's loop is stopped, or
\* another client of the same loop holds it for ever in write().
SocketReleased ==
  \A c \in Clients :
    c \in ended /\ Served(c) ~> ~Referenced(c) \/ quit_[Base] \/ []Hangs(ioLoop[c])
=============================================================================
