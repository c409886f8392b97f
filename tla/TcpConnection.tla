---------------------------- MODULE TcpConnection ----------------------------
(***************************************************************************)
(* One connection: network/src/TcpConnection.cc with its Channel and its   *)
(* entry in the Poller, the loop it lives on, the threads that hold a      *)
(* TcpConnectionPtr, and the TcpServer (on another loop) that owns it.     *)
(*                                                                         *)
(* The loop thread is a FunctorQueue: it polls, handles the events of the  *)
(* channel, then runs a batch of callbacks.  todo is what the loop thread  *)
(* has still to do in the handler it is in, so that other threads can run  *)
(* between two steps of a handler.  The asserts of the code are guards     *)
(* here: a step that would fail one aborts the process instead.            *)
(*                                                                         *)
(* The socket is external.  A byte is a model value; peer says what the    *)
(* next read or write meets; the input that arrives while the peer is open *)
(* is not told apart.  The application ignores SIGPIPE.                    *)
(***************************************************************************)
EXTENDS Naturals, Sequences, SequencesExt

CONSTANTS Threads,       \* threads other than the loop's that may get a TcpConnectionPtr
          Messages,      \* payloads given to send(), nonempty sequences of bytes
          ThreadOps,     \* what those threads call
          CallbackOps,   \* what the user's callbacks call, in the loop thread
          WriteComplete, \* a writeCompleteCallback_ is set
          PeerMayReset,  \* the peer may reset the connection
          SafeRelease,   \* a thread keeps its pointer while a callback with a raw this is queued
          MaxCalls       \* bound: calls of the interface in a behaviour

Ops == {"send", "shutdown", "forceClose", "forceCloseWithDelay", "startRead", "stopRead"}

ASSUME OpsAssumption == ThreadOps \subseteq Ops /\ CallbackOps \subseteq Ops
ASSUME FlagsAssumption == {WriteComplete, PeerMayReset, SafeRelease} \subseteq BOOLEAN
ASSUME MaxCallsAssumption == MaxCalls \in Nat
ASSUME MessagesAssumption == \A m \in Messages : m # <<>> /\ m \in Seq(ToSet(m))

VARIABLES
  state_, reading_, outputBuffer_,
  events_, index_,   \* the Channel
  interest,          \* what epoll watches the fd for, or NotRegistered
  peer,              \* "open", "fin", "reset" (error pending) or "gone" (error taken)
  wrClosed,          \* shutdownWrite() was called
  wire,              \* bytes the kernel took
  pending, batch, phase,  \* the loop, as in FunctorQueue
  held,              \* the batch in progress holds a TcpConnectionPtr
  todo,              \* the steps left in the handler the loop thread is in
  owned,             \* TcpServer::connections_ holds the connection
  removals,          \* removeConnectionInLoop() callbacks queued in the server's loop
  refs,              \* threads that hold a TcpConnectionPtr
  call,              \* call[t]: where thread t is in a call of the interface
  calls,             \* calls made so far
  accepted,          \* history: bytes sendInLoop() wrote or buffered
  downs              \* history: how often connectionCallback_ reported the end

channelVars == <<events_, index_, interest>>
outVars     == <<outputBuffer_, wire, accepted, wrClosed>>
loopVars    == <<pending, batch, phase, held, todo>>
ownerVars   == <<owned, removals>>
userVars    == <<refs, call, calls>>
vars == <<state_, reading_, peer, downs, channelVars, outVars, loopVars, ownerVars, userVars>>

NotRegistered == {"unregistered"}
Idle == [at |-> "idle"]

\* A queued callback: the member function and its argument.
Functor(f, m) == [op |-> f, arg |-> m]
Bare(f) == Functor(f, <<>>)

\* Faulty: removeConnectionInLoop() binds a raw pointer to connectDestroyed().
StrongButDestroyed(f) == f.op \in {"connectEstablished", "forceCloseInLoop", "writeComplete"}

\* Callbacks bound to a TcpConnectionPtr; the others are bound to this.
Strong(f) == f.op \in {"connectEstablished", "connectDestroyed", "forceCloseInLoop", "writeComplete"}

\* Init: after TcpServer::newConnection() has queued connectEstablished().
Init ==
  /\ state_ = "kConnecting" /\ reading_ = TRUE
  /\ outputBuffer_ = <<>> /\ wire = <<>> /\ accepted = <<>> /\ wrClosed = FALSE
  /\ events_ = {} /\ index_ = "kNew" /\ interest = NotRegistered
  /\ peer = "open"
  /\ pending = <<Bare("connectEstablished")>> /\ batch = <<>> /\ phase = "poll"
  /\ held = FALSE /\ todo = <<>>
  /\ owned = TRUE /\ removals = 0
  /\ refs = {} /\ call = [t \in Threads |-> Idle] /\ calls = 0
  /\ downs = 0

-----------------------------------------------------------------------------
(* Channel and Poller.                                                     *)

isWriting == "W" \in events_
isReading == "R" \in events_

\* Faulty: a channel without events is marked kDeleted and stays in epoll.
updateWithoutDel(e) ==
  /\ events_' = e
  /\ IF index_ = "kAdded" /\ e = {}
     THEN index_' = "kDeleted" /\ UNCHANGED interest
     ELSE index_' = "kAdded" /\ interest' = e

\* Channel::update() and Poller::updateChannel(): a channel without events
\* leaves epoll, but one that had left it is added again even without events.
update(e) ==
  /\ events_' = e
  /\ IF index_ = "kAdded" /\ e = {}
     THEN index_' = "kDeleted" /\ interest' = NotRegistered
     ELSE index_' = "kAdded" /\ interest' = e

enableReading  == update(events_ \cup {"R"})
disableReading == update(events_ \ {"R"})
enableWriting  == update(events_ \cup {"W"})
disableWriting == update(events_ \ {"W"})
disableAll     == update({})

\* What epoll_wait reports for the fd: HUP and ERR whatever the interest, and
\* level-triggered.  Input of an open peer and room to write come and go.
Hup == peer \in {"reset", "gone"} \/ (peer = "fin" /\ wrClosed)
Forced ==
  (IF "R" \in interest /\ peer # "open" THEN {"IN"} ELSE {})
    \cup (IF "W" \in interest /\ peer \in {"reset", "gone"} THEN {"OUT"} ELSE {})
    \cup (IF Hup THEN {"HUP"} ELSE {})
    \cup (IF peer = "reset" THEN {"ERR"} ELSE {})
Optional == (IF "R" \in interest THEN {"IN"} ELSE {}) \cup (IF "W" \in interest THEN {"OUT"} ELSE {})
Reported == IF interest = NotRegistered THEN {{}}
            ELSE {Forced \cup r : r \in SUBSET Optional}

\* Faulty: closes on HUP even when there is input to read.
handleEventHupFirst(revents) ==
  (IF "HUP" \in revents THEN <<"handleClose">> ELSE <<>>)
    \o (IF "IN" \in revents THEN <<"handleRead">> ELSE <<>>)
    \o (IF "OUT" \in revents THEN <<"handleWrite">> ELSE <<>>)
    \o (IF "ERR" \in revents THEN <<"handleError">> ELSE <<>>)

\* Channel::handleEvent().
handleEvent(revents) ==
  (IF "HUP" \in revents /\ "IN" \notin revents THEN <<"handleClose">> ELSE <<>>)
    \o (IF "IN" \in revents THEN <<"handleRead">> ELSE <<>>)
    \o (IF "OUT" \in revents THEN <<"handleWrite">> ELSE <<>>)
    \o (IF "ERR" \in revents THEN <<"handleError">> ELSE <<>>)

-----------------------------------------------------------------------------
(* The callbacks and the calls that run in the loop thread.  Each leaves   *)
(* loopVars but pending to the action that uses it.                        *)

queueInLoop(fs) == pending' = pending \o fs
writeCompleted == IF WriteComplete THEN <<Bare("writeComplete")>> ELSE <<>>

Broken == wrClosed \/ peer \in {"reset", "gone"}

sendInLoop(m) ==
  \/ /\ state_ = "kDisconnected"
     /\ UNCHANGED <<outVars, channelVars, pending>>
  \/ /\ state_ # "kDisconnected" /\ ~isWriting /\ outputBuffer_ = <<>>
     /\ \/ /\ Broken       \* EPIPE or ECONNRESET: faultError
           /\ UNCHANGED <<outVars, channelVars, pending>>
        \/ /\ ~Broken
           /\ \E nwrote \in 0..Len(m) :
                /\ wire' = wire \o SubSeq(m, 1, nwrote)
                /\ outputBuffer_' = SubSeq(m, nwrote + 1, Len(m))
                /\ accepted' = accepted \o m
                /\ UNCHANGED wrClosed
                /\ IF nwrote = Len(m)
                   THEN queueInLoop(writeCompleted) /\ UNCHANGED channelVars
                   ELSE enableWriting /\ UNCHANGED pending
  \/ /\ state_ # "kDisconnected" /\ (isWriting \/ outputBuffer_ # <<>>)
     /\ outputBuffer_' = outputBuffer_ \o m
     /\ accepted' = accepted \o m
     /\ IF isWriting THEN UNCHANGED channelVars ELSE enableWriting
     /\ UNCHANGED <<wire, wrClosed, pending>>

\* Faulty: closes the write side although output is waiting.
shutdownAtOnce ==
  /\ wrClosed' = TRUE
  /\ UNCHANGED <<outputBuffer_, wire, accepted>>

shutdownInLoop ==
  /\ wrClosed' = (wrClosed \/ ~isWriting)
  /\ UNCHANGED <<outputBuffer_, wire, accepted>>

startReadInLoop ==
  IF ~reading_ \/ ~isReading
  THEN enableReading /\ reading_' = TRUE
  ELSE UNCHANGED <<channelVars, reading_>>

stopReadInLoop ==
  IF reading_ \/ isReading
  THEN disableReading /\ reading_' = FALSE
  ELSE UNCHANGED <<channelVars, reading_>>

-----------------------------------------------------------------------------
(* The loop thread.                                                        *)

At(step) == todo # <<>> /\ Head(todo) = step
Continue(steps) == todo' = steps \o Tail(todo)

poll(revents) ==
  /\ phase = "poll"
  /\ phase' = "handle"
  /\ todo' = handleEvent(revents)
  /\ UNCHANGED <<state_, reading_, peer, downs, channelVars, outVars, pending, batch, held,
                 ownerVars, userVars>>

\* Faulty: ignores the end of the stream.
handleReadIgnoresEnd ==
  /\ At("handleRead")
  /\ \/ peer = "open" /\ Continue(<<"callback">>) /\ UNCHANGED peer
     \/ peer # "open" /\ Continue(<<>>) /\ UNCHANGED peer
  /\ UNCHANGED <<state_, reading_, downs, channelVars, outVars, pending, batch, phase, held,
                 ownerVars, userVars>>

handleRead ==
  /\ At("handleRead")
  /\ \/ peer = "open" /\ Continue(<<"callback">>) /\ UNCHANGED peer  \* messageCallback_
     \/ peer \in {"fin", "gone"} /\ Continue(<<"handleClose">>) /\ UNCHANGED peer
     \/ peer = "reset" /\ peer' = "gone" /\ Continue(<<>>)           \* handleError()
  /\ UNCHANGED <<state_, reading_, downs, channelVars, outVars, pending, batch, phase, held,
                 ownerVars, userVars>>

\* Faulty: a short write drops the rest.
retrieveAll(n) == <<>>
retrieve(n) == SubSeq(outputBuffer_, n + 1, Len(outputBuffer_))

\* Faulty: keeps asking for writability; forgets a shutdown that waits for the output.
drainedStillWriting ==
  /\ queueInLoop(writeCompleted)
  /\ wrClosed' = (state_ = "kDisconnecting")
  /\ UNCHANGED channelVars
drainedNoShutdown ==
  /\ disableWriting
  /\ queueInLoop(writeCompleted)
  /\ UNCHANGED wrClosed

\* The output has been written: the tail of handleWrite() with its shutdownInLoop().
drained ==
  /\ disableWriting
  /\ queueInLoop(writeCompleted)
  /\ wrClosed' = (state_ = "kDisconnecting")

handleWrite ==
  /\ At("handleWrite")
  /\ Continue(<<>>)
  /\ \/ /\ ~isWriting \/ Broken
        /\ UNCHANGED <<outVars, channelVars, pending>>
     \/ /\ isWriting /\ ~Broken
        /\ \E n \in 1..Len(outputBuffer_) :
             /\ wire' = wire \o SubSeq(outputBuffer_, 1, n)
             /\ outputBuffer_' = retrieve(n)
             /\ IF n = Len(outputBuffer_)
                THEN drained
                ELSE UNCHANGED <<channelVars, pending, wrClosed>>
        /\ UNCHANGED accepted
  /\ UNCHANGED <<state_, reading_, peer, downs, batch, phase, held, ownerVars, userVars>>

handleClose ==
  /\ At("handleClose")
  /\ state_ \in {"kConnected", "kDisconnecting"}     \* assert
  /\ state_' = "kDisconnected"
  /\ disableAll
  /\ downs' = downs + 1
  /\ Continue(<<"callback", "closeCallback">>)
  /\ UNCHANGED <<reading_, peer, outVars, pending, batch, phase, held, ownerVars, userVars>>

\* Faulty: the server is not told.
closeCallbackMissing ==
  /\ At("closeCallback")
  /\ Continue(<<>>)
  /\ UNCHANGED <<state_, reading_, peer, downs, channelVars, outVars, pending, batch, phase,
                 held, ownerVars, userVars>>

\* TcpServer::removeConnection(), which queues in the server's loop.
closeCallback ==
  /\ At("closeCallback")
  /\ removals' = removals + 1
  /\ Continue(<<>>)
  /\ UNCHANGED <<state_, reading_, peer, downs, channelVars, outVars, pending, batch, phase,
                 held, owned, userVars>>

\* getSocketError() takes the pending error.
handleError ==
  /\ At("handleError")
  /\ peer' = IF peer = "reset" THEN "gone" ELSE peer
  /\ Continue(<<>>)
  /\ UNCHANGED <<state_, reading_, downs, channelVars, outVars, pending, batch, phase, held,
                 ownerVars, userVars>>

\* Channel::remove() and Poller::removeChannel().
remove ==
  /\ At("remove")
  /\ events_ = {} /\ index_ \in {"kAdded", "kDeleted"}   \* asserts
  /\ index_' = "kNew"
  /\ interest' = NotRegistered
  /\ Continue(<<>>)
  /\ UNCHANGED <<state_, reading_, peer, downs, events_, outVars, pending, batch, phase, held,
                 ownerVars, userVars>>

returnFromCallback ==
  /\ At("callback")
  /\ Continue(<<>>)
  /\ UNCHANGED <<state_, reading_, peer, downs, channelVars, outVars, pending, batch, phase,
                 held, ownerVars, userVars>>

swapFunctors ==
  /\ phase = "handle" /\ todo = <<>>
  /\ phase' = "functors"
  /\ batch' = pending
  /\ pending' = <<>>
  /\ held' = \E f \in ToSet(pending) : Strong(f)
  /\ UNCHANGED <<state_, reading_, peer, downs, channelVars, outVars, todo, ownerVars, userVars>>

Run(op) ==
  /\ phase = "functors" /\ todo = <<>>
  /\ batch # <<>> /\ Head(batch).op = op
  /\ batch' = Tail(batch)
  /\ UNCHANGED <<peer, phase, held, ownerVars, userVars>>

connectEstablished ==
  /\ Run("connectEstablished")
  /\ state_ = "kConnecting"                          \* assert
  /\ state_' = "kConnected"
  /\ enableReading
  /\ todo' = <<"callback">>
  /\ UNCHANGED <<reading_, downs, outVars, pending>>

\* Faulty: reports the end without looking at state_.
connectDestroyedReports ==
  /\ Run("connectDestroyed")
  /\ state_' = "kDisconnected"
  /\ disableAll
  /\ downs' = downs + 1
  /\ todo' = <<"callback", "remove">>
  /\ UNCHANGED <<reading_, outVars, pending>>

connectDestroyed ==
  /\ Run("connectDestroyed")
  /\ IF state_ = "kConnected"
     THEN /\ state_' = "kDisconnected"
          /\ disableAll
          /\ downs' = downs + 1
          /\ todo' = <<"callback", "remove">>
     ELSE /\ todo' = <<"remove">>
          /\ UNCHANGED <<state_, downs, channelVars>>
  /\ UNCHANGED <<reading_, outVars, pending>>

runSend ==
  /\ Run("sendInLoop")
  /\ sendInLoop(Head(batch).arg)
  /\ UNCHANGED <<state_, reading_, downs, todo>>

runShutdown ==
  /\ Run("shutdownInLoop")
  /\ shutdownInLoop
  /\ UNCHANGED <<state_, reading_, downs, todo, channelVars, pending>>

forceCloseInLoop ==
  /\ Run("forceCloseInLoop")
  /\ todo' = IF state_ \in {"kConnected", "kDisconnecting"} THEN <<"handleClose">> ELSE <<>>
  /\ UNCHANGED <<state_, reading_, downs, channelVars, outVars, pending>>

runStartRead ==
  /\ Run("startReadInLoop")
  /\ startReadInLoop
  /\ UNCHANGED <<state_, downs, todo, outVars, pending>>

runStopRead ==
  /\ Run("stopReadInLoop")
  /\ stopReadInLoop
  /\ UNCHANGED <<state_, downs, todo, outVars, pending>>

writeCompleteCallback ==
  /\ Run("writeComplete")
  /\ todo' = <<"callback">>
  /\ UNCHANGED <<state_, reading_, downs, channelVars, outVars, pending>>

\* The vector of callbacks dies with its pointers.
endBatch ==
  /\ phase = "functors" /\ todo = <<>> /\ batch = <<>>
  /\ phase' = "poll"
  /\ held' = FALSE
  /\ UNCHANGED <<state_, reading_, peer, downs, channelVars, outVars, pending, batch, todo,
                 ownerVars, userVars>>

-----------------------------------------------------------------------------
(* Calls of the user's callbacks, in the loop thread.                      *)

Calling(op) == op \in CallbackOps /\ At("callback") /\ calls < MaxCalls /\ calls' = calls + 1

callbackSend(m) ==
  /\ Calling("send")
  /\ state_ = "kConnected"
  /\ sendInLoop(m)
  /\ UNCHANGED <<state_, reading_, peer, downs, batch, phase, held, todo, ownerVars, refs, call>>

callbackShutdown ==
  /\ Calling("shutdown")
  /\ state_ = "kConnected"
  /\ state_' = "kDisconnecting"
  /\ shutdownInLoop
  /\ UNCHANGED <<reading_, peer, downs, channelVars, loopVars, ownerVars, refs, call>>

callbackForceClose ==
  /\ Calling("forceClose")
  /\ state_ \in {"kConnected", "kDisconnecting"}
  /\ state_' = "kDisconnecting"
  /\ queueInLoop(<<Bare("forceCloseInLoop")>>)
  /\ UNCHANGED <<reading_, peer, downs, channelVars, outVars, batch, phase, held, todo,
                 ownerVars, refs, call>>

\* The timer that would call forceClose() is commented out.
callbackForceCloseWithDelay ==
  /\ Calling("forceCloseWithDelay")
  /\ state_ \in {"kConnected", "kDisconnecting"}
  /\ state_' = "kDisconnecting"
  /\ UNCHANGED <<reading_, peer, downs, channelVars, outVars, loopVars, ownerVars, refs, call>>

callbackStartRead ==
  /\ Calling("startRead")
  /\ startReadInLoop
  /\ UNCHANGED <<state_, peer, downs, outVars, loopVars, ownerVars, refs, call>>

callbackStopRead ==
  /\ Calling("stopRead")
  /\ stopReadInLoop
  /\ UNCHANGED <<state_, peer, downs, outVars, loopVars, ownerVars, refs, call>>

\* A callback hands the TcpConnectionPtr it was given to a thread.
share(t) ==
  /\ At("callback")
  /\ t \notin refs
  /\ calls < MaxCalls
  /\ refs' = refs \cup {t}
  /\ UNCHANGED <<state_, reading_, peer, downs, channelVars, outVars, loopVars, ownerVars,
                 call, calls>>

-----------------------------------------------------------------------------
(* Calls from other threads: the test of state_, its assignment and the    *)
(* push into the queue are separate steps.                                 *)

Start(t, op, at, f) ==
  /\ op \in ThreadOps
  /\ t \in refs /\ call[t] = Idle
  /\ calls < MaxCalls
  /\ calls' = calls + 1
  /\ call' = [call EXCEPT ![t] = [at |-> at, f |-> f]]
  /\ UNCHANGED <<state_, reading_, peer, downs, channelVars, outVars, loopVars, ownerVars, refs>>

send(t, m) ==
  state_ = "kConnected" /\ Start(t, "send", "queue", Functor("sendInLoop", m))

shutdown(t) ==
  state_ = "kConnected" /\ Start(t, "shutdown", "set", Bare("shutdownInLoop"))

forceClose(t) ==
  /\ state_ \in {"kConnected", "kDisconnecting"}
  /\ Start(t, "forceClose", "set", Bare("forceCloseInLoop"))

\* Only the assignment: the timer that would call forceClose() is commented out.
forceCloseWithDelay(t) ==
  /\ state_ \in {"kConnected", "kDisconnecting"}
  /\ Start(t, "forceCloseWithDelay", "set", Bare("nothing"))

startRead(t) == Start(t, "startRead", "queue", Bare("startReadInLoop"))
stopRead(t)  == Start(t, "stopRead", "queue", Bare("stopReadInLoop"))

setState(t) ==
  /\ call[t].at = "set"
  /\ state_' = "kDisconnecting"
  /\ call' = [call EXCEPT ![t] = IF call[t].f.op = "nothing" THEN Idle
                                 ELSE [call[t] EXCEPT !.at = "queue"]]
  /\ UNCHANGED <<reading_, peer, downs, channelVars, outVars, loopVars, ownerVars, refs, calls>>

runInLoop(t) ==
  /\ call[t].at = "queue"
  /\ queueInLoop(<<call[t].f>>)
  /\ call' = [call EXCEPT ![t] = Idle]
  /\ UNCHANGED <<state_, reading_, peer, downs, channelVars, outVars, batch, phase, held, todo,
                 ownerVars, refs, calls>>

release(t) ==
  /\ t \in refs /\ call[t] = Idle
  /\ SafeRelease => \A f \in ToSet(pending \o batch) : Strong(f)
  /\ refs' = refs \ {t}
  /\ UNCHANGED <<state_, reading_, peer, downs, channelVars, outVars, loopVars, ownerVars,
                 call, calls>>

-----------------------------------------------------------------------------
(* The server's loop and the peer.                                         *)

\* Faulty: removes the connection unasked.
removeUnasked ==
  /\ owned
  /\ owned' = FALSE
  /\ removals' = removals - 1
  /\ queueInLoop(<<Bare("connectDestroyed")>>)
  /\ UNCHANGED <<state_, reading_, peer, downs, channelVars, outVars, batch, phase, held, todo,
                 userVars>>

removeConnectionInLoop ==
  /\ removals > 0
  /\ owned                                           \* assert(n == 1)
  /\ owned' = FALSE
  /\ removals' = removals - 1
  /\ queueInLoop(<<Bare("connectDestroyed")>>)
  /\ UNCHANGED <<state_, reading_, peer, downs, channelVars, outVars, batch, phase, held, todo,
                 userVars>>

peerChanges(p) ==
  /\ \/ p = "fin" /\ peer = "open"
     \/ p = "reset" /\ peer \in {"open", "fin"} /\ PeerMayReset
  /\ peer' = p
  /\ UNCHANGED <<state_, reading_, downs, channelVars, outVars, loopVars, ownerVars, userVars>>

LoopStep ==
  \/ \E revents \in Reported : poll(revents)
  \/ handleRead \/ handleWrite \/ handleClose \/ closeCallback \/ handleError \/ remove
  \/ returnFromCallback
  \/ swapFunctors \/ endBatch
  \/ connectEstablished \/ connectDestroyed \/ runSend \/ runShutdown
  \/ forceCloseInLoop \/ runStartRead \/ runStopRead \/ writeCompleteCallback

CallbackStep ==
  \/ \E m \in Messages : callbackSend(m)
  \/ callbackShutdown \/ callbackForceClose \/ callbackForceCloseWithDelay
  \/ callbackStartRead \/ callbackStopRead
  \/ \E t \in Threads : share(t)

ThreadStep(t) ==
  \/ \E m \in Messages : send(t, m)
  \/ shutdown(t) \/ forceClose(t) \/ forceCloseWithDelay(t)
  \/ startRead(t) \/ stopRead(t)
  \/ release(t)

Next ==
  \/ LoopStep
  \/ CallbackStep
  \/ \E t \in Threads : ThreadStep(t) \/ setState(t) \/ runInLoop(t)
  \/ removeConnectionInLoop
  \/ peerChanges("fin") \/ peerChanges("reset")

Spec == Init /\ [][Next]_vars

\* Both loops are scheduled, callbacks return and calls complete, and the peer
\* keeps reading: the socket is writable again and again.
FairSpec ==
  /\ Spec
  /\ WF_vars(LoopStep)
  /\ WF_vars(removeConnectionInLoop)
  /\ \A t \in Threads : WF_vars(setState(t) \/ runInLoop(t))
  /\ SF_vars(\E revents \in Reported : "OUT" \in revents /\ poll(revents))

-----------------------------------------------------------------------------
Bytes == UNION {ToSet(m) : m \in Messages}
Functors ==
  [op : {"connectEstablished", "connectDestroyed", "shutdownInLoop", "forceCloseInLoop",
         "startReadInLoop", "stopReadInLoop", "writeComplete", "nothing"}, arg : {<<>>}]
    \cup [op : {"sendInLoop"}, arg : Messages]

Steps == {"handleRead", "handleWrite", "handleClose", "closeCallback", "handleError", "remove",
          "callback"}

ConnectionOK ==
  /\ state_ \in {"kDisconnected", "kConnecting", "kConnected", "kDisconnecting"}
  /\ peer \in {"open", "fin", "reset", "gone"}
  /\ downs \in Nat /\ removals \in Nat
FlagsOK == reading_ \in BOOLEAN /\ wrClosed \in BOOLEAN /\ held \in BOOLEAN /\ owned \in BOOLEAN
ChannelOK ==
  /\ events_ \in SUBSET {"R", "W"}
  /\ index_ \in {"kNew", "kAdded", "kDeleted"}
  /\ interest \in (SUBSET {"R", "W"}) \cup {NotRegistered}
StreamOK == outputBuffer_ \in Seq(Bytes) /\ wire \in Seq(Bytes) /\ accepted \in Seq(Bytes)
LoopOK ==
  /\ pending \in Seq(Functors) /\ batch \in Seq(Functors)
  /\ phase \in {"poll", "handle", "functors"}
  /\ todo \in Seq(Steps)
UsersOK ==
  /\ refs \in SUBSET Threads
  /\ call \in [Threads -> {Idle} \cup [at : {"set", "queue"}, f : Functors]]
  /\ calls \in 0..MaxCalls

\* The variables of the connection, its channel, its loop and its users keep their types.
TypeOK == ConnectionOK /\ FlagsOK /\ ChannelOK /\ StreamOK /\ LoopOK /\ UsersOK

\* Channel::events_, Channel::index_ and the epoll set say the same, so that
\* each epoll_ctl is legal and no event is waited for in vain.
PollerAgrees ==
  /\ interest = IF index_ = "kAdded" THEN events_ ELSE NotRegistered
  /\ index_ # "kAdded" => events_ = {}

\* sendInLoop() and handleWrite(): the socket gets the bytes that were
\* accepted, once and in order, however the kernel splits the writes; the rest is
\* in outputBuffer_.
StreamIntact == accepted = wire \o outputBuffer_

\* enableWriting() and disableWriting(): an open connection waits for
\* writability exactly while it has output, so that output never stalls and the
\* loop never spins.
WriterArmed ==
  state_ \in {"kConnected", "kDisconnecting"} => (isWriting <=> outputBuffer_ # <<>>)

\* shutdown(): the write side is closed only after all accepted output was written.
ShutdownDrains == wrClosed /\ state_ # "kDisconnected" => outputBuffer_ = <<>>

\* handleClose() and connectDestroyed(): connectionCallback_ reports the end of
\* the connection once, and state_ never leaves kDisconnected.
DownReportedOnce == downs = IF state_ = "kDisconnected" THEN 1 ELSE 0

\* Some pointer keeps the TcpConnection; it is destroyed when this becomes false.
Alive ==
  \/ owned \/ removals > 0 \/ held \/ refs # {}
  \/ \E f \in ToSet(pending) : Strong(f)

\* The asserts of handleClose(), connectEstablished(), Channel::remove() with
\* Poller::removeChannel(), TcpServer::removeConnectionInLoop(),
\* ~TcpConnection() and ~Channel().
CloseAssert  == At("handleClose") => state_ \in {"kConnected", "kDisconnecting"}
OpenAssert   == batch # <<>> /\ Head(batch).op = "connectEstablished" => state_ = "kConnecting"
RemoveAssert == At("remove") => events_ = {} /\ index_ \in {"kAdded", "kDeleted"}
OwnerAssert  == removals > 0 => owned
DtorAssert   == ~Alive => state_ = "kDisconnected" /\ index_ = "kNew"

\* No assert of the connection's code fails, in whatever order events, calls,
\* queued callbacks and the owner's removal come.
NoAbort == CloseAssert /\ OpenAssert /\ RemoveAssert /\ OwnerAssert /\ DtorAssert

\* Channel's callbacks and send()'s, shutdown()'s and startRead()'s callbacks are
\* bound to this: they only run while some TcpConnectionPtr keeps the object.
RunsOnLiveObject == todo # <<>> \/ batch # <<>> => Alive

\* handleClose() to connectDestroyed(): a connection that has ended leaves
\* the poller and the server's map.
EndedIsRemoved == state_ = "kDisconnected" ~> index_ = "kNew" /\ ~owned

\* shutdown() and forceClose() leave kDisconnecting: the write side gets closed or
\* the connection ends.
DisconnectingEnds == state_ = "kDisconnecting" ~> wrClosed \/ state_ = "kDisconnected"

\* handleRead() and handleClose(): a connection that is being read notices
\* that the peer closed or reset it.
PeerEndSeen == peer # "open" /\ isReading ~> state_ = "kDisconnected"
=============================================================================
