------------------------------ MODULE TcpClient ------------------------------
(***************************************************************************)
(* network/TcpClient and its network/Connector, on one loop, used by one   *)
(* other thread and by the user's connection callback.                     *)
(*                                                                         *)
(* The loop thread polls, handles the events, then runs a batch of         *)
(* callbacks; cb is set while the user's connection callback runs inside a *)
(* handler, so that the other thread can run meanwhile.  An assert that    *)
(* fails sets aborted, and nothing happens any more.                       *)
(*                                                                         *)
(* The TcpConnection is kept to its end: handleClose(), from an event or   *)
(* from forceCloseInLoop().  File descriptors are used again once closed.  *)
(***************************************************************************)
EXTENDS Naturals, Sequences, FiniteSets

CONSTANTS MaxFds,       \* bound: descriptors in use at a time
          MaxCalls,     \* bound: calls of the other thread
          CallbackOps,  \* what the connection callback may call
          ConnectOnce   \* the other thread calls connect() only once

Ops == {"connect", "disconnect", "stop"}

ASSUME BoundsAssumption == MaxFds \in Nat /\ MaxCalls \in Nat
ASSUME OpsAssumption == CallbackOps \subseteq Ops \cup {"forceClose"}
ASSUME FlagAssumption == ConnectOnce \in BOOLEAN

VARIABLES
  clientConnect_, retry_, connection_,  \* TcpClient: connect_, retry_, connection_
  orphan,    \* the connection that outlives the TcpClient, or Null
  destroyed, \* ~TcpClient() has run
  connect_, state_, channel_,           \* Connector; channel_: a descriptor or Null
  armed,     \* channel_ is registered with the Poller
  fds,       \* fds[f]: who has descriptor f
  pending, batch, phase,   \* the loop, as in FunctorQueue
  ready,     \* the events of this poll that are not handled yet
  cb,        \* "none", or where the loop thread is in a connection callback
  call,      \* where the other thread is in a call, or "idle"
  calls, connects,         \* calls the other thread made; those of connect()
  held,      \* the connection whose TcpConnectionPtr the user keeps, or Null
  stopped,   \* history: a stop() has returned, and no connect() has begun since
  aborted    \* an assert has failed

clientVars    == <<clientConnect_, retry_, connection_, orphan, destroyed>>
connectorVars == <<connect_, state_, channel_, armed, fds>>
loopVars      == <<pending, batch, phase, ready, cb>>
userVars      == <<call, calls, connects, held, stopped>>
vars == <<clientVars, connectorVars, loopVars, userVars, aborted>>

Fds == 1..MaxFds
Null == 0

Init ==
  /\ clientConnect_ = TRUE /\ retry_ \in BOOLEAN /\ connection_ = Null
  /\ orphan = Null /\ destroyed = FALSE
  /\ connect_ = FALSE /\ state_ = "kDisconnected" /\ channel_ = Null /\ armed = FALSE
  /\ fds = [f \in Fds |-> "free"]
  /\ pending = <<>> /\ batch = <<>> /\ phase = "poll" /\ ready = {} /\ cb = "none"
  /\ call = "idle" /\ calls = 0 /\ connects = 0 /\ held = Null /\ stopped = FALSE
  /\ aborted = FALSE

-----------------------------------------------------------------------------
(* Connector, in the loop thread.                                          *)

queueInLoop(f) == pending' = Append(pending, f)

\* Faulty: the socket stays open.
retryKeepsSocket(f) == state_' = "kDisconnected" /\ UNCHANGED fds

\* The timer that would connect again is commented out.
retry(f) ==
  /\ fds' = [fds EXCEPT ![f] = "free"]
  /\ state_' = "kDisconnected"

removeAndResetChannel ==
  /\ armed' = FALSE
  /\ queueInLoop(<<"resetChannel">>)
  /\ UNCHANGED channel_

\* Connector::connect() and connecting(), by what ::connect() returns.  A socket
\* whose error is not temporary is closed at once.
connect ==
  \E f \in Fds :
    /\ fds[f] = "free" /\ \A g \in 1..(f - 1) : fds[g] # "free"
    /\ \/ /\ aborted' = (channel_ # Null)         \* assert(!channel_)
          /\ fds' = [fds EXCEPT ![f] = "connecting"]
          /\ state_' = "kConnecting" /\ channel_' = f /\ armed' = TRUE
       \/ /\ retry(f)
          /\ UNCHANGED <<channel_, armed, aborted>>
       \/ /\ state_' = "kDisconnected"
          /\ UNCHANGED <<channel_, armed, fds, aborted>>

startInLoop(connecting) ==
  IF state_ # "kDisconnected"
  THEN aborted' = TRUE /\ UNCHANGED <<state_, channel_, armed, fds>>
  ELSE IF connecting
       THEN connect
       ELSE UNCHANGED <<state_, channel_, armed, fds, aborted>>

\* Faulty: only the flag stops the attempt.
stopInLoopNothing == UNCHANGED <<state_, channel_, armed, fds, pending>>

stopInLoop ==
  IF state_ = "kConnecting"
  THEN removeAndResetChannel /\ retry(channel_)
  ELSE UNCHANGED <<state_, channel_, armed, fds, pending>>

-----------------------------------------------------------------------------
(* The loop thread.                                                        *)

Running == ~aborted

\* The TcpConnection that has not ended: at most one, the client's or an orphan.
Conn == IF connection_ # Null THEN connection_ ELSE orphan
LoopFree == Running /\ cb = "none"

\* A connecting socket reports OUT, ERR or both, and the connection its end;
\* after a timeout or a wakeup nothing else need be ready.
poll ==
  /\ LoopFree /\ phase = "poll"
  /\ phase' = "handle"
  /\ ready' \in (IF armed THEN SUBSET {"OUT", "ERR"} ELSE {{}})
                \cup (IF Conn # Null THEN {{}, {"end"}} ELSE {{}})
  /\ UNCHANGED <<clientVars, connectorVars, pending, batch, cb, userVars, aborted>>

\* TcpClient::newConnection(), up to the user's callback.
newConnection(f) ==
  /\ fds' = [fds EXCEPT ![f] = "owned"]
  /\ connection_' = f
  /\ cb' = "up"

\* Connector::handleWrite().  A socket that connected after stop() is closed, and state_ says
\* kConnected all the same.
handleWrite ==
  /\ LoopFree /\ "OUT" \in ready
  /\ ready' = ready \ {"OUT"}
  /\ IF state_ = "kConnecting"
     THEN /\ removeAndResetChannel
          /\ \/ /\ retry(channel_)      \* SO_ERROR, or connected to itself
                /\ UNCHANGED <<connection_, cb>>
             \/ /\ state_' = "kConnected"
                /\ IF connect_
                   THEN newConnection(channel_)
                   ELSE /\ fds' = [fds EXCEPT ![channel_] = "free"]
                        /\ UNCHANGED <<connection_, cb>>
          /\ UNCHANGED aborted
     ELSE /\ aborted' = (state_ # "kDisconnected")
          /\ UNCHANGED <<state_, channel_, armed, fds, pending, connection_, cb>>
  /\ UNCHANGED <<clientConnect_, retry_, orphan, destroyed, connect_, batch, phase, userVars>>

\* Channel::handleEvent() calls it after handleWrite().
handleError ==
  /\ LoopFree /\ ready = {"ERR"}
  /\ ready' = {}
  /\ IF state_ = "kConnecting"
     THEN removeAndResetChannel /\ retry(channel_)
     ELSE UNCHANGED <<state_, channel_, armed, fds, pending>>
  /\ UNCHANGED <<clientVars, connect_, batch, phase, cb, userVars, aborted>>

\* TcpConnection::handleClose(), from an event.
handleClose ==
  /\ LoopFree /\ "end" \in ready
  /\ ready' = {}
  /\ cb' = "down"
  /\ UNCHANGED <<clientVars, connectorVars, pending, batch, phase, userVars, aborted>>

\* TcpClient::removeConnection(), the closeCallback_ at the end of
\* handleClose(); with retry_ it starts the connector again.
removeConnection ==
  /\ Running /\ cb = "remove" /\ ~destroyed
  /\ connection_' = Null
  /\ queueInLoop(<<"connectDestroyed", connection_>>)
  /\ cb' = "reconnect"
  /\ fds' = [fds EXCEPT ![connection_] = "ended"]
  /\ UNCHANGED <<clientConnect_, retry_, orphan, destroyed, connect_, state_, channel_, armed,
                 batch, phase, ready, userVars, aborted>>

\* detail::removeConnection(), the closeCallback_ that ~TcpClient() put in its place.
removeOrphan ==
  /\ Running /\ cb = "remove" /\ destroyed
  /\ orphan' = Null
  /\ queueInLoop(<<"connectDestroyed", orphan>>)
  /\ cb' = "none"
  /\ fds' = [fds EXCEPT ![orphan] = "ended"]
  /\ UNCHANGED <<clientConnect_, retry_, connection_, destroyed, connect_, state_, channel_, armed,
                 batch, phase, ready, userVars, aborted>>

\* The test of retry_ and TcpClient's connect_.
reconnect ==
  /\ Running /\ cb = "reconnect"
  /\ cb' = IF retry_ /\ clientConnect_ THEN "restart" ELSE "none"
  /\ UNCHANGED <<clientVars, connectorVars, pending, batch, phase, ready, userVars, aborted>>

\* Faulty: state_ is left as it was.
restartConnected ==
  /\ Running /\ cb = "restart"
  /\ connect_' = TRUE
  /\ cb' = "start"
  /\ UNCHANGED <<clientVars, state_, channel_, armed, fds, pending, batch, phase, ready, userVars, aborted>>

\* Connector::restart(): the connect_ = false of a stop() that came after the test
\* is overwritten; one that comes later is seen by startInLoop().
restart ==
  /\ Running /\ cb = "restart"
  /\ state_' = "kDisconnected" /\ connect_' = TRUE
  /\ cb' = "start"
  /\ UNCHANGED <<clientVars, channel_, armed, fds, pending, batch, phase, ready, userVars, aborted>>

startAgain ==
  /\ Running /\ cb = "start"
  /\ startInLoop(connect_)
  /\ cb' = "none"
  /\ UNCHANGED <<clientVars, connect_, pending, batch, phase, ready, userVars>>

doPendingFunctors ==
  /\ LoopFree /\ phase = "handle" /\ ready = {}
  /\ phase' = "functors" /\ batch' = pending /\ pending' = <<>>
  /\ UNCHANGED <<clientVars, connectorVars, ready, cb, userVars, aborted>>

Next1(f) == LoopFree /\ batch # <<>> /\ Head(batch)[1] = f /\ batch' = Tail(batch)

runStart ==
  /\ Next1("startInLoop")
  /\ startInLoop(connect_)
  /\ UNCHANGED <<clientVars, connect_, pending, phase, ready, cb, userVars>>

runStop ==
  /\ Next1("stopInLoop")
  /\ stopInLoop
  /\ UNCHANGED <<clientVars, connect_, phase, ready, cb, userVars, aborted>>

resetChannel ==
  /\ Next1("resetChannel")
  /\ channel_' = Null
  /\ UNCHANGED <<clientVars, connect_, state_, armed, fds, pending, phase, ready, cb, userVars,
                 aborted>>

\* connectDestroyed() leaves the last pointer to the batch.
connectDestroyed ==
  /\ Next1("connectDestroyed")
  /\ fds' = [fds EXCEPT ![Head(batch)[2]] = "released"]
  /\ UNCHANGED <<clientVars, connect_, state_, channel_, armed, pending, phase, ready, cb,
                 userVars, aborted>>

\* TcpConnection::forceCloseInLoop(): nothing is left to do once the
\* connection has ended.
forceCloseInLoop ==
  /\ Next1("forceClose")
  /\ cb' = IF Conn = Head(batch)[2] THEN "down" ELSE "none"
  /\ UNCHANGED <<clientVars, connectorVars, pending, phase, ready, userVars, aborted>>

\* A connection whose last callback has run lives on while the user has a pointer to it.
Unqueued == [f \in Fds |-> IF fds[f] # "released" THEN fds[f] ELSE IF held = f THEN "kept" ELSE "free"]

\* Faulty: the batch ends before its callbacks have run.
endBatchEarly ==
  /\ LoopFree /\ phase = "functors"
  /\ phase' = "poll"
  /\ fds' = Unqueued
  /\ UNCHANGED <<clientVars, connect_, state_, channel_, armed, pending, batch, ready, cb, userVars,
                 aborted>>

\* The batch dies with its pointers, and the sockets that nobody refers to are closed.
endBatch ==
  /\ LoopFree /\ phase = "functors" /\ batch = <<>>
  /\ phase' = "poll"
  /\ fds' = Unqueued
  /\ UNCHANGED <<clientVars, connect_, state_, channel_, armed, pending, batch, ready, cb, userVars,
                 aborted>>

-----------------------------------------------------------------------------
(* The user's connection callback, in the loop thread.                     *)

AfterCallback == IF cb = "down" THEN "remove" ELSE "none"

InCallback == Running /\ cb \in {"up", "down"} /\ cb' = AfterCallback

callbackReturn ==
  /\ InCallback
  /\ UNCHANGED <<clientVars, connectorVars, pending, batch, phase, ready, userVars, aborted>>

\* connect() runs startInLoop() at once.  The shutdown() of disconnect() has no
\* effect on the client: the end of the connection may come at any time.
callbackCall(op) ==
  /\ InCallback /\ op \in CallbackOps /\ ~destroyed
  /\ op = "connect" => cb = "down"       \* as RpcClient::onConnection() does
  /\ clientConnect_' = (op = "connect")
  /\ connect_' = IF op = "disconnect" THEN connect_ ELSE (op = "connect")
  /\ IF op = "connect" THEN startInLoop(TRUE)
                       ELSE UNCHANGED <<state_, channel_, armed, fds, aborted>>
  /\ pending' = IF op = "stop" THEN Append(pending, <<"stopInLoop">>) ELSE pending
  /\ stopped' = (stopped \/ op = "stop")
  /\ UNCHANGED <<retry_, connection_, orphan, destroyed, batch, phase, ready, call, calls, connects, held>>

callbackForceClose ==
  /\ InCallback /\ cb = "up" /\ "forceClose" \in CallbackOps
  /\ queueInLoop(<<"forceClose", connection_>>)
  /\ UNCHANGED <<clientVars, connectorVars, batch, phase, ready, userVars, aborted>>

-----------------------------------------------------------------------------
(* The other thread: two flags are set, then a callback is queued.         *)

begin(op) ==
  /\ Running /\ call = "idle" /\ calls < MaxCalls /\ ~destroyed
  /\ op = "connect" => (~ConnectOnce \/ connects = 0)
  /\ clientConnect_' = (op = "connect")
  /\ call' = IF op = "disconnect" THEN "idle" ELSE op
  /\ calls' = calls + 1
  /\ connects' = IF op = "connect" THEN connects + 1 ELSE connects
  /\ stopped' = (stopped /\ op # "connect")
  /\ UNCHANGED <<retry_, connection_, orphan, destroyed, connectorVars, loopVars, held, aborted>>

setConnect ==
  /\ Running /\ call \in {"connect", "stop"}
  /\ connect_' = (call = "connect")
  /\ call' = IF call = "connect" THEN "queueStart" ELSE "queueStop"
  /\ UNCHANGED <<clientVars, state_, channel_, armed, fds, loopVars, calls, connects, held, stopped,
                 aborted>>

queueCall ==
  /\ Running /\ call \in {"queueStart", "queueStop"}
  /\ queueInLoop(IF call = "queueStart" THEN <<"startInLoop">> ELSE <<"stopInLoop">>)
  /\ stopped' = (stopped \/ call = "queueStop")
  /\ call' = "idle"
  /\ UNCHANGED <<clientVars, connectorVars, batch, phase, ready, cb, calls, connects, held, aborted>>

-----------------------------------------------------------------------------
(* ~TcpClient(), in a callback of the loop thread.                         *)

Pending(f) == \E i \in DOMAIN (batch \o pending) : (batch \o pending)[i] = f

\* The caller's part: there is a connection, no other thread is in a call, and
\* nothing that is queued points to the Connector, which is destroyed too.
SafeToDestroy ==
  /\ connection_ # Null /\ call = "idle"
  /\ channel_ = Null /\ ~Pending(<<"startInLoop">>) /\ ~Pending(<<"stopInLoop">>)

\* connection_.unique(): neither a queued forceClose() nor the user has another pointer.
forceCloseIfUnique ==
  IF Pending(<<"forceClose", connection_>>) \/ held = connection_
  THEN UNCHANGED pending
  ELSE queueInLoop(<<"forceClose", connection_>>)

\* setCloseCallback() runs at once, and connection_ is released.
destroy ==
  /\ LoopFree /\ phase = "functors" /\ ~destroyed
  /\ SafeToDestroy
  /\ destroyed' = TRUE
  /\ orphan' = connection_ /\ connection_' = Null
  /\ forceCloseIfUnique
  /\ UNCHANGED <<clientConnect_, retry_, connectorVars, batch, phase, ready, cb, userVars, aborted>>

-----------------------------------------------------------------------------
(* A TcpConnectionPtr that the user keeps, as RpcChannel does, in any      *)
(* thread.                                                                 *)

\* The connection the user has a pointer to is destroyed with the pointer, if it is the last.
Unheld == [f \in Fds |-> IF fds[f] = "kept" THEN "free" ELSE fds[f]]

\* From TcpClient::connection() or the connection callback, in place of the pointer before.
keep ==
  /\ Running /\ ~destroyed /\ connection_ \notin {Null, held}
  /\ held' = connection_
  /\ fds' = Unheld
  /\ UNCHANGED <<clientVars, connect_, state_, channel_, armed, loopVars, call, calls, connects,
                 stopped, aborted>>

\* The caller's part: ~TcpConnection() asserts that the connection has ended, so the last
\* pointer to one that ~TcpClient() left open is not given up, nor any while it runs.
SafeToRelease == held # orphan \/ Pending(<<"forceClose", orphan>>) \/ cb \in {"down", "remove"}

release ==
  /\ Running /\ held # Null
  /\ SafeToRelease
  /\ held' = Null
  /\ fds' = Unheld
  /\ UNCHANGED <<clientVars, connect_, state_, channel_, armed, loopVars, call, calls, connects,
                 stopped, aborted>>

\* TcpConnection::forceClose() of a connection that ~TcpClient() left to the user.
closeHeld ==
  /\ Running /\ held # Null /\ held = orphan /\ cb \notin {"down", "remove"}
  /\ ~Pending(<<"forceClose", held>>)
  /\ queueInLoop(<<"forceClose", held>>)
  /\ UNCHANGED <<clientVars, connectorVars, batch, phase, ready, cb, userVars, aborted>>

UserStep == keep \/ release \/ closeHeld

LoopStep ==
  \/ poll \/ handleWrite \/ handleError \/ handleClose \/ removeConnection \/ removeOrphan
  \/ reconnect \/ restart \/ startAgain
  \/ doPendingFunctors \/ runStart \/ runStop \/ resetChannel \/ connectDestroyed
  \/ forceCloseInLoop \/ endBatch \/ callbackReturn

callback == callbackForceClose \/ \E op \in Ops : callbackCall(op)

ThreadStep == setConnect \/ queueCall

Next == LoopStep \/ callback \/ ThreadStep \/ UserStep \/ destroy \/ \E op \in Ops : begin(op)

Spec == Init /\ [][Next]_vars

\* The loop thread and the other thread are scheduled.  Nothing makes a socket
\* ready: a connection attempt may hang.  Nothing is asked of who keeps a pointer.
FairSpec == Spec /\ WF_vars(LoopStep \/ callback) /\ WF_vars(ThreadStep)

-----------------------------------------------------------------------------
Functors == {<<"startInLoop">>, <<"stopInLoop">>, <<"resetChannel">>}
            \cup {<<k, f>> : k \in {"connectDestroyed", "forceClose"}, f \in Fds}

\* The variables keep their types; a batch and reported events exist only in their phase
\* of the loop, and a connection callback only runs for a connection that exists.
TypeOK ==
  /\ {clientConnect_, retry_, connect_, armed, stopped, aborted} \subseteq BOOLEAN
  /\ {connection_, orphan, held} \subseteq {Null} \cup Fds /\ destroyed \in BOOLEAN
  /\ channel_ \in {Null} \cup Fds
  /\ state_ \in {"kDisconnected", "kConnecting", "kConnected"}
  /\ fds \in [Fds -> {"free", "connecting", "owned", "ended", "released", "kept"}]
  /\ pending \in Seq(Functors) /\ batch \in Seq(Functors)
  /\ phase \in {"poll", "handle", "functors"} /\ (batch # <<>> => phase = "functors")
  /\ \A f \in Fds : fds[f] = "released" => phase = "functors"
  /\ ready \subseteq {"OUT", "ERR", "end"} /\ (ready # {} => phase = "handle")
  /\ cb \in {"none", "up", "down", "remove", "reconnect", "restart", "start"}
  /\ cb \in {"up", "down", "remove"} => Conn # Null
  /\ call \in {"idle", "connect", "stop", "queueStart", "queueStop"}
  /\ calls \in 0..MaxCalls /\ connects \in 0..MaxCalls

Queued(f) == Cardinality({i \in DOMAIN pending : pending[i] = f})
             + Cardinality({i \in DOMAIN batch : batch[i] = f})

\* Connector and TcpClient: no assert fails (Connector.cc:36, :108, :154),
\* whatever order stop(), disconnect(), forceClose(), the end
\* of a connection, the retry after it and the socket's events come in.
NoAbort == ~aborted

\* Every open socket has exactly one owner that will close it: the attempt in
\* progress, connection_, one queued connectDestroyed(), or the last pointer of the user.
\* The connection that ~TcpClient() leaves open has a forceClose() queued, unless the user
\* had a pointer to it and closing it is left to him.  A pointer of the user is to a
\* connection that exists.  The Connector's channel is registered exactly while an
\* attempt is in progress, and once removed it is freed once, by a queued resetChannel().
SocketsAccounted ==
  /\ \A f \in Fds :
       /\ fds[f] = "connecting" <=> (state_ = "kConnecting" /\ channel_ = f)
       /\ fds[f] = "owned" <=> Conn = f
       /\ Queued(<<"connectDestroyed", f>>) = IF fds[f] = "ended" THEN 1 ELSE 0
       /\ fds[f] = "kept" => held = f
       /\ held = f => fds[f] \in {"owned", "ended", "released", "kept"}
  /\ orphan # Null => \/ Pending(<<"forceClose", orphan>>) \/ cb \in {"down", "remove"}
                      \/ held = orphan
  /\ armed <=> state_ = "kConnecting"
  /\ Queued(<<"resetChannel">>) = IF channel_ # Null /\ ~armed THEN 1 ELSE 0

\* TcpClient::stop(): unless connect() is called again, a time comes from which on
\* no connection attempt is in progress, even if one was about to start, or a
\* connection with retry_ was about to end, when stop() was called.  ~TcpClient():
\* the connection it leaves behind ends, and its socket is closed, if the user does not
\* keep a pointer to it.
StopEnds ==
  /\ stopped ~> (<>(~stopped) \/ [](state_ # "kConnecting"))
  /\ destroyed ~> \A f \in Fds : fds[f] = "free" \/ held = f
=============================================================================
