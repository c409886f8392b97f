------------------------- MODULE TcpConnectionProofs -------------------------
(***************************************************************************)
(* Theorems about TcpConnection for any set of threads, any messages and   *)
(* any number of calls of the interface.                                   *)
(***************************************************************************)
EXTENDS TcpConnection, SequenceTheorems, TLAPS

Connected == {"kConnected", "kDisconnecting"}

-----------------------------------------------------------------------------
(* What the steps do to the channel, the stream and the flags.             *)

\* A message is a nonempty sequence of bytes.
LEMMA MessageBytes == ASSUME NEW m \in Messages PROVE m \in Seq(Bytes) /\ Len(m) \in Nat \ {0}
<1>1. m \in Seq(ToSet(m)) /\ m # <<>>
  BY MessagesAssumption
<1>2. ToSet(m) \subseteq Bytes
  BY DEF Bytes
<1> QED
  BY <1>1, <1>2

\* The argument of a queued sendInLoop() is a message.
LEMMA FunctorType ==
  ASSUME NEW f \in Functors
  PROVE  /\ f.op = "sendInLoop" => f.arg \in Messages
         /\ f.op \in {"connectEstablished", "connectDestroyed", "shutdownInLoop",
                      "forceCloseInLoop", "startReadInLoop", "stopReadInLoop", "writeComplete",
                      "nothing", "sendInLoop"}
  BY DEF Functors

\* The bare callbacks.
LEMMA BareType ==
  ASSUME NEW op \in {"connectEstablished", "connectDestroyed", "shutdownInLoop",
                     "forceCloseInLoop", "startReadInLoop", "stopReadInLoop", "writeComplete",
                     "nothing"}
  PROVE  Bare(op) \in Functors /\ Bare(op).op = op
  BY DEF Bare, Functor, Functors

\* Every step leaves the channel alone, updates its events or removes it.
LEMMA ChannelStep ==
  ASSUME TypeOK, [Next]_vars
  PROVE  \/ UNCHANGED channelVars
         \/ \E e \in SUBSET {"R", "W"} : update(e)
         \/ remove
<1>1. /\ events_ \cup {"R"} \in SUBSET {"R", "W"} /\ events_ \ {"R"} \in SUBSET {"R", "W"}
      /\ events_ \cup {"W"} \in SUBSET {"R", "W"} /\ events_ \ {"W"} \in SUBSET {"R", "W"}
      /\ {} \in SUBSET {"R", "W"}
  BY DEF TypeOK, ChannelOK
<1>2. \/ UNCHANGED channelVars \/ enableReading \/ disableReading \/ enableWriting
      \/ disableWriting \/ disableAll \/ remove
  <2>1. CASE LoopStep
    BY <2>1, Zenon
    DEF LoopStep, poll, handleRead, handleWrite, drained, handleClose, closeCallback, handleError,
        returnFromCallback, swapFunctors, endBatch, connectEstablished, connectDestroyed, runSend,
        runShutdown, forceCloseInLoop, runStartRead, runStopRead, writeCompleteCallback,
        sendInLoop, startReadInLoop, stopReadInLoop
  <2>2. CASE CallbackStep
    BY <2>2, Zenon
    DEF CallbackStep, callbackSend, callbackShutdown, callbackForceClose,
        callbackForceCloseWithDelay, callbackStartRead, callbackStopRead, share, sendInLoop,
        startReadInLoop, stopReadInLoop
  <2>3. ASSUME NEW t \in Threads, ThreadStep(t) \/ setState(t) \/ runInLoop(t)
        PROVE  UNCHANGED channelVars
    BY <2>3, Zenon DEF ThreadStep, send, shutdown, forceClose, forceCloseWithDelay, startRead, stopRead,
                Start, release, setState, runInLoop
  <2>4. CASE removeConnectionInLoop \/ peerChanges("fin") \/ peerChanges("reset") \/ UNCHANGED vars
    BY <2>4, Zenon DEF removeConnectionInLoop, peerChanges, vars
  <2> QED
    BY <2>1, <2>2, <2>3, <2>4, Zenon DEF Next
<1> QED
  BY <1>1, <1>2, Zenon DEF enableReading, disableReading, enableWriting, disableWriting, disableAll

\* Every step leaves the output alone, accepts a message or writes to the socket.
LEMMA StreamStep ==
  ASSUME TypeOK, [Next]_vars
  PROVE  \/ UNCHANGED <<outputBuffer_, wire, accepted>>
         \/ \E m \in Messages : sendInLoop(m)
         \/ handleWrite
<1>1. CASE LoopStep
  <2>1. ASSUME runSend PROVE \E m \in Messages : sendInLoop(m)
    <3>1. batch \in Seq(Functors) /\ batch # <<>> /\ Head(batch).op = "sendInLoop"
      BY <2>1 DEF runSend, Run, TypeOK, LoopOK
    <3>2. Head(batch).arg \in Messages
      BY <3>1, FunctorType
    <3> QED
      BY <2>1, <3>2, Zenon DEF runSend
  <2> QED
    BY <1>1, <2>1, Zenon
    DEF LoopStep, poll, handleRead, handleClose, closeCallback, handleError, remove, outVars,
        returnFromCallback, swapFunctors, endBatch, connectEstablished, connectDestroyed,
        runShutdown, shutdownInLoop, forceCloseInLoop, runStartRead, runStopRead,
        writeCompleteCallback
<1>2. CASE CallbackStep
  BY <1>2, Zenon
  DEF CallbackStep, callbackSend, callbackShutdown, callbackForceClose, shutdownInLoop, outVars,
      callbackForceCloseWithDelay, callbackStartRead, callbackStopRead, share
<1>3. ASSUME NEW t \in Threads, ThreadStep(t) \/ setState(t) \/ runInLoop(t)
      PROVE  UNCHANGED <<outputBuffer_, wire, accepted>>
  BY <1>3, Zenon DEF ThreadStep, send, shutdown, forceClose, forceCloseWithDelay, startRead, stopRead,
              Start, release, setState, runInLoop, outVars
<1>4. CASE removeConnectionInLoop \/ peerChanges("fin") \/ peerChanges("reset") \/ UNCHANGED vars
  BY <1>4, Zenon DEF removeConnectionInLoop, peerChanges, vars, outVars
<1> QED
  BY <1>1, <1>2, <1>3, <1>4, Zenon DEF Next

\* Splitting a sequence that is written in two parts loses nothing.
LEMMA WriteSplit ==
  ASSUME NEW w \in Seq(Bytes), NEW b \in Seq(Bytes), NEW n \in 0..Len(b)
  PROVE  /\ w \o SubSeq(b, 1, n) \in Seq(Bytes) /\ SubSeq(b, n + 1, Len(b)) \in Seq(Bytes)
         /\ Len(SubSeq(b, n + 1, Len(b))) = Len(b) - n
         /\ (w \o SubSeq(b, 1, n)) \o SubSeq(b, n + 1, Len(b)) = w \o b
<1>1. Len(b) \in Nat /\ n \in Nat /\ n <= Len(b)
  OBVIOUS
<1>2. SubSeq(b, 1, n) \in Seq(Bytes) /\ SubSeq(b, n + 1, Len(b)) \in Seq(Bytes)
      /\ Len(SubSeq(b, n + 1, Len(b))) = Len(b) - n
  BY <1>1
<1>3. SubSeq(b, 1, n) \o SubSeq(b, n + 1, Len(b)) = b
  <2>1. 1 \in 1..(Len(b) + 1) /\ n \in (1 - 1)..Len(b) /\ Len(b) \in n..Len(b)
    BY <1>1
  <2>2. SubSeq(b, 1, n) \o SubSeq(b, n + 1, Len(b)) = SubSeq(b, 1, Len(b))
    BY <2>1, ConcatAdjacentSubSeq
  <2>3. SubSeq(b, 1, Len(b)) = b
    BY SubSeqFull
  <2> QED
    BY <2>2, <2>3
<1>4. (w \o SubSeq(b, 1, n)) \o SubSeq(b, n + 1, Len(b)) = w \o b
  <2>1. (w \o SubSeq(b, 1, n)) \o SubSeq(b, n + 1, Len(b))
          = w \o (SubSeq(b, 1, n) \o SubSeq(b, n + 1, Len(b)))
    <3> DEFINE f == SubSeq(b, 1, n)
               g == SubSeq(b, n + 1, Len(b))
    <3>1. f \in Seq(Bytes) /\ g \in Seq(Bytes)
      BY <1>2
    <3> HIDE DEF f, g
    <3>2. (w \o f) \o g = w \o (f \o g)
      BY <3>1, ConcatAssociative, SMTT(60)
    <3> QED
      BY <3>2 DEF f, g
  <2> QED
    BY <2>1, <1>3
<1>5. w \o SubSeq(b, 1, n) \in Seq(Bytes)
  BY <1>2
<1> QED
  BY <1>2, <1>4, <1>5

\* sendInLoop() accepts a message: it is written, buffered, or both.
LEMMA SendInLoopEffect ==
  ASSUME StreamOK, NEW m \in Messages, sendInLoop(m)
  PROVE  StreamOK' /\ (StreamIntact => StreamIntact')
<1>1. m \in Seq(Bytes) /\ Len(m) \in Nat
  BY MessageBytes
<1> USE DEF StreamOK
<1>2. CASE UNCHANGED outVars
  BY <1>2 DEF outVars, StreamIntact
<1>3. ASSUME outputBuffer_ = <<>>, NEW nwrote \in 0..Len(m),
             wire' = wire \o SubSeq(m, 1, nwrote),
             outputBuffer_' = SubSeq(m, nwrote + 1, Len(m)), accepted' = accepted \o m
      PROVE  StreamOK' /\ (StreamIntact => StreamIntact')
  <2>1. /\ wire' \in Seq(Bytes) /\ outputBuffer_' \in Seq(Bytes)
        /\ wire' \o outputBuffer_' = wire \o m
    BY <1>1, <1>3, WriteSplit
  <2>2. accepted' \in Seq(Bytes)
    BY <1>1, <1>3
  <2>3. StreamIntact => accepted = wire
    BY <1>3, ConcatEmptySeq DEF StreamIntact
  <2> QED
    BY <1>3, <2>1, <2>2, <2>3 DEF StreamIntact
<1>4. ASSUME outputBuffer_' = outputBuffer_ \o m, accepted' = accepted \o m, wire' = wire
      PROVE  StreamOK' /\ (StreamIntact => StreamIntact')
  <2>1. outputBuffer_' \in Seq(Bytes) /\ accepted' \in Seq(Bytes)
    BY <1>1, <1>4
  <2>2. (wire \o outputBuffer_) \o m = wire \o (outputBuffer_ \o m)
    BY <1>1, ConcatAssociative
  <2> QED
    BY <1>4, <2>1, <2>2 DEF StreamIntact
<1> QED
  BY <1>2, <1>3, <1>4 DEF sendInLoop

\* handleWrite() writes a part of the output buffer.
LEMMA HandleWriteEffect ==
  ASSUME StreamOK, handleWrite
  PROVE  StreamOK' /\ (StreamIntact => StreamIntact')
<1> USE DEF StreamOK
<1>1. CASE UNCHANGED outVars
  BY <1>1 DEF outVars, StreamIntact
<1>2. ASSUME NEW n \in 1..Len(outputBuffer_), UNCHANGED accepted,
             wire' = wire \o SubSeq(outputBuffer_, 1, n), outputBuffer_' = retrieve(n)
      PROVE  StreamOK' /\ (StreamIntact => StreamIntact')
  <2>1. n \in 0..Len(outputBuffer_) /\ outputBuffer_' = SubSeq(outputBuffer_, n + 1, Len(outputBuffer_))
    BY <1>2 DEF retrieve
  <2>2. /\ wire' \in Seq(Bytes) /\ outputBuffer_' \in Seq(Bytes)
        /\ wire' \o outputBuffer_' = wire \o outputBuffer_
    <3> DEFINE b == outputBuffer_
    <3>1. wire \in Seq(Bytes) /\ b \in Seq(Bytes) /\ n \in 0..Len(b)
      BY <2>1
    <3>2. /\ wire \o SubSeq(b, 1, n) \in Seq(Bytes) /\ SubSeq(b, n + 1, Len(b)) \in Seq(Bytes)
          /\ (wire \o SubSeq(b, 1, n)) \o SubSeq(b, n + 1, Len(b)) = wire \o b
      BY <3>1, WriteSplit
    <3> QED
      BY <1>2, <2>1, <3>2, Zenon
  <2> QED
    BY <1>2, <2>2 DEF StreamIntact
<1> QED
  BY <1>1, <1>2 DEF handleWrite

-----------------------------------------------------------------------------
(* Types.                                                                  *)

\* The constructor's and newConnection()'s values have their types.
LEMMA TypeOKInit == Init => TypeOK
<1> SUFFICES ASSUME Init PROVE TypeOK
  OBVIOUS
<1>0. ConnectionOK
  BY DEF Init, ConnectionOK
<1>1. ChannelOK
  <2>1. events_ \in SUBSET {"R", "W"} /\ index_ \in {"kNew", "kAdded", "kDeleted"}
    BY DEF Init
  <2>2. interest \in (SUBSET {"R", "W"}) \cup {NotRegistered}
    BY Zenon DEF Init
  <2> QED
    BY <2>1, <2>2, Zenon DEF ChannelOK
<1>2. FlagsOK
  BY Zenon DEF Init, FlagsOK
<1>3. StreamOK
  BY DEF Init, StreamOK
<1>4. LoopOK
  BY BareType DEF Init, LoopOK
<1>5. UsersOK
  BY MaxCallsAssumption DEF Init, UsersOK
<1> QED
  BY <1>0, <1>1, <1>2, <1>3, <1>4, <1>5 DEF TypeOK

\* handleEvent() only calls the handlers of the connection.
LEMMA HandleEventType == ASSUME NEW r PROVE handleEvent(r) \in Seq(Steps)
<1> DEFINE a == IF "HUP" \in r /\ "IN" \notin r THEN <<"handleClose">> ELSE <<>>
           b == IF "IN" \in r THEN <<"handleRead">> ELSE <<>>
           c == IF "OUT" \in r THEN <<"handleWrite">> ELSE <<>>
           d == IF "ERR" \in r THEN <<"handleError">> ELSE <<>>
<1>1. a \in Seq(Steps) /\ b \in Seq(Steps) /\ c \in Seq(Steps) /\ d \in Seq(Steps)
  <2>1. /\ "handleClose" \in Steps /\ "handleRead" \in Steps /\ "handleWrite" \in Steps
        /\ "handleError" \in Steps
    BY DEF Steps
  <2>2. \A x \in Steps : <<x>> \in Seq(Steps)
    OBVIOUS
  <2>3. <<>> \in Seq(Steps)
    OBVIOUS
  <2> QED
    BY <2>1, <2>2, <2>3, Zenon
<1>2. handleEvent(r) = a \o b \o c \o d
  BY DEF handleEvent
<1> HIDE DEF a, b, c, d
<1> QED
  BY <1>1, <1>2

\* A handler continues with the rest of what the loop thread has to do.
LEMMA ContinueType ==
  ASSUME LoopOK, todo # <<>>, NEW s \in Seq(Steps), Continue(s)
  PROVE  todo' \in Seq(Steps)
  BY DEF LoopOK, Continue

\* The booleans of the connection stay booleans.
LEMMA FlagsStep == TypeOK /\ [Next]_vars => FlagsOK'
<1> SUFFICES ASSUME TypeOK, [Next]_vars PROVE FlagsOK'
  OBVIOUS
<1> USE DEF TypeOK, FlagsOK
<1>1. CASE LoopStep
  <2>1. CASE \/ \E revents \in Reported : poll(revents)
             \/ handleRead \/ handleClose \/ closeCallback \/ handleError \/ remove
             \/ returnFromCallback \/ endBatch
    BY <2>1, Zenon
    DEF poll, handleRead, handleClose, closeCallback, handleError, remove, outVars, ownerVars,
        returnFromCallback, endBatch
  <2>2. CASE handleWrite
    BY <2>2, Zenon DEF handleWrite, drained, outVars, ownerVars
  <2>3. CASE swapFunctors
    BY <2>3, Zenon DEF swapFunctors, outVars, ownerVars
  <2>4. CASE runSend
    BY <2>4, Zenon DEF runSend, Run, sendInLoop, outVars, ownerVars
  <2>5. CASE runShutdown
    BY <2>5, Zenon DEF runShutdown, Run, shutdownInLoop, isWriting, outVars, ownerVars
  <2>6. CASE connectEstablished \/ connectDestroyed \/ forceCloseInLoop \/ writeCompleteCallback
    BY <2>6, Zenon DEF connectEstablished, connectDestroyed, forceCloseInLoop, writeCompleteCallback,
                Run, outVars, ownerVars
  <2>7. CASE runStartRead \/ runStopRead
    BY <2>7, Zenon DEF runStartRead, runStopRead, startReadInLoop, stopReadInLoop, Run, outVars, ownerVars
  <2> QED
    BY <1>1, <2>1, <2>2, <2>3, <2>4, <2>5, <2>6, <2>7, Zenon DEF LoopStep
<1>2. CASE CallbackStep
  <2>1. CASE \E m \in Messages : callbackSend(m)
    BY <2>1, Zenon DEF callbackSend, sendInLoop, outVars, ownerVars
  <2>2. CASE callbackShutdown
    BY <2>2, Zenon DEF callbackShutdown, shutdownInLoop, isWriting, outVars, ownerVars, loopVars
  <2>3. CASE callbackForceClose \/ callbackForceCloseWithDelay \/ \E t \in Threads : share(t)
    BY <2>3, Zenon DEF callbackForceClose, callbackForceCloseWithDelay, share, outVars, ownerVars, loopVars
  <2>4. CASE callbackStartRead \/ callbackStopRead
    BY <2>4, Zenon DEF callbackStartRead, callbackStopRead, startReadInLoop, stopReadInLoop, outVars,
                ownerVars, loopVars
  <2> QED
    BY <1>2, <2>1, <2>2, <2>3, <2>4, Zenon DEF CallbackStep
<1>3. ASSUME NEW t \in Threads, ThreadStep(t) \/ setState(t) \/ runInLoop(t)
      PROVE  FlagsOK'
  BY <1>3, Zenon DEF ThreadStep, send, shutdown, forceClose, forceCloseWithDelay, startRead, stopRead,
              Start, release, setState, runInLoop, outVars, ownerVars, loopVars
<1>4. CASE removeConnectionInLoop \/ peerChanges("fin") \/ peerChanges("reset") \/ UNCHANGED vars
  BY <1>4, Zenon DEF removeConnectionInLoop, peerChanges, vars, outVars, ownerVars, loopVars
<1> QED
  BY <1>1, <1>2, <1>3, <1>4, Zenon DEF Next

\* The channel stays typed and in agreement with the poller.
LEMMA ChannelTyped == TypeOK /\ [Next]_vars => ChannelOK' /\ (PollerAgrees => PollerAgrees')
<1> SUFFICES ASSUME TypeOK, [Next]_vars PROVE ChannelOK' /\ (PollerAgrees => PollerAgrees')
  OBVIOUS
<1> USE DEF TypeOK, ChannelOK, PollerAgrees
<1>1. CASE UNCHANGED channelVars
  BY <1>1, Zenon DEF channelVars
<1>2. ASSUME NEW e \in SUBSET {"R", "W"}, update(e)
      PROVE  ChannelOK' /\ PollerAgrees'
  BY <1>2 DEF update
<1>3. CASE remove
  BY <1>3 DEF remove
<1> QED
  BY <1>1, <1>2, <1>3, ChannelStep

\* The output stays typed and intact.
LEMMA StreamTyped == TypeOK /\ [Next]_vars => StreamOK' /\ (StreamIntact => StreamIntact')
<1> SUFFICES ASSUME TypeOK, [Next]_vars PROVE StreamOK' /\ (StreamIntact => StreamIntact')
  OBVIOUS
<1>1. CASE UNCHANGED <<outputBuffer_, wire, accepted>>
  BY <1>1, Zenon DEF TypeOK, StreamOK, StreamIntact
<1> QED
  BY <1>1, StreamStep, SendInLoopEffect, HandleWriteEffect, Zenon DEF TypeOK

\* state_, peer and the counters stay typed.
LEMMA ConnectionTyped == TypeOK /\ [Next]_vars => ConnectionOK'
<1> SUFFICES ASSUME TypeOK, [Next]_vars PROVE ConnectionOK'
  OBVIOUS
<1> USE DEF TypeOK, ConnectionOK, ownerVars
<1>1. CASE LoopStep
  <2>1. CASE \/ \E revents \in Reported : poll(revents)
             \/ remove \/ returnFromCallback \/ swapFunctors \/ endBatch \/ handleWrite
    BY <2>1, Zenon
    DEF poll, remove, returnFromCallback, swapFunctors, endBatch, handleWrite
  <2>2. CASE handleRead \/ handleError
    BY <2>2 DEF handleRead, handleError
  <2>3. CASE closeCallback
    BY <2>3 DEF closeCallback
  <2>4. CASE handleClose \/ connectEstablished \/ connectDestroyed
    BY <2>4 DEF handleClose, connectEstablished, connectDestroyed, Run
  <2>5. CASE \/ runSend \/ runShutdown \/ forceCloseInLoop \/ runStartRead \/ runStopRead
             \/ writeCompleteCallback
    BY <2>5 DEF runSend, runShutdown, forceCloseInLoop, runStartRead, runStopRead,
                writeCompleteCallback, Run
  <2> QED
    BY <1>1, <2>1, <2>2, <2>3, <2>4, <2>5, Zenon DEF LoopStep
<1>2. CASE CallbackStep
  BY <1>2
  DEF CallbackStep, callbackSend, callbackShutdown, callbackForceClose,
      callbackForceCloseWithDelay, callbackStartRead, callbackStopRead, share
<1>3. ASSUME NEW t \in Threads, ThreadStep(t) \/ setState(t) \/ runInLoop(t)
      PROVE  ConnectionOK'
  BY <1>3 DEF ThreadStep, send, shutdown, forceClose, forceCloseWithDelay, startRead, stopRead,
              Start, release, setState, runInLoop
<1>4. CASE removeConnectionInLoop \/ peerChanges("fin") \/ peerChanges("reset") \/ UNCHANGED vars
  BY <1>4 DEF removeConnectionInLoop, peerChanges, vars
<1> QED
  BY <1>1, <1>2, <1>3, <1>4 DEF Next

\* The calls of other threads stay typed.
LEMMA UsersTyped == TypeOK /\ [Next]_vars => UsersOK'
<1> SUFFICES ASSUME TypeOK, [Next]_vars PROVE UsersOK'
  OBVIOUS
<1> USE DEF TypeOK, UsersOK, userVars
<1>1. CASE LoopStep
  BY <1>1, Zenon
  DEF LoopStep, poll, handleRead, handleWrite, handleClose, closeCallback, handleError, remove,
      returnFromCallback, swapFunctors, endBatch, connectEstablished, connectDestroyed, runSend,
      runShutdown, forceCloseInLoop, runStartRead, runStopRead, writeCompleteCallback, Run
<1>2. CASE CallbackStep
  <2>1. CASE \E t \in Threads : share(t)
    BY <2>1 DEF share
  <2>2. CASE CallbackStep /\ ~ \E t \in Threads : share(t)
    <3>1. calls < MaxCalls /\ calls' = calls + 1 /\ UNCHANGED <<refs, call>>
      BY <2>2, Zenon
      DEF CallbackStep, callbackSend, callbackShutdown, callbackForceClose,
          callbackForceCloseWithDelay, callbackStartRead, callbackStopRead, Calling
    <3> QED
      BY <3>1, MaxCallsAssumption
  <2> QED
    BY <1>2, <2>1, <2>2
<1>3. ASSUME NEW t \in Threads, ThreadStep(t) PROVE UsersOK'
  <2>1. CASE release(t)
    BY <2>1 DEF release
  <2>2. ASSUME NEW op, NEW at \in {"set", "queue"}, NEW f \in Functors, Start(t, op, at, f)
        PROVE  UsersOK'
    BY <2>2, MaxCallsAssumption DEF Start
  <2>3. \A m \in Messages : Functor("sendInLoop", m) \in Functors
    BY DEF Functor, Functors
  <2> QED
    BY <1>3, <2>1, <2>2, <2>3, BareType
    DEF ThreadStep, send, shutdown, forceClose, forceCloseWithDelay, startRead, stopRead
<1>4. ASSUME NEW t \in Threads, setState(t) \/ runInLoop(t) PROVE UsersOK'
  BY <1>4 DEF setState, runInLoop, Idle
<1>5. CASE removeConnectionInLoop \/ peerChanges("fin") \/ peerChanges("reset") \/ UNCHANGED vars
  BY <1>5, Zenon DEF removeConnectionInLoop, peerChanges, vars
<1> QED
  BY <1>1, <1>2, <1>3, <1>4, <1>5 DEF Next

\* What the loop has queued and what its thread has still to do stay typed.
LEMMA LoopTyped == TypeOK /\ [Next]_vars => LoopOK'
<1> SUFFICES ASSUME TypeOK, [Next]_vars PROVE LoopOK'
  OBVIOUS
<1>0. LoopOK
  BY DEF TypeOK
<1>1. pending' \in Seq(Functors)
  <2>1. ASSUME NEW op \in {"connectDestroyed", "forceCloseInLoop", "writeComplete"},
               queueInLoop(<<Bare(op)>>)
        PROVE  pending' \in Seq(Functors)
    BY <1>0, <2>1, BareType DEF LoopOK, queueInLoop
  <2>2. ASSUME queueInLoop(writeCompleted) PROVE pending' \in Seq(Functors)
    <3>1. CASE WriteComplete
      BY <3>1, <2>1, <2>2 DEF writeCompleted
    <3>2. CASE ~WriteComplete
      BY <3>2, <2>2, <1>0 DEF writeCompleted, queueInLoop, LoopOK
    <3> QED
      BY <3>1, <3>2
  <2>3. ASSUME NEW t \in Threads, runInLoop(t) PROVE pending' \in Seq(Functors)
    <3>1. call[t] \in {Idle} \cup [at : {"set", "queue"}, f : Functors] /\ call[t].at = "queue"
      BY <2>3, Zenon DEF TypeOK, UsersOK, runInLoop
    <3>2. call[t].f \in Functors
      BY <3>1 DEF Idle
    <3> QED
      BY <2>3, <3>2, <1>0 DEF runInLoop, queueInLoop, LoopOK
  <2>4. CASE swapFunctors
    BY <2>4 DEF swapFunctors
  <2>5. UNCHANGED pending => pending' \in Seq(Functors)
    BY <1>0, Zenon DEF LoopOK
  <2>6. CASE LoopStep
    BY <2>6, <2>2, <2>4, <2>5, Zenon
    DEF LoopStep, poll, handleRead, handleWrite, drained, handleClose, closeCallback, handleError,
        remove, returnFromCallback, endBatch, connectEstablished, connectDestroyed, runSend,
        runShutdown, forceCloseInLoop, runStartRead, runStopRead, writeCompleteCallback, sendInLoop
  <2>7. CASE CallbackStep
    BY <2>7, <2>1, <2>2, <2>5, Zenon
    DEF CallbackStep, callbackSend, callbackShutdown, callbackForceClose, sendInLoop, loopVars,
        callbackForceCloseWithDelay, callbackStartRead, callbackStopRead, share
  <2>8. ASSUME NEW t \in Threads, ThreadStep(t) \/ setState(t) PROVE UNCHANGED pending
    BY <2>8, Zenon DEF ThreadStep, send, shutdown, forceClose, forceCloseWithDelay, startRead, stopRead,
                Start, release, setState, loopVars
  <2>9. CASE removeConnectionInLoop
    BY <2>9, <2>1, Zenon DEF removeConnectionInLoop
  <2>10. CASE peerChanges("fin") \/ peerChanges("reset") \/ UNCHANGED vars
    BY <2>10, <2>5, Zenon DEF peerChanges, loopVars, vars
  <2> QED
    BY <2>3, <2>5, <2>6, <2>7, <2>8, <2>9, <2>10, Zenon DEF Next
<1>2. batch' \in Seq(Functors) /\ phase' \in {"poll", "handle", "functors"}
  <2>1. ASSUME NEW op, Run(op) PROVE batch' \in Seq(Functors) /\ UNCHANGED phase
    BY <2>1, <1>0 DEF Run, LoopOK
  <2>2. \A op : Run(op) => batch' \in Seq(Functors) /\ phase' \in {"poll", "handle", "functors"}
    BY <2>1, <1>0 DEF LoopOK
  <2>3. CASE swapFunctors
    BY <2>3, <1>0 DEF swapFunctors, LoopOK
  <2>4. UNCHANGED <<batch, phase>> => batch' \in Seq(Functors) /\ phase' \in {"poll", "handle", "functors"}
    BY <1>0, Zenon DEF LoopOK
  <2>5. CASE (\E revents \in Reported : poll(revents)) \/ endBatch
    BY <2>5, <1>0 DEF poll, endBatch, LoopOK
  <2>6. CASE LoopStep
    BY <2>6, <2>2, <2>3, <2>4, <2>5, Zenon
    DEF LoopStep, handleRead, handleWrite, handleClose, closeCallback, handleError,
        remove, returnFromCallback, connectEstablished, connectDestroyed, runSend,
        runShutdown, forceCloseInLoop, runStartRead, runStopRead, writeCompleteCallback
  <2>7. CASE CallbackStep
    BY <2>7, <2>4, Zenon
    DEF CallbackStep, callbackSend, callbackShutdown, callbackForceClose, loopVars,
        callbackForceCloseWithDelay, callbackStartRead, callbackStopRead, share
  <2>8. ASSUME NEW t \in Threads, ThreadStep(t) \/ setState(t) \/ runInLoop(t)
        PROVE  UNCHANGED <<batch, phase>>
    BY <2>8, Zenon DEF ThreadStep, send, shutdown, forceClose, forceCloseWithDelay, startRead, stopRead,
                Start, release, setState, runInLoop, loopVars
  <2>9. CASE removeConnectionInLoop \/ peerChanges("fin") \/ peerChanges("reset") \/ UNCHANGED vars
    BY <2>9, <2>4, Zenon DEF removeConnectionInLoop, peerChanges, loopVars, vars
  <2> QED
    BY <2>4, <2>6, <2>7, <2>8, <2>9, Zenon DEF Next
<1>3. todo' \in Seq(Steps)
  <2>0. /\ <<>> \in Seq(Steps) /\ <<"callback">> \in Seq(Steps) /\ <<"handleClose">> \in Seq(Steps)
        /\ <<"callback", "closeCallback">> \in Seq(Steps)
        /\ <<"callback", "remove">> \in Seq(Steps) /\ <<"remove">> \in Seq(Steps)
    BY DEF Steps
  <2>1. ASSUME NEW s \in Seq(Steps), todo # <<>>, Continue(s) PROVE todo' \in Seq(Steps)
    BY <2>1, <1>0, ContinueType
  <2>2. UNCHANGED todo => todo' \in Seq(Steps)
    BY <1>0, Zenon DEF LoopOK
  <2>3. CASE \E revents \in Reported : poll(revents)
    BY <2>3, HandleEventType, Zenon DEF poll
  <2>4. CASE \/ handleRead \/ handleWrite \/ handleClose \/ closeCallback \/ handleError \/ remove
             \/ returnFromCallback
    BY <2>4, <2>0, <2>1, Zenon
    DEF handleRead, handleWrite, handleClose, closeCallback, handleError, remove,
        returnFromCallback, At
  <2>5. CASE \/ swapFunctors \/ endBatch \/ connectEstablished \/ connectDestroyed \/ runSend
             \/ runShutdown \/ forceCloseInLoop \/ runStartRead \/ runStopRead
             \/ writeCompleteCallback
    BY <2>5, <2>0, <2>2, Zenon
    DEF swapFunctors, endBatch, connectEstablished, connectDestroyed, runSend, runShutdown,
        forceCloseInLoop, runStartRead, runStopRead, writeCompleteCallback
  <2>6. CASE LoopStep
    BY <2>6, <2>3, <2>4, <2>5, Zenon DEF LoopStep
  <2>7. CASE CallbackStep
    BY <2>7, <2>2, Zenon
    DEF CallbackStep, callbackSend, callbackShutdown, callbackForceClose, loopVars,
        callbackForceCloseWithDelay, callbackStartRead, callbackStopRead, share
  <2>8. ASSUME NEW t \in Threads, ThreadStep(t) \/ setState(t) \/ runInLoop(t)
        PROVE  UNCHANGED todo
    BY <2>8, Zenon DEF ThreadStep, send, shutdown, forceClose, forceCloseWithDelay, startRead, stopRead,
                Start, release, setState, runInLoop, loopVars
  <2>9. CASE removeConnectionInLoop \/ peerChanges("fin") \/ peerChanges("reset") \/ UNCHANGED vars
    BY <2>9, <2>2, Zenon DEF removeConnectionInLoop, peerChanges, loopVars, vars
  <2> QED
    BY <2>2, <2>6, <2>7, <2>8, <2>9, Zenon DEF Next
<1> QED
  BY <1>1, <1>2, <1>3, Zenon DEF LoopOK

\* Every step keeps the types.
LEMMA TypeOKStep == TypeOK /\ [Next]_vars => TypeOK'
<1> SUFFICES ASSUME TypeOK, [Next]_vars PROVE TypeOK'
  OBVIOUS
<1> QED
  BY FlagsStep, ChannelTyped, StreamTyped, ConnectionTyped, UsersTyped, LoopTyped, Zenon DEF TypeOK

\* The state of a connection, its channel, its loop and its users keeps its types,
\* whatever the threads and the callbacks call.
THEOREM TypeCorrect == Spec => []TypeOK
  BY TypeOKInit, TypeOKStep, PTL DEF Spec

\* Channel::update() and Channel::remove(): the channel and the epoll set agree after
\* every sequence of calls of the interface, those of the findings included.
THEOREM ChannelAndPollerAgree == Spec => []PollerAgrees
<1>1. Init => PollerAgrees
  BY DEF Init, PollerAgrees
<1>2. TypeOK /\ PollerAgrees /\ [Next]_vars => PollerAgrees'
  BY ChannelTyped
<1> QED
  BY <1>1, <1>2, TypeCorrect, PTL DEF Spec

\* sendInLoop() and handleWrite(): however the kernel splits the writes and whoever sends,
\* no accepted byte is lost, repeated or reordered on its way to the socket.
THEOREM OutputIsAStream == Spec => []StreamIntact
<1>1. Init => StreamIntact
  BY DEF Init, StreamIntact
<1>2. TypeOK /\ StreamIntact /\ [Next]_vars => StreamIntact'
  BY StreamTyped
<1> QED
  BY <1>1, <1>2, TypeCorrect, PTL DEF Spec

-----------------------------------------------------------------------------
(* Output and shutdown, when no other thread assigns state_.               *)

\* No thread calls shutdown(), forceClose() or forceCloseWithDelay(), whose test and
\* assignment of state_ are not atomic.  The callbacks, in the loop thread, may.
NoThreadSets == ThreadOps \cap {"shutdown", "forceClose", "forceCloseWithDelay"} = {}

\* No call is between its test and its assignment of state_.
NoSetPending == \A t \in Threads : call[t].at # "set"

\* Before connectEstablished() the channel waits for nothing, no callback of the user has run
\* and nothing but connectEstablished() is queued.
Opening ==
  state_ = "kConnecting" =>
    /\ todo = <<>> /\ refs = {} /\ removals = 0
    /\ events_ = {} /\ index_ = "kNew" /\ outputBuffer_ = <<>> /\ wrClosed = FALSE
    /\ \A t \in Threads : call[t] = Idle
    /\ \A i \in 1..Len(pending) : pending[i].op = "connectEstablished"
    /\ \A i \in 1..Len(batch) : batch[i].op = "connectEstablished"

\* The inductive invariant of the output.
OutputInv ==
  /\ NoThreadSets
  /\ TypeOK /\ PollerAgrees
  /\ NoSetPending /\ Opening
  /\ WriterArmed /\ ShutdownDrains /\ DownReportedOnce

\* No thread is ever between the test and the assignment.
LEMMA NoSetPendingStep ==
  ASSUME OutputInv, [Next]_vars
  PROVE  NoSetPending' /\ \A t \in Threads : ~setState(t)
<1> USE DEF OutputInv
<1>1. \A t \in Threads : ~setState(t)
  BY Zenon DEF setState, NoSetPending
<1>2. call' = call => NoSetPending'
  BY Zenon DEF NoSetPending
<1>3. ASSUME NEW t \in Threads, ThreadStep(t) PROVE NoSetPending'
  <2>0. call \in [Threads -> {Idle} \cup [at : {"set", "queue"}, f : Functors]]
    BY Zenon DEF TypeOK, UsersOK
  <2>1. ASSUME NEW op, NEW f, Start(t, op, "queue", f) PROVE NoSetPending'
    <3>1. call' = [call EXCEPT ![t] = [at |-> "queue", f |-> f]]
      BY <2>1, Zenon DEF Start
    <3> QED
      BY <3>1, <2>0 DEF NoSetPending
  <2>2. ~shutdown(t) /\ ~forceClose(t) /\ ~forceCloseWithDelay(t)
    BY Zenon DEF shutdown, forceClose, forceCloseWithDelay, Start, NoThreadSets
  <2> QED
    BY <1>2, <1>3, <2>1, <2>2, Zenon DEF ThreadStep, send, startRead, stopRead, release
<1>4. ASSUME NEW t \in Threads, runInLoop(t) PROVE NoSetPending'
  <2>1. call' = [call EXCEPT ![t] = Idle] /\ call \in [Threads -> {Idle} \cup [at : {"set", "queue"}, f : Functors]]
    BY <1>4, Zenon DEF runInLoop, TypeOK, UsersOK
  <2> QED
    BY <2>1 DEF Idle, NoSetPending
<1>5. CASE LoopStep
  BY <1>5, <1>1, <1>2, Zenon
  DEF LoopStep, poll, handleRead, handleWrite, handleClose, closeCallback, handleError, remove,
      returnFromCallback, swapFunctors, endBatch, connectEstablished, connectDestroyed, runSend,
      runShutdown, forceCloseInLoop, runStartRead, runStopRead, writeCompleteCallback, Run, userVars
<1>6. CASE CallbackStep
  BY <1>6, <1>1, <1>2, Zenon
  DEF CallbackStep, callbackSend, callbackShutdown, callbackForceClose,
      callbackForceCloseWithDelay, callbackStartRead, callbackStopRead, share
<1>7. CASE removeConnectionInLoop \/ peerChanges("fin") \/ peerChanges("reset") \/ UNCHANGED vars
  BY <1>7, <1>1, <1>2, Zenon DEF removeConnectionInLoop, peerChanges, vars, userVars
<1> QED
  BY <1>1, <1>3, <1>4, <1>5, <1>6, <1>7, Zenon DEF Next

\* While the connection is opening, the loop goes round until it runs connectEstablished().
LEMMA OpeningStep ==
  ASSUME TypeOK, PollerAgrees, Opening, state_ = "kConnecting", [Next]_vars
  PROVE  \/ connectEstablished
         \/ /\ UNCHANGED <<state_, refs, removals, events_, outputBuffer_, wrClosed, call, downs,
                          owned, index_>>
            /\ todo' = <<>>
            /\ \/ UNCHANGED <<pending, batch>>
               \/ pending' = <<>> /\ batch' = pending
<1>0. /\ todo = <<>> /\ refs = {} /\ removals = 0 /\ interest = NotRegistered
      /\ \A t \in Threads : call[t] = Idle
  BY DEF Opening, PollerAgrees
<1>1. ASSUME NEW op, Run(op) PROVE op = "connectEstablished"
  <2>1. batch \in Seq(Functors) /\ batch # <<>> /\ Head(batch).op = op
    BY <1>1 DEF Run, TypeOK, LoopOK
  <2>2. Head(batch) = batch[1] /\ 1 \in 1..Len(batch)
    BY <2>1
  <2> QED
    BY <2>1, <2>2, Zenon DEF Opening
<1>2. ASSUME NEW s PROVE ~At(s)
  BY <1>0, Zenon DEF At
<1>3. ASSUME NEW r \in Reported, poll(r) PROVE todo' = <<>>
  <2>1. r = {}
    BY <1>0, Zenon DEF Reported
  <2>2. handleEvent({}) = <<>> \o <<>> \o <<>> \o <<>>
    BY DEF handleEvent
  <2>3. <<>> \o <<>> \o <<>> \o <<>> = <<>>
    OBVIOUS
  <2> QED
    BY <1>3, <2>1, <2>2, <2>3, Zenon DEF poll
<1>4. CASE LoopStep
  BY <1>4, <1>0, <1>1, <1>2, <1>3, Zenon
  DEF LoopStep, poll, handleRead, handleWrite, handleClose, closeCallback, handleError, remove,
      returnFromCallback, swapFunctors, endBatch, connectDestroyed, runSend,
      runShutdown, forceCloseInLoop, runStartRead, runStopRead, writeCompleteCallback,
      channelVars, outVars, ownerVars, userVars
<1>5. ~CallbackStep
  BY <1>2, Zenon
  DEF CallbackStep, callbackSend, callbackShutdown, callbackForceClose, Calling,
      callbackForceCloseWithDelay, callbackStartRead, callbackStopRead, share
<1>6. ASSUME NEW t \in Threads PROVE ~ThreadStep(t)
  BY <1>0, Zenon
  DEF ThreadStep, send, shutdown, forceClose, forceCloseWithDelay, startRead, stopRead, Start, release
<1>7. ASSUME NEW t \in Threads PROVE ~setState(t) /\ ~runInLoop(t)
  BY <1>0 DEF setState, runInLoop, Idle
<1>8. ~removeConnectionInLoop
  BY <1>0 DEF removeConnectionInLoop
<1>9. CASE peerChanges("fin") \/ peerChanges("reset") \/ UNCHANGED vars
  BY <1>9, <1>0, Zenon DEF peerChanges, vars, channelVars, outVars, ownerVars, userVars, loopVars
<1> QED
  BY <1>4, <1>5, <1>6, <1>7, <1>8, <1>9, Zenon DEF Next

\* What a step of an open or closed connection does to its output, when no other thread
\* assigns state_.
LEMMA OutputStep ==
  ASSUME TypeOK, [Next]_vars, state_ # "kConnecting", \A t \in Threads : ~setState(t)
  PROVE  \/ UNCHANGED <<state_, outputBuffer_, wrClosed, downs>> /\ (isWriting' <=> isWriting)
         \/ UNCHANGED <<state_, downs>> /\ \E m \in Messages : sendInLoop(m)
         \/ UNCHANGED <<state_, downs>> /\ handleWrite
         \/ UNCHANGED <<state_, downs, outputBuffer_, events_>> /\ shutdownInLoop
         \/ /\ state_ \in Connected /\ state_' = "kDisconnecting"
            /\ UNCHANGED <<downs, outputBuffer_, events_>>
            /\ UNCHANGED wrClosed \/ shutdownInLoop
         \/ state_ \in Connected /\ state_' = "kDisconnected" /\ downs' = downs + 1
<1> USE DEF channelVars, outVars, isWriting, Connected
<1>1. CASE LoopStep
  <2>1. CASE \/ \E revents \in Reported : poll(revents)
             \/ handleRead \/ closeCallback \/ handleError \/ remove
             \/ returnFromCallback \/ swapFunctors \/ endBatch
             \/ forceCloseInLoop \/ writeCompleteCallback
    BY <2>1, Zenon
    DEF poll, handleRead, closeCallback, handleError, remove, returnFromCallback, swapFunctors,
        endBatch, forceCloseInLoop, writeCompleteCallback
  <2>2. CASE handleWrite
    BY <2>2, Zenon DEF handleWrite
  <2>3. CASE handleClose \/ connectDestroyed
    BY <2>3, Zenon DEF handleClose, connectDestroyed
  <2>4. CASE runSend
    <3>1. batch \in Seq(Functors) /\ batch # <<>> /\ Head(batch).op = "sendInLoop"
      BY <2>4 DEF runSend, Run, TypeOK, LoopOK
    <3>2. Head(batch).arg \in Messages
      BY <3>1, FunctorType
    <3> QED
      BY <2>4, <3>2, Zenon DEF runSend
  <2>5. CASE runShutdown
    BY <2>5, Zenon DEF runShutdown, shutdownInLoop
  <2>6. CASE runStartRead \/ runStopRead
    <3>1. UNCHANGED <<state_, outputBuffer_, wrClosed, downs>>
      BY <2>6, Zenon DEF runStartRead, runStopRead
    <3>2. UNCHANGED events_ \/ events_' = events_ \cup {"R"} \/ events_' = events_ \ {"R"}
      BY <2>6, Zenon DEF runStartRead, runStopRead, startReadInLoop, stopReadInLoop, enableReading,
                         disableReading, update
    <3> QED
      BY <3>1, <3>2
  <2>7. ~connectEstablished
    BY Zenon DEF connectEstablished
  <2> QED
    BY <1>1, <2>1, <2>2, <2>3, <2>4, <2>5, <2>6, <2>7, Zenon DEF LoopStep
<1>2. CASE CallbackStep
  <2>1. CASE \E m \in Messages : callbackSend(m)
    BY <2>1, Zenon DEF callbackSend
  <2>2. CASE callbackShutdown \/ callbackForceClose \/ callbackForceCloseWithDelay
    BY <2>2, Zenon DEF callbackShutdown, callbackForceClose, callbackForceCloseWithDelay, shutdownInLoop
  <2>3. CASE callbackStartRead \/ callbackStopRead
    <3>1. UNCHANGED <<state_, outputBuffer_, wrClosed, downs>>
      BY <2>3, Zenon DEF callbackStartRead, callbackStopRead
    <3>2. UNCHANGED events_ \/ events_' = events_ \cup {"R"} \/ events_' = events_ \ {"R"}
      BY <2>3, Zenon DEF callbackStartRead, callbackStopRead, startReadInLoop, stopReadInLoop,
                         enableReading, disableReading, update
    <3> QED
      BY <3>1, <3>2
  <2>4. CASE \E t \in Threads : share(t)
    BY <2>4, Zenon DEF share
  <2> QED
    BY <1>2, <2>1, <2>2, <2>3, <2>4, Zenon DEF CallbackStep
<1>3. ASSUME NEW t \in Threads, ThreadStep(t) \/ runInLoop(t)
      PROVE  UNCHANGED <<state_, outputBuffer_, wrClosed, downs, events_>>
  BY <1>3, Zenon DEF ThreadStep, send, shutdown, forceClose, forceCloseWithDelay, startRead, stopRead,
              Start, release, runInLoop
<1>4. CASE removeConnectionInLoop \/ peerChanges("fin") \/ peerChanges("reset") \/ UNCHANGED vars
  BY <1>4, Zenon DEF removeConnectionInLoop, peerChanges, vars
<1> QED
  BY <1>1, <1>2, <1>3, <1>4, Zenon DEF Next

\* connectEstablished() ends the opening.
LEMMA OpeningKept == ASSUME OutputInv, [Next]_vars PROVE Opening'
<1> USE DEF OutputInv
<1>1. CASE state_ # "kConnecting"
  <2>1. state_' # "kConnecting"
    BY <1>1, NoSetPendingStep, OutputStep DEF handleWrite
  <2> QED
    BY <2>1 DEF Opening
<1>2. CASE state_ = "kConnecting"
  <2>1. CASE connectEstablished
    BY <2>1 DEF connectEstablished, Opening
  <2>2. ASSUME UNCHANGED <<state_, refs, removals, events_, outputBuffer_, wrClosed, call, downs,
                           owned, index_>>, todo' = <<>>, UNCHANGED <<pending, batch>>
        PROVE  Opening'
    BY <1>2, <2>2, Zenon DEF Opening
  <2>3. ASSUME UNCHANGED <<state_, refs, removals, events_, outputBuffer_, wrClosed, call, downs,
                           owned, index_>>, todo' = <<>>, pending' = <<>>, batch' = pending
        PROVE  Opening'
    <3>1. \A i \in 1..Len(pending)' : pending'[i].op = "connectEstablished"
      BY <2>3
    <3> QED
      BY <1>2, <2>3, <3>1, Zenon DEF Opening
  <2> QED
    BY <1>2, <2>1, <2>2, <2>3, OpeningStep, Zenon
<1> QED
  BY <1>1, <1>2

\* An open connection stays armed exactly while it has output, and closes its write side
\* only without output.
LEMMA OutputKept ==
  ASSUME OutputInv, [Next]_vars
  PROVE  WriterArmed' /\ ShutdownDrains' /\ DownReportedOnce'
<1> USE DEF OutputInv
<1>0. StreamOK /\ StreamOK' /\ wrClosed \in BOOLEAN /\ downs \in Nat
  BY StreamTyped, Zenon DEF TypeOK, FlagsOK, ConnectionOK
<1>1. CASE state_ = "kConnecting"
  <2>1. CASE connectEstablished
    <3>1. /\ state_' = "kConnected" /\ events_' = {"R"} /\ outputBuffer_' = <<>>
          /\ wrClosed' = FALSE /\ downs' = downs
      BY <1>1, <2>1 DEF connectEstablished, Opening, outVars, enableReading, update
    <3> QED
      BY <1>1, <3>1 DEF WriterArmed, ShutdownDrains, DownReportedOnce, isWriting
  <2>2. CASE UNCHANGED <<state_, events_, outputBuffer_, wrClosed, downs>>
    BY <2>2, Zenon DEF WriterArmed, ShutdownDrains, DownReportedOnce, isWriting
  <2> QED
    BY <1>1, <2>1, <2>2, OpeningStep, Zenon
<1>2. CASE state_ # "kConnecting"
  <2>1. CASE UNCHANGED <<state_, outputBuffer_, wrClosed, downs>> /\ (isWriting' <=> isWriting)
    BY <2>1, Zenon DEF WriterArmed, ShutdownDrains, DownReportedOnce
  <2>2. ASSUME UNCHANGED <<state_, downs>>, NEW m \in Messages, sendInLoop(m)
        PROVE  WriterArmed' /\ ShutdownDrains' /\ DownReportedOnce'
    <3>0. DownReportedOnce' /\ m \in Seq(Bytes) /\ Len(m) \in Nat \ {0}
      BY <2>2, MessageBytes DEF DownReportedOnce
    <3>1. CASE state_ = "kDisconnected"
      BY <3>0, <3>1, <2>2 DEF WriterArmed, ShutdownDrains
    <3>2. CASE UNCHANGED <<outVars, channelVars>>
      BY <3>2, <3>0, <2>2, Zenon DEF WriterArmed, ShutdownDrains, outVars, channelVars, isWriting
    <3>3. ASSUME ~isWriting, outputBuffer_ = <<>>, ~Broken, NEW nwrote \in 0..Len(m),
                 outputBuffer_' = SubSeq(m, nwrote + 1, Len(m)), UNCHANGED wrClosed,
                 IF nwrote = Len(m) THEN UNCHANGED channelVars ELSE enableWriting
          PROVE  WriterArmed' /\ ShutdownDrains'
      <4>1. ~wrClosed'
        BY <3>3, Zenon DEF Broken
      <4>2. Len(outputBuffer_') = Len(m) - nwrote
        BY <3>0, <3>3
      <4>3. outputBuffer_' # <<>> <=> nwrote # Len(m)
        BY <4>2, <3>0, <1>0 DEF StreamOK
      <4>4. isWriting' <=> nwrote # Len(m)
        <5>1. CASE nwrote = Len(m)
          BY <5>1, <3>3, Zenon DEF channelVars, isWriting
        <5>2. CASE nwrote # Len(m)
          BY <5>2, <3>3, Zenon DEF enableWriting, update, isWriting
        <5> QED
          BY <5>1, <5>2
      <4> QED
        BY <4>1, <4>3, <4>4, Zenon DEF WriterArmed, ShutdownDrains
    <3>4. ASSUME state_ # "kDisconnected", isWriting \/ outputBuffer_ # <<>>,
                 outputBuffer_' = outputBuffer_ \o m, UNCHANGED wrClosed,
                 IF isWriting THEN UNCHANGED channelVars ELSE enableWriting
          PROVE  WriterArmed' /\ ShutdownDrains'
      <4>1. state_ \in Connected
        BY <1>2, <3>4 DEF TypeOK, ConnectionOK, Connected
      <4>2. outputBuffer_ # <<>>
        BY <3>4, <4>1, Zenon DEF WriterArmed, Connected
      <4>3. ~wrClosed'
        BY <3>4, <4>2, Zenon DEF ShutdownDrains
      <4>4. outputBuffer_' # <<>>
        BY <3>0, <3>4, <1>0 DEF StreamOK
      <4>5. isWriting'
        BY <3>4, Zenon DEF enableWriting, update, channelVars, isWriting
      <4> QED
        BY <4>3, <4>4, <4>5, Zenon DEF WriterArmed, ShutdownDrains
    <3> QED
      BY <2>2, <3>0, <3>1, <3>2, <3>3, <3>4, Zenon DEF sendInLoop
  <2>3. CASE UNCHANGED <<state_, downs>> /\ handleWrite
    <3>0. DownReportedOnce'
      BY <2>3, Zenon DEF DownReportedOnce
    <3>1. CASE state_ = "kDisconnected"
      BY <3>0, <3>1, <2>3 DEF WriterArmed, ShutdownDrains
    <3>2. CASE UNCHANGED <<outVars, channelVars>>
      BY <3>2, <3>0, <2>3, Zenon DEF WriterArmed, ShutdownDrains, outVars, channelVars, isWriting
    <3>3. ASSUME isWriting, ~Broken, NEW n \in 1..Len(outputBuffer_), outputBuffer_' = retrieve(n),
                 IF n = Len(outputBuffer_) THEN drained ELSE UNCHANGED <<channelVars, wrClosed>>
          PROVE  WriterArmed' /\ ShutdownDrains'
      <4>1. Len(outputBuffer_') = Len(outputBuffer_) - n
        BY <3>3, <1>0 DEF retrieve, StreamOK
      <4>2. outputBuffer_' # <<>> <=> n # Len(outputBuffer_)
        BY <4>1, <1>0 DEF StreamOK
      <4>3. CASE n = Len(outputBuffer_)
        <5>1. ~isWriting'
          BY <4>3, <3>3, Zenon DEF drained, disableWriting, update, isWriting
        <5> QED
          BY <5>1, <4>2, <4>3, Zenon DEF WriterArmed, ShutdownDrains
      <4>4. CASE n # Len(outputBuffer_)
        <5>1. isWriting' /\ ~wrClosed'
          BY <4>4, <3>3, Zenon DEF channelVars, isWriting, Broken
        <5> QED
          BY <5>1, <4>2, <4>4, Zenon DEF WriterArmed, ShutdownDrains
      <4> QED
        BY <4>3, <4>4
    <3> QED
      BY <2>3, <3>0, <3>1, <3>2, <3>3, Zenon DEF handleWrite
  <2>4. ASSUME UNCHANGED <<downs, outputBuffer_, events_>>, UNCHANGED wrClosed \/ shutdownInLoop,
               \/ UNCHANGED state_
               \/ state_ \in Connected /\ state_' = "kDisconnecting"
        PROVE  WriterArmed' /\ ShutdownDrains' /\ DownReportedOnce'
    <3>1. DownReportedOnce'
      BY <2>4 DEF DownReportedOnce, Connected
    <3>2. WriterArmed'
      BY <2>4 DEF WriterArmed, Connected, isWriting
    <3>3. ShutdownDrains'
      <4>1. CASE wrClosed' = wrClosed
        BY <2>4, <4>1 DEF ShutdownDrains, Connected
      <4>2. CASE state_ \in Connected /\ ~isWriting
        BY <2>4, <4>2, Zenon DEF WriterArmed, ShutdownDrains, Connected
      <4>3. CASE state_ = "kDisconnected"
        BY <2>4, <4>3 DEF ShutdownDrains, Connected
      <4>4. wrClosed' = wrClosed \/ ~isWriting
        BY <2>4, <1>0, Zenon DEF shutdownInLoop
      <4> QED
        BY <4>1, <4>2, <4>3, <4>4, <1>2 DEF TypeOK, ConnectionOK, Connected
    <3> QED
      BY <3>1, <3>2, <3>3
  <2>5. CASE state_ \in Connected /\ state_' = "kDisconnected" /\ downs' = downs + 1
    BY <2>5, <1>0 DEF WriterArmed, ShutdownDrains, DownReportedOnce, Connected
  <2> QED
    BY <1>2, <2>1, <2>2, <2>3, <2>4, <2>5, OutputStep, NoSetPendingStep, Zenon
<1> QED
  BY <1>1, <1>2

\* The invariant of the output holds initially.
LEMMA OutputInvInit == NoThreadSets /\ Init => OutputInv
<1> SUFFICES ASSUME NoThreadSets, Init PROVE OutputInv
  OBVIOUS
<1>1. TypeOK
  BY TypeOKInit
<1>2. PollerAgrees
  BY DEF Init, PollerAgrees
<1>3. NoSetPending
  BY DEF Init, NoSetPending, Idle
<1>4. Opening
  BY BareType DEF Init, Opening
<1>5. WriterArmed /\ ShutdownDrains /\ DownReportedOnce
  BY DEF Init, WriterArmed, ShutdownDrains, DownReportedOnce
<1> QED
  BY <1>1, <1>2, <1>3, <1>4, <1>5 DEF OutputInv

\* Every step keeps the invariant of the output.
LEMMA OutputInvStep == OutputInv /\ [Next]_vars => OutputInv'
<1> SUFFICES ASSUME OutputInv, [Next]_vars PROVE OutputInv'
  OBVIOUS
<1>1. NoThreadSets' /\ TypeOK' /\ PollerAgrees'
  BY TypeOKStep, ChannelTyped, Zenon DEF OutputInv, NoThreadSets
<1> QED
  BY <1>1, NoSetPendingStep, OpeningKept, OutputKept, Zenon DEF OutputInv

\* The inductive invariant of the output.
THEOREM OutputInvariant == NoThreadSets => (Spec => []OutputInv)
  BY OutputInvInit, OutputInvStep, PTL DEF Spec

\* sendInLoop() and handleWrite(): an open connection waits for writability exactly
\* while it has output.
THEOREM WriterIsArmed == NoThreadSets => (Spec => []WriterArmed)
<1>1. OutputInv => WriterArmed
  BY DEF OutputInv
<1> QED
  BY <1>1, OutputInvariant, PTL

\* shutdownInLoop() and handleWrite(): the write side is closed after the last accepted byte.
THEOREM ShutdownAfterOutput == NoThreadSets => (Spec => []ShutdownDrains)
<1>1. OutputInv => ShutdownDrains
  BY DEF OutputInv
<1> QED
  BY <1>1, OutputInvariant, PTL

\* handleClose() and connectDestroyed(): the end of a connection is reported once and is final.
THEOREM EndReportedOnce == NoThreadSets => (Spec => []DownReportedOnce)
<1>1. OutputInv => DownReportedOnce
  BY DEF OutputInv
<1> QED
  BY <1>1, OutputInvariant, PTL

-----------------------------------------------------------------------------
(* The life of the connection, for users that keep to the discipline.      *)

\* Other threads only send and keep their pointer while a callback bound to this is
\* queued; the callbacks do not stop reading.
Disciplined ==
  ThreadOps \subseteq {"send"} /\ CallbackOps \cap {"startRead", "stopRead"} = {} /\ SafeRelease

\* A callback of the member function op is in q, or is in q once at most.
InSeq(q, op) == \E i \in 1..Len(q) : q[i].op = op
OnceIn(q, op) == \A i, j \in 1..Len(q) : q[i].op = op /\ q[j].op = op => i = j
Queued(op) == InSeq(pending, op) \/ InSeq(batch, op)
Once(op) == OnceIn(pending, op) /\ OnceIn(batch, op) /\ ~(InSeq(pending, op) /\ InSeq(batch, op))

\* Only the first step of a handler reads, closes, removes or calls the user, but for
\* closeCallback_ right after connectionCallback_.
Shape(td) ==
  \A i \in 2..Len(td) :
    \/ td[i] \in {"handleWrite", "handleError"}
    \/ td[i] = "closeCallback" /\ i = 2 /\ td[1] = "callback"
ClosingIn(td) == \E i \in 1..Len(td) : td[i] = "closeCallback"

QueueOps == {"connectEstablished", "connectDestroyed", "sendInLoop", "forceCloseInLoop",
             "writeComplete"}

\* The loop handles events, then callbacks; what it handles shows in phase.
LoopShape ==
  /\ phase = "poll" => todo = <<>> /\ batch = <<>>
  /\ phase = "handle" => batch = <<>>

\* What is queued, and what the threads are about to queue.
QueueShape ==
  /\ \A i \in 1..Len(pending) : pending[i].op \in QueueOps
  /\ \A i \in 1..Len(batch) : batch[i].op \in QueueOps
  /\ \A t \in Threads : call[t] # Idle => call[t].f.op = "sendInLoop" /\ t \in refs
  /\ Once("connectDestroyed")

\* connectEstablished() is queued once, until it runs.
OpenedOnce ==
  /\ Once("connectEstablished")
  /\ state_ # "kConnecting" => ~Queued("connectEstablished")

\* An open connection is always watched for input.
Reading == state_ \in Connected => "R" \in events_

\* A handler starts, and handleRead() goes on to handleClose(), in an open connection.
HandlersOpen ==
  /\ Shape(todo)
  /\ At("handleRead") \/ At("handleClose") => state_ \in Connected

\* The six stages of the end of a connection.  Exactly one thing leads to the next stage:
\* closeCallback_, the removal in the server's loop, connectDestroyed(), Channel::remove().
Open ==
  /\ state_ # "kDisconnected" /\ owned /\ removals = 0
  /\ ~ClosingIn(todo) /\ ~Queued("connectDestroyed") /\ ~At("remove")
Closed ==
  /\ state_ = "kDisconnected" /\ owned /\ removals = 0 /\ index_ = "kDeleted"
  /\ ClosingIn(todo) /\ ~Queued("connectDestroyed") /\ ~At("remove")
Announced ==
  /\ state_ = "kDisconnected" /\ owned /\ removals = 1 /\ index_ = "kDeleted"
  /\ ~ClosingIn(todo) /\ ~Queued("connectDestroyed") /\ ~At("remove")
Dropped ==
  /\ state_ = "kDisconnected" /\ ~owned /\ removals = 0 /\ index_ = "kDeleted"
  /\ ~ClosingIn(todo) /\ Queued("connectDestroyed") /\ ~At("remove")
Removing ==
  /\ state_ = "kDisconnected" /\ ~owned /\ removals = 0 /\ index_ = "kDeleted"
  /\ ~ClosingIn(todo) /\ ~Queued("connectDestroyed") /\ At("remove")
Gone ==
  /\ state_ = "kDisconnected" /\ ~owned /\ removals = 0 /\ index_ = "kNew"
  /\ ~ClosingIn(todo) /\ ~Queued("connectDestroyed") /\ ~At("remove")
Life == Open \/ Closed \/ Announced \/ Dropped \/ Removing \/ Gone

\* Who keeps the object while the loop works on it.
Kept ==
  /\ phase = "functors" /\ (todo # <<>> \/ \E i \in 1..Len(batch) : Strong(batch[i])) => held
  /\ phase = "handle" /\ todo # <<>> => owned \/ InSeq(pending, "connectDestroyed")
  /\ InSeq(pending, "sendInLoop") \/ InSeq(batch, "sendInLoop") => refs # {}

\* The inductive invariant of the connection's life.
LifeInv ==
  /\ Disciplined
  /\ OutputInv
  /\ LoopShape /\ QueueShape /\ OpenedOnce /\ Reading /\ HandlersOpen /\ Life /\ Kept

\* Queueing a callback f behind q.
LEMMA InSeqAppend ==
  ASSUME NEW q \in Seq(Functors), NEW f \in Functors, NEW op
  PROVE  /\ InSeq(q \o <<f>>, op) <=> InSeq(q, op) \/ f.op = op
         /\ OnceIn(q, op) /\ (f.op # op \/ ~InSeq(q, op)) => OnceIn(q \o <<f>>, op)
<1> DEFINE r == q \o <<f>>
<1>1. /\ Len(q) \in Nat /\ Len(r) = Len(q) + 1 /\ r[Len(q) + 1] = f
      /\ \A i \in 1..Len(q) : r[i] = q[i]
  OBVIOUS
<1>2. 1..Len(r) = (1..Len(q)) \cup {Len(q) + 1}
  BY <1>1
<1>3. InSeq(r, op) <=> InSeq(q, op) \/ f.op = op
  BY <1>1, <1>2, Zenon DEF InSeq
<1>4. ASSUME OnceIn(q, op), f.op # op \/ ~InSeq(q, op) PROVE OnceIn(r, op)
  BY <1>1, <1>2, <1>4, Zenon DEF OnceIn, InSeq
<1> QED
  BY <1>3, <1>4

\* Running the first callback of q.
LEMMA InSeqTail ==
  ASSUME NEW q \in Seq(Functors), q # <<>>, NEW op
  PROVE  /\ InSeq(Tail(q), op) => InSeq(q, op)
         /\ InSeq(q, op) => InSeq(Tail(q), op) \/ Head(q).op = op
         /\ OnceIn(q, op) => OnceIn(Tail(q), op)
         /\ OnceIn(q, op) /\ Head(q).op = op => ~InSeq(Tail(q), op)
         /\ Head(q).op = op => InSeq(q, op)
<1>1. /\ Len(q) \in Nat \ {0} /\ Len(Tail(q)) = Len(q) - 1 /\ Head(q) = q[1]
      /\ \A i \in 1..(Len(q) - 1) : Tail(q)[i] = q[i + 1]
  OBVIOUS
<1>2. InSeq(Tail(q), op) => InSeq(q, op)
  BY <1>1 DEF InSeq
<1>3. ASSUME InSeq(q, op), Head(q).op # op PROVE InSeq(Tail(q), op)
  <2>1. PICK i \in 1..Len(q) : q[i].op = op
    BY <1>3 DEF InSeq
  <2>2. i - 1 \in 1..(Len(q) - 1) /\ Tail(q)[i - 1] = q[i]
    BY <1>1, <1>3, <2>1
  <2> QED
    BY <1>1, <2>1, <2>2 DEF InSeq
<1>4. OnceIn(q, op) => OnceIn(Tail(q), op)
  BY <1>1 DEF OnceIn
<1>5. OnceIn(q, op) /\ Head(q).op = op => ~InSeq(Tail(q), op)
  BY <1>1 DEF OnceIn, InSeq
<1>6. Head(q).op = op => InSeq(q, op)
  BY <1>1 DEF InSeq
<1> QED
  BY <1>2, <1>3, <1>4, <1>5, <1>6

\* Nothing is in an empty queue.
LEMMA InSeqEmpty == ASSUME NEW op PROVE ~InSeq(<<>>, op) /\ OnceIn(<<>>, op)
  BY DEF InSeq, OnceIn

\* A handler returns to the rest of the handlers.
LEMMA ShapeTail ==
  ASSUME NEW td \in Seq(Steps), td # <<>>, Shape(td)
  PROVE  /\ Shape(Tail(td))
         /\ Tail(td) # <<>> => Head(Tail(td)) \in {"handleWrite", "handleError", "closeCallback"}
         /\ Head(td) = "closeCallback" => ClosingIn(td) /\ ~ClosingIn(Tail(td))
         /\ Head(td) # "closeCallback" => (ClosingIn(td) <=> ClosingIn(Tail(td)))
         /\ Head(td) # "callback" => ~ClosingIn(Tail(td))
         /\ \A i \in 1..Len(Tail(td)) : Head(td) # "callback" => Tail(td)[i] \in {"handleWrite", "handleError"}
<1>1. /\ Len(td) \in Nat \ {0} /\ Len(Tail(td)) = Len(td) - 1 /\ Head(td) = td[1]
      /\ \A i \in 1..(Len(td) - 1) : Tail(td)[i] = td[i + 1]
      /\ Tail(td) \in Seq(Steps)
  OBVIOUS
<1>2. Shape(Tail(td))
  BY <1>1 DEF Shape
<1>3. Tail(td) # <<>> => Head(Tail(td)) \in {"handleWrite", "handleError", "closeCallback"}
  BY <1>1 DEF Shape
<1>4. \A i \in 1..Len(Tail(td)) : Head(td) # "callback" => Tail(td)[i] \in {"handleWrite", "handleError"}
  BY <1>1 DEF Shape
<1>5. Head(td) # "callback" => ~ClosingIn(Tail(td))
  BY <1>4 DEF ClosingIn
<1>6. Head(td) = "closeCallback" => ClosingIn(td) /\ ~ClosingIn(Tail(td))
  BY <1>1, <1>5 DEF ClosingIn
<1>7. Head(td) # "closeCallback" => (ClosingIn(td) <=> ClosingIn(Tail(td)))
  <2>1. ClosingIn(Tail(td)) => ClosingIn(td)
    BY <1>1 DEF ClosingIn
  <2>2. ASSUME ClosingIn(td), Head(td) # "closeCallback" PROVE ClosingIn(Tail(td))
    <3>1. PICK i \in 1..Len(td) : td[i] = "closeCallback"
      BY <2>2 DEF ClosingIn
    <3>2. i - 1 \in 1..(Len(td) - 1) /\ Tail(td)[i - 1] = td[i]
      BY <1>1, <2>2, <3>1
    <3> QED
      BY <1>1, <3>1, <3>2 DEF ClosingIn
  <2> QED
    BY <2>1, <2>2
<1> QED
  BY <1>2, <1>3, <1>4, <1>5, <1>6, <1>7

\* handleRead() goes on to messageCallback_ or handleClose(), handleClose() to the callbacks.
LEMMA ShapePush ==
  ASSUME NEW r \in Seq(Steps), \A i \in 1..Len(r) : r[i] \in {"handleWrite", "handleError"}
  PROVE  /\ \A x \in {"callback", "handleClose"} :
              /\ Shape(<<x>> \o r) /\ ~ClosingIn(<<x>> \o r)
              /\ <<x>> \o r # <<>> /\ Head(<<x>> \o r) = x
         /\ LET c == <<"callback", "closeCallback">> \o r
            IN  Shape(c) /\ ClosingIn(c) /\ c # <<>> /\ Head(c) = "callback"
<1>1. ASSUME NEW x \in {"callback", "handleClose"}
      PROVE  /\ Shape(<<x>> \o r) /\ ~ClosingIn(<<x>> \o r)
             /\ <<x>> \o r # <<>> /\ Head(<<x>> \o r) = x
  <2> DEFINE c == <<x>> \o r
  <2>1. /\ c \in Seq({"callback", "handleClose"} \cup Steps)
        /\ Len(r) \in Nat /\ Len(c) = Len(r) + 1 /\ c[1] = x
        /\ \A i \in 2..Len(c) : c[i] = r[i - 1] /\ i - 1 \in 1..Len(r)
    OBVIOUS
  <2>2. \A i \in 2..Len(c) : c[i] \in {"handleWrite", "handleError"}
    BY <2>1
  <2>3. c # <<>> /\ Head(c) = x
    BY <2>1
  <2> HIDE DEF c
  <2>4. Shape(c) /\ ~ClosingIn(c)
    BY <2>1, <2>2 DEF Shape, ClosingIn
  <2> QED
    BY <2>3, <2>4 DEF c
<1>2. LET c == <<"callback", "closeCallback">> \o r
      IN  Shape(c) /\ ClosingIn(c) /\ c # <<>> /\ Head(c) = "callback"
  <2> DEFINE c == <<"callback", "closeCallback">> \o r
  <2>1. /\ c \in Seq({"callback", "closeCallback"} \cup Steps)
        /\ Len(r) \in Nat /\ Len(c) = Len(r) + 2 /\ c[1] = "callback" /\ c[2] = "closeCallback"
        /\ \A i \in 3..Len(c) : c[i] = r[i - 2] /\ i - 2 \in 1..Len(r)
    OBVIOUS
  <2>2. \A i \in 3..Len(c) : c[i] \in {"handleWrite", "handleError"}
    BY <2>1
  <2>3. c # <<>> /\ Head(c) = "callback"
    BY <2>1
  <2> HIDE DEF c
  <2>4. Shape(c) /\ ClosingIn(c)
    BY <2>1, <2>2 DEF Shape, ClosingIn
  <2> QED
    BY <2>3, <2>4 DEF c
<1> QED
  BY <1>1, <1>2

\* The handlers of one event.
LEMMA HandleEventShape ==
  ASSUME NEW r
  PROVE  /\ Shape(handleEvent(r)) /\ ~ClosingIn(handleEvent(r))
         /\ handleEvent(r) # <<>> => Head(handleEvent(r)) # "remove"
<1> DEFINE a == IF "HUP" \in r /\ "IN" \notin r THEN <<"handleClose">> ELSE <<>>
           b == IF "IN" \in r THEN <<"handleRead">> ELSE <<>>
           c == IF "OUT" \in r THEN <<"handleWrite">> ELSE <<>>
           d == IF "ERR" \in r THEN <<"handleError">> ELSE <<>>
           E == {"handleClose", "handleRead", "handleWrite", "handleError"}
<1>1. handleEvent(r) = a \o b \o c \o d
  BY DEF handleEvent
<1>2. /\ a = <<>> \/ (a = <<"handleClose">> /\ b = <<>>)
      /\ b = <<>> \/ b = <<"handleRead">>
      /\ c = <<>> \/ c = <<"handleWrite">>
      /\ d = <<>> \/ d = <<"handleError">>
  <2>1. a = <<>> \/ (a = <<"handleClose">> /\ b = <<>>)
    <3>1. "IN" \in r => a = <<>>
      BY Zenon
    <3>2. "IN" \notin r => b = <<>> /\ (a = <<>> \/ a = <<"handleClose">>)
      OBVIOUS
    <3> HIDE DEF a, b
    <3> QED
      BY <3>1, <3>2
  <2>2. b = <<>> \/ b = <<"handleRead">>
    OBVIOUS
  <2>3. c = <<>> \/ c = <<"handleWrite">>
    OBVIOUS
  <2>4. d = <<>> \/ d = <<"handleError">>
    OBVIOUS
  <2> HIDE DEF a, b, c, d
  <2> QED
    BY <2>1, <2>2, <2>3, <2>4
<1> HIDE DEF a, b, c, d
<1>3. ASSUME NEW td \in Seq(E), \A i \in 2..Len(td) : td[i] \in {"handleWrite", "handleError"}
      PROVE  Shape(td) /\ ~ClosingIn(td) /\ (td # <<>> => Head(td) # "remove")
  <2>1. Shape(td)
    BY <1>3 DEF Shape
  <2>2. \A i \in 1..Len(td) : td[i] \in E
    OBVIOUS
  <2> QED
    BY <2>1, <2>2 DEF ClosingIn
<1> DEFINE P(td) == td \in Seq(E) /\ \A i \in 2..Len(td) : td[i] \in {"handleWrite", "handleError"}
<1>4. ASSUME NEW td, P(td), NEW x \in {"handleWrite", "handleError"}
      PROVE  P(td \o <<>>) /\ P(td \o <<x>>)
  <2>1. td \o <<>> = td
    BY <1>4
  <2>2. td \o <<x>> \in Seq(E) /\ Len(td \o <<x>>) = Len(td) + 1
    BY <1>4
  <2>3. ASSUME NEW i \in 2..(Len(td) + 1) PROVE (td \o <<x>>)[i] \in {"handleWrite", "handleError"}
    BY <1>4
  <2> QED
    BY <1>4, <2>1, <2>2, <2>3
<1>5. P(a \o b)
  <2>1. P(<<>>) /\ P(<<"handleClose">>) /\ P(<<"handleRead">>)
    OBVIOUS
  <2>2. a \o b = <<>> \/ a \o b = <<"handleClose">> \/ a \o b = <<"handleRead">>
    <3>1. CASE a = <<"handleClose">> /\ b = <<>>
      BY <3>1
    <3>2. CASE a = <<>> /\ b = <<>>
      BY <3>2
    <3>3. CASE a = <<>> /\ b = <<"handleRead">>
      BY <3>3
    <3> QED
      BY <1>2, <3>1, <3>2, <3>3, Zenon
  <2> HIDE DEF P
  <2> QED
    BY <2>1, <2>2
<1> HIDE DEF P
<1>6. P((a \o b) \o c)
  BY <1>2, <1>4, <1>5, Zenon
<1>7. P(((a \o b) \o c) \o d)
  BY <1>2, <1>4, <1>6, Zenon
<1> QED
  BY <1>1, <1>3, <1>7 DEF P

\* The steps left to disciplined users.
DisciplinedStep ==
  \/ \E revents \in Reported : poll(revents)
  \/ handleRead \/ handleWrite \/ handleClose \/ closeCallback \/ handleError \/ remove
  \/ returnFromCallback \/ swapFunctors \/ endBatch
  \/ connectEstablished \/ connectDestroyed \/ runSend \/ forceCloseInLoop \/ writeCompleteCallback
  \/ \E m \in Messages : callbackSend(m)
  \/ callbackShutdown \/ callbackForceClose \/ callbackForceCloseWithDelay
  \/ \E t \in Threads : share(t) \/ release(t) \/ runInLoop(t) \/ \E m \in Messages : send(t, m)
  \/ removeConnectionInLoop
  \/ peerChanges("fin") \/ peerChanges("reset") \/ UNCHANGED vars

\* The callback that runs is the first of the batch.
LEMMA RunEffect ==
  ASSUME LifeInv, NEW op, Run(op)
  PROVE  /\ batch \in Seq(Functors) /\ batch # <<>> /\ Head(batch).op = op /\ batch' = Tail(batch)
         /\ op \in QueueOps /\ InSeq(batch, op) /\ phase = "functors" /\ todo = <<>>
         /\ op # "sendInLoop" => held
<1>1. /\ batch \in Seq(Functors) /\ batch # <<>> /\ Head(batch).op = op /\ batch' = Tail(batch)
      /\ phase = "functors" /\ todo = <<>>
  BY DEF Run, LifeInv, OutputInv, TypeOK, LoopOK
<1>2. Head(batch) = batch[1] /\ 1 \in 1..Len(batch)
  BY <1>1
<1>3. op \in QueueOps /\ InSeq(batch, op)
  BY <1>1, <1>2, Zenon DEF LifeInv, QueueShape, InSeq
<1>4. op # "sendInLoop" => Strong(batch[1])
  BY <1>1, <1>2, <1>3 DEF QueueOps, Strong
<1>5. op # "sendInLoop" => held
  BY <1>1, <1>2, <1>4, Zenon DEF LifeInv, Kept
<1> QED
  BY <1>1, <1>3, <1>5

\* Disciplined users take no other step.
LEMMA DisciplinedNext == ASSUME LifeInv, [Next]_vars PROVE DisciplinedStep
<1>1. Disciplined /\ OutputInv
  BY DEF LifeInv
<1>2. ~runShutdown /\ ~runStartRead /\ ~runStopRead
  <2>1. ~Run("shutdownInLoop") /\ ~Run("startReadInLoop") /\ ~Run("stopReadInLoop")
    BY RunEffect DEF QueueOps
  <2> QED
    BY <2>1, Zenon DEF runShutdown, runStartRead, runStopRead
<1>3. ~callbackStartRead /\ ~callbackStopRead
  BY <1>1, Zenon DEF callbackStartRead, callbackStopRead, Calling, Disciplined
<1>4. ASSUME NEW t \in Threads
      PROVE  /\ ~shutdown(t) /\ ~forceClose(t) /\ ~forceCloseWithDelay(t) /\ ~startRead(t)
             /\ ~stopRead(t) /\ ~setState(t)
  <2>1. \A op \in {"shutdown", "forceClose", "forceCloseWithDelay", "startRead", "stopRead"} : op \notin ThreadOps
    BY <1>1 DEF Disciplined
  <2>2. ~setState(t)
    BY <1>1, NoSetPendingStep
  <2> QED
    BY <2>1, <2>2 DEF shutdown, forceClose, forceCloseWithDelay, startRead, stopRead, Start
<1> QED
  BY <1>2, <1>3, <1>4, Zenon DEF Next, LoopStep, CallbackStep, ThreadStep, DisciplinedStep

\* What a step does to the queue of callbacks and to the batch.
LEMMA QueueStep ==
  ASSUME LifeInv, DisciplinedStep
  PROVE  /\ \/ UNCHANGED pending \/ swapFunctors \/ removeConnectionInLoop
            \/ \E f \in Functors :
                 /\ pending' = pending \o <<f>> /\ UNCHANGED refs
                 /\ f.op \in {"writeComplete", "forceCloseInLoop", "sendInLoop"}
                 /\ f.op = "sendInLoop" => refs # {}
         /\ UNCHANGED batch \/ swapFunctors \/ \E op : Run(op)
<1>0. pending \in Seq(Functors) /\ call \in [Threads -> {Idle} \cup [at : {"set", "queue"}, f : Functors]]
  BY Zenon DEF LifeInv, OutputInv, TypeOK, LoopOK, UsersOK
<1> DEFINE Pushes == \E f \in Functors :
                       /\ pending' = pending \o <<f>> /\ UNCHANGED refs
                       /\ f.op \in {"writeComplete", "forceCloseInLoop", "sendInLoop"}
                       /\ f.op = "sendInLoop" => refs # {}
<1>1. ASSUME NEW op \in {"writeComplete", "forceCloseInLoop"}, queueInLoop(<<Bare(op)>>), UNCHANGED refs
      PROVE  Pushes
  <2>1. Bare(op) \in Functors /\ Bare(op).op = op
    BY BareType
  <2> QED
    BY <1>1, <2>1 DEF queueInLoop
<1>2. ASSUME queueInLoop(writeCompleted), UNCHANGED refs PROVE UNCHANGED pending \/ Pushes
  <2>1. CASE WriteComplete
    BY <2>1, <1>1, <1>2 DEF writeCompleted
  <2>2. CASE ~WriteComplete
    BY <2>2, <1>0, <1>2, ConcatEmptySeq DEF writeCompleted, queueInLoop
  <2> QED
    BY <2>1, <2>2
<1>3. ASSUME NEW t \in Threads, runInLoop(t) PROVE Pushes
  <2>1. call[t].at = "queue" /\ pending' = pending \o <<call[t].f>> /\ UNCHANGED refs
    BY <1>3, Zenon DEF runInLoop, queueInLoop
  <2>2. call[t].f \in Functors /\ call[t] # Idle
    BY <1>0, <2>1 DEF Idle
  <2>3. call[t].f.op = "sendInLoop" /\ t \in refs
    BY <2>2, Zenon DEF LifeInv, QueueShape
  <2> QED
    BY <2>1, <2>2, <2>3
<1>4. ASSUME NEW m, sendInLoop(m), UNCHANGED refs PROVE UNCHANGED pending \/ Pushes
  BY <1>2, <1>4, Zenon DEF sendInLoop
<1>5. ASSUME handleWrite PROVE UNCHANGED pending \/ Pushes
  BY <1>2, <1>5, Zenon DEF handleWrite, drained, userVars
<1>6. UNCHANGED pending \/ swapFunctors \/ removeConnectionInLoop \/ Pushes
  <2> HIDE DEF Pushes
  <2>1. ASSUME callbackForceClose PROVE Pushes
    BY <1>1, <2>1, Zenon DEF callbackForceClose
  <2>2. ASSUME NEW m \in Messages, callbackSend(m) PROVE UNCHANGED pending \/ Pushes
    BY <1>4, <2>2, Zenon DEF callbackSend
  <2>3. ASSUME runSend PROVE UNCHANGED pending \/ Pushes
    BY <1>4, <2>3, Zenon DEF runSend, Run, userVars
  <2> QED
    BY <1>3, <1>5, <2>1, <2>2, <2>3, Zenon
    DEF DisciplinedStep, poll, handleRead, handleClose, closeCallback, handleError, remove,
        returnFromCallback, endBatch, connectEstablished, connectDestroyed, forceCloseInLoop,
        writeCompleteCallback, callbackShutdown, callbackForceCloseWithDelay, share, release, send,
        Start, peerChanges, loopVars, vars
<1>7. UNCHANGED batch \/ swapFunctors \/ \E op : Run(op)
  BY Zenon
  DEF DisciplinedStep, poll, handleRead, handleWrite, handleClose, closeCallback, handleError, remove,
      returnFromCallback, endBatch, connectEstablished, connectDestroyed, runSend, forceCloseInLoop,
      writeCompleteCallback, callbackSend, callbackShutdown, callbackForceClose,
      callbackForceCloseWithDelay, share, release, send, runInLoop, removeConnectionInLoop,
      Start, peerChanges, loopVars, vars
<1> QED
  BY <1>6, <1>7

\* A callback that is queued once stays so, until it runs.
LEMMA QueuedStep ==
  ASSUME LifeInv, DisciplinedStep, NEW op, Once(op),
         op \notin {"writeComplete", "forceCloseInLoop", "sendInLoop"},
         op # "connectDestroyed" \/ ~removeConnectionInLoop
  PROVE  /\ Once(op)'
         /\ Queued(op)' => Queued(op)
         /\ Run(op) => ~Queued(op)'
         /\ ~Run(op) /\ Queued(op) => Queued(op)'
<1>0. pending \in Seq(Functors) /\ batch \in Seq(Functors)
  BY DEF LifeInv, OutputInv, TypeOK, LoopOK
<1>1. CASE swapFunctors
  <2>1. batch = <<>> /\ batch' = pending /\ pending' = <<>>
    BY <1>1 DEF swapFunctors, LifeInv, LoopShape
  <2>2. ~Run(op)
    BY <1>1 DEF swapFunctors, Run
  <2> QED
    BY <2>1, <2>2, InSeqEmpty, Zenon DEF Once, Queued
<1>2. CASE ~swapFunctors
  <2>1. (InSeq(pending, op)' <=> InSeq(pending, op)) /\ (OnceIn(pending, op) => OnceIn(pending, op)')
    <3>1. CASE UNCHANGED pending
      BY <3>1, Zenon
    <3>2. ASSUME NEW f \in Functors, pending' = pending \o <<f>>, f.op # op
          PROVE  (InSeq(pending, op)' <=> InSeq(pending, op)) /\ (OnceIn(pending, op) => OnceIn(pending, op)')
      <4>1. (InSeq(pending \o <<f>>, op) <=> InSeq(pending, op)) /\ (OnceIn(pending, op) => OnceIn(pending \o <<f>>, op))
        BY <1>0, <3>2, InSeqAppend, Zenon
      <4> QED
        BY <4>1, <3>2, Zenon
    <3>3. CASE removeConnectionInLoop
      <4>1. pending' = pending \o <<Bare("connectDestroyed")>> /\ op # "connectDestroyed"
        BY <3>3, Zenon DEF removeConnectionInLoop, queueInLoop
      <4>2. Bare("connectDestroyed") \in Functors /\ Bare("connectDestroyed").op = "connectDestroyed"
        BY BareType
      <4> QED
        BY <3>2, <4>1, <4>2, Zenon
    <3> QED
      BY <1>2, <3>1, <3>2, <3>3, QueueStep, Zenon
  <2>2. CASE UNCHANGED batch
    <3>1. ~Run(op)
      <4>1. ASSUME Run(op) PROVE FALSE
        <5>1. batch' = Tail(batch) /\ batch # <<>>
          BY <4>1 DEF Run
        <5> QED
          BY <1>0, <2>2, <5>1
      <4> QED
        BY <4>1
    <3> QED
      BY <2>1, <2>2, <3>1, Zenon DEF Once, Queued
  <2>3. ASSUME NEW o, Run(o), o # op
        PROVE  /\ Once(op)' /\ (Queued(op)' <=> Queued(op)) /\ ~Run(op)
    <3>1. batch # <<>> /\ Head(batch).op = o /\ batch' = Tail(batch)
      BY <2>3, Zenon DEF Run
    <3>2. (InSeq(Tail(batch), op) <=> InSeq(batch, op)) /\ (OnceIn(batch, op) => OnceIn(Tail(batch), op))
      BY <1>0, <2>3, <3>1, InSeqTail, Zenon
    <3>3. (InSeq(batch, op)' <=> InSeq(batch, op)) /\ (OnceIn(batch, op) => OnceIn(batch, op)')
      BY <3>1, <3>2, Zenon
    <3>4. ~Run(op)
      BY <2>3, <3>1, Zenon DEF Run
    <3> QED
      BY <2>1, <3>3, <3>4, Zenon DEF Once, Queued
  <2>4. ASSUME Run(op) PROVE Once(op)' /\ ~Queued(op)' /\ Queued(op)
    <3>1. batch # <<>> /\ Head(batch).op = op /\ batch' = Tail(batch)
      BY <2>4, Zenon DEF Run
    <3>2. InSeq(batch, op) /\ ~InSeq(Tail(batch), op) /\ OnceIn(Tail(batch), op)
      BY <1>0, <3>1, InSeqTail, Zenon DEF Once
    <3>3. ~InSeq(batch, op)' /\ OnceIn(batch, op)'
      BY <3>1, <3>2, Zenon
    <3> QED
      BY <2>1, <3>2, <3>3, Zenon DEF Once, Queued
  <2> QED
    BY <1>2, <2>2, <2>3, <2>4, QueueStep, Zenon
<1> QED
  BY <1>1, <1>2

\* Which steps assign state_.
LEMMA StateStep ==
  ASSUME DisciplinedStep
  PROVE  \/ UNCHANGED state_ \/ handleClose \/ connectEstablished \/ connectDestroyed
         \/ /\ At("callback") /\ UNCHANGED <<todo, channelVars>>
            /\ state_ \in Connected /\ state_' \in Connected
<1>1. ASSUME callbackShutdown \/ callbackForceClose \/ callbackForceCloseWithDelay
      PROVE  /\ At("callback") /\ UNCHANGED <<todo, channelVars>>
             /\ state_ \in Connected /\ state_' \in Connected
  BY <1>1, Zenon
  DEF callbackShutdown, callbackForceClose, callbackForceCloseWithDelay, Calling, loopVars, Connected
<1> QED
  BY <1>1, Zenon
  DEF DisciplinedStep, poll, handleRead, handleWrite, closeCallback, handleError, remove,
      returnFromCallback, swapFunctors, endBatch, runSend, forceCloseInLoop, writeCompleteCallback,
      callbackSend, share, release, send, runInLoop, removeConnectionInLoop, Start, peerChanges, vars

\* Which steps touch the channel.
LEMMA EventsStep ==
  ASSUME LifeInv, DisciplinedStep
  PROVE  \/ UNCHANGED channelVars \/ remove
         \/ (enableWriting \/ disableWriting) /\ state_ # "kDisconnected"
         \/ handleClose \/ connectEstablished
<1>1. state_ = "kDisconnected" => ~isWriting
  <2>1. state_ = "kDisconnected" => index_ # "kAdded"
    BY DEF LifeInv, Life, Open, Closed, Announced, Dropped, Removing, Gone
  <2> QED
    BY <2>1 DEF LifeInv, OutputInv, PollerAgrees, isWriting
<1>2. ASSUME handleWrite
      PROVE  UNCHANGED channelVars \/ (disableWriting /\ state_ # "kDisconnected")
  BY <1>1, <1>2, Zenon DEF handleWrite, drained
<1>3. ASSUME NEW m, sendInLoop(m)
      PROVE  UNCHANGED channelVars \/ (enableWriting /\ state_ # "kDisconnected")
  BY <1>3, Zenon DEF sendInLoop
<1>4. ASSUME connectDestroyed PROVE UNCHANGED channelVars
  <2>1. Queued("connectDestroyed")
    BY <1>4, RunEffect DEF connectDestroyed, Queued
  <2>2. state_ # "kConnected"
    BY <2>1, Zenon DEF LifeInv, Life, Open, Closed, Announced, Dropped, Removing, Gone
  <2> QED
    BY <1>4, <2>2, Zenon DEF connectDestroyed
<1> QED
  BY <1>2, <1>3, <1>4, Zenon
  DEF DisciplinedStep, poll, handleRead, closeCallback, handleError,
      returnFromCallback, swapFunctors, endBatch, runSend, forceCloseInLoop, writeCompleteCallback,
      callbackSend, callbackShutdown, callbackForceClose, callbackForceCloseWithDelay, share, release,
      send, runInLoop, removeConnectionInLoop, Start, peerChanges, vars

\* Only an open connection is polled for events.
LEMMA PollEffect ==
  ASSUME LifeInv, NEW r \in Reported, poll(r)
  PROVE  /\ todo = <<>> /\ Shape(todo') /\ ~ClosingIn(todo') /\ ~At("remove")'
         /\ todo' # <<>> => state_ \in Connected /\ owned
         /\ UNCHANGED state_
<1>1. todo = <<>> /\ todo' = handleEvent(r) /\ UNCHANGED state_
  BY DEF poll, LifeInv, LoopShape
<1>2. Shape(todo') /\ ~ClosingIn(todo') /\ (todo' # <<>> => Head(todo') # "remove")
  BY <1>1, HandleEventShape, Zenon
<1>3. ASSUME state_ \notin Connected PROVE todo' = <<>>
  <2>1. index_ # "kAdded"
    <3>1. CASE state_ = "kConnecting"
      BY <3>1 DEF LifeInv, OutputInv, Opening
    <3>2. CASE state_ = "kDisconnected"
      BY <3>2 DEF LifeInv, Life, Open, Closed, Announced, Dropped, Removing, Gone
    <3> QED
      BY <1>3, <3>1, <3>2 DEF LifeInv, OutputInv, TypeOK, ConnectionOK, Connected
  <2>2. interest = NotRegistered
    BY <2>1, Zenon DEF LifeInv, OutputInv, PollerAgrees
  <2>3. r = {}
    BY <2>2, Zenon DEF Reported
  <2>4. handleEvent({}) = <<>> \o <<>> \o <<>> \o <<>>
    BY DEF handleEvent
  <2>5. <<>> \o <<>> \o <<>> \o <<>> = <<>>
    OBVIOUS
  <2> QED
    BY <1>1, <2>3, <2>4, <2>5, Zenon
<1>4. state_ \in Connected => owned
  BY DEF Connected, LifeInv, Life, Open, Closed, Announced, Dropped, Removing, Gone
<1> QED
  BY <1>1, <1>2, <1>3, <1>4, Zenon DEF At

\* What a step does to the handlers the loop thread is in.
LEMMA TodoStep ==
  ASSUME LifeInv, DisciplinedStep
  PROVE  /\ HandlersOpen'
         /\ handleClose => ~At("remove") /\ ClosingIn(todo)' /\ ~At("remove")'
         /\ closeCallback => ~At("remove") /\ ClosingIn(todo) /\ ~ClosingIn(todo)' /\ ~At("remove")'
         /\ connectDestroyed => ~ClosingIn(todo)' /\ At("remove")'
         /\ remove => ~ClosingIn(todo)' /\ ~At("remove")'
         /\ ~handleClose /\ ~closeCallback /\ ~connectDestroyed /\ ~remove =>
              (ClosingIn(todo)' <=> ClosingIn(todo)) /\ (At("remove")' <=> At("remove"))
<1>0. todo \in Seq(Steps) /\ Shape(todo)
  BY DEF LifeInv, OutputInv, TypeOK, LoopOK, HandlersOpen
<1> DEFINE Same == (ClosingIn(todo)' <=> ClosingIn(todo)) /\ (At("remove")' <=> At("remove"))
           r == Tail(todo)
<1>1. ASSUME todo # <<>>
      PROVE  /\ Shape(r) /\ r \in Seq(Steps)
             /\ r # <<>> => Head(r) \in {"handleWrite", "handleError", "closeCallback"}
             /\ Head(todo) = "closeCallback" => ClosingIn(todo) /\ ~ClosingIn(r)
             /\ Head(todo) # "closeCallback" => (ClosingIn(todo) <=> ClosingIn(r))
             /\ Head(todo) # "callback" => ~ClosingIn(r)
             /\ Head(todo) # "callback" => \A i \in 1..Len(r) : r[i] \in {"handleWrite", "handleError"}
  <2>1. Tail(todo) \in Seq(Steps)
    BY <1>0, <1>1
  <2> QED
    BY <1>0, <1>1, <2>1, ShapeTail
<1>2. ASSUME todo # <<>>, Continue(<<>>)
      PROVE  /\ HandlersOpen' /\ ~At("remove")' /\ todo' = r
  <2>1. todo' = r
    BY <1>1, <1>2, ConcatEmptySeq DEF Continue
  <2>2. r # <<>> => Head(r) \notin {"handleRead", "handleClose", "remove"}
    BY <1>1, <1>2
  <2> HIDE DEF r
  <2>3. ~At("remove")' /\ ~At("handleRead")' /\ ~At("handleClose")'
    BY <2>1, <2>2 DEF At
  <2> QED
    BY <1>1, <1>2, <2>1, <2>3, Zenon DEF HandlersOpen
<1> HIDE DEF r
<1>3. ASSUME NEW x \in {"callback", "handleClose"}, todo # <<>>, Head(todo) = "handleRead",
             Continue(<<x>>), UNCHANGED state_
      PROVE  HandlersOpen' /\ Same
  <2>1. Shape(<<x>> \o r) /\ ~ClosingIn(<<x>> \o r) /\ Head(<<x>> \o r) = x
    BY <1>1, <1>3, ShapePush
  <2>2. todo' = <<x>> \o r
    BY <1>3, Zenon DEF Continue, r
  <2>3. Shape(todo') /\ ~ClosingIn(todo') /\ Head(todo') = x
    BY <2>1, <2>2, Zenon
  <2>4. ~ClosingIn(todo) /\ ~At("remove") /\ state_' \in Connected
    BY <1>1, <1>3 DEF At, LifeInv, HandlersOpen
  <2> QED
    BY <2>3, <2>4 DEF HandlersOpen, At
<1>4. ASSUME handleClose PROVE HandlersOpen' /\ ~At("remove") /\ ClosingIn(todo)' /\ ~At("remove")'
  <2>1. todo # <<>> /\ Head(todo) = "handleClose" /\ todo' = <<"callback", "closeCallback">> \o r
    BY <1>4, Zenon DEF handleClose, At, Continue, r
  <2> DEFINE c == <<"callback", "closeCallback">> \o r
  <2>2. Shape(c) /\ ClosingIn(c) /\ Head(c) = "callback"
    BY <1>1, <2>1, ShapePush
  <2>3. Shape(todo') /\ ClosingIn(todo') /\ Head(todo') = "callback"
    BY <2>1, <2>2, Zenon
  <2> QED
    BY <2>1, <2>3 DEF HandlersOpen, At
<1>5. ASSUME closeCallback
      PROVE  HandlersOpen' /\ ~At("remove") /\ ClosingIn(todo) /\ ~ClosingIn(todo)' /\ ~At("remove")'
  <2>1. todo # <<>> /\ Head(todo) = "closeCallback" /\ Continue(<<>>)
    BY <1>5, Zenon DEF closeCallback, At
  <2> QED
    BY <2>1, <1>1, <1>2 DEF At
<1>6. ASSUME connectDestroyed PROVE HandlersOpen' /\ ~ClosingIn(todo)' /\ At("remove")'
  <2>1. Queued("connectDestroyed")
    BY <1>6, RunEffect DEF connectDestroyed, Queued
  <2>2. state_ # "kConnected"
    BY <2>1, Zenon DEF LifeInv, Life, Open, Closed, Announced, Dropped, Removing, Gone
  <2>3. todo' = <<"remove">>
    BY <1>6, <2>2, Zenon DEF connectDestroyed
  <2> QED
    BY <2>3 DEF HandlersOpen, Shape, ClosingIn, At
<1>7. ASSUME remove PROVE HandlersOpen' /\ ~ClosingIn(todo)' /\ ~At("remove")'
  <2>1. todo # <<>> /\ Head(todo) = "remove" /\ Continue(<<>>)
    BY <1>7, Zenon DEF remove, At
  <2> QED
    BY <2>1, <1>1, <1>2
<1>8. ASSUME ~handleClose, ~closeCallback, ~connectDestroyed, ~remove
      PROVE  HandlersOpen' /\ Same
  <2>1. ASSUME NEW x \in {"handleRead", "handleWrite", "handleError", "callback"}, At(x), Continue(<<>>)
        PROVE  HandlersOpen' /\ Same
    <3>1. todo # <<>> /\ Head(todo) = x /\ x \notin {"closeCallback", "remove"}
      BY <2>1 DEF At
    <3>2. HandlersOpen' /\ ~At("remove")' /\ todo' = r
      BY <1>2, <2>1, <3>1
    <3>3. ClosingIn(todo) <=> ClosingIn(r)
      BY <1>1, <3>1
    <3>4. ~At("remove")
      BY <3>1 DEF At
    <3> QED
      BY <3>2, <3>3, <3>4, Zenon
  <2>2. ASSUME todo = <<>>, todo' = <<"callback">> \/ todo' = <<>>
        PROVE  HandlersOpen' /\ Same
    BY <2>2 DEF HandlersOpen, Shape, ClosingIn, At
  <2>3. ASSUME todo = <<>>, todo' = <<"handleClose">>, state_' \in Connected
        PROVE  HandlersOpen' /\ Same
    BY <2>3 DEF HandlersOpen, Shape, ClosingIn, At
  <2>4. CASE \E revents \in Reported : poll(revents)
    <3>1. PICK e \in Reported : poll(e)
      BY <2>4
    <3>2. todo = <<>> /\ Shape(todo') /\ ~ClosingIn(todo') /\ ~At("remove")'
          /\ (todo' # <<>> => state_' \in Connected)
      BY <3>1, PollEffect
    <3>3. ~ClosingIn(todo) /\ ~At("remove")
      BY <3>2 DEF ClosingIn, At
    <3> QED
      BY <3>2, <3>3, Zenon DEF HandlersOpen, At
  <2>5. CASE handleRead
    <3>1. At("handleRead") /\ UNCHANGED state_
      BY <2>5, Zenon DEF handleRead
    <3>2. CASE Continue(<<>>)
      BY <2>1, <3>1, <3>2
    <3>3. ASSUME NEW x \in {"callback", "handleClose"}, Continue(<<x>>)
          PROVE  HandlersOpen' /\ Same
      BY <1>3, <3>1, <3>3 DEF At
    <3> QED
      BY <2>5, <3>2, <3>3 DEF handleRead
  <2>6. CASE handleWrite \/ handleError \/ returnFromCallback
    BY <2>1, <2>6, Zenon DEF handleWrite, handleError, returnFromCallback
  <2>7. CASE connectEstablished \/ forceCloseInLoop \/ writeCompleteCallback
    <3>1. todo = <<>>
      BY <2>7, Zenon DEF connectEstablished, forceCloseInLoop, writeCompleteCallback, Run
    <3>2. \/ todo' = <<"callback">> \/ todo' = <<>>
          \/ todo' = <<"handleClose">> /\ state_' \in Connected
      BY <2>7, Zenon DEF connectEstablished, forceCloseInLoop, writeCompleteCallback, Connected
    <3> QED
      BY <2>2, <2>3, <3>1, <3>2, Zenon
  <2>8. CASE UNCHANGED todo
    <3>1. CASE At("callback")
      BY <2>8, <3>1 DEF LifeInv, HandlersOpen, At
    <3>2. CASE UNCHANGED state_
      BY <2>8, <3>2, Zenon DEF LifeInv, HandlersOpen, At
    <3> QED
      BY <1>8, <2>7, <3>1, <3>2, StateStep, Zenon
  <2> QED
    BY <1>8, <2>4, <2>5, <2>6, <2>7, <2>8, Zenon
    DEF DisciplinedStep, swapFunctors, endBatch, runSend,
        callbackSend, callbackShutdown, callbackForceClose, callbackForceCloseWithDelay, share,
        release, send, runInLoop, removeConnectionInLoop, Start, peerChanges, vars, loopVars
<1> QED
  BY <1>4, <1>5, <1>6, <1>7, <1>8, Zenon

\* An open connection keeps reading, and leaves epoll when it closes.
LEMMA ReadingStep ==
  ASSUME LifeInv, DisciplinedStep
  PROVE  /\ Reading'
         /\ handleClose => index_' = "kDeleted"
<1>1. ASSUME handleClose PROVE state_' = "kDisconnected" /\ index_' = "kDeleted"
  <2>1. "R" \in events_
    BY <1>1 DEF handleClose, LifeInv, Reading, Connected
  <2>2. index_ = "kAdded"
    BY <2>1 DEF LifeInv, OutputInv, PollerAgrees
  <2> QED
    BY <1>1, <2>2 DEF handleClose, disableAll, update
<1>2. ASSUME connectEstablished PROVE Reading'
  BY <1>2 DEF connectEstablished, enableReading, update, Reading
<1>3. ASSUME ~handleClose, ~connectEstablished PROVE Reading'
  <2>1. state_' \in Connected => state_ \in Connected
    <3>1. ASSUME connectDestroyed PROVE state_' \notin Connected \/ UNCHANGED state_
      BY <3>1 DEF connectDestroyed, Connected
    <3> QED
      BY <1>3, <3>1, StateStep, Zenon
  <2>2. "R" \in events_ => "R" \in events_'
    <3>1. UNCHANGED events_ \/ events_' = events_ \cup {"W"} \/ events_' = events_ \ {"W"}
      BY <1>3, EventsStep, Zenon DEF channelVars, remove, enableWriting, disableWriting, update
    <3> QED
      BY <3>1
  <2> QED
    BY <2>1, <2>2, Zenon DEF LifeInv, Reading
<1> QED
  BY <1>1, <1>2, <1>3 DEF Reading, Connected

\* The connection goes through the stages of its life in order.
LEMMA LifeStep == ASSUME LifeInv, DisciplinedStep PROVE Life'
<1> DEFINE cd == Queued("connectDestroyed")
           ci == ClosingIn(todo)
           rm == At("remove")
<1>0. Once("connectDestroyed") /\ Life
  BY DEF LifeInv, QueueShape
<1>1. CASE handleClose
  <2>1. state_ # "kDisconnected" /\ state_' = "kDisconnected" /\ UNCHANGED <<owned, removals>>
    BY <1>1 DEF handleClose, ownerVars
  <2>2. index_' = "kDeleted" /\ ci' /\ ~rm'
    BY <1>1, ReadingStep, TodoStep
  <2>3. ~removeConnectionInLoop
    BY <1>1, <2>1 DEF removeConnectionInLoop
  <2>4. ~cd'
    BY <1>0, <2>1, <2>3, QueuedStep DEF Life, Open, Closed, Announced, Dropped, Removing, Gone
  <2>5. owned /\ removals = 0
    BY <1>0, <2>1 DEF Life, Open, Closed, Announced, Dropped, Removing, Gone
  <2> HIDE DEF cd, ci, rm
  <2>6. owned' /\ removals' = 0
    BY <2>1, <2>5
  <2> QED
    BY <2>1, <2>2, <2>4, <2>6, Zenon DEF Life, Closed, cd, ci, rm
<1>2. CASE closeCallback
  <2>1. UNCHANGED <<state_, owned, index_>> /\ removals' = removals + 1
    BY <1>2, Zenon DEF closeCallback, channelVars
  <2>2. ci /\ ~ci' /\ ~rm'
    BY <1>2, TodoStep
  <2>3. Closed
    BY <1>0, <2>2, Zenon DEF Life, Open, Closed, Announced, Dropped, Removing, Gone
  <2>4. ~removeConnectionInLoop
    BY <1>2, <2>1, <2>3 DEF removeConnectionInLoop, Closed
  <2>5. ~cd'
    BY <1>0, <2>3, <2>4, QueuedStep DEF Closed
  <2>6. removals' = 1
    BY <2>1, <2>3 DEF Closed
  <2> QED
    BY <2>1, <2>2, <2>3, <2>5, <2>6, Zenon DEF Life, Closed, Announced
<1>3. CASE connectDestroyed
  <2>1. cd /\ Run("connectDestroyed")
    BY <1>3, RunEffect DEF connectDestroyed, Queued
  <2>2. Dropped
    BY <1>0, <2>1, Zenon DEF Life, Open, Closed, Announced, Dropped, Removing, Gone
  <2>3. UNCHANGED <<state_, owned, removals, index_>>
    <3>1. state_ # "kConnected"
      BY <2>2 DEF Dropped
    <3> QED
      BY <1>3, <3>1, Zenon DEF connectDestroyed, Run, ownerVars, channelVars
  <2>4. ~removeConnectionInLoop
    BY <2>2 DEF removeConnectionInLoop, Dropped
  <2>5. ~cd'
    BY <1>0, <2>1, <2>4, QueuedStep
  <2>6. ~ci' /\ rm'
    BY <1>3, TodoStep
  <2> QED
    BY <2>2, <2>3, <2>5, <2>6, Zenon DEF Life, Dropped, Removing
<1>4. CASE remove
  <2>1. rm /\ UNCHANGED <<state_, owned, removals>> /\ index_' = "kNew"
    BY <1>4, Zenon DEF remove, ownerVars
  <2>2. Removing
    BY <1>0, <2>1, Zenon DEF Life, Open, Closed, Announced, Dropped, Removing, Gone
  <2>3. ~removeConnectionInLoop
    BY <2>2 DEF removeConnectionInLoop, Removing
  <2>4. ~cd'
    BY <1>0, <2>2, <2>3, QueuedStep DEF Removing
  <2>5. ~ci' /\ ~rm'
    BY <1>4, TodoStep
  <2> QED
    BY <2>1, <2>2, <2>4, <2>5, Zenon DEF Life, Gone, Removing
<1>5. CASE removeConnectionInLoop
  <2>1. /\ removals > 0 /\ owned' = FALSE /\ removals' = removals - 1
        /\ UNCHANGED <<state_, index_, todo, batch>>
        /\ pending' = pending \o <<Bare("connectDestroyed")>>
    BY <1>5, Zenon DEF removeConnectionInLoop, queueInLoop, channelVars
  <2>2. Announced
    BY <1>0, <2>1 DEF Life, Open, Closed, Announced, Dropped, Removing, Gone
  <2>3. removals' = 0
    BY <2>1, <2>2 DEF Announced
  <2>4. cd'
    <3>1. pending \in Seq(Functors)
      BY DEF LifeInv, OutputInv, TypeOK, LoopOK
    <3>2. Bare("connectDestroyed") \in Functors /\ Bare("connectDestroyed").op = "connectDestroyed"
      BY BareType
    <3>3. InSeq(pending \o <<Bare("connectDestroyed")>>, "connectDestroyed")
      BY <3>1, <3>2, InSeqAppend
    <3> QED
      BY <2>1, <3>3, Zenon DEF Queued
  <2> QED
    BY <2>1, <2>2, <2>3, <2>4, Zenon DEF Life, Announced, Dropped, At
<1>6. CASE /\ ~handleClose /\ ~closeCallback /\ ~connectDestroyed /\ ~remove
           /\ ~removeConnectionInLoop
  <2>1. (ci' <=> ci) /\ (rm' <=> rm)
    BY <1>6, TodoStep
  <2>2. UNCHANGED <<owned, removals>>
    BY <1>6, Zenon
    DEF DisciplinedStep, poll, handleRead, handleWrite, handleError, returnFromCallback,
        swapFunctors, endBatch, connectEstablished, runSend, forceCloseInLoop,
        writeCompleteCallback, callbackSend, callbackShutdown, callbackForceClose,
        callbackForceCloseWithDelay, share, release, send, runInLoop, Run, Start, peerChanges,
        vars, ownerVars
  <2>3. cd' <=> cd
    <3>1. CASE Run("connectDestroyed")
      <4>1. Head(batch).op = "connectDestroyed" /\ batch # <<>> /\ batch' # batch
        <5>1. batch \in Seq(Functors) /\ batch # <<>> /\ Head(batch).op = "connectDestroyed" /\ batch' = Tail(batch)
          BY <3>1, RunEffect
        <5> QED
          BY <5>1
      <4>2. phase = "functors" /\ todo = <<>>
        BY <3>1 DEF Run
      <4>3. \A s : ~At(s)
        BY <4>2, Zenon DEF At
      <4>4. \A op : Run(op) => op = "connectDestroyed"
        BY <4>1, Zenon DEF Run
      <4>5. \A r : ~poll(r)
        BY <4>2 DEF poll
      <4>6. ~swapFunctors
        BY <4>2 DEF swapFunctors
      <4> QED
        BY <1>6, <4>1, <4>3, <4>4, <4>5, <4>6, Zenon
        DEF DisciplinedStep, handleRead, handleWrite, handleError, returnFromCallback,
            endBatch, connectEstablished, runSend, forceCloseInLoop,
            writeCompleteCallback, callbackSend, callbackShutdown, callbackForceClose,
            callbackForceCloseWithDelay, Calling, share, release, send, runInLoop, Start, peerChanges,
            vars, loopVars
    <3>2. CASE ~Run("connectDestroyed")
      BY <1>0, <1>6, <3>2, QueuedStep
    <3> QED
      BY <3>1, <3>2
  <2>4. CASE state_ # "kDisconnected"
    <3>1. state_' # "kDisconnected"
      BY <1>6, <2>4, StateStep DEF connectEstablished, Connected
    <3> QED
      BY <1>0, <2>1, <2>2, <2>3, <2>4, <3>1, Zenon
      DEF Life, Open, Closed, Announced, Dropped, Removing, Gone
  <2>5. CASE state_ = "kDisconnected"
    <3>1. state_' = "kDisconnected"
      BY <1>6, <2>5, StateStep DEF connectEstablished, Connected
    <3>2. UNCHANGED index_
      BY <1>6, <2>5, EventsStep DEF connectEstablished, channelVars
    <3> QED
      BY <1>0, <2>1, <2>2, <2>3, <2>5, <3>1, <3>2, Zenon
      DEF Life, Open, Closed, Announced, Dropped, Removing, Gone
  <2> QED
    BY <2>4, <2>5
<1> QED
  BY <1>1, <1>2, <1>3, <1>4, <1>5, <1>6

\* connectEstablished() is never queued again.
LEMMA OpenedOnceStep == ASSUME LifeInv, DisciplinedStep PROVE OpenedOnce'
<1>1. /\ Once("connectEstablished")'
      /\ Queued("connectEstablished")' => Queued("connectEstablished")
      /\ Run("connectEstablished") => ~Queued("connectEstablished")'
  <2>1. Once("connectEstablished")
    BY DEF LifeInv, OpenedOnce
  <2> QED
    BY <2>1, QueuedStep
<1>2. state_' # "kConnecting" => state_ # "kConnecting" \/ Run("connectEstablished")
  <2>1. ASSUME connectDestroyed PROVE UNCHANGED state_ \/ state_ # "kConnecting"
    BY <2>1 DEF connectDestroyed
  <2> QED
    BY <2>1, StateStep DEF handleClose, connectEstablished, Connected
<1> QED
  BY <1>1, <1>2, Zenon DEF LifeInv, OpenedOnce

\* The loop leaves a phase when it has nothing left to do in it.
LEMMA LoopShapeStep == ASSUME LifeInv, DisciplinedStep PROVE LoopShape'
<1>0. LoopShape
  BY DEF LifeInv
<1>1. CASE \E revents \in Reported : poll(revents)
  BY <1>0, <1>1 DEF poll, LoopShape
<1>2. CASE swapFunctors \/ endBatch
  BY <1>2 DEF swapFunctors, endBatch, LoopShape
<1>3. ASSUME NEW op, Run(op) PROVE LoopShape'
  BY <1>3 DEF Run, LoopShape
<1>4. ASSUME NEW x, At(x), UNCHANGED <<phase, batch>> PROVE LoopShape'
  BY <1>0, <1>4, Zenon DEF At, LoopShape
<1>5. CASE UNCHANGED <<phase, batch, todo>>
  BY <1>0, <1>5, Zenon DEF LoopShape
<1> QED
  BY <1>1, <1>2, <1>3, <1>4, <1>5, Zenon
  DEF DisciplinedStep, handleRead, handleWrite, handleClose, closeCallback, handleError, remove,
      returnFromCallback, connectEstablished, connectDestroyed, runSend, forceCloseInLoop,
      writeCompleteCallback, callbackSend, callbackShutdown, callbackForceClose,
      callbackForceCloseWithDelay, share, release, send, runInLoop, removeConnectionInLoop, Start,
      peerChanges, vars, loopVars

\* Nothing but what disciplined users and the loop need is queued; callers keep their pointer.
LEMMA QueueShapeStep == ASSUME LifeInv, DisciplinedStep PROVE QueueShape'
<1>0. QueueShape /\ pending \in Seq(Functors) /\ batch \in Seq(Functors)
      /\ call \in [Threads -> {Idle} \cup [at : {"set", "queue"}, f : Functors]]
  BY Zenon DEF LifeInv, OutputInv, TypeOK, LoopOK, UsersOK
<1>1. \A i \in 1..Len(pending') : pending'[i].op \in QueueOps
  <2>0. \A i \in 1..Len(pending) : pending[i].op \in QueueOps
    BY <1>0 DEF QueueShape
  <2>1. ASSUME NEW f \in Functors, f.op \in QueueOps, pending' = pending \o <<f>>
        PROVE  \A i \in 1..Len(pending') : pending'[i].op \in QueueOps
    <3>1. Len(pending') = Len(pending) + 1 /\ Len(pending) \in Nat
      BY <1>0, <2>1
    <3>2. ASSUME NEW i \in 1..Len(pending') PROVE pending'[i] = IF i = Len(pending) + 1 THEN f ELSE pending[i]
      BY <1>0, <2>1, <3>1
    <3> QED
      BY <2>0, <2>1, <3>1, <3>2
  <2>2. CASE UNCHANGED pending
    BY <2>0, <2>2, Zenon
  <2>3. CASE swapFunctors
    BY <2>3 DEF swapFunctors
  <2>4. CASE removeConnectionInLoop
    <3>1. pending' = pending \o <<Bare("connectDestroyed")>>
      BY <2>4, Zenon DEF removeConnectionInLoop, queueInLoop
    <3>2. Bare("connectDestroyed") \in Functors /\ Bare("connectDestroyed").op \in QueueOps
      BY BareType DEF QueueOps
    <3> QED
      BY <2>1, <3>1, <3>2
  <2>5. {"writeComplete", "forceCloseInLoop", "sendInLoop"} \subseteq QueueOps
    BY DEF QueueOps
  <2> QED
    BY <2>1, <2>2, <2>3, <2>4, <2>5, QueueStep, Zenon
<1>2. \A i \in 1..Len(batch') : batch'[i].op \in QueueOps
  <2>1. CASE UNCHANGED batch
    BY <1>0, <2>1, Zenon DEF QueueShape
  <2>2. CASE swapFunctors
    BY <1>0, <2>2, Zenon DEF QueueShape, swapFunctors
  <2>3. ASSUME NEW op, Run(op) PROVE \A i \in 1..Len(batch') : batch'[i].op \in QueueOps
    <3>1. batch # <<>> /\ batch' = Tail(batch)
      BY <2>3, Zenon DEF Run
    <3>2. ASSUME NEW i \in 1..Len(batch') PROVE batch'[i] = batch[i + 1] /\ i + 1 \in 1..Len(batch)
      BY <1>0, <3>1
    <3> QED
      BY <1>0, <3>2, Zenon DEF QueueShape
  <2> QED
    BY <2>1, <2>2, <2>3, QueueStep, Zenon
<1>3. \A t \in Threads : call'[t] # Idle => call'[t].f.op = "sendInLoop" /\ t \in refs'
  <2>0. \A t \in Threads : call[t] # Idle => call[t].f.op = "sendInLoop" /\ t \in refs
    BY <1>0 DEF QueueShape
  <2>1. CASE UNCHANGED call /\ refs \subseteq refs'
    BY <2>0, <2>1, Zenon
  <2>2. ASSUME NEW u \in Threads, release(u)
        PROVE  \A t \in Threads : call'[t] # Idle => call'[t].f.op = "sendInLoop" /\ t \in refs'
    <3>1. call' = call /\ refs' = refs \ {u} /\ call[u] = Idle
      BY <2>2, Zenon DEF release
    <3> QED
      BY <2>0, <3>1
  <2>3. ASSUME NEW u \in Threads, runInLoop(u)
        PROVE  \A t \in Threads : call'[t] # Idle => call'[t].f.op = "sendInLoop" /\ t \in refs'
    <3>1. call' = [call EXCEPT ![u] = Idle] /\ refs' = refs
      BY <2>3, Zenon DEF runInLoop
    <3> QED
      BY <1>0, <2>0, <3>1
  <2>4. ASSUME NEW u \in Threads, NEW m \in Messages, send(u, m)
        PROVE  \A t \in Threads : call'[t] # Idle => call'[t].f.op = "sendInLoop" /\ t \in refs'
    <3>1. /\ call' = [call EXCEPT ![u] = [at |-> "queue", f |-> Functor("sendInLoop", m)]]
          /\ refs' = refs /\ u \in refs
      BY <2>4, Zenon DEF send, Start
    <3>2. Functor("sendInLoop", m).op = "sendInLoop"
      BY DEF Functor
    <3>3. ASSUME NEW t \in Threads
          PROVE  call'[t] = IF t = u THEN [at |-> "queue", f |-> Functor("sendInLoop", m)] ELSE call[t]
      BY <1>0, <3>1
    <3>4. [at |-> "queue", f |-> Functor("sendInLoop", m)].f = Functor("sendInLoop", m)
      OBVIOUS
    <3> QED
      BY <2>0, <3>1, <3>2, <3>3, <3>4, Zenon
  <2>5. ASSUME NEW t \in Threads, share(t) PROVE UNCHANGED call /\ refs \subseteq refs'
    BY <2>5, Zenon DEF share
  <2> QED
    BY <2>1, <2>2, <2>3, <2>4, <2>5, Zenon
    DEF DisciplinedStep, poll, handleRead, handleWrite, handleClose, closeCallback, handleError,
        remove, returnFromCallback, swapFunctors, endBatch, connectEstablished, connectDestroyed,
        runSend, forceCloseInLoop, writeCompleteCallback, callbackSend, callbackShutdown,
        callbackForceClose, callbackForceCloseWithDelay, removeConnectionInLoop, Run,
        peerChanges, vars, userVars
<1>4. Once("connectDestroyed")'
  <2>1. CASE removeConnectionInLoop
    <3>1. pending' = pending \o <<Bare("connectDestroyed")>> /\ UNCHANGED batch /\ removals > 0
      BY <2>1, Zenon DEF removeConnectionInLoop, queueInLoop
    <3>2. ~Queued("connectDestroyed")
      BY <3>1 DEF LifeInv, Life, Open, Closed, Announced, Dropped, Removing, Gone
    <3>3. Bare("connectDestroyed") \in Functors
      BY BareType
    <3>4. OnceIn(pending \o <<Bare("connectDestroyed")>>, "connectDestroyed")
      BY <1>0, <3>2, <3>3, InSeqAppend, Zenon DEF QueueShape, Once, Queued
    <3> QED
      BY <1>0, <3>1, <3>2, <3>4, Zenon DEF QueueShape, Once, Queued
  <2>2. CASE ~removeConnectionInLoop
    BY <1>0, <2>2, QueuedStep DEF QueueShape
  <2> QED
    BY <2>1, <2>2
<1> QED
  BY <1>1, <1>2, <1>3, <1>4, Zenon DEF QueueShape

\* A release waits for the callbacks that are bound to this.
LEMMA ReleaseWaits ==
  ASSUME LifeInv, NEW t \in Threads, release(t)
  PROVE  ~InSeq(pending, "sendInLoop") /\ ~InSeq(batch, "sendInLoop")
<1>0. pending \in Seq(Functors) /\ batch \in Seq(Functors) /\ SafeRelease
  BY DEF LifeInv, OutputInv, TypeOK, LoopOK, Disciplined
<1> DEFINE q == pending \o batch
<1>1. /\ DOMAIN q = 1..(Len(pending) + Len(batch))
      /\ \A i \in 1..Len(pending) : q[i] = pending[i] /\ i \in DOMAIN q
      /\ \A i \in 1..Len(batch) : q[Len(pending) + i] = batch[i] /\ Len(pending) + i \in DOMAIN q
  BY <1>0
<1>2. \A f \in ToSet(q) : Strong(f)
  BY <1>0, Zenon DEF release
<1> HIDE DEF q
<1>3. \A i \in DOMAIN q : q[i].op # "sendInLoop"
  BY <1>2 DEF ToSet, Strong
<1> QED
  BY <1>1, <1>3, Zenon DEF InSeq

\* The handlers and the callbacks run on an object that something keeps.
LEMMA KeptStep == ASSUME LifeInv, DisciplinedStep PROVE Kept'
<1>0. /\ Kept /\ LoopShape /\ pending \in Seq(Functors) /\ batch \in Seq(Functors)
      /\ todo \in Seq(Steps)
  BY DEF LifeInv, OutputInv, TypeOK, LoopOK
<1> DEFINE StrongIn(q) == \E i \in 1..Len(q) : Strong(q[i])
<1>1. phase' = "functors" /\ (todo' # <<>> \/ StrongIn(batch')) => held'
  <2>1. CASE swapFunctors
    <3>1. todo' = <<>> /\ batch' = pending /\ held' = \E f \in ToSet(pending) : Strong(f)
      BY <2>1, Zenon DEF swapFunctors
    <3>2. StrongIn(pending) => \E f \in ToSet(pending) : Strong(f)
      BY <1>0 DEF ToSet
    <3> HIDE DEF StrongIn
    <3> QED
      BY <3>1, <3>2, Zenon
  <2>2. ASSUME NEW op, Run(op), op # "sendInLoop" PROVE held'
    <3>1. held
      BY <2>2, RunEffect
    <3> QED
      BY <2>2, <3>1, Zenon DEF Run
  <2>3. CASE runSend
    <3>1. /\ batch # <<>> /\ batch' = Tail(batch) /\ UNCHANGED <<phase, held, todo>> /\ phase = "functors"
          /\ todo = <<>>
      BY <2>3, Zenon DEF runSend, Run
    <3>2. StrongIn(Tail(batch)) => StrongIn(batch)
      <4>1. ASSUME NEW i \in 1..Len(Tail(batch)) PROVE Tail(batch)[i] = batch[i + 1] /\ i + 1 \in 1..Len(batch)
        BY <1>0, <3>1
      <4> QED
        BY <4>1, Zenon
    <3>3. StrongIn(batch) => held
      BY <1>0, <3>1, Zenon DEF Kept
    <3> HIDE DEF StrongIn
    <3> QED
      BY <3>1, <3>2, <3>3, Zenon
  <2>4. CASE UNCHANGED <<phase, held, batch>> /\ (todo' # <<>> => todo # <<>>)
    BY <1>0, <2>4, Zenon DEF Kept
  <2>5. CASE phase' # "functors"
    BY <2>5
  <2> HIDE DEF StrongIn
  <2>6. CASE \E revents \in Reported : poll(revents)
    BY <2>5, <2>6 DEF poll
  <2>7. CASE endBatch
    BY <2>5, <2>7 DEF endBatch
  <2>8. CASE connectEstablished \/ connectDestroyed \/ forceCloseInLoop \/ writeCompleteCallback
    BY <2>2, <2>8 DEF connectEstablished, connectDestroyed, forceCloseInLoop, writeCompleteCallback
  <2> QED
    BY <2>1, <2>3, <2>4, <2>6, <2>7, <2>8, Zenon
    DEF DisciplinedStep, handleRead, handleWrite, handleClose, closeCallback, handleError, remove, At,
        returnFromCallback, callbackSend, callbackShutdown, callbackForceClose,
        callbackForceCloseWithDelay, share, release, send, runInLoop, removeConnectionInLoop, Start,
        peerChanges, vars, loopVars
<1>2. phase' = "handle" /\ todo' # <<>> => owned' \/ InSeq(pending, "connectDestroyed")'
  <2>1. CASE \E revents \in Reported : poll(revents)
    <3>1. PICK e \in Reported : poll(e)
      BY <2>1
    <3>2. todo' # <<>> => owned
      BY <3>1, PollEffect
    <3> QED
      BY <3>1, <3>2, Zenon DEF poll, ownerVars
  <2>2. CASE removeConnectionInLoop
    <3>1. pending' = pending \o <<Bare("connectDestroyed")>>
      BY <2>2, Zenon DEF removeConnectionInLoop, queueInLoop
    <3>2. Bare("connectDestroyed") \in Functors /\ Bare("connectDestroyed").op = "connectDestroyed"
      BY BareType
    <3>3. InSeq(pending \o <<Bare("connectDestroyed")>>, "connectDestroyed")
      BY <1>0, <3>2, InSeqAppend
    <3> QED
      BY <3>1, <3>3, Zenon
  <2>3. CASE /\ UNCHANGED <<phase, owned>> /\ (todo' # <<>> => todo # <<>>)
             /\ ~swapFunctors /\ ~removeConnectionInLoop
    <3>1. InSeq(pending, "connectDestroyed") => InSeq(pending, "connectDestroyed")'
      <4>1. CASE UNCHANGED pending
        BY <4>1, Zenon
      <4>2. ASSUME NEW f \in Functors, pending' = pending \o <<f>>
            PROVE  InSeq(pending, "connectDestroyed") => InSeq(pending, "connectDestroyed")'
        <5>1. InSeq(pending, "connectDestroyed") => InSeq(pending \o <<f>>, "connectDestroyed")
          BY <1>0, InSeqAppend
        <5> QED
          BY <4>2, <5>1, Zenon
      <4> QED
        BY <2>3, <4>1, <4>2, QueueStep, Zenon
    <3> QED
      BY <1>0, <2>3, <3>1, Zenon DEF Kept
  <2>4. CASE phase' # "handle"
    BY <2>4
  <2>5. ASSUME NEW op, Run(op) PROVE phase' # "handle"
    BY <2>5 DEF Run
  <2>6. CASE swapFunctors \/ endBatch
    BY <2>6, <2>4 DEF swapFunctors, endBatch
  <2> QED
    BY <2>1, <2>2, <2>3, <2>4, <2>5, <2>6, Zenon
    DEF DisciplinedStep, handleRead, handleWrite, handleClose, closeCallback, handleError, remove, At,
        returnFromCallback, connectEstablished, connectDestroyed, runSend, forceCloseInLoop,
        writeCompleteCallback, callbackSend, callbackShutdown, callbackForceClose,
        callbackForceCloseWithDelay, share, release, send, runInLoop, Start,
        peerChanges, vars, loopVars, ownerVars
<1>3. InSeq(pending, "sendInLoop")' \/ InSeq(batch, "sendInLoop")' => refs' # {}
  <2>0. InSeq(pending, "sendInLoop") \/ InSeq(batch, "sendInLoop") => refs # {}
    BY <1>0, Zenon DEF Kept
  <2>1. CASE \E t \in Threads : release(t)
    <3>1. ~InSeq(pending, "sendInLoop") /\ ~InSeq(batch, "sendInLoop")
      BY <2>1, ReleaseWaits, Zenon
    <3>2. UNCHANGED <<pending, batch>>
      BY <2>1, Zenon DEF release, loopVars
    <3> QED
      BY <3>1, <3>2, Zenon
  <2>2. CASE ~ \E t \in Threads : release(t)
    <3>1. refs \subseteq refs'
      BY <2>2, Zenon
      DEF DisciplinedStep, poll, handleRead, handleWrite, handleClose, closeCallback, handleError,
          remove, returnFromCallback, swapFunctors, endBatch, connectEstablished, connectDestroyed,
          runSend, forceCloseInLoop, writeCompleteCallback, callbackSend, callbackShutdown,
          callbackForceClose, callbackForceCloseWithDelay, removeConnectionInLoop, Run, share, send,
          Start, runInLoop, peerChanges, vars, userVars
    <3>2. refs # {} => refs' # {}
      BY <3>1
    <3>3. InSeq(pending, "sendInLoop")' => refs # {}
      <4>1. ASSUME NEW f \in Functors, pending' = pending \o <<f>>, f.op = "sendInLoop" => refs # {}
            PROVE  InSeq(pending, "sendInLoop")' => refs # {}
        <5>1. InSeq(pending \o <<f>>, "sendInLoop") <=> InSeq(pending, "sendInLoop") \/ f.op = "sendInLoop"
          BY <1>0, InSeqAppend
        <5> QED
          BY <2>0, <4>1, <5>1, Zenon
      <4>2. CASE swapFunctors
        <5>1. pending' = <<>>
          BY <4>2, Zenon DEF swapFunctors
        <5> QED
          BY <5>1, InSeqEmpty, Zenon
      <4>3. CASE removeConnectionInLoop
        <5>1. pending' = pending \o <<Bare("connectDestroyed")>>
          BY <4>3, Zenon DEF removeConnectionInLoop, queueInLoop
        <5>2. Bare("connectDestroyed") \in Functors /\ Bare("connectDestroyed").op # "sendInLoop"
          BY BareType
        <5> QED
          BY <4>1, <5>1, <5>2
      <4>4. CASE UNCHANGED pending
        BY <2>0, <4>4, Zenon
      <4> QED
        BY <4>1, <4>2, <4>3, <4>4, QueueStep, Zenon
    <3>4. InSeq(batch, "sendInLoop")' => refs # {}
      <4>1. CASE swapFunctors
        BY <2>0, <4>1, Zenon DEF swapFunctors
      <4>2. ASSUME NEW op, Run(op) PROVE InSeq(batch, "sendInLoop")' => refs # {}
        <5>1. batch # <<>> /\ batch' = Tail(batch)
          BY <4>2, Zenon DEF Run
        <5>2. InSeq(Tail(batch), "sendInLoop") => InSeq(batch, "sendInLoop")
          BY <1>0, <5>1, InSeqTail
        <5> QED
          BY <2>0, <5>1, <5>2, Zenon
      <4>3. CASE UNCHANGED batch
        BY <2>0, <4>3, Zenon
      <4> QED
        BY <4>1, <4>2, <4>3, QueueStep, Zenon
    <3> QED
      BY <3>2, <3>3, <3>4
  <2> QED
    BY <2>1, <2>2
<1> QED
  BY <1>1, <1>2, <1>3, Zenon DEF Kept

\* The invariant of the connection's life holds initially.
LEMMA LifeInvInit == Disciplined /\ Init => LifeInv
<1> SUFFICES ASSUME Disciplined, Init PROVE LifeInv
  OBVIOUS
<1>0. /\ pending = <<Bare("connectEstablished")>> /\ batch = <<>> /\ todo = <<>>
      /\ state_ = "kConnecting" /\ removals = 0 /\ phase = "poll"
  BY DEF Init
<1>1. OutputInv
  <2>1. NoThreadSets
    BY DEF Disciplined, NoThreadSets
  <2> QED
    BY <2>1, OutputInvInit
<1>2. LoopShape /\ Reading
  BY <1>0 DEF LoopShape, Reading, Connected
<1>3. Bare("connectEstablished") \in Functors /\ Bare("connectEstablished").op = "connectEstablished"
  BY BareType
<1>4. /\ Len(pending) = 1 /\ pending[1].op = "connectEstablished" /\ Len(batch) = 0
      /\ Len(todo) = 0
  BY <1>0, <1>3
<1>5. ~Queued("connectDestroyed") /\ Once("connectDestroyed") /\ Once("connectEstablished")
  BY <1>4 DEF Queued, Once, InSeq, OnceIn
<1>6. QueueShape
  <2>1. \A t \in Threads : call[t] = Idle
    BY DEF Init
  <2> QED
    BY <1>4, <1>5, <2>1 DEF QueueShape, QueueOps
<1>7. OpenedOnce
  BY <1>0, <1>5 DEF OpenedOnce
<1>8. HandlersOpen /\ ~ClosingIn(todo) /\ ~At("remove")
  BY <1>0, <1>4 DEF HandlersOpen, Shape, ClosingIn, At
<1>9. Life
  <2>1. owned
    BY Zenon DEF Init
  <2> QED
    BY <1>0, <1>5, <1>8, <2>1 DEF Life, Open
<1>10. Kept
  <2>1. ~InSeq(pending, "sendInLoop") /\ ~InSeq(batch, "sendInLoop")
    BY <1>4 DEF InSeq
  <2> QED
    BY <1>0, <2>1 DEF Kept
<1> QED
  BY <1>1, <1>2, <1>6, <1>7, <1>8, <1>9, <1>10 DEF LifeInv

\* Every step keeps the invariant of the connection's life.
LEMMA LifeInvStep == LifeInv /\ [Next]_vars => LifeInv'
<1> SUFFICES ASSUME LifeInv, [Next]_vars PROVE LifeInv'
  OBVIOUS
<1>1. DisciplinedStep
  BY DisciplinedNext
<1>2. Disciplined' /\ OutputInv'
  BY OutputInvStep, Zenon DEF LifeInv, Disciplined
<1>3. LoopShape' /\ QueueShape' /\ OpenedOnce'
  BY <1>1, LoopShapeStep, QueueShapeStep, OpenedOnceStep
<1>4. Reading' /\ HandlersOpen' /\ Life' /\ Kept'
  BY <1>1, ReadingStep, TodoStep, LifeStep, KeptStep
<1> QED
  BY <1>2, <1>3, <1>4, Zenon DEF LifeInv

\* The inductive invariant of the connection's life.
THEOREM LifeInvariant == Disciplined => (Spec => []LifeInv)
  BY LifeInvInit, LifeInvStep, PTL DEF Spec

\* connectDestroyed() keeps the object while it is queued, and the batch while it runs.
LEMMA KeptAlive ==
  ASSUME LifeInv
  PROVE  /\ todo # <<>> \/ batch # <<>> => Alive
         /\ Queued("connectDestroyed") => Alive
<1>0. /\ pending \in Seq(Functors) /\ batch \in Seq(Functors)
      /\ phase \in {"poll", "handle", "functors"} /\ Kept /\ LoopShape
  BY DEF LifeInv, OutputInv, TypeOK, LoopOK
<1>1. InSeq(pending, "connectDestroyed") => Alive
  <2>1. ASSUME NEW i \in 1..Len(pending), pending[i].op = "connectDestroyed"
        PROVE  pending[i] \in ToSet(pending) /\ Strong(pending[i])
    BY <1>0, <2>1 DEF ToSet, Strong
  <2> QED
    BY <2>1, Zenon DEF InSeq, Alive
<1>2. ASSUME batch # <<>> PROVE Alive
  <2>1. phase = "functors"
    BY <1>0, <1>2 DEF LoopShape
  <2>2. Len(batch) \in Nat /\ 1 \in 1..Len(batch)
    BY <1>0, <1>2
  <2>3. batch[1].op \in QueueOps
    BY <2>2, Zenon DEF LifeInv, QueueShape
  <2>4. CASE batch[1].op = "sendInLoop"
    BY <1>0, <2>2, <2>4, Zenon DEF Kept, InSeq, Alive
  <2>5. CASE Strong(batch[1])
    BY <1>0, <2>1, <2>2, <2>5, Zenon DEF Kept, Alive
  <2> QED
    BY <2>3, <2>4, <2>5 DEF QueueOps, Strong
<1>3. ASSUME todo # <<>> PROVE Alive
  <2>1. phase # "poll"
    BY <1>0, <1>3 DEF LoopShape
  <2>2. CASE phase = "functors"
    BY <1>0, <1>3, <2>2, Zenon DEF Kept, Alive
  <2>3. CASE phase = "handle"
    BY <1>0, <1>1, <1>3, <2>3, Zenon DEF Kept, Alive
  <2> QED
    BY <1>0, <2>1, <2>2, <2>3
<1>4. InSeq(batch, "connectDestroyed") => batch # <<>>
  BY InSeqEmpty
<1> QED
  BY <1>1, <1>2, <1>3, <1>4, Zenon DEF Queued

\* handleClose(), connectEstablished(), Channel::remove(), removeConnectionInLoop() and the
\* destructors: no assert fails for disciplined users, however many threads send.
THEOREM ConnectionNeverAborts == Disciplined => (Spec => []NoAbort)
<1>1. LifeInv => NoAbort
  <2> SUFFICES ASSUME LifeInv PROVE NoAbort
    OBVIOUS
  <2>1. CloseAssert
    BY DEF LifeInv, HandlersOpen, CloseAssert, Connected
  <2>2. OpenAssert
    <3>1. batch \in Seq(Functors)
      BY DEF LifeInv, OutputInv, TypeOK, LoopOK
    <3>2. ASSUME batch # <<>>, Head(batch).op = "connectEstablished" PROVE InSeq(batch, "connectEstablished")
      BY <3>1, <3>2 DEF InSeq
    <3> QED
      BY <3>2, Zenon DEF LifeInv, OpenedOnce, Queued, OpenAssert
  <2>3. RemoveAssert
    <3>1. At("remove") => index_ = "kDeleted"
      BY Zenon DEF LifeInv, Life, Open, Closed, Announced, Dropped, Removing, Gone
    <3>2. index_ = "kDeleted" => events_ = {}
      BY DEF LifeInv, OutputInv, PollerAgrees
    <3> QED
      BY <3>1, <3>2 DEF RemoveAssert
  <2>4. OwnerAssert
    BY DEF LifeInv, Life, Open, Closed, Announced, Dropped, Removing, Gone, OwnerAssert
  <2>5. DtorAssert
    <3>1. At("remove") => todo # <<>>
      BY DEF At
    <3>2. owned => Alive
      BY DEF Alive
    <3> QED
      BY <3>1, <3>2, KeptAlive, Zenon
      DEF LifeInv, Life, Open, Closed, Announced, Dropped, Removing, Gone, DtorAssert
  <2> QED
    BY <2>1, <2>2, <2>3, <2>4, <2>5 DEF NoAbort
<1> QED
  BY <1>1, LifeInvariant, PTL

\* Channel::handleEvent() and doPendingFunctors(): handlers and callbacks bound to this run
\* while a TcpConnectionPtr keeps the object.
THEOREM HandlersRunOnLiveObject == Disciplined => (Spec => []RunsOnLiveObject)
<1>1. LifeInv => RunsOnLiveObject
  BY KeptAlive DEF RunsOnLiveObject
<1> QED
  BY <1>1, LifeInvariant, PTL
=============================================================================
