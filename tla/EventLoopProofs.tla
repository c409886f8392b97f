--------------------------- MODULE EventLoopProofs ---------------------------
(***************************************************************************)
(* Theorems about EventLoop for any set of threads, any set of callbacks   *)
(* and any number of posts.                                                *)
(***************************************************************************)
EXTENDS EventLoop, TLAPS

USE DEF AllThreads, Channels, isInLoopThread, MayCall, LoopAt, ThenWakeup

\* The constructor's values have their types.
LEMMA TypeOKInit == Init => TypeOK
<1> SUFFICES ASSUME Init PROVE TypeOK
  OBVIOUS
<1>1. <<>> \in Seq(Functors)
  OBVIOUS
<1> QED
  BY <1>1, Zenon DEF Init, TypeOK

\* Every step of the loop and of a calling thread keeps the types.
LEMMA TypeOKStep == TypeOK /\ [Next]_vars => TypeOK'
<1> SUFFICES ASSUME TypeOK, [Next]_vars PROVE TypeOK'
  OBVIOUS
<1> USE DEF TypeOK, queueVars, loopVars
<1>1. CASE enterLoop
  BY <1>1 DEF enterLoop
<1>2. CASE testQuit
  BY <1>2 DEF testQuit
<1>3. ASSUME NEW ready \in SUBSET Channels, poll(ready) PROVE TypeOK'
  BY <1>3 DEF poll
<1>4. CASE handleRead
  BY <1>4 DEF handleRead
<1>5. CASE handleEvent
  BY <1>5 DEF handleEvent
<1>6. CASE returnFromCallback
  BY <1>6 DEF returnFromCallback
<1>7. CASE enterDoPendingFunctors
  BY <1>7 DEF enterDoPendingFunctors
<1>8. CASE swapFunctors
  BY <1>8 DEF swapFunctors
<1>9. CASE runFunctor
  BY <1>9 DEF runFunctor
<1>10. CASE leaveDoPendingFunctors
  BY <1>10 DEF leaveDoPendingFunctors
<1>11. ASSUME NEW t \in AllThreads, NEW f \in Functors, queueInLoop(t, f) PROVE TypeOK'
  BY <1>11 DEF queueInLoop
<1>12. ASSUME NEW t \in AllThreads, quit(t) PROVE TypeOK'
  BY <1>12 DEF quit
<1>13. ASSUME NEW t \in AllThreads, wakeup(t) PROVE TypeOK'
  BY <1>13 DEF wakeup
<1>14. CASE UNCHANGED vars
  BY <1>14 DEF vars
<1> QED
  BY <1>1, <1>2, <1>3, <1>4, <1>5, <1>6, <1>7, <1>8, <1>9, <1>10, <1>11, <1>12, <1>13, <1>14
  DEF Next, LoopStep, doPendingFunctors

\* Every variable of the loop keeps its type, whatever the threads do.
THEOREM TypeCorrect == Spec => []TypeOK
  BY TypeOKInit, TypeOKStep, PTL DEF Spec

-----------------------------------------------------------------------------
(* The wakeup protocol.  NoLostWakeup alone is not inductive: the callbacks *)
(* that wait in poll were queued while the batch ran or while quit_ was     *)
(* tested, and there callingPendingFunctors_ decides whether wakeup() is    *)
(* called.                                                                  *)

WakeupInv ==
  /\ TypeOK
  /\ pc \in {"run", "test", "poll"} /\ polled /\ pendingFunctors_ # <<>> => WakeupComing
  /\ NoLostQuit

\* Nothing is queued before loop() is entered.
LEMMA WakeupInvInit == Init => WakeupInv
  BY TypeOKInit DEF Init, WakeupInv, NoLostQuit

\* No step of any thread, the loop's included, loses a wakeup.
LEMMA WakeupInvStep == WakeupInv /\ [Next]_vars => WakeupInv'
<1> SUFFICES ASSUME WakeupInv, [Next]_vars PROVE WakeupInv'
  OBVIOUS
<1>t. /\ TypeOK'
      /\ callingPendingFunctors_ <=> pc \in {"swap", "run"}
      /\ callback => pc \in {"handle", "run"}
  BY TypeOKStep DEF WakeupInv, TypeOK
<1> USE DEF WakeupInv, NoLostQuit, WakeupComing, queueVars, loopVars
<1>1. CASE enterLoop
  BY <1>t, <1>1 DEF enterLoop
<1>2. CASE testQuit
  BY <1>t, <1>2 DEF testQuit
<1>3. ASSUME NEW ready \in SUBSET Channels, poll(ready) PROVE WakeupInv'
  BY <1>t, <1>3 DEF poll
<1>4. CASE handleRead
  BY <1>t, <1>4 DEF handleRead
<1>5. CASE handleEvent
  BY <1>t, <1>5 DEF handleEvent
<1>6. CASE returnFromCallback
  BY <1>t, <1>6 DEF returnFromCallback
<1>7. CASE enterDoPendingFunctors
  BY <1>t, <1>7 DEF enterDoPendingFunctors
<1>8. CASE swapFunctors
  BY <1>t, <1>8 DEF swapFunctors
<1>9. CASE runFunctor
  BY <1>t, <1>9 DEF runFunctor
<1>10. CASE leaveDoPendingFunctors
  BY <1>t, <1>10 DEF leaveDoPendingFunctors
<1>11. ASSUME NEW t \in AllThreads, NEW f \in Functors, queueInLoop(t, f) PROVE WakeupInv'
  BY <1>t, <1>11 DEF queueInLoop
<1>12. ASSUME NEW t \in AllThreads, quit(t) PROVE WakeupInv'
  BY <1>t, <1>12 DEF quit
<1>13. ASSUME NEW t \in AllThreads, wakeup(t) PROVE WakeupInv'
  BY <1>t, <1>13 DEF wakeup
<1>14. CASE UNCHANGED vars
  BY <1>t, <1>14 DEF vars
<1> QED
  BY <1>1, <1>2, <1>3, <1>4, <1>5, <1>6, <1>7, <1>8, <1>9, <1>10, <1>11, <1>12, <1>13, <1>14
  DEF Next, LoopStep, doPendingFunctors

\* queueInLoop() never leaves the loop blocked on callbacks nobody wakes it for.
THEOREM WakeupNeverLost == Spec => []NoLostWakeup
<1>1. WakeupInv => NoLostWakeup
  BY DEF WakeupInv, NoLostWakeup
<1> QED
  BY <1>1, WakeupInvInit, WakeupInvStep, PTL DEF Spec

\* quit() never leaves the loop blocked in epoll_wait without a wakeup.
THEOREM QuitNeverLost == Spec => []NoLostQuit
<1>1. WakeupInv => NoLostQuit
  BY DEF WakeupInv
<1> QED
  BY <1>1, WakeupInvInit, WakeupInvStep, PTL DEF Spec

-----------------------------------------------------------------------------
(* The order of the callbacks.                                              *)

\* push_back on the queue extends the whole sequence of callbacks at its end.
LEMMA AppendAssoc == ASSUME NEW S, NEW a \in Seq(S), NEW b \in Seq(S), NEW x \in S
                     PROVE  a \o Append(b, x) = Append(a \o b, x)
  OBVIOUS

\* A callback moved from the front of the batch to the end of those that ran stays in place.
LEMMA MoveHead == ASSUME NEW S, NEW a \in Seq(S), NEW b \in Seq(S), b # <<>>
                  PROVE  Append(a, Head(b)) \o Tail(b) = a \o b
  OBVIOUS

\* The local vector that swap() leaves empty adds nothing.
LEMMA ConcatEmpty == ASSUME NEW S, NEW a \in Seq(S)
                     PROVE  a \o <<>> = a
  OBVIOUS

\* Types and order together: the lemmas on sequences need the types.
OrderInv ==
  /\ TypeOK
  /\ FunctorsRunInOrder

\* Nothing is queued and nothing has run at first.
LEMMA OrderInvInit == Init => OrderInv
<1> SUFFICES ASSUME Init PROVE OrderInv
  OBVIOUS
<1>1. <<>> \o <<>> \o <<>> = <<>>
  OBVIOUS
<1> QED
  BY <1>1, TypeOKInit, Zenon DEF Init, OrderInv, FunctorsRunInOrder

\* The three steps that move callbacks keep them in order; no other touches them.
LEMMA OrderInvStep == OrderInv /\ [Next]_vars => OrderInv'
<1> SUFFICES ASSUME OrderInv, [Next]_vars PROVE OrderInv'
  OBVIOUS
<1>1. TypeOK'
  BY TypeOKStep DEF OrderInv
<1>2. /\ ran \in Seq(Functors) /\ functors \in Seq(Functors)
      /\ pendingFunctors_ \in Seq(Functors) /\ ran \o functors \in Seq(Functors)
  BY DEF OrderInv, TypeOK
<1> USE DEF OrderInv, FunctorsRunInOrder, queueVars, loopVars
<1>3. ASSUME UNCHANGED queueVars PROVE OrderInv'
  BY <1>1, <1>3
<1>4. ASSUME NEW t \in AllThreads, NEW f \in Functors, queueInLoop(t, f) PROVE OrderInv'
  <2>1. ran \o functors \o Append(pendingFunctors_, f)
          = Append(ran \o functors \o pendingFunctors_, f)
    BY <1>2, AppendAssoc
  <2> QED
    BY <1>1, <1>4, <2>1 DEF queueInLoop
<1>5. CASE swapFunctors
  <2>1. functors = <<>> /\ pc' = "run"
    BY <1>5 DEF swapFunctors, TypeOK
  <2>2. ran \o functors \o pendingFunctors_ = ran \o pendingFunctors_ \o <<>>
    BY <1>2, <2>1, ConcatEmpty
  <2> QED
    BY <1>1, <1>5, <2>1, <2>2 DEF swapFunctors
<1>6. CASE runFunctor
  <2>1. Append(ran, Head(functors)) \o Tail(functors) = ran \o functors
    BY <1>2, <1>6, MoveHead DEF runFunctor
  <2> QED
    BY <1>1, <1>6, <2>1 DEF runFunctor
<1>7. CASE \/ enterLoop \/ testQuit \/ handleRead \/ handleEvent \/ returnFromCallback
          \/ enterDoPendingFunctors \/ leaveDoPendingFunctors
          \/ (\E ready \in SUBSET Channels : poll(ready))
          \/ (\E t \in AllThreads : quit(t) \/ wakeup(t))
          \/ UNCHANGED vars
  BY <1>3, <1>7 DEF enterLoop, testQuit, handleRead, handleEvent, returnFromCallback,
       enterDoPendingFunctors, leaveDoPendingFunctors, poll, quit, wakeup, vars
<1> QED
  BY <1>4, <1>5, <1>6, <1>7 DEF Next, LoopStep, doPendingFunctors

\* Callbacks run exactly once and in the order in which the threads queued them.
THEOREM FunctorOrder == Spec => []FunctorsRunInOrder
<1>1. OrderInv => FunctorsRunInOrder
  BY DEF OrderInv
<1> QED
  BY <1>1, OrderInvInit, OrderInvStep, PTL DEF Spec

-----------------------------------------------------------------------------
(* The loop implements FunctorQueue.                                        *)

\* Appending extends a sequence, and a sequence extends itself.
LEMMA AppendExtends == ASSUME NEW S, NEW a \in Seq(S), NEW x \in S
                       PROVE  /\ Queue!IsPrefix(a, Append(a, x))
                              /\ Queue!IsPrefix(a, a)
  BY DEF Queue!IsPrefix

\* Every step of the loop and of the threads is a step of the abstract queue, or
\* changes nothing that the queue's users see.
THEOREM Refinement == Spec => ImplementsFunctorQueue
<1>1. Init => Queue!Init
  BY DEF Init, Queue!Init
<1>2. OrderInv /\ [Next]_vars => [Queue!Next]_(Queue!vars)
  <2> SUFFICES ASSUME OrderInv, [Next]_vars PROVE [Queue!Next]_(Queue!vars)
    OBVIOUS
  <2> USE DEF Queue!vars, queueVars, loopVars
  <2>1. ASSUME UNCHANGED queueVars, pc' = pc \/ (pc # "run" /\ pc' # "run")
        PROVE  UNCHANGED Queue!vars
    BY <2>1
  <2>2. ASSUME NEW t \in AllThreads, NEW f \in Functors, queueInLoop(t, f) PROVE Queue!Post
    BY <2>2, AppendExtends DEF queueInLoop, Queue!Post, OrderInv, TypeOK
  <2>3. swapFunctors => Queue!BeginBatch
    BY DEF swapFunctors, Queue!BeginBatch
  <2>4. runFunctor => Queue!RunFunctor
    BY AppendExtends DEF runFunctor, Queue!RunFunctor, OrderInv, TypeOK
  <2>5. leaveDoPendingFunctors => Queue!EndBatch
    BY DEF leaveDoPendingFunctors, Queue!EndBatch
  <2>6. CASE \/ enterLoop \/ testQuit \/ handleRead \/ handleEvent \/ returnFromCallback
            \/ enterDoPendingFunctors
            \/ (\E ready \in SUBSET Channels : poll(ready))
            \/ (\E t \in AllThreads : quit(t) \/ wakeup(t))
            \/ UNCHANGED vars
    BY <2>1, <2>6 DEF enterLoop, testQuit, handleRead, handleEvent, returnFromCallback,
         enterDoPendingFunctors, poll, quit, wakeup, vars
  <2> QED
    BY <2>2, <2>3, <2>4, <2>5, <2>6 DEF Next, LoopStep, doPendingFunctors, Queue!Next
<1> QED
  BY <1>1, <1>2, OrderInvInit, OrderInvStep, PTL DEF Spec, Queue!Spec, ImplementsFunctorQueue
=============================================================================
