---------------------- MODULE EventLoopThreadPoolProofs ----------------------
(***************************************************************************)
(* Theorems about EventLoopThreadPool and EventLoopThread for any number   *)
(* of threads and any number of calls of getNextLoop().                    *)
(***************************************************************************)
EXTENDS EventLoopThreadPool, TLAPS

USE BoundsAssumption DEF Threads, Base

Starting    == pc \in {"create", "lock", "wait"}
Destroying  == pc \in {"dtor", "quit", "join", "terminate"}

\* The loops in loops_ are those of the threads 1, 2, ... in this order: of
\* the threads before cur while start() runs, and of all threads afterwards.
LoopsInOrder ==
  /\ \A k \in 1..Len(loops_) : loops_[k] = k
  /\ Len(loops_) = IF pc = "new" THEN 0 ELSE IF Starting THEN cur - 1 ELSE numThreads_
  /\ pc = "new" => cur = 1

\* A thread that start() has not reached does not run; the ones whose loop
\* startLoop() returned have published it; the ones the destructor has joined
\* have exited.
ThreadsByPhase ==
  \A t \in Threads :
    /\ (pc = "new" \/ t > numThreads_ \/ (Starting /\ t > cur) \/ (pc = "create" /\ t = cur))
         => thread[t] = "none"
    /\ t <= Len(loops_) => thread[t] \notin {"none", "callback", "publish"}
    /\ (pc = "done" /\ t <= numThreads_) \/ (Destroying /\ t < cur) => thread[t] = "exited"

\* loop_ is set exactly from publish() to the end of threadFunc(), and a
\* thread leaves loop() only after the destructor has set quit_.
FlagsFollowThread ==
  \A t \in Threads :
    /\ loop_[t] <=> thread[t] \in {"enter", "test", "poll", "leave"}
    /\ thread[t] \in {"leave", "exited"} => quit_[t]

\* The loops up to next_ have been given once more than the others, and no
\* loop was given before start() had returned.
GivenSoFar ==
  /\ pc = "new" \/ Starting => next_ = 0 /\ \A t \in DOMAIN given : given[t] = 0
  /\ given[Base] > 0 => loops_ = <<>>
  /\ \A t \in Threads : t > Len(loops_) => given[t] = 0
  /\ \A i, j \in 1..Len(loops_) :
       given[i] - given[j] = (IF i <= next_ THEN 1 ELSE 0) - (IF j <= next_ THEN 1 ELSE 0)

PoolInv == InPool /\ LoopsInOrder /\ ThreadsByPhase /\ FlagsFollowThread /\ GivenSoFar

-----------------------------------------------------------------------------
\* The constructor's values satisfy the invariant.
LEMMA PoolInvInit == Init => PoolInv
  BY DEF Init, PoolInv, InPool, LoopsInOrder, ThreadsByPhase, FlagsFollowThread, GivenSoFar,
         Starting, Destroying

\* What Append does to the sequence 1, 2, ..., n.
LEMMA AppendNext ==
  ASSUME NEW s, NEW n \in Nat, s \in Seq(1..n), Len(s) < n,
         \A k \in 1..Len(s) : s[k] = k
  PROVE  LET r == Append(s, Len(s) + 1)
         IN  r \in Seq(1..n) /\ Len(r) = Len(s) + 1 /\ r # <<>> /\ \A k \in 1..Len(r) : r[k] = k
  OBVIOUS

\* A step that leaves loops_, next_ and given alone and does not go back to start()
\* keeps what is known about them.
LEMMA GivenKept ==
  ASSUME GivenSoFar, UNCHANGED <<loops_, next_, given>>,
         pc' \in {"new", "create", "lock", "wait"} => pc \in {"new", "create", "lock", "wait"}
  PROVE  GivenSoFar'
  BY ZenonT(60) DEF GivenSoFar, Starting

\* startLoop() extends loops_ by the loop of the thread it waited for.
LEMMA StartLoopStep == PoolInv /\ startLoop => PoolInv'
<1> SUFFICES ASSUME PoolInv, startLoop PROVE PoolInv'
  OBVIOUS
<1> USE DEF PoolInv, InPool, Starting, startLoop, ForThread, threadVars
<1>1. CASE ~loop_[cur]
  <2>1. GivenSoFar'
    BY <1>1, GivenKept, Zenon
  <2> QED
    BY <1>1, <2>1 DEF LoopsInOrder, ThreadsByPhase, FlagsFollowThread, Destroying
<1>2. CASE loop_[cur]
  <2>1. /\ loops_' = Append(loops_, Len(loops_) + 1)
        /\ Len(loops_) + 1 = cur
        /\ numThreads_ \in Nat /\ Len(loops_) < numThreads_
    <3>1. Len(loops_) = cur - 1 /\ Len(loops_) \in Nat /\ cur \in Nat /\ cur <= numThreads_
      BY DEF LoopsInOrder
    <3>2. Len(loops_) + 1 = cur /\ numThreads_ \in Nat /\ Len(loops_) < numThreads_
      BY <3>1
    <3>3. loops_' = Append(loops_, cur)
      BY <1>2
    <3> QED
      BY <3>2, <3>3, Zenon
  <2>2. /\ loops_' \in Seq(1..numThreads_) /\ Len(loops_') = cur
        /\ loops_' # <<>> /\ \A k \in 1..Len(loops_') : loops_'[k] = k
    BY <2>1, AppendNext DEF LoopsInOrder
  <2>3. next_ = 0 /\ \A t \in {Base} \cup Threads : given[t] = 0
    BY DEF GivenSoFar
  <2>4. InPool'
    BY <1>2, <2>2, <2>3
  <2>a. /\ cur' = cur + 1 /\ numThreads_' = numThreads_ /\ cur <= numThreads_
        /\ pc' = IF cur + 1 <= numThreads_ THEN "create" ELSE "serving"
        /\ cur \in Nat /\ numThreads_ \in Nat
    BY <1>2
  <2>5. LoopsInOrder'
    <3> HIDE DEF PoolInv, InPool, startLoop
    <3> QED
      BY <2>a, <2>2 DEF LoopsInOrder
  <2>6. ThreadsByPhase'
    <3>1. \A t \in Threads : (t > numThreads_ \/ t > cur) => thread[t] = "none"
      BY DEF ThreadsByPhase
    <3>2. \A t \in Threads : t <= cur => thread[t] \notin {"none", "callback", "publish"}
      <4>1. cur \in Threads /\ thread[cur] \in {"enter", "test", "poll", "leave"}
        BY <1>2 DEF FlagsFollowThread
      <4>2. \A t \in Threads : t <= Len(loops_) => thread[t] \notin {"none", "callback", "publish"}
        BY DEF ThreadsByPhase
      <4>3. \A t \in Threads : t <= cur => t = cur \/ t <= Len(loops_)
        BY <2>1
      <4> QED
        BY <4>1, <4>2, <4>3, Zenon
    <3>3. thread' = thread
      OBVIOUS
    <3> HIDE DEF PoolInv, InPool, startLoop
    <3> QED
      BY <2>a, <2>2, <3>1, <3>2, <3>3 DEF ThreadsByPhase, Destroying
  <2>7. FlagsFollowThread'
    BY <1>2 DEF FlagsFollowThread
  <2>8. GivenSoFar'
    BY <1>2, <2>2, <2>3 DEF GivenSoFar
  <2> QED
    BY <2>4, <2>5, <2>6, <2>7, <2>8
<1> QED
  BY <1>1, <1>2

\* getNextLoop() gives the loop behind next_ and advances next_, or starts over.
LEMMA GetNextLoopStep == PoolInv /\ getNextLoop => PoolInv'
<1> SUFFICES ASSUME PoolInv, getNextLoop PROVE PoolInv'
  OBVIOUS
<1> USE DEF PoolInv, InPool, getNextLoop, Give, advance
<1>1. LoopsInOrder' /\ ThreadsByPhase' /\ FlagsFollowThread'
  BY Zenon DEF LoopsInOrder, ThreadsByPhase, FlagsFollowThread, Starting, Destroying, threadVars
<1>2. CASE loops_ = <<>>
  <2>1. /\ given[Base] < MaxGets /\ given' = [given EXCEPT ![Base] = @ + 1]
        /\ UNCHANGED <<next_, loops_>>
    BY <1>2
  <2>2. InPool'
    BY <2>1, <1>2 DEF threadVars
  <2>3. GivenSoFar'
    BY <2>1, <1>2 DEF GivenSoFar, Starting
  <2> QED
    BY <1>1, <2>2, <2>3
<1>3. CASE loops_ # <<>>
  <2>1. /\ Len(loops_) \in Nat /\ next_ \in Nat /\ next_ < Len(loops_)
        /\ next_ + 1 \in 1..Len(loops_) /\ loops_[next_ + 1] = next_ + 1
        /\ next_ + 1 \in Threads
    BY <1>3 DEF LoopsInOrder
  <2>2. /\ given[next_ + 1] < MaxGets
        /\ given' = [given EXCEPT ![next_ + 1] = @ + 1]
        /\ next_' = IF next_ + 1 >= Len(loops_) THEN 0 ELSE next_ + 1
        /\ UNCHANGED loops_
    BY <1>3, <2>1
  <2>3. InPool'
    BY <1>3, <2>1, <2>2, SMTT(60) DEF threadVars
  <2>4. GivenSoFar'
    <3>1. given \in [0..MaxThreads -> Nat]
      OBVIOUS
    <3>2. ASSUME NEW i \in 1..Len(loops_), NEW j \in 1..Len(loops_)
          PROVE  given'[i] - given'[j]
                   = (IF i <= next_' THEN 1 ELSE 0) - (IF j <= next_' THEN 1 ELSE 0)
      <4>1. given[i] - given[j] = (IF i <= next_ THEN 1 ELSE 0) - (IF j <= next_ THEN 1 ELSE 0)
        BY DEF GivenSoFar
      <4>2. /\ given'[i] = IF i = next_ + 1 THEN given[i] + 1 ELSE given[i]
            /\ given'[j] = IF j = next_ + 1 THEN given[j] + 1 ELSE given[j]
            /\ given[i] \in Nat /\ given[j] \in Nat
        <5>1. i \in 0..MaxThreads /\ j \in 0..MaxThreads
          BY <2>1, SMTT(60)
        <5> HIDE DEF PoolInv, InPool, getNextLoop
        <5> QED
          BY <5>1, <2>2, <3>1
      <4> HIDE DEF PoolInv, InPool
      <4> QED
        BY <4>1, <4>2, <2>1, <2>2, SMTT(60)
    <3>3. given'[Base] = given[Base] /\ \A t \in Threads : t > Len(loops_) => given'[t] = given[t]
      BY <2>1, <2>2, <3>1, SMTT(60)
    <3>4. pc' = "serving"
      OBVIOUS
    <3> QED
      BY <3>2, <3>3, <3>4, <2>2 DEF GivenSoFar, Starting
  <2> QED
    BY <1>1, <2>3, <2>4
<1> QED
  BY <1>2, <1>3

\* The other steps of the base thread.
LEMMA BaseThreadStep ==
  PoolInv /\ (start \/ createThread \/ wakeSpuriously \/ destroy \/ testLoop \/ quit \/ join)
    => PoolInv'
<1> SUFFICES ASSUME PoolInv,
                    start \/ createThread \/ wakeSpuriously \/ destroy \/ testLoop \/ quit \/ join
             PROVE  PoolInv'
  OBVIOUS
<1> USE DEF PoolInv, InPool, ForThread, threadVars, poolVars, Starting, Destroying
<1>1. GivenSoFar'
  <2>1. /\ UNCHANGED <<loops_, next_, given>>
        /\ pc' \in {"new", "create", "lock", "wait"} => pc \in {"new", "create", "lock", "wait"}
    BY Zenon DEF start, createThread, wakeSpuriously, destroy, testLoop, quit, join
  <2> QED
    BY <2>1, GivenKept, Zenon
<1> USE DEF LoopsInOrder, ThreadsByPhase, FlagsFollowThread
<1>2. CASE start
  BY <1>1, <1>2 DEF start
<1>3. CASE createThread
  <2>1. InPool' /\ LoopsInOrder' /\ FlagsFollowThread'
    BY <1>3 DEF createThread
  <2>2. ThreadsByPhase'
    BY <1>3 DEF createThread
  <2> QED
    BY <1>1, <2>1, <2>2
<1>4. CASE wakeSpuriously
  BY <1>1, <1>4 DEF wakeSpuriously
<1>5. CASE destroy
  BY <1>1, <1>5 DEF destroy
<1>6. CASE testLoop
  BY <1>1, <1>6 DEF testLoop
<1>7. CASE quit
  BY <1>1, <1>7 DEF quit
<1>8. CASE join
  BY <1>1, <1>8 DEF join
<1> QED
  BY <1>2, <1>3, <1>4, <1>5, <1>6, <1>7, <1>8

\* The steps of threadFunc().
LEMMA ThreadFuncStep == ASSUME NEW t \in Threads PROVE PoolInv /\ threadFunc(t) => PoolInv'
<1> SUFFICES ASSUME PoolInv, threadFunc(t) PROVE PoolInv'
  OBVIOUS
<1> USE DEF PoolInv, InPool, Goto, poolVars, Starting, Destroying
<1>1. GivenSoFar'
  <2>1. /\ UNCHANGED <<loops_, next_, given>>
        /\ pc' \in {"new", "create", "lock", "wait"} => pc \in {"new", "create", "lock", "wait"}
    BY Zenon DEF threadFunc, initCallback, publish, enterLoop, testQuit, poll, leave
  <2> QED
    BY <2>1, GivenKept, Zenon
<1> USE DEF LoopsInOrder, ThreadsByPhase, FlagsFollowThread
<1>2. CASE initCallback(t)
  BY <1>1, <1>2 DEF initCallback
<1>3. CASE publish(t)
  BY <1>1, <1>3 DEF publish
<1>4. CASE enterLoop(t)
  BY <1>1, <1>4 DEF enterLoop
<1>5. CASE testQuit(t)
  BY <1>1, <1>5 DEF testQuit
<1>6. CASE poll(t)
  BY <1>1, <1>6 DEF poll
<1>7. CASE leave(t)
  BY <1>1, <1>7 DEF leave
<1> QED
  BY <1>2, <1>3, <1>4, <1>5, <1>6, <1>7 DEF threadFunc

\* Every step of the base thread and of the pool's threads keeps the invariant.
LEMMA PoolInvStep == PoolInv /\ [Next]_vars => PoolInv'
<1> SUFFICES ASSUME PoolInv, [Next]_vars PROVE PoolInv'
  OBVIOUS
<1>1. CASE UNCHANGED vars
  <2> USE <1>1 DEF vars, poolVars, threadVars, Starting, Destroying
  <2>1. InPool'
    BY DEF PoolInv, InPool
  <2>2. LoopsInOrder'
    BY Zenon DEF PoolInv, LoopsInOrder
  <2>3. ThreadsByPhase'
    BY Zenon DEF PoolInv, ThreadsByPhase
  <2>4. FlagsFollowThread'
    BY Zenon DEF PoolInv, FlagsFollowThread
  <2>5. GivenSoFar'
    BY Zenon DEF PoolInv, GivenSoFar
  <2> QED
    BY <2>1, <2>2, <2>3, <2>4, <2>5 DEF PoolInv
<1> QED
  BY <1>1, StartLoopStep, GetNextLoopStep, BaseThreadStep, ThreadFuncStep DEF Next, BaseStep

\* The invariant holds in every reachable state.
THEOREM PoolInvariant == Spec => []PoolInv
  BY PoolInvInit, PoolInvStep, PTL DEF Spec

-----------------------------------------------------------------------------
\* started_ is only ever assigned TRUE.
LEMMA StartedType == Spec => [](started_ \in BOOLEAN)
<1>1. Init => started_ \in BOOLEAN
  BY Zenon DEF Init
<1>2. started_ \in BOOLEAN /\ [Next]_vars => (started_ \in BOOLEAN)'
  BY Zenon
  DEF Next, BaseStep, vars, poolVars, start, createThread, startLoop, wakeSpuriously, getNextLoop,
      destroy, testLoop, quit, join, threadFunc, initCallback, publish, enterLoop, testQuit, poll,
      leave
<1> QED
  BY <1>1, <1>2, PTL DEF Spec

\* The variables of the pool and of its threads keep their types; in particular
\* next_ never leaves the bounds of loops_.
THEOREM TypeCorrect == Spec => []TypeOK
<1>1. PoolInv => InPool
  BY DEF PoolInv
<1>2. started_ \in BOOLEAN /\ InPool => TypeOK
  BY DEF TypeOK
<1> QED
  BY <1>1, <1>2, StartedType, PoolInvariant, PTL

\* A loop that getNextLoop() may return is published and not yet asked to quit or,
\* once the destructor runs, was asked to; the destructor leaves no thread behind.
THEOREM PoolLoopsUsable == Spec => []LoopsUsable
<1>1. PoolInv => LoopsUsable
  <2> SUFFICES ASSUME PoolInv PROVE LoopsUsable
    OBVIOUS
  <2> USE DEF PoolInv, InPool, LoopsInOrder, ThreadsByPhase, FlagsFollowThread
  <2>1. ASSUME NEW k \in DOMAIN loops_ PROVE loop_[loops_[k]] \/ quit_[loops_[k]]
    <3>1. loops_[k] = k /\ k \in Threads /\ k <= Len(loops_)
      BY SMTT(60)
    <3> QED
      BY <3>1
  <2>2. ASSUME NEW t \in Threads, pc = "done" \/ (pc \in {"dtor", "quit", "join"} /\ t < cur)
        PROVE  thread[t] \in {"none", "exited"}
    BY <2>2 DEF Destroying
  <2> QED
    BY <2>1, <2>2 DEF LoopsUsable
<1> QED
  BY <1>1, PoolInvariant, PTL

\* getNextLoop() uses the loops of the pool evenly, and only those.
THEOREM PoolRoundRobin == Spec => []RoundRobin
<1>1. PoolInv => RoundRobin
  <2> SUFFICES ASSUME PoolInv PROVE RoundRobin
    OBVIOUS
  <2> USE DEF PoolInv, InPool, LoopsInOrder, GivenSoFar
  <2>1. DOMAIN loops_ = 1..Len(loops_)
    OBVIOUS
  <2>2. ASSUME NEW i \in DOMAIN loops_, NEW j \in DOMAIN loops_, i < j
        PROVE  given[loops_[i]] - given[loops_[j]] \in {0, 1}
    <3>1. i \in 1..Len(loops_) /\ j \in 1..Len(loops_) /\ loops_[i] = i /\ loops_[j] = j
      BY <2>1
    <3>2. given[i] - given[j] = (IF i <= next_ THEN 1 ELSE 0) - (IF j <= next_ THEN 1 ELSE 0)
      BY <3>1
    <3>3. next_ \in Nat /\ Len(loops_) \in Nat
      OBVIOUS
    <3> HIDE DEF PoolInv, InPool, LoopsInOrder, GivenSoFar
    <3> QED
      BY <2>2, <3>1, <3>2, <3>3
  <2>3. ASSUME NEW t \in DOMAIN given, given[t] > 0
        PROVE  IF t = Base THEN loops_ = <<>> ELSE \E k \in DOMAIN loops_ : loops_[k] = t
    <3>1. t # Base => t \in Threads /\ t <= Len(loops_)
      BY <2>3
    <3>2. t # Base => t \in 1..Len(loops_) /\ loops_[t] = t
      BY <3>1
    <3> QED
      BY <2>1, <2>3, <3>2
  <2> QED
    BY <2>2, <2>3 DEF RoundRobin
<1> QED
  BY <1>1, PoolInvariant, PTL
=============================================================================
