------------------------- MODULE EventLoopThreadPool -------------------------
(***************************************************************************)
(* network/EventLoopThreadPool and network/EventLoopThread: the thread of  *)
(* the base loop starts the pool, hands its loops out and destroys it;     *)
(* every EventLoopThread runs threadFunc() in a thread of its own.         *)
(*                                                                         *)
(* The sections under mutex_ are single steps: nothing but cv_.wait()      *)
(* releases the mutex inside one.  EventLoop::loop() is kept to what the   *)
(* pool sees of it, the flag quit_; epoll_wait returns at the latest after *)
(* kPollTimeMs, so the wakeup() of quit() has no effect on the outcome.    *)
(***************************************************************************)
EXTENDS Integers, Sequences

CONSTANTS MaxThreads, \* bound: the largest numThreads_
          MaxGets     \* bound: calls of getNextLoop()

ASSUME BoundsAssumption == MaxThreads \in Nat /\ MaxGets \in Nat

VARIABLES
  numThreads_, started_, next_, loops_,  \* EventLoopThreadPool
  pc, cur,    \* where the base thread is, and the EventLoopThread it works on
  thread,     \* thread[t]: where threadFunc() is
  loop_,      \* loop_[t]: t's loop_ is not NULL
  quit_,      \* quit_[t]: the flag of t's EventLoop
  given       \* history: given[t]: times getNextLoop() returned t's loop

poolVars   == <<numThreads_, started_, next_, loops_, given>>
threadVars == <<thread, loop_, quit_>>
vars == <<poolVars, pc, cur, threadVars>>

Threads == 1..MaxThreads
Base == 0   \* stands for baseLoop_ among the loops

\* setThreadNum() has been called, or not (then numThreads_ is 0).
Init ==
  /\ numThreads_ \in 0..MaxThreads
  /\ started_ = FALSE /\ next_ = 0 /\ loops_ = <<>>
  /\ pc = "new" /\ cur = 1
  /\ thread = [t \in Threads |-> "none"]
  /\ loop_ = [t \in Threads |-> FALSE]
  /\ quit_ = [t \in Threads |-> FALSE]
  /\ given = [t \in {Base} \cup Threads |-> 0]

-----------------------------------------------------------------------------
(* The base thread: start(), with startLoop() for each thread.             *)

\* The loops over the threads, in start() and in the destructor of threads_.
ForThread(t, body, after) ==
  /\ cur' = t
  /\ pc' = IF t <= numThreads_ THEN body ELSE after

start ==
  /\ pc = "new"
  /\ started_' = TRUE
  /\ ForThread(1, "create", "serving")
  /\ UNCHANGED <<numThreads_, next_, loops_, given, threadVars>>

createThread ==
  /\ pc = "create"
  /\ thread' = [thread EXCEPT ![cur] = "callback"]
  /\ pc' = "lock"
  /\ UNCHANGED <<poolVars, cur, loop_, quit_>>

\* Faulty: startLoop() returns what loop_ is, without waiting for it.
startLoopAtOnce ==
  /\ pc = "lock"
  /\ loops_' = Append(loops_, cur)
  /\ ForThread(cur + 1, "create", "serving")
  /\ UNCHANGED <<numThreads_, started_, next_, given, threadVars>>

\* startLoop() holds mutex_: it returns the loop, or releases mutex_ and waits.
startLoop ==
  /\ pc = "lock"
  /\ IF loop_[cur]
     THEN loops_' = Append(loops_, cur) /\ ForThread(cur + 1, "create", "serving")
     ELSE pc' = "wait" /\ UNCHANGED <<loops_, cur>>
  /\ UNCHANGED <<numThreads_, started_, next_, given, threadVars>>

\* cv_.wait() may return without a notification.
wakeSpuriously ==
  /\ pc = "wait"
  /\ pc' = "lock"
  /\ UNCHANGED <<poolVars, cur, threadVars>>

-----------------------------------------------------------------------------
(* The base thread: getNextLoop() and the destructors.                     *)

Give(t) == given' = [given EXCEPT ![t] = @ + 1]

\* Faulty: next_ starts over too late, behind the last loop.
advanceTooFar == next_' = IF next_ + 1 > Len(loops_) THEN 0 ELSE next_ + 1

\* Faulty: the first loop is passed over.
advanceToSecond == next_' = IF next_ + 1 >= Len(loops_) THEN Len(loops_) - 1 ELSE next_ + 1

advance == next_' = IF next_ + 1 >= Len(loops_) THEN 0 ELSE next_ + 1

getNextLoop ==
  /\ pc = "serving" /\ started_
  /\ IF loops_ # <<>>
     THEN given[loops_[next_ + 1]] < MaxGets /\ Give(loops_[next_ + 1]) /\ advance
     ELSE given[Base] < MaxGets /\ Give(Base) /\ UNCHANGED next_
  /\ UNCHANGED <<numThreads_, started_, loops_, pc, cur, threadVars>>

InLoop(t) == thread[t] \in {"test", "poll"}

\* The destructor of the pool destroys the threads_ in their order, at any time
\* after start().
destroy ==
  /\ pc = "serving"
  /\ ForThread(1, "dtor", "done")
  /\ UNCHANGED <<poolVars, threadVars>>

\* ~EventLoopThread() tests loop_ without mutex_.  Where it is NULL the thread
\* is not joined, and the destructor of a joinable std::thread terminates.
testLoop ==
  /\ pc = "dtor"
  /\ pc' = IF loop_[cur] THEN "quit" ELSE "terminate"
  /\ UNCHANGED <<poolVars, cur, threadVars>>

\* Faulty: the loop is not asked to stop.
quitNothing ==
  /\ pc = "quit"
  /\ pc' = "join"
  /\ UNCHANGED <<poolVars, cur, threadVars>>

quit ==
  /\ pc = "quit"
  /\ quit_' = [quit_ EXCEPT ![cur] = TRUE]
  /\ pc' = "join"
  /\ UNCHANGED <<poolVars, cur, thread, loop_>>

join ==
  /\ pc = "join" /\ thread[cur] = "exited"
  /\ ForThread(cur + 1, "dtor", "done")
  /\ UNCHANGED <<poolVars, threadVars>>

-----------------------------------------------------------------------------
(* threadFunc() of thread t.                                               *)

Goto(t, from, to) == thread[t] = from /\ thread' = [thread EXCEPT ![t] = to]

\* The loop is constructed and callback_ runs.
initCallback(t) ==
  /\ Goto(t, "callback", "publish")
  /\ UNCHANGED <<poolVars, pc, cur, loop_, quit_>>

\* Faulty: loop_ is set and nobody is told.
publishSilently(t) ==
  /\ Goto(t, "publish", "enter")
  /\ loop_' = [loop_ EXCEPT ![t] = TRUE]
  /\ UNCHANGED <<poolVars, pc, cur, quit_>>

\* loop_ = &loop and notify_all(), under mutex_.
publish(t) ==
  /\ Goto(t, "publish", "enter")
  /\ loop_' = [loop_ EXCEPT ![t] = TRUE]
  /\ pc' = IF pc = "wait" /\ cur = t THEN "lock" ELSE pc
  /\ UNCHANGED <<poolVars, cur, quit_>>

\* loop() begins with quit_ = false.
enterLoop(t) ==
  /\ Goto(t, "enter", "test")
  /\ quit_' = [quit_ EXCEPT ![t] = FALSE]
  /\ UNCHANGED <<poolVars, pc, cur, loop_>>

testQuit(t) ==
  /\ Goto(t, "test", IF quit_[t] THEN "leave" ELSE "poll")
  /\ UNCHANGED <<poolVars, pc, cur, loop_, quit_>>

poll(t) ==
  /\ Goto(t, "poll", "test")
  /\ UNCHANGED <<poolVars, pc, cur, loop_, quit_>>

\* loop_ = NULL under mutex_, and the loop is destroyed.
leave(t) ==
  /\ Goto(t, "leave", "exited")
  /\ loop_' = [loop_ EXCEPT ![t] = FALSE]
  /\ UNCHANGED <<poolVars, pc, cur, quit_>>

BaseStep == start \/ createThread \/ startLoop \/ destroy \/ testLoop \/ quit \/ join
threadFunc(t) ==
  initCallback(t) \/ publish(t) \/ enterLoop(t) \/ testQuit(t) \/ poll(t) \/ leave(t)

Next ==
  \/ BaseStep \/ wakeSpuriously \/ getNextLoop
  \/ \E t \in Threads : threadFunc(t)

Spec == Init /\ [][Next]_vars

\* Every thread is scheduled, and epoll_wait times out.  No fairness is asked
\* of spurious wakeups.
FairSpec ==
  /\ Spec
  /\ WF_vars(start \/ createThread \/ startLoop \/ testLoop \/ quit \/ join)
  /\ \A t \in Threads : WF_vars(threadFunc(t))

-----------------------------------------------------------------------------
InPool ==
  /\ numThreads_ \in 0..MaxThreads
  /\ loops_ \in Seq(1..numThreads_) /\ Len(loops_) <= numThreads_
  /\ next_ \in 0..MaxThreads /\ (loops_ # <<>> => next_ < Len(loops_))
  /\ pc \in {"new", "create", "lock", "wait", "serving", "dtor", "quit", "join", "terminate",
             "done"}
  /\ cur \in 1..(numThreads_ + 1)
  /\ pc \in {"create", "lock", "wait", "dtor", "quit", "join", "terminate"} => cur <= numThreads_
  /\ thread \in [Threads -> {"none", "callback", "publish", "enter", "test", "poll", "leave",
                             "exited"}]
  /\ loop_ \in [Threads -> BOOLEAN] /\ quit_ \in [Threads -> BOOLEAN]
  /\ given \in [{Base} \cup Threads -> 0..MaxGets]

\* The variables keep their types, and next_ and cur stay inside the pool.
TypeOK == started_ \in BOOLEAN /\ InPool

\* startLoop() and ~EventLoopThreadPool(): a loop the pool has in loops_ is
\* published, and its thread keeps it until the destructor has asked it to quit; no
\* thread outlives the EventLoopThread it uses.
LoopsUsable ==
  /\ \A k \in DOMAIN loops_ : loop_[loops_[k]] \/ quit_[loops_[k]]
  /\ \A t \in Threads : (pc = "done" \/ (pc \in {"dtor", "quit", "join"} /\ t < cur))
                         => thread[t] \in {"none", "exited"}

\* getNextLoop(): over any number of calls the loops are used evenly, an
\* earlier one at most once more than a later one, and no loop that is not
\* in the pool.
RoundRobin ==
  /\ \A i, j \in DOMAIN loops_ : i < j => given[loops_[i]] - given[loops_[j]] \in {0, 1}
  /\ \A t \in DOMAIN given : given[t] > 0 => IF t = Base THEN loops_ = <<>>
                                             ELSE \E k \in DOMAIN loops_ : loops_[k] = t

\* startLoop(): the condition variable's notification is not missed, and start()
\* returns.
StartReturns == pc = "create" ~> pc = "serving"

\* ~EventLoopThread(): if the threads are in loop(), the destructor finds each loop,
\* quit() stops it and join() returns; no joinable std::thread is left to be
\* destroyed.  (A quit() before loop() is overwritten by loop()'s first statement.)
JoinReturns == pc = "dtor" /\ (\A t \in cur..numThreads_ : InLoop(t)) ~> pc = "done"
=============================================================================
