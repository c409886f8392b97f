------------------------------ MODULE EventLoop ------------------------------
(***************************************************************************)
(* The reactor of network/src/EventLoop.cc: the thread that owns the loop  *)
(* runs loop(), and every thread may call queueInLoop(), runInLoop() and   *)
(* quit().                                                                 *)
(*                                                                         *)
(* Shared between the threads are pendingFunctors_ (under mutex_), quit_   *)
(* (atomic) and the eventfd that wakeup() writes.  A push and the wakeup   *)
(* that follows it are two steps, so that the loop thread can run between  *)
(* them.  The counter of the eventfd is abstracted to whether it is        *)
(* readable: epoll does not tell other values apart.                       *)
(***************************************************************************)
EXTENDS Naturals, Sequences

CONSTANTS LoopThread,   \* the thread whose id is threadId_
          Threads,      \* the other threads
          Functors,     \* the callbacks they queue
          MaxPosts      \* bound: how many callbacks are queued in a behaviour

ASSUME LoopThreadAssumption == LoopThread \notin Threads
ASSUME MaxPostsAssumption == MaxPosts \in Nat

VARIABLES
  pendingFunctors_,        \* queued callbacks, under mutex_
  functors,                \* the vector local to doPendingFunctors(), not yet run
  quit_,                   \* the flag loop() tests, atomic
  callingPendingFunctors_, \* inside doPendingFunctors()
  wakeupReadable,          \* the eventfd counter is not zero
  activeChannels_,         \* reported by the poller and still to be handled
  pc,                      \* where the loop thread is in loop()
  callback,                \* the loop thread is inside a user callback
  waking,                  \* threads that pushed or quit, and have not yet called wakeup()
  polled,                  \* iteration_ has grown since loop() was entered
  pushed,                  \* history: every callback queued, in order
  ran                      \* history: every queued callback run, in order

queueVars == <<pendingFunctors_, functors, pushed, ran>>
loopVars  == <<callingPendingFunctors_, activeChannels_, pc, callback, polled>>
vars == <<queueVars, loopVars, quit_, wakeupReadable, waking>>

AllThreads == Threads \cup {LoopThread}

\* The channels the poller reports: the wakeup channel and the rest.
Channels == {"wakeup", "io"}

isInLoopThread(t) == t = LoopThread

Init ==
  /\ pendingFunctors_ = <<>> /\ functors = <<>>
  /\ pushed = <<>> /\ ran = <<>>
  /\ quit_ = FALSE
  /\ callingPendingFunctors_ = FALSE
  /\ wakeupReadable = FALSE
  /\ activeChannels_ = {}
  /\ pc = "out"
  /\ callback = FALSE
  /\ waking = {}
  /\ polled = FALSE

-----------------------------------------------------------------------------
(* Calls from any thread.  The loop thread calls from outside loop() or    *)
(* from a callback.  runInLoop() from another thread is queueInLoop(); on  *)
(* the loop thread it calls the callback directly and changes nothing      *)
(* here.                                                                   *)

MayCall(t) ==
  /\ t \notin waking
  /\ isInLoopThread(t) => pc = "out" \/ callback

\* The caller goes on to wakeup() if the condition of queueInLoop()/quit() holds.
ThenWakeup(t, cond) == waking' = IF cond THEN waking \cup {t} ELSE waking

\* Faulty: a callback that queues another while the batch runs wakes nobody.
queueWithoutSelfWakeup(t, f) ==
  /\ MayCall(t)
  /\ Len(pushed) < MaxPosts
  /\ pendingFunctors_' = Append(pendingFunctors_, f)
  /\ pushed' = Append(pushed, f)
  /\ ThenWakeup(t, ~isInLoopThread(t))
  /\ UNCHANGED <<functors, ran, quit_, wakeupReadable, loopVars>>

queueInLoop(t, f) ==
  /\ MayCall(t)
  /\ Len(pushed) < MaxPosts
  /\ pendingFunctors_' = Append(pendingFunctors_, f)
  /\ pushed' = Append(pushed, f)
  /\ ThenWakeup(t, ~isInLoopThread(t) \/ callingPendingFunctors_)
  /\ UNCHANGED <<functors, ran, quit_, wakeupReadable, loopVars>>

\* Faulty: the loop is left in epoll_wait.
quitWithoutWakeup(t) ==
  /\ MayCall(t)
  /\ quit_' = TRUE
  /\ UNCHANGED <<queueVars, loopVars, wakeupReadable, waking>>

quit(t) ==
  /\ MayCall(t)
  /\ quit_' = TRUE
  /\ ThenWakeup(t, ~isInLoopThread(t))
  /\ UNCHANGED <<queueVars, loopVars, wakeupReadable>>

wakeup(t) ==
  /\ t \in waking
  /\ wakeupReadable' = TRUE
  /\ waking' = waking \ {t}
  /\ UNCHANGED <<queueVars, loopVars, quit_>>

-----------------------------------------------------------------------------
(* loop(), in the loop thread.                                             *)

LoopAt(l) == pc = l /\ ~callback /\ LoopThread \notin waking

enterLoop ==
  /\ LoopAt("out")
  /\ pc' = "test"
  /\ quit_' = FALSE
  /\ polled' = FALSE
  /\ UNCHANGED <<queueVars, callingPendingFunctors_, activeChannels_, callback,
                 wakeupReadable, waking>>

testQuit ==
  /\ LoopAt("test")
  /\ pc' = IF quit_ THEN "out" ELSE "poll"
  /\ UNCHANGED <<queueVars, callingPendingFunctors_, activeChannels_, callback,
                 polled, quit_, wakeupReadable, waking>>

\* epoll_wait returns what is ready, or nothing after kPollTimeMs or a signal.
poll(ready) ==
  /\ LoopAt("poll")
  /\ "wakeup" \in ready => wakeupReadable
  /\ pc' = "handle"
  /\ activeChannels_' = ready
  /\ polled' = TRUE
  /\ UNCHANGED <<queueVars, callingPendingFunctors_, callback,
                 quit_, wakeupReadable, waking>>

\* EventLoop::handleRead, the read callback of the wakeup channel.
handleRead ==
  /\ LoopAt("handle")
  /\ "wakeup" \in activeChannels_
  /\ activeChannels_' = activeChannels_ \ {"wakeup"}
  /\ wakeupReadable' = FALSE
  /\ UNCHANGED <<queueVars, callingPendingFunctors_, pc, callback, polled, quit_, waking>>

\* handleEvent of any other channel: user code runs.
handleEvent ==
  /\ LoopAt("handle")
  /\ "io" \in activeChannels_
  /\ activeChannels_' = activeChannels_ \ {"io"}
  /\ callback' = TRUE
  /\ UNCHANGED <<queueVars, callingPendingFunctors_, pc, polled, quit_, wakeupReadable, waking>>

returnFromCallback ==
  /\ callback
  /\ LoopThread \notin waking
  /\ callback' = FALSE
  /\ UNCHANGED <<queueVars, callingPendingFunctors_, activeChannels_, pc, polled,
                 quit_, wakeupReadable, waking>>

enterDoPendingFunctors ==
  /\ LoopAt("handle")
  /\ activeChannels_ = {}
  /\ pc' = "swap"
  /\ callingPendingFunctors_' = TRUE
  /\ UNCHANGED <<queueVars, activeChannels_, callback, polled, quit_, wakeupReadable, waking>>

\* Faulty: what was queued is taken over but not removed from the queue; the
\* queue is cleared without being taken over.
copyFunctors ==
  /\ LoopAt("swap")
  /\ pc' = "run"
  /\ functors' = pendingFunctors_
  /\ UNCHANGED <<pendingFunctors_, pushed, ran, callingPendingFunctors_, activeChannels_,
                 callback, polled, quit_, wakeupReadable, waking>>
clearFunctors ==
  /\ LoopAt("swap")
  /\ pc' = "run"
  /\ pendingFunctors_' = <<>>
  /\ UNCHANGED <<functors, pushed, ran, callingPendingFunctors_, activeChannels_, callback,
                 polled, quit_, wakeupReadable, waking>>

swapFunctors ==
  /\ LoopAt("swap")
  /\ pc' = "run"
  /\ functors' = pendingFunctors_
  /\ pendingFunctors_' = <<>>
  /\ UNCHANGED <<pushed, ran, callingPendingFunctors_, activeChannels_, callback,
                 polled, quit_, wakeupReadable, waking>>

runFunctor ==
  /\ LoopAt("run")
  /\ functors # <<>>
  /\ functors' = Tail(functors)
  /\ ran' = Append(ran, Head(functors))
  /\ callback' = TRUE
  /\ UNCHANGED <<pendingFunctors_, pushed, callingPendingFunctors_, activeChannels_, pc,
                 polled, quit_, wakeupReadable, waking>>

\* Faulty: the flag stays set.
leaveStillCalling ==
  /\ LoopAt("run")
  /\ functors = <<>>
  /\ pc' = "test"
  /\ UNCHANGED <<queueVars, callingPendingFunctors_, activeChannels_, callback, polled, quit_,
                 wakeupReadable, waking>>

leaveDoPendingFunctors ==
  /\ LoopAt("run")
  /\ functors = <<>>
  /\ callingPendingFunctors_' = FALSE
  /\ pc' = "test"
  /\ UNCHANGED <<queueVars, activeChannels_, callback, polled, quit_, wakeupReadable, waking>>

doPendingFunctors ==
  enterDoPendingFunctors \/ swapFunctors \/ runFunctor \/ leaveDoPendingFunctors

\* What the loop thread does by itself once loop() has been entered.
LoopStep ==
  \/ testQuit
  \/ \E ready \in SUBSET Channels : poll(ready)
  \/ handleRead
  \/ handleEvent
  \/ returnFromCallback
  \/ doPendingFunctors

Next ==
  \/ enterLoop
  \/ LoopStep
  \/ \E t \in AllThreads : \/ \E f \in Functors : queueInLoop(t, f)
                           \/ quit(t)
                           \/ wakeup(t)

Spec == Init /\ [][Next]_vars

\* The loop thread is scheduled, epoll_wait returns after kPollTimeMs at the
\* latest, callbacks return, and a caller reaches the wakeup() it started.
FairSpec == Spec /\ WF_vars(LoopStep) /\ \A t \in AllThreads : WF_vars(wakeup(t))

-----------------------------------------------------------------------------
\* The variables have their types, and the flag and the vector of
\* doPendingFunctors() are those of the place loop() is at.
TypeOK ==
  /\ pendingFunctors_ \in Seq(Functors)
  /\ functors \in Seq(Functors)
  /\ pushed \in Seq(Functors)
  /\ ran \in Seq(Functors)
  /\ quit_ \in BOOLEAN
  /\ callingPendingFunctors_ \in BOOLEAN
  /\ wakeupReadable \in BOOLEAN
  /\ activeChannels_ \in SUBSET Channels
  /\ pc \in {"out", "test", "poll", "handle", "swap", "run"}
  /\ callback \in BOOLEAN
  /\ waking \in SUBSET AllThreads
  /\ polled \in BOOLEAN
  /\ callingPendingFunctors_ <=> pc \in {"swap", "run"}
  /\ callback => pc \in {"handle", "run"}
  /\ functors # <<>> => pc = "run"

\* A wakeup has been written, or another thread is about to write it.
WakeupComing == wakeupReadable \/ waking # {}

\* queueInLoop() and the wakeup eventfd: the loop never blocks in
\* epoll_wait on queued callbacks without a wakeup under way.  (The first
\* poll of a loop() call is the exception: callbacks queued by the loop
\* thread before loop() come without a wakeup and wait for the timeout.)
NoLostWakeup ==
  pc = "poll" /\ polled /\ pendingFunctors_ # <<>> => WakeupComing

\* quit(): the loop never blocks in epoll_wait after it was told to quit
\* without a wakeup under way.
NoLostQuit == pc = "poll" /\ quit_ => WakeupComing

\* doPendingFunctors() and queueInLoop(): callbacks run exactly once, in
\* the order in which all threads queued them; what has not run is in the
\* batch or in the queue.
FunctorsRunInOrder == pushed = ran \o functors \o pendingFunctors_

\* The callback queued i-th is run, unless loop() returns.
QueuedFunctorRuns ==
  \A i \in 1..MaxPosts : Len(pushed) >= i ~> (Len(ran) >= i \/ pc = "out")

\* The loop is a queue of callbacks that runs batches between polls.
Queue == INSTANCE FunctorQueue WITH
           pending <- pendingFunctors_,
           batch   <- functors,
           phase   <- IF pc = "run" THEN "functors" ELSE "events"

\* EventLoop implements FunctorQueue.
ImplementsFunctorQueue == Queue!Spec
=============================================================================
