---------------------------- MODULE FunctorQueue ----------------------------
(***************************************************************************)
(* What an EventLoop promises to the objects that live on it: callbacks    *)
(* handed to queueInLoop() are kept in order, taken over in batches, and   *)
(* run one at a time by the loop thread.  A callback that is queued while  *)
(* a batch runs waits for the next batch, and a poll with its event        *)
(* handlers lies between two batches.                                      *)
(*                                                                         *)
(* EventLoop is shown to implement it; the loops of the other modules      *)
(* follow it.                                                              *)
(***************************************************************************)
EXTENDS Sequences, SequencesExt

VARIABLES pending,   \* queued callbacks, oldest first
          batch,     \* callbacks taken over and not yet run
          phase      \* "events": polling and handling events; "functors": running the batch

vars == <<pending, batch, phase>>

Init == pending = <<>> /\ batch = <<>> /\ phase = "events"

\* Callbacks are queued, by any thread, in any phase.
Post == /\ IsPrefix(pending, pending')
        /\ UNCHANGED <<batch, phase>>

\* The loop thread takes over everything that is queued.
BeginBatch == /\ phase = "events"
              /\ phase' = "functors"
              /\ batch' = pending
              /\ pending' = <<>>

\* The loop thread runs the oldest callback, which may queue others.
RunFunctor == /\ phase = "functors"
              /\ batch # <<>>
              /\ batch' = Tail(batch)
              /\ IsPrefix(pending, pending')
              /\ UNCHANGED phase

EndBatch == /\ phase = "functors"
            /\ batch = <<>>
            /\ phase' = "events"
            /\ UNCHANGED <<pending, batch>>

Next == Post \/ BeginBatch \/ RunFunctor \/ EndBatch

Spec == Init /\ [][Next]_vars
=============================================================================
