----------------------------- MODULE MCEventLoop -----------------------------
(* Instances of EventLoop for TLC, and the mutants of its definitions.     *)
EXTENDS EventLoop
=============================================================================
