------------------------ MODULE MCEventLoopThreadPool ------------------------
(***************************************************************************)
(* Instances of EventLoopThreadPool.                                       *)
(***************************************************************************)
EXTENDS EventLoopThreadPool
=============================================================================
