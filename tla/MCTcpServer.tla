----------------------------- MODULE MCTcpServer -----------------------------
(***************************************************************************)
(* Instances of TcpServer.                                                 *)
(***************************************************************************)
EXTENDS TcpServer

\* Two connections at once on up to one thread, and one at a time on two threads.
MCSetups == ((0..1) \X (1..2)) \cup {<<2, 1>>}

\* One thread and one connection.
MCOneThread == {<<1, 1>>}
=============================================================================
