----------------------------- MODULE MCTcpClient -----------------------------
(***************************************************************************)
(* Instances of TcpClient.                                                 *)
(***************************************************************************)
EXTENDS TcpClient
=============================================================================
