----------------------------- MODULE MCRpcChannel -----------------------------
(***************************************************************************)
(* Instances of RpcChannel.                                                *)
(***************************************************************************)
EXTENDS RpcChannel
=============================================================================
