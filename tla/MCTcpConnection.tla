--------------------------- MODULE MCTcpConnection ---------------------------
(***************************************************************************)
(* Instances of TcpConnection.                                             *)
(***************************************************************************)
EXTENDS TcpConnection

CONSTANTS a1, a2, b1

\* One message the kernel may split and one it takes or refuses whole.
MCMessages == {<<a1, a2>>, <<b1>>}
=============================================================================
