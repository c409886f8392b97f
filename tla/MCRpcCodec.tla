------------------------------ MODULE MCRpcCodec ------------------------------
(***************************************************************************)
(* Instances of RpcCodec.                                                  *)
(***************************************************************************)
EXTENDS RpcCodec

\* An empty message, a short one, one of kMaxMessageLen and one that is too long.
const_Payloads == {<<>>, <<<<"a">>>>, <<<<"b">>, <<"c">>, <<"d">>>>,
                   <<<<"e">>, <<"f">>, <<"g">>, <<"h">>>>}
=============================================================================
