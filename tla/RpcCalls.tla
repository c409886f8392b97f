------------------------------- MODULE RpcCalls -------------------------------
(***************************************************************************)
(* What the RPC framework promises a caller: a call that was made is       *)
(* handled by the server at most once, and its closure runs at most once,  *)
(* after the server handled that call.                                     *)
(***************************************************************************)
EXTENDS Naturals

CONSTANT Calls

VARIABLES called,   \* the calls that were made
          handled,  \* handled[c]: how often the server handled call c
          dones     \* dones[c]: how often the closure of call c ran

vars == <<called, handled, dones>>

Init == called = {} /\ handled = [c \in Calls |-> 0] /\ dones = [c \in Calls |-> 0]

Call(c) == /\ c \notin called
           /\ called' = called \cup {c}
           /\ UNCHANGED <<handled, dones>>

Handle(c) == /\ c \in called /\ handled[c] = 0
             /\ handled' = [handled EXCEPT ![c] = 1]
             /\ UNCHANGED <<called, dones>>

Return(c) == /\ handled[c] = 1 /\ dones[c] = 0
             /\ dones' = [dones EXCEPT ![c] = 1]
             /\ UNCHANGED <<called, handled>>

Next == \E c \in Calls : Call(c) \/ Handle(c) \/ Return(c)

Spec == Init /\ [][Next]_vars
=============================================================================
