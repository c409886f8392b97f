------------------------------ MODULE RpcChannel ------------------------------
(***************************************************************************)
(* proto_rpc/rpc_framework: a client RpcChannel shared by several calling  *)
(* threads, the RpcServer and the RpcChannel it makes for every            *)
(* connection.                                                             *)
(*                                                                         *)
(* A connection is a pair of FIFO queues of messages (what TcpConnection's *)
(* StreamIntact and the codec give); it may break, which loses what is in  *)
(* transit, and each side learns of it on its own.  The client may connect *)
(* again: connections are numbered, and 0 is the null TcpConnectionPtr.    *)
(***************************************************************************)
EXTENDS Naturals, Sequences, FiniteSets

CONSTANTS Callers,    \* threads that call stub methods
          Calls,      \* the calls they make, each once
          BadCalls,   \* calls of an unknown service or method, or with a bad request
          MaxConns,   \* bound: connections in a behaviour
          IdSpace,    \* 2^64 in the code: id_ wraps around
          MayBreak,   \* connections may break
          CallersWait,  \* no call is made before the first connection
          Async       \* the service may run done after CallMethod has returned

ASSUME CallsAssumption == BadCalls \subseteq Calls
ASSUME BoundsAssumption == MaxConns \in Nat /\ IdSpace \in Nat \ {0}
ASSUME IdsAssumption == IsFiniteSet(Calls) /\ Cardinality(Calls) <= IdSpace
ASSUME FlagsAssumption == {MayBreak, CallersWait, Async} \subseteq BOOLEAN

VARIABLES
  id_, outstandings_, conn_,  \* the client's RpcChannel
  caller,     \* caller[t]: where thread t is in CallMethod()
  up,         \* up[c]: the client's connection c is kConnected
  served,     \* served[c]: "no", "yes" (its RpcChannel exists) or "ended"
  broken,     \* broken[c]: the connection is lost
  requests, responses,   \* requests[c], responses[c]: messages in transit
  running,    \* closures of doneCallback() the service still holds
  crashed,    \* the client has used a TcpConnection that does not exist
  called, handled, dones,  \* history, as in RpcCalls
  result      \* history: result[k]: the response the closure of call k saw

clientVars == <<id_, outstandings_, conn_, caller, called, crashed>>
linkVars   == <<up, served, broken>>
wireVars   == <<requests, responses>>
answerVars == <<dones, result>>
vars == <<clientVars, linkVars, wireVars, answerVars, running, handled>>

Conns == 1..MaxConns
Null == 0
Idle == [at |-> "idle"]

\* What the service answers to call k; an error response has an empty body.
Answer(k) == <<"answer", k>>
Empty == <<"empty">>
None == <<"none">>

\* id_ is not initialized: it starts anywhere.
Init ==
  /\ id_ \in 0..(IdSpace - 1)
  /\ outstandings_ = <<>>
  /\ conn_ = Null
  /\ caller = [t \in Callers |-> Idle]
  /\ up = [c \in Conns |-> FALSE]
  /\ served = [c \in Conns |-> "no"]
  /\ broken = [c \in Conns |-> FALSE]
  /\ requests = [c \in Conns |-> <<>>] /\ responses = [c \in Conns |-> <<>>]
  /\ running = {} /\ crashed = FALSE
  /\ called = {} /\ handled = [k \in Calls |-> 0] /\ dones = [k \in Calls |-> 0]
  /\ result = [k \in Calls |-> None]

-----------------------------------------------------------------------------
(* Connections.  TcpConnection::send() drops the message unless the        *)
(* connection is kConnected, and a broken one loses it.                    *)

\* TcpClient has one connection at a time.
Connects(c) ==
  /\ ~up[c] /\ ~broken[c]
  /\ \A d \in Conns : (d < c) => broken[d] /\ ~up[d]
  /\ up' = [up EXCEPT ![c] = TRUE]
  /\ UNCHANGED <<id_, outstandings_, caller, called, crashed, served, broken, wireVars, answerVars,
                 running, handled>>

\* Faulty: only the first connection is set.
clientUpFirst(c) == Connects(c) /\ conn_' = IF conn_ = Null THEN c ELSE conn_

\* RpcClient::onConnection(), UP: setConnection().
clientUp(c) == Connects(c) /\ conn_' = c

\* Faulty: conn_ is reset.
clientDownResets(c) ==
  /\ up[c] /\ broken[c]
  /\ up' = [up EXCEPT ![c] = FALSE]
  /\ conn_' = Null
  /\ UNCHANGED <<id_, outstandings_, caller, called, crashed, served, broken, wireVars, answerVars,
                 running, handled>>

\* DOWN: conn_ keeps the connection that ended.
clientDown(c) ==
  /\ up[c] /\ broken[c]
  /\ up' = [up EXCEPT ![c] = FALSE]
  /\ UNCHANGED <<clientVars, served, broken, wireVars, answerVars, running, handled>>

\* RpcServer::onConnection(): UP makes the RpcChannel of the connection, DOWN
\* destroys it.
onConnection(c) ==
  /\ \/ up[c] /\ served[c] = "no" /\ served' = [served EXCEPT ![c] = "yes"]
     \/ broken[c] /\ served[c] = "yes" /\ served' = [served EXCEPT ![c] = "ended"]
  /\ UNCHANGED <<clientVars, up, broken, wireVars, answerVars, running, handled>>

break(c) ==
  /\ MayBreak /\ up[c] /\ ~broken[c]
  /\ broken' = [broken EXCEPT ![c] = TRUE]
  /\ requests' = [requests EXCEPT ![c] = <<>>]
  /\ responses' = [responses EXCEPT ![c] = <<>>]
  /\ UNCHANGED <<clientVars, up, served, answerVars, running, handled>>

sendRequest(c, m) ==
  requests' = IF up[c] /\ ~broken[c] THEN [requests EXCEPT ![c] = Append(@, m)] ELSE requests

\* Faulty: no answer to a request that could not be handled.
sendResponseUnlessError(c, m) ==
  responses' = IF broken[c] \/ m.body = Empty THEN responses
               ELSE [responses EXCEPT ![c] = Append(@, m)]

sendResponse(c, m) ==
  responses' = IF broken[c] THEN responses ELSE [responses EXCEPT ![c] = Append(@, m)]

-----------------------------------------------------------------------------
(* CallMethod(), in any thread.                                            *)

Step(t, at) == caller' = [caller EXCEPT ![t].at = at]

\* Faulty: numbers that are not distinct.
nextIdStuck == id_

\* id_.fetch_add(1) + 1
nextId == (id_ + 1) % IdSpace

\* conn_ is null before the first connection, and nothing here looks.
CallMethod(t, k) ==
  /\ caller[t] = Idle /\ k \notin called
  /\ CallersWait => conn_ # Null
  /\ id_' = nextId
  /\ caller' = [caller EXCEPT ![t] = [at |-> "register", call |-> k, id |-> id_', conn |-> Null]]
  /\ called' = called \cup {k}
  /\ UNCHANGED <<outstandings_, conn_, crashed, linkVars, wireVars, answerVars, running, handled>>

\* Faulty: the call is not remembered.
registerNothing(t) ==
  /\ caller[t].at = "register"
  /\ Step(t, "codec")
  /\ UNCHANGED <<id_, outstandings_, conn_, called, crashed, linkVars, wireVars, answerVars, running,
                 handled>>

\* outstandings_[id] = out, under mutex_
register(t) ==
  /\ caller[t].at = "register"
  /\ outstandings_' = [i \in DOMAIN outstandings_ \cup {caller[t].id} |->
                         IF i = caller[t].id THEN caller[t].call ELSE outstandings_[i]]
  /\ Step(t, "codec")
  /\ UNCHANGED <<id_, conn_, called, crashed, linkVars, wireVars, answerVars, running, handled>>

\* codec_.send(conn_, message): conn_ is passed by reference and dereferenced
\* without a lock or a copy.
codecSend(t) ==
  /\ caller[t].at = "codec"
  /\ caller' = [caller EXCEPT ![t].at = "send", ![t].conn = conn_]
  /\ UNCHANGED <<id_, outstandings_, conn_, called, crashed, linkVars, wireVars, answerVars, running,
                 handled>>

\* A connection that is down lives only through conn_.
Lives(c) == c # Null /\ (c = conn_ \/ up[c])

\* TcpConnection::send(), through a pointer that may be null or dangle.
send(t) ==
  /\ caller[t].at = "send"
  /\ IF Lives(caller[t].conn)
     THEN /\ sendRequest(caller[t].conn, [id |-> caller[t].id, call |-> caller[t].call])
          /\ caller' = [caller EXCEPT ![t] = Idle]
          /\ UNCHANGED crashed
     ELSE crashed' = TRUE /\ UNCHANGED <<requests, caller>>
  /\ UNCHANGED <<id_, outstandings_, conn_, called, linkVars, responses, answerVars, running,
                 handled>>

-----------------------------------------------------------------------------
(* The server's loop thread, and a service that answers later.             *)

\* Faulty: the message stays in the buffer.
retrieveNothing(c) == UNCHANGED requests

\* buf->retrieve() at the end of the codec's turn.
retrieve(c) == requests' = [requests EXCEPT ![c] = Tail(@)]

\* An unknown service or method or a bad request is answered at once; a
\* service answers by running done inside CallMethod() or keeps done for later.
handle_request_msg(c) ==
  /\ served[c] = "yes" /\ requests[c] # <<>>
  /\ LET m == Head(requests[c])
         r == [id |-> m.id, body |-> IF m.call \in BadCalls THEN Empty ELSE Answer(m.call)]
     IN  /\ handled' = [handled EXCEPT ![m.call] = @ + 1]
         /\ \/ /\ sendResponse(c, r)
               /\ UNCHANGED running
            \/ /\ Async /\ m.call \notin BadCalls
               /\ running' = running \cup {[conn |-> c, resp |-> r]}
               /\ UNCHANGED responses
  /\ retrieve(c)
  /\ UNCHANGED <<clientVars, linkVars, answerVars>>

doneCallback(d) ==
  /\ d \in running
  /\ served[d.conn] = "yes"         \* a destroyed RpcChannel is a crash
  /\ sendResponse(d.conn, d.resp)
  /\ running' = running \ {d}
  /\ UNCHANGED <<clientVars, linkVars, requests, answerVars, handled>>

\* The client's loop thread.  Each entry has a response object, so its closure
\* runs; the error code of the message is not looked at.
handle_response_msg(c) ==
  /\ up[c] /\ responses[c] # <<>>
  /\ conn_ = c                     \* assert
  /\ LET m == Head(responses[c])
     IN  IF m.id \in DOMAIN outstandings_
         THEN LET k == outstandings_[m.id]
              IN  /\ outstandings_' = [i \in DOMAIN outstandings_ \ {m.id} |-> outstandings_[i]]
                  /\ dones' = [dones EXCEPT ![k] = @ + 1]
                  /\ result' = [result EXCEPT ![k] = m.body]
         ELSE UNCHANGED <<outstandings_, answerVars>>
  /\ responses' = [responses EXCEPT ![c] = Tail(@)]
  /\ UNCHANGED <<id_, conn_, caller, called, crashed, linkVars, requests, running, handled>>

CallStep(t) == register(t) \/ codecSend(t) \/ send(t)
NetStep(c)  == onConnection(c) \/ clientDown(c) \/ handle_request_msg(c) \/ handle_response_msg(c)

\* What follows a crash is left out.
Running == ~crashed

Next ==
  /\ Running
  /\ \/ \E t \in Callers : CallStep(t) \/ \E k \in Calls : CallMethod(t, k)
     \/ \E c \in Conns : NetStep(c) \/ clientUp(c) \/ break(c)
     \/ \E d \in running : doneCallback(d)

Spec == Init /\ [][Next]_vars

\* Threads and loops are scheduled, a service runs every done it was given,
\* and both sides learn of a broken connection.
FairSpec ==
  /\ Spec
  /\ \A t \in Callers : WF_vars(Running /\ CallStep(t))
  /\ \A c \in Conns : /\ WF_vars(Running /\ onConnection(c))
                      /\ WF_vars(Running /\ clientDown(c))
                      /\ WF_vars(Running /\ handle_request_msg(c))
                      /\ WF_vars(Running /\ handle_response_msg(c))
  /\ WF_vars(Running /\ \E d \in running : doneCallback(d))

-----------------------------------------------------------------------------
Ids == 0..(IdSpace - 1)
Requests  == [id : Ids, call : Calls]
Responses == [id : Ids, body : {Empty} \cup {Answer(k) : k \in Calls}]

\* The variables keep their types, outstandings_ holds only calls that were made, and
\* the connection that is up is conn_, as onRpcMessage() asserts.
TypeOK ==
  /\ id_ \in Ids
  /\ DOMAIN outstandings_ \subseteq Ids
  /\ \A i \in DOMAIN outstandings_ : outstandings_[i] \in called
  /\ conn_ \in {Null} \cup Conns /\ \A c \in Conns : up[c] => conn_ = c
  /\ caller \in [Callers -> {Idle} \cup [at : {"register", "codec", "send"}, call : Calls,
                                         id : Ids, conn : {Null} \cup Conns]]
  /\ up \in [Conns -> BOOLEAN] /\ broken \in [Conns -> BOOLEAN]
  /\ served \in [Conns -> {"no", "yes", "ended"}]
  /\ requests \in [Conns -> Seq(Requests)]
  /\ responses \in [Conns -> Seq(Responses)]
  /\ running \subseteq [conn : Conns, resp : Responses]
  /\ called \subseteq Calls /\ crashed \in BOOLEAN
  /\ handled \in [Calls -> Nat] /\ dones \in [Calls -> Nat]
  /\ result \in [Calls -> {None, Empty} \cup {Answer(k) : k \in Calls}]

\* CallMethod() and handle_response_msg(): the closure of a call sees the
\* answer to that call and to no other, whatever order threads number, register
\* and send their calls in and wherever id_ started.
OwnAnswer ==
  \A k \in Calls : result[k] \in {None, IF k \in BadCalls THEN Empty ELSE Answer(k)}

\* CallMethod() registers before it sends: a response in transit finds its call.
ResponsesExpected ==
  \A c \in Conns : \A i \in DOMAIN responses[c] : responses[c][i].id \in DOMAIN outstandings_

\* CallMethod() uses conn_ without a lock and setConnection() assigns it: when the calls
\* wait for the first connection, only a thread that read conn_ before the connection was
\* lost, and calls send() after the next one has come up, uses a TcpConnection that does
\* not exist.  The end of a connection alone is no danger: conn_ keeps it.
CrashNeedsReplacement ==
  CallersWait /\ crashed =>
    \E t \in Callers : /\ caller[t].at = "send"
                       /\ Null < caller[t].conn /\ caller[t].conn < conn_
                       /\ broken[caller[t].conn]

\* NewCallback(this, &RpcChannel::doneCallback, ...): the server's RpcChannel
\* exists while a service still holds a closure of it.
ChannelLives == \A d \in running : served[d.conn] = "yes"

\* CallMethod() to handle_response_msg(): every call completes, the ones the
\* server rejects included, unless a connection is lost.  (Nothing completes a
\* call whose request or response is lost: there is no timeout.)
CallCompletes ==
  CallersWait => \A k \in Calls : k \in called ~> dones[k] = 1 \/ \E c \in Conns : broken[c]

Rpc == INSTANCE RpcCalls

\* The framework handles and completes every call at most once.
ImplementsRpcCalls == Rpc!Spec
=============================================================================
