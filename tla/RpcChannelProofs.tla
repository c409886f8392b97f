--------------------------- MODULE RpcChannelProofs ---------------------------
(***************************************************************************)
(* Theorems about RpcChannel for any number of calling threads, calls and  *)
(* connections, any width of id_, connections that break and services that *)
(* answer late.                                                            *)
(***************************************************************************)
EXTENDS RpcChannel, FiniteSetTheorems, TLAPS

USE BoundsAssumption DEF Ids, Conns, Null

Reply(k)  == IF k \in BadCalls THEN Empty ELSE Answer(k)
InCall(t) == caller[t].at \in {"register", "codec", "send"}

\* How many numbers id_ has given out since it gave out i.
Age(i) == IF i <= id_ THEN id_ - i ELSE id_ + IdSpace - i

\* The connections before the one in conn_ are lost.
OneConnection == \A c \in Conns : c < conn_ => broken[c]

\* A number in use was given out less than Cardinality(called) calls ago, so
\* that the next one is not in use; no two threads have the same.
IdsRecent ==
  /\ \A i \in DOMAIN outstandings_ : Age(i) < Cardinality(called)
  /\ \A t \in Callers : InCall(t) => Age(caller[t].id) < Cardinality(called)
  /\ \A t, u \in Callers : InCall(t) /\ InCall(u) /\ caller[t].id = caller[u].id => t = u

\* The call of a thread in CallMethod() has not been handled; it is in
\* outstandings_ after register() and not before.
CallersApart ==
  /\ \A t \in Callers : InCall(t) => caller[t].call \in called /\ handled[caller[t].call] = 0
  /\ \A t \in Callers : caller[t].at = "register" =>
       /\ caller[t].id \notin DOMAIN outstandings_
       /\ \A i \in DOMAIN outstandings_ : outstandings_[i] # caller[t].call
  /\ \A t \in Callers : caller[t].at \in {"codec", "send"} =>
       caller[t].id \in DOMAIN outstandings_ /\ outstandings_[caller[t].id] = caller[t].call
  /\ \A t, u \in Callers : InCall(t) /\ InCall(u) /\ caller[t].call = caller[u].call => t = u

\* A call is in outstandings_ once, until its closure runs.
OutstandingOnce ==
  /\ \A i, j \in DOMAIN outstandings_ : outstandings_[i] = outstandings_[j] => i = j
  /\ \A i \in DOMAIN outstandings_ : dones[outstandings_[i]] = 0

\* A request in transit is the only one of a call that waits and was not handled.
IsRequest(m) ==
  /\ m.id \in DOMAIN outstandings_ /\ outstandings_[m.id] = m.call
  /\ handled[m.call] = 0
  /\ \A t \in Callers : InCall(t) => caller[t].id # m.id
RequestsOnce ==
  /\ \A c \in Conns : \A i \in 1..Len(requests[c]) : IsRequest(requests[c][i])
  /\ \A c, d \in Conns : \A i \in 1..Len(requests[c]), j \in 1..Len(requests[d]) :
       requests[c][i].id = requests[d][j].id => c = d /\ i = j

\* A response, in transit or still held by the service, is the only one to a
\* call that waits and was handled, and holds that call's answer.
IsResponse(m) ==
  /\ m.id \in DOMAIN outstandings_
  /\ handled[outstandings_[m.id]] = 1
  /\ m.body = Reply(outstandings_[m.id])
ResponsesOnce ==
  /\ \A c \in Conns : \A i \in 1..Len(responses[c]) : IsResponse(responses[c][i])
  /\ \A c, d \in Conns : \A i \in 1..Len(responses[c]), j \in 1..Len(responses[d]) :
       responses[c][i].id = responses[d][j].id => c = d /\ i = j
RunningOnce ==
  /\ \A d \in running : IsResponse(d.resp)
  /\ \A d, e \in running : d.resp.id = e.resp.id => d = e
  /\ \A d \in running, c \in Conns : \A i \in 1..Len(responses[c]) :
       responses[c][i].id # d.resp.id

\* Handled at most once, completed at most once and not before.
HandledThenDone ==
  \A k \in Calls : /\ handled[k] \in {0, 1} /\ dones[k] \in {0, 1} /\ dones[k] <= handled[k]
                   /\ k \notin called => handled[k] = 0

RpcInv ==
  /\ TypeOK /\ OneConnection /\ IdsRecent /\ CallersApart /\ OutstandingOnce
  /\ RequestsOnce /\ ResponsesOnce /\ RunningOnce /\ HandledThenDone /\ OwnAnswer

-----------------------------------------------------------------------------
(* The queues of messages in transit.                                      *)

\* Taking the first message off the queue of connection c.
LEMMA TailAt ==
  ASSUME NEW S, NEW q \in [Conns -> Seq(S)], NEW c \in Conns, q[c] # <<>>,
         NEW r, r = [q EXCEPT ![c] = Tail(@)]
  PROVE  /\ r \in [Conns -> Seq(S)]
         /\ 1 \in 1..Len(q[c]) /\ Head(q[c]) = q[c][1] /\ Head(q[c]) \in S
         /\ \A d \in Conns : \A i \in 1..Len(r[d]) :
              IF d = c THEN i + 1 \in 2..Len(q[d]) /\ r[d][i] = q[d][i + 1]
                       ELSE i \in 1..Len(q[d]) /\ r[d][i] = q[d][i]
<1>1. q[c] \in Seq(S) /\ Len(q[c]) \in Nat /\ Len(q[c]) > 0 /\ Head(q[c]) \in S
      /\ Head(q[c]) = q[c][1]
  OBVIOUS
<1>2. /\ Tail(q[c]) \in Seq(S) /\ Len(Tail(q[c])) = Len(q[c]) - 1
      /\ \A i \in 1..Len(Tail(q[c])) : Tail(q[c])[i] = q[c][i + 1]
  BY <1>1
<1>3. r \in [Conns -> Seq(S)]
  BY <1>2
<1>4. ASSUME NEW d \in Conns, NEW i \in 1..Len(r[d])
      PROVE  IF d = c THEN i + 1 \in 2..Len(q[d]) /\ r[d][i] = q[d][i + 1]
                      ELSE i \in 1..Len(q[d]) /\ r[d][i] = q[d][i]
  BY <1>1, <1>2
<1> QED
  BY <1>1, <1>3, <1>4

\* Putting a message at the end of the queue of connection c.
LEMMA AppendAt ==
  ASSUME NEW S, NEW q \in [Conns -> Seq(S)], NEW c \in Conns, NEW m \in S,
         NEW r, r = [q EXCEPT ![c] = Append(@, m)]
  PROVE  /\ r \in [Conns -> Seq(S)]
         /\ \A d \in Conns : \A i \in 1..Len(r[d]) :
              \/ d = c /\ i = Len(q[c]) + 1 /\ r[d][i] = m
              \/ i \in 1..Len(q[d]) /\ r[d][i] = q[d][i]
<1>1. q[c] \in Seq(S) /\ Len(q[c]) \in Nat
  OBVIOUS
<1>2. /\ Append(q[c], m) \in Seq(S) /\ Len(Append(q[c], m)) = Len(q[c]) + 1
      /\ \A i \in 1..Len(q[c]) : Append(q[c], m)[i] = q[c][i]
      /\ Append(q[c], m)[Len(q[c]) + 1] = m
  BY <1>1
<1>3. r \in [Conns -> Seq(S)]
  BY <1>2
<1>4. ASSUME NEW d \in Conns, NEW i \in 1..Len(r[d])
      PROVE  \/ d = c /\ i = Len(q[c]) + 1 /\ r[d][i] = m
             \/ i \in 1..Len(q[d]) /\ r[d][i] = q[d][i]
  BY <1>1, <1>2
<1> QED
  BY <1>3, <1>4

\* Losing the messages of connection c.
LEMMA EmptyAt ==
  ASSUME NEW S, NEW q \in [Conns -> Seq(S)], NEW c \in Conns,
         NEW r, r = [q EXCEPT ![c] = <<>>]
  PROVE  /\ r \in [Conns -> Seq(S)]
         /\ \A d \in Conns : \A i \in 1..Len(r[d]) : i \in 1..Len(q[d]) /\ r[d][i] = q[d][i]
  OBVIOUS

-----------------------------------------------------------------------------
(* What a step keeps because it leaves alone what it depends on.           *)

\* Each part of the invariant with the variables it speaks of.
LEMMA Frames ==
  ASSUME RpcInv
  PROVE  /\ UNCHANGED <<broken, conn_>> => OneConnection'
         /\ UNCHANGED <<id_, outstandings_, caller, called>> => IdsRecent'
         /\ UNCHANGED <<outstandings_, caller, called, handled>> => CallersApart'
         /\ UNCHANGED <<outstandings_, dones>> => OutstandingOnce'
         /\ UNCHANGED <<requests, outstandings_, caller, handled>> => RequestsOnce'
         /\ UNCHANGED <<responses, outstandings_, handled>> => ResponsesOnce'
         /\ UNCHANGED <<running, responses, outstandings_, handled>> => RunningOnce'
         /\ UNCHANGED <<handled, dones, called>> => HandledThenDone'
         /\ UNCHANGED result => OwnAnswer'
<1> USE DEF RpcInv
<1>1. UNCHANGED <<broken, conn_>> => OneConnection'
  BY Zenon DEF OneConnection
<1>2. UNCHANGED <<id_, outstandings_, caller, called>> => IdsRecent'
  BY Zenon DEF IdsRecent, InCall, Age
<1>3. UNCHANGED <<outstandings_, caller, called, handled>> => CallersApart'
  BY Zenon DEF CallersApart, InCall
<1>4. UNCHANGED <<outstandings_, dones>> => OutstandingOnce'
  BY Zenon DEF OutstandingOnce
<1>5. UNCHANGED <<requests, outstandings_, caller, handled>> => RequestsOnce'
  BY SMTT(60) DEF RequestsOnce, IsRequest, InCall
<1>6. UNCHANGED <<responses, outstandings_, handled>> => ResponsesOnce'
  BY SMTT(60) DEF ResponsesOnce, IsResponse
<1>7. UNCHANGED <<running, responses, outstandings_, handled>> => RunningOnce'
  BY DEF RunningOnce, IsResponse
<1>8. UNCHANGED <<handled, dones, called>> => HandledThenDone'
  BY Zenon DEF HandledThenDone
<1>9. UNCHANGED result => OwnAnswer'
  BY Zenon DEF OwnAnswer
<1> QED
  BY <1>1, <1>2, <1>3, <1>4, <1>5, <1>6, <1>7, <1>8, <1>9

\* A thread is outside CallMethod(), or has a call, a number and perhaps a connection.
LEMMA CallerType ==
  ASSUME TypeOK, NEW t \in Callers
  PROVE  \/ caller[t] = Idle /\ caller[t].at = "idle" /\ ~InCall(t)
         \/ /\ caller[t] \in [at : {"register", "codec", "send"}, call : Calls, id : Ids,
                              conn : {Null} \cup Conns]
            /\ InCall(t) /\ caller[t].at # "idle"
            /\ caller[t].call \in Calls /\ caller[t].id \in Ids
            /\ caller[t].conn \in {Null} \cup Conns
  BY DEF TypeOK, InCall, Idle

-----------------------------------------------------------------------------
(* The connections.                                                        *)

\* The constructor's values satisfy the invariant, wherever id_ starts.
LEMMA RpcInvInit == Init => RpcInv
<1> SUFFICES ASSUME Init PROVE RpcInv
  OBVIOUS
<1>1. /\ \A c \in Conns : Len(requests[c]) = 0 /\ Len(responses[c]) = 0
      /\ \A t \in Callers : ~InCall(t) /\ caller[t].at = "idle"
      /\ DOMAIN outstandings_ = {}
  BY DEF Init, InCall, Idle
<1>2. TypeOK
  <2>1. conn_ \in {Null} \cup Conns /\ \A c \in Conns : up[c] => conn_ = c
    BY DEF Init
  <2>2. called \subseteq Calls /\ crashed \in BOOLEAN
    BY Zenon DEF Init
  <2>3. /\ id_ \in Ids /\ running \subseteq [conn : Conns, resp : Responses]
        /\ up \in [Conns -> BOOLEAN] /\ broken \in [Conns -> BOOLEAN]
        /\ served \in [Conns -> {"no", "yes", "ended"}]
        /\ requests \in [Conns -> Seq(Requests)] /\ responses \in [Conns -> Seq(Responses)]
    BY DEF Init
  <2> QED
    BY <1>1, <2>1, <2>2, <2>3 DEF Init, TypeOK
<1>3. OneConnection /\ IdsRecent /\ CallersApart /\ OutstandingOnce
  BY <1>1 DEF Init, OneConnection, IdsRecent, CallersApart, OutstandingOnce
<1>4. RequestsOnce /\ ResponsesOnce /\ RunningOnce
  BY <1>1 DEF Init, RequestsOnce, ResponsesOnce, RunningOnce
<1>5. HandledThenDone /\ OwnAnswer
  BY DEF Init, HandledThenDone, OwnAnswer
<1> QED
  BY <1>2, <1>3, <1>4, <1>5 DEF RpcInv

\* Connections come up one after the other and go down.
LEMMA LinkStep ==
  ASSUME RpcInv, NEW c \in Conns, clientUp(c) \/ clientDown(c) \/ onConnection(c)
  PROVE  RpcInv'
<1>1. TypeOK'
  <2>1. CASE clientUp(c)
    <3>1. \A d \in Conns : up[d] => FALSE
      BY <2>1 DEF clientUp, Connects, RpcInv, TypeOK, OneConnection
    <3> QED
      BY <2>1, <3>1 DEF RpcInv, TypeOK, clientUp, Connects, wireVars, answerVars
  <2>2. CASE clientDown(c) \/ onConnection(c)
    BY <2>2 DEF RpcInv, TypeOK, clientDown, onConnection, clientVars, wireVars, answerVars
  <2> QED
    BY <2>1, <2>2
<1>2. OneConnection'
  <2>1. CASE clientUp(c)
    BY <2>1 DEF clientUp, Connects, RpcInv, TypeOK, OneConnection
  <2>2. CASE clientDown(c) \/ onConnection(c)
    BY <2>2, Frames DEF clientDown, onConnection, clientVars
  <2> QED
    BY <2>1, <2>2
<1>3. UNCHANGED <<id_, outstandings_, caller, called, wireVars, answerVars, running, handled>>
  BY DEF clientUp, Connects, clientDown, onConnection, clientVars
<1> QED
  BY <1>1, <1>2, <1>3, Frames DEF RpcInv, wireVars, answerVars

\* A broken connection loses its messages.
LEMMA BreakStep == ASSUME RpcInv, NEW c \in Conns, break(c) PROVE RpcInv'
<1> USE DEF break
<1>1. /\ requests' \in [Conns -> Seq(Requests)]
      /\ responses' \in [Conns -> Seq(Responses)]
      /\ \A d \in Conns : \A i \in 1..Len(requests'[d]) :
           i \in 1..Len(requests[d]) /\ requests'[d][i] = requests[d][i]
      /\ \A d \in Conns : \A i \in 1..Len(responses'[d]) :
           i \in 1..Len(responses[d]) /\ responses'[d][i] = responses[d][i]
  <2>1. /\ requests \in [Conns -> Seq(Requests)]
        /\ responses \in [Conns -> Seq(Responses)]
    BY DEF RpcInv, TypeOK
  <2>2. /\ requests' = [requests EXCEPT ![c] = <<>>]
        /\ responses' = [responses EXCEPT ![c] = <<>>]
    OBVIOUS
  <2> HIDE DEF break, Conns
  <2>3. /\ requests' \in [Conns -> Seq(Requests)]
        /\ \A d \in Conns : \A i \in 1..Len(requests'[d]) :
             i \in 1..Len(requests[d]) /\ requests'[d][i] = requests[d][i]
    BY <2>1, <2>2, EmptyAt
  <2>4. /\ responses' \in [Conns -> Seq(Responses)]
        /\ \A d \in Conns : \A i \in 1..Len(responses'[d]) :
             i \in 1..Len(responses[d]) /\ responses'[d][i] = responses[d][i]
    BY <2>1, <2>2, EmptyAt
  <2> QED
    BY <2>3, <2>4
<1>2. TypeOK'
  BY <1>1 DEF RpcInv, TypeOK, clientVars, answerVars
<1>3. OneConnection'
  BY DEF RpcInv, TypeOK, OneConnection, clientVars
<1>4. UNCHANGED <<clientVars, answerVars, running, handled>>
  OBVIOUS
<1>5. RequestsOnce'
  BY <1>1, <1>4 DEF RpcInv, RequestsOnce, IsRequest, InCall, clientVars
<1>6. ResponsesOnce'
  <2>1. (\A d \in Conns : \A i \in 1..Len(responses[d]) : IsResponse(responses[d][i]))'
    BY <1>1, <1>4 DEF RpcInv, ResponsesOnce, IsResponse, clientVars
  <2>2. (\A d, e \in Conns : \A i \in 1..Len(responses[d]), j \in 1..Len(responses[e]) :
           responses[d][i].id = responses[e][j].id => d = e /\ i = j)'
    BY <1>1 DEF RpcInv, ResponsesOnce
  <2> QED
    BY <2>1, <2>2 DEF ResponsesOnce
<1>7. RunningOnce'
  BY <1>1, <1>4 DEF RpcInv, RunningOnce, IsResponse, clientVars
<1> QED
  BY <1>2, <1>3, <1>4, <1>5, <1>6, <1>7, Frames DEF RpcInv, clientVars, answerVars

-----------------------------------------------------------------------------
(* CallMethod().                                                           *)

\* fetch_add(1) + 1 on a counter that wraps around.
LEMMA NextIdValue ==
  ASSUME id_ \in Ids
  PROVE  nextId \in Ids /\ nextId = IF id_ + 1 = IdSpace THEN 0 ELSE id_ + 1
<1>1. \A n \in Nat \ {0} : \A x \in 0..(n - 1) : x % n = x
  OBVIOUS
<1>2. \A n \in Nat \ {0} : n % n = 0
  OBVIOUS
<1>3. CASE id_ + 1 = IdSpace
  BY <1>2, <1>3 DEF nextId
<1>4. CASE id_ + 1 # IdSpace
  <2>1. id_ + 1 \in 0..(IdSpace - 1)
    BY <1>4
  <2>2. (id_ + 1) % IdSpace = id_ + 1
    BY <2>1, <1>1
  <2> QED
    BY <1>4, <2>1, <2>2 DEF nextId
<1> QED
  BY <1>3, <1>4

\* A number given out less than IdSpace - 1 calls ago is not given out now, and is
\* one call older afterwards.
LEMMA AgeStep ==
  ASSUME id_ \in Ids, id_' = nextId, NEW i \in Ids, Age(i) < IdSpace - 1
  PROVE  i # id_' /\ Age(i)' = Age(i) + 1
<1>1. id_' = IF id_ + 1 = IdSpace THEN 0 ELSE id_ + 1
  BY NextIdValue
<1> QED
  BY <1>1 DEF Age

\* There are at most IdSpace calls.
LEMMA CalledCount ==
  ASSUME called \subseteq Calls, NEW k \in Calls, k \notin called
  PROVE  /\ Cardinality(called) \in Nat /\ Cardinality(called) <= IdSpace - 1
         /\ Cardinality(called \cup {k}) = Cardinality(called) + 1
<1>1. /\ IsFiniteSet(called) /\ Cardinality(called) <= Cardinality(Calls)
      /\ Cardinality(Calls) = Cardinality(called) => Calls = called
  BY FS_Subset, IdsAssumption
<1>2. Cardinality(called) \in Nat /\ Cardinality(Calls) \in Nat
  BY <1>1, FS_CardinalityType, IdsAssumption
<1>3. Cardinality(called \cup {k}) = Cardinality(called) + 1
  BY <1>1, FS_AddElement
<1>4. Cardinality(called) # Cardinality(Calls)
  BY <1>1
<1> QED
  BY <1>1, <1>2, <1>3, <1>4, IdsAssumption

\* A call gets a number that no call that is going on has.
LEMMA CallMethodStep ==
  ASSUME RpcInv, NEW t \in Callers, NEW k \in Calls, CallMethod(t, k)
  PROVE  RpcInv'
<1> DEFINE n == Cardinality(called)
           newAge(i) == IF i <= id_' THEN id_' - i ELSE id_' + IdSpace - i
<1>1. /\ id_ \in Ids /\ DOMAIN outstandings_ \subseteq Ids /\ called \subseteq Calls
      /\ \A i \in DOMAIN outstandings_ : outstandings_[i] \in called
      /\ k \notin called /\ caller[t] = Idle /\ id_' = nextId
      /\ called' = called \cup {k}
      /\ UNCHANGED <<outstandings_, conn_, crashed, linkVars, wireVars, answerVars, running, handled>>
  BY DEF RpcInv, TypeOK, CallMethod
<1>2. n \in Nat /\ n <= IdSpace - 1 /\ Cardinality(called)' = n + 1
  BY <1>1, CalledCount, Zenon
<1>3. id_' \in Ids
  BY <1>1, NextIdValue
<1>4. caller' = [caller EXCEPT ![t] = [at |-> "register", call |-> k, id |-> id_', conn |-> Null]]
  BY DEF CallMethod
<1>5. /\ caller'[t].at = "register" /\ caller'[t].call = k /\ caller'[t].id = id_'
      /\ InCall(t)' /\ ~InCall(t)
      /\ \A u \in Callers \ {t} : caller'[u] = caller[u]
      /\ \A u \in Callers \ {t} : InCall(u)' <=> InCall(u)
  BY <1>1, <1>4 DEF RpcInv, TypeOK, InCall, Idle
<1>6. TypeOK'
  <2>1. caller' \in [Callers -> {Idle} \cup [at : {"register", "codec", "send"}, call : Calls,
                                             id : Ids, conn : {Null} \cup Conns]]
    BY <1>3, <1>4 DEF RpcInv, TypeOK
  <2>2. \A i \in DOMAIN outstandings_' : outstandings_'[i] \in called'
    BY <1>1
  <2> QED
    BY <2>1, <2>2, <1>1, <1>3 DEF RpcInv, TypeOK, linkVars, wireVars, answerVars
<1>7. OneConnection'
  BY <1>1, Frames DEF linkVars
<1>8. /\ \A i \in DOMAIN outstandings_ : i # id_' /\ newAge(i) < n + 1
      /\ \A u \in Callers : InCall(u) => caller[u].id # id_' /\ newAge(caller[u].id) < n + 1
  <2>1. \A i \in Ids : Age(i) < n => i # id_' /\ newAge(i) < n + 1
    BY <1>1, <1>2, AgeStep DEF Age
  <2> HIDE DEF newAge
  <2>2. \A i \in DOMAIN outstandings_ : i \in Ids /\ Age(i) < n
    BY <1>1 DEF RpcInv, IdsRecent
  <2>3. \A u \in Callers : InCall(u) => caller[u].id \in Ids /\ Age(caller[u].id) < n
    BY CallerType DEF RpcInv, IdsRecent
  <2> QED
    BY <2>1, <2>2, <2>3
<1>9. IdsRecent'
  <2>1. ASSUME NEW i \in DOMAIN outstandings_' PROVE (Age(i) < Cardinality(called))'
    BY <1>1, <1>2, <1>8 DEF Age
  <2>2. ASSUME NEW u \in Callers, InCall(u)'
        PROVE  (Age(caller[u].id) < Cardinality(called))'
    <3>1. CASE u = t
      BY <3>1, <1>2, <1>3, <1>5 DEF Age
    <3>2. CASE u # t
      BY <3>2, <2>2, <1>2, <1>5, <1>8 DEF Age
    <3> QED
      BY <3>1, <3>2
  <2>3. ASSUME NEW u \in Callers, NEW v \in Callers,
               InCall(u)', InCall(v)', caller'[u].id = caller'[v].id
        PROVE  u = v
    BY <2>3, <1>5, <1>8 DEF RpcInv, IdsRecent
  <2> QED
    BY <2>1, <2>2, <2>3 DEF IdsRecent
<1>10. CallersApart'
  <2>1. handled[k] = 0 /\ \A u \in Callers : InCall(u) => caller[u].call \in called
    BY <1>1 DEF RpcInv, HandledThenDone, CallersApart
  <2>2. \A i \in DOMAIN outstandings_ : i # id_' /\ outstandings_[i] # k
    BY <1>1, <1>8
  <2> QED
    BY <1>1, <1>5, <2>1, <2>2 DEF RpcInv, CallersApart
<1>11. RequestsOnce'
  <2>1. \A c \in Conns : \A i \in 1..Len(requests[c]) : requests[c][i].id \in DOMAIN outstandings_
    BY DEF RpcInv, RequestsOnce, IsRequest
  <2>2. \A c \in Conns : \A i \in 1..Len(requests[c]) : requests[c][i].id # id_'
    BY <2>1, <1>8
  <2> QED
    BY <2>2, <1>1, <1>5, SMTT(60) DEF RpcInv, RequestsOnce, IsRequest, wireVars
<1>12. HandledThenDone'
  BY <1>1 DEF RpcInv, HandledThenDone, answerVars
<1> QED
  BY <1>1, <1>6, <1>7, <1>9, <1>10, <1>11, <1>12, Frames DEF RpcInv, wireVars, answerVars

\* What Step(t, at) does to the threads.
LEMMA StepEffect ==
  ASSUME TypeOK, NEW t \in Callers, InCall(t), NEW at \in {"codec", "send"}, NEW c \in {Null} \cup Conns,
         \/ caller' = [caller EXCEPT ![t].at = at] /\ c = caller[t].conn
         \/ caller' = [caller EXCEPT ![t].at = at, ![t].conn = c]
  PROVE  /\ caller' \in [Callers -> {Idle} \cup [at : {"register", "codec", "send"}, call : Calls,
                                                 id : Ids, conn : {Null} \cup Conns]]
         /\ caller'[t].at = at /\ caller'[t].call = caller[t].call /\ caller'[t].id = caller[t].id
         /\ caller'[t].conn = c
         /\ \A u \in Callers \ {t} : caller'[u] = caller[u]
         /\ \A u \in Callers : (InCall(u)' <=> InCall(u)) /\ caller'[u].id = caller[u].id
                               /\ caller'[u].call = caller[u].call
<1>1. caller[t] \in [at : {"register", "codec", "send"}, call : Calls, id : Ids,
                     conn : {Null} \cup Conns]
  BY CallerType
<1> DEFINE Callings == {Idle} \cup [at : {"register", "codec", "send"}, call : Calls, id : Ids,
                                   conn : {Null} \cup Conns]
<1>2. /\ caller' \in [Callers -> Callings]
      /\ caller'[t].at = at /\ caller'[t].call = caller[t].call /\ caller'[t].id = caller[t].id
      /\ caller'[t].conn = c
  <2> DEFINE x == [caller[t] EXCEPT !.at = at, !.conn = c]
  <2>1. x \in Callings /\ x.at = at /\ x.call = caller[t].call /\ x.id = caller[t].id /\ x.conn = c
    BY <1>1
  <2>2. c = caller[t].conn => x = [caller[t] EXCEPT !.at = at]
    BY <1>1
  <2>3. caller' = [caller EXCEPT ![t] = x]
    BY <2>2
  <2>4. caller \in [Callers -> Callings]
    BY Zenon DEF TypeOK
  <2> HIDE DEF x, Callings
  <2> QED
    BY <2>1, <2>3, <2>4
<1>3. \A u \in Callers \ {t} : caller'[u] = caller[u]
  BY DEF TypeOK
<1> QED
  BY <1>2, <1>3 DEF InCall

\* A call is entered into outstandings_ under a number that is not there yet.
LEMMA RegisterStep == ASSUME RpcInv, NEW t \in Callers, register(t) PROVE RpcInv'
<1> DEFINE i0 == caller[t].id
           k == caller[t].call
<1>1. /\ InCall(t) /\ caller[t].at = "register" /\ i0 \in Ids /\ k \in Calls
      /\ outstandings_' = [i \in DOMAIN outstandings_ \cup {i0} |->
                             IF i = i0 THEN k ELSE outstandings_[i]]
      /\ UNCHANGED <<id_, conn_, called, crashed, linkVars, wireVars, answerVars, running, handled>>
  BY CallerType DEF RpcInv, register, InCall
<1>2. /\ caller' \in [Callers -> {Idle} \cup [at : {"register", "codec", "send"}, call : Calls,
                                              id : Ids, conn : {Null} \cup Conns]]
      /\ caller'[t].at = "codec" /\ caller'[t].call = k /\ caller'[t].id = i0
      /\ \A u \in Callers \ {t} : caller'[u] = caller[u]
      /\ \A u \in Callers : (InCall(u)' <=> InCall(u)) /\ caller'[u].id = caller[u].id
                            /\ caller'[u].call = caller[u].call
  <2>1. caller' = [caller EXCEPT ![t].at = "codec"]
    BY DEF register, Step
  <2>2. caller[t].conn \in {Null} \cup Conns
    BY <1>1, CallerType DEF RpcInv
  <2> QED
    BY <1>1, <2>1, <2>2, StepEffect DEF RpcInv
<1>3. /\ i0 \notin DOMAIN outstandings_ /\ k \in called /\ handled[k] = 0
      /\ \A i \in DOMAIN outstandings_ : outstandings_[i] # k /\ outstandings_[i] \in called
      /\ \A u \in Callers : InCall(u) /\ (caller[u].id = i0 \/ caller[u].call = k) => u = t
  BY <1>1 DEF RpcInv, TypeOK, CallersApart, IdsRecent
<1>4. /\ DOMAIN outstandings_' = DOMAIN outstandings_ \cup {i0} /\ outstandings_'[i0] = k
      /\ \A i \in DOMAIN outstandings_ : outstandings_'[i] = outstandings_[i]
  BY <1>1, <1>3
<1>5. dones[k] = 0
  BY <1>1, <1>3 DEF RpcInv, HandledThenDone
<1> HIDE DEF i0, k
<1>6. TypeOK'
  <2>1. DOMAIN outstandings_' \subseteq Ids
    BY <1>1, <1>4 DEF RpcInv, TypeOK
  <2>2. \A i \in DOMAIN outstandings_' : outstandings_'[i] \in called'
    BY <1>1, <1>3, <1>4
  <2> QED
    BY <2>1, <2>2, <1>1, <1>2 DEF RpcInv, TypeOK, linkVars, wireVars, answerVars
<1>7. OneConnection'
  BY <1>1, Frames DEF linkVars
<1>8. IdsRecent'
  <2>1. Age(i0) < Cardinality(called)
    BY <1>1 DEF RpcInv, IdsRecent, i0
  <2>2. \A i \in DOMAIN outstandings_' : (Age(i) < Cardinality(called))'
    BY <2>1, <1>1, <1>4 DEF RpcInv, IdsRecent, Age
  <2>3. \A u \in Callers : InCall(u)' => (Age(caller[u].id) < Cardinality(called))'
    BY <1>1, <1>2 DEF RpcInv, IdsRecent, Age
  <2> QED
    BY <2>2, <2>3, <1>2 DEF RpcInv, IdsRecent
<1>9. CallersApart'
  <2>1. \A u \in Callers : InCall(u)' => caller'[u].call \in called' /\ handled'[caller'[u].call] = 0
    BY <1>1, <1>2 DEF RpcInv, CallersApart
  <2>2. ASSUME NEW u \in Callers, caller'[u].at = "register"
        PROVE  /\ caller'[u].id \notin DOMAIN outstandings_'
               /\ \A i \in DOMAIN outstandings_' : outstandings_'[i] # caller'[u].call
    <3>1. u # t /\ caller'[u] = caller[u] /\ caller[u].at = "register" /\ InCall(u)
      BY <2>2, <1>2 DEF InCall
    <3>2. caller[u].id # i0 /\ caller[u].call # k
      BY <3>1, <1>3
    <3>3. /\ caller[u].id \notin DOMAIN outstandings_
          /\ \A i \in DOMAIN outstandings_ : outstandings_[i] # caller[u].call
      BY <3>1 DEF RpcInv, CallersApart
    <3> QED
      BY <3>1, <3>2, <3>3, <1>4
  <2>3. ASSUME NEW u \in Callers, caller'[u].at \in {"codec", "send"}
        PROVE  /\ caller'[u].id \in DOMAIN outstandings_'
               /\ outstandings_'[caller'[u].id] = caller'[u].call
    <3>1. CASE u = t
      BY <3>1, <1>2, <1>4
    <3>2. CASE u # t
      BY <3>2, <2>3, <1>2, <1>4 DEF RpcInv, CallersApart
    <3> QED
      BY <3>1, <3>2
  <2>4. \A u, v \in Callers : InCall(u)' /\ InCall(v)' /\ caller'[u].call = caller'[v].call => u = v
    BY <1>2 DEF RpcInv, CallersApart
  <2> QED
    BY <2>1, <2>2, <2>3, <2>4 DEF CallersApart
<1>10. OutstandingOnce'
  BY <1>1, <1>3, <1>4, <1>5 DEF RpcInv, OutstandingOnce, answerVars
<1>11. RequestsOnce'
  <2>1. ASSUME NEW m, IsRequest(m) PROVE IsRequest(m)'
    BY <2>1, <1>1, <1>2, <1>4 DEF IsRequest
  <2>2. UNCHANGED requests
    BY <1>1 DEF wireVars
  <2> QED
    BY <2>1, <2>2 DEF RpcInv, RequestsOnce
<1>12. ResponsesOnce' /\ RunningOnce'
  <2>1. ASSUME NEW m, IsResponse(m) PROVE IsResponse(m)'
    BY <2>1, <1>1, <1>4 DEF IsResponse, Reply
  <2>2. UNCHANGED <<responses, running>>
    BY <1>1 DEF wireVars
  <2> QED
    BY <2>1, <2>2 DEF RpcInv, ResponsesOnce, RunningOnce
<1> QED
  BY <1>1, <1>6, <1>7, <1>8, <1>9, <1>10, <1>11, <1>12, Frames DEF RpcInv, wireVars, answerVars

\* codec_.send() takes whatever conn_ is.
LEMMA CodecSendStep == ASSUME RpcInv, NEW t \in Callers, codecSend(t) PROVE RpcInv'
<1>1. /\ InCall(t) /\ caller[t].at = "codec"
      /\ caller' = [caller EXCEPT ![t].at = "send", ![t].conn = conn_]
      /\ UNCHANGED <<id_, outstandings_, conn_, called, crashed, linkVars, wireVars, answerVars, running,
                     handled>>
  BY DEF codecSend, InCall
<1>2. conn_ \in {Null} \cup Conns
  BY DEF RpcInv, TypeOK
<1>3. /\ caller' \in [Callers -> {Idle} \cup [at : {"register", "codec", "send"}, call : Calls,
                                              id : Ids, conn : {Null} \cup Conns]]
      /\ caller'[t].at = "send" /\ caller'[t].conn = conn_
      /\ \A u \in Callers \ {t} : caller'[u] = caller[u]
      /\ \A u \in Callers : (InCall(u)' <=> InCall(u)) /\ caller'[u].id = caller[u].id
                            /\ caller'[u].call = caller[u].call
  BY <1>1, <1>2, StepEffect DEF RpcInv
<1>4. TypeOK'
  BY <1>1, <1>3 DEF RpcInv, TypeOK, linkVars, wireVars, answerVars
<1>5. OneConnection'
  BY <1>1, Frames DEF linkVars
<1>6. IdsRecent'
  BY <1>1, <1>3 DEF RpcInv, IdsRecent, Age
<1>7. CallersApart'
  BY <1>1, <1>3 DEF RpcInv, CallersApart
<1>8. RequestsOnce'
  BY <1>1, <1>3 DEF RpcInv, RequestsOnce, IsRequest, wireVars
<1> QED
  BY <1>1, <1>4, <1>5, <1>6, <1>7, <1>8, Frames DEF RpcInv, wireVars, answerVars

\* A thread that uses a TcpConnection that does not exist changes nothing else.
LEMMA CrashStep ==
  ASSUME RpcInv, NEW t \in Callers, send(t), ~Lives(caller[t].conn) PROVE RpcInv'
<1>1. /\ crashed' = TRUE
      /\ UNCHANGED <<requests, caller, id_, outstandings_, conn_, called, linkVars, responses,
                     answerVars, running, handled>>
  BY DEF send
<1>2. TypeOK'
  BY <1>1 DEF RpcInv, TypeOK, linkVars, answerVars
<1> QED
  BY <1>1, <1>2, Frames DEF RpcInv, linkVars, answerVars

\* A request is sent, or dropped with the connection, when the call is in
\* outstandings_.
LEMMA SendStep ==
  ASSUME RpcInv, NEW t \in Callers, send(t), Lives(caller[t].conn) PROVE RpcInv'
<1> DEFINE c == caller[t].conn
           m == [id |-> caller[t].id, call |-> caller[t].call]
<1>1. /\ InCall(t) /\ caller[t].at = "send" /\ c \in Conns /\ m \in Requests
      /\ m.id = caller[t].id /\ m.call = caller[t].call
      /\ UNCHANGED <<id_, outstandings_, conn_, called, crashed, linkVars, responses, answerVars,
                     running, handled>>
      /\ requests' = requests \/ requests' = [requests EXCEPT ![c] = Append(@, m)]
      /\ caller' = [caller EXCEPT ![t] = Idle]
  BY CallerType DEF RpcInv, send, Lives, sendRequest, InCall, Requests
<1>2. /\ caller' \in [Callers -> {Idle} \cup [at : {"register", "codec", "send"}, call : Calls,
                                              id : Ids, conn : {Null} \cup Conns]]
      /\ ~InCall(t)' /\ caller'[t].at = "idle"
      /\ \A u \in Callers \ {t} : caller'[u] = caller[u]
      /\ \A u \in Callers \ {t} : InCall(u)' <=> InCall(u)
  BY <1>1 DEF RpcInv, TypeOK, InCall, Idle
<1>3. /\ requests' \in [Conns -> Seq(Requests)]
      /\ \A d \in Conns : \A i \in 1..Len(requests'[d]) :
           \/ d = c /\ i = Len(requests[c]) + 1 /\ requests'[d][i] = m
           \/ i \in 1..Len(requests[d]) /\ requests'[d][i] = requests[d][i]
  <2>1. requests \in [Conns -> Seq(Requests)]
    BY DEF RpcInv, TypeOK
  <2>2. CASE requests' = requests
    BY <2>1, <2>2
  <2>3. CASE requests' = [requests EXCEPT ![c] = Append(@, m)]
    <3> HIDE DEF c, m
    <3> QED
      BY <1>1, <2>1, <2>3, AppendAt
  <2> QED
    BY <1>1, <2>2, <2>3
<1>4. /\ m.id \in DOMAIN outstandings_ /\ outstandings_[m.id] = m.call /\ handled[m.call] = 0
      /\ \A u \in Callers \ {t} : InCall(u) => caller[u].id # m.id
      /\ \A d \in Conns : \A i \in 1..Len(requests[d]) : requests[d][i].id # m.id
  BY <1>1 DEF RpcInv, CallersApart, IdsRecent, RequestsOnce, IsRequest
<1> HIDE DEF c, m
<1>5. TypeOK'
  BY <1>1, <1>2, <1>3 DEF RpcInv, TypeOK, linkVars, answerVars
<1>6. OneConnection'
  BY <1>1, Frames DEF linkVars
<1>7. IdsRecent'
  BY <1>1, <1>2 DEF RpcInv, IdsRecent, Age
<1>8. CallersApart'
  BY <1>1, <1>2 DEF RpcInv, CallersApart
<1>9. RequestsOnce'
  <2>1. ASSUME NEW d \in Conns, NEW i \in 1..Len(requests'[d]) PROVE IsRequest(requests[d][i])'
    <3>1. CASE requests'[d][i] = m
      BY <1>1, <1>2, <1>4, <3>1 DEF IsRequest
    <3>2. CASE i \in 1..Len(requests[d]) /\ requests'[d][i] = requests[d][i]
      <4>1. IsRequest(requests[d][i])
        BY <3>2 DEF RpcInv, RequestsOnce
      <4> QED
        BY <4>1, <3>2, <1>1, <1>2 DEF IsRequest
    <3> QED
      BY <3>1, <3>2, <1>3
  <2>2. ASSUME NEW d \in Conns, NEW e \in Conns, NEW i \in 1..Len(requests'[d]),
               NEW j \in 1..Len(requests'[e]), requests'[d][i].id = requests'[e][j].id
        PROVE  d = e /\ i = j
    <3> DEFINE old(f, n) == n \in 1..Len(requests[f]) /\ requests'[f][n] = requests[f][n]
               new(f, n) == f = c /\ n = Len(requests[c]) + 1 /\ requests'[f][n] = m
    <3>1. (old(d, i) \/ new(d, i)) /\ (old(e, j) \/ new(e, j))
      BY <1>3
    <3>2. CASE old(d, i) /\ old(e, j)
      BY <3>2, <2>2 DEF RpcInv, RequestsOnce
    <3>3. CASE old(d, i) /\ new(e, j)
      BY <3>3, <2>2, <1>4
    <3>4. CASE new(d, i) /\ old(e, j)
      BY <3>4, <2>2, <1>4
    <3>5. CASE new(d, i) /\ new(e, j)
      BY <3>5
    <3> QED
      BY <3>1, <3>2, <3>3, <3>4, <3>5
  <2> QED
    BY <2>1, <2>2 DEF RequestsOnce
<1> QED
  BY <1>1, <1>5, <1>6, <1>7, <1>8, <1>9, Frames DEF RpcInv, answerVars

-----------------------------------------------------------------------------
(* The answers.                                                            *)

\* A response of a call that has none yet is sent, or lost with the connection.
LEMMA SendResponseStep ==
  ASSUME RpcInv, NEW c \in Conns, NEW m \in Responses, sendResponse(c, m),
         \A d \in Conns : \A i \in 1..Len(responses[d]) : responses[d][i].id # m.id
  PROVE  /\ responses' \in [Conns -> Seq(Responses)]
         /\ \A d \in Conns : \A i \in 1..Len(responses'[d]) :
              \/ responses'[d][i] = m
              \/ i \in 1..Len(responses[d]) /\ responses'[d][i] = responses[d][i]
         /\ \A d, e \in Conns : \A i \in 1..Len(responses'[d]), j \in 1..Len(responses'[e]) :
              responses'[d][i].id = responses'[e][j].id => d = e /\ i = j
<1> DEFINE old(f, n) == n \in 1..Len(responses[f]) /\ responses'[f][n] = responses[f][n]
           new(f, n) == f = c /\ n = Len(responses[c]) + 1 /\ responses'[f][n] = m
<1>1. responses \in [Conns -> Seq(Responses)]
  BY DEF RpcInv, TypeOK
<1>2. responses' = responses \/ responses' = [responses EXCEPT ![c] = Append(@, m)]
  BY DEF sendResponse
<1>3. /\ responses' \in [Conns -> Seq(Responses)]
      /\ \A d \in Conns : \A i \in 1..Len(responses'[d]) : new(d, i) \/ old(d, i)
  <2>1. CASE responses' = responses
    BY <1>1, <2>1
  <2>2. CASE responses' = [responses EXCEPT ![c] = Append(@, m)]
    BY <1>1, <2>2, AppendAt
  <2> QED
    BY <1>2, <2>1, <2>2
<1>4. ASSUME NEW d \in Conns, NEW e \in Conns, NEW i \in 1..Len(responses'[d]),
             NEW j \in 1..Len(responses'[e]), responses'[d][i].id = responses'[e][j].id
      PROVE  d = e /\ i = j
  <2>1. CASE old(d, i) /\ old(e, j)
    BY <2>1, <1>4 DEF RpcInv, ResponsesOnce
  <2>2. CASE old(d, i) /\ new(e, j)
    BY <2>2, <1>4
  <2>3. CASE new(d, i) /\ old(e, j)
    BY <2>3, <1>4
  <2>4. CASE new(d, i) /\ new(e, j)
    BY <2>4
  <2> QED
    BY <1>3, <2>1, <2>2, <2>3, <2>4
<1> QED
  BY <1>3, <1>4

\* A request is handled once, and what the service answers is the answer to it.
LEMMA HandleRequestStep == ASSUME RpcInv, NEW c \in Conns, handle_request_msg(c) PROVE RpcInv'
<1> DEFINE m == Head(requests[c])
           r == [id |-> m.id, body |-> Reply(m.call)]
<1>1. /\ requests[c] # <<>>
      /\ handled' = [handled EXCEPT ![m.call] = @ + 1]
      /\ \/ sendResponse(c, r) /\ UNCHANGED running
         \/ running' = running \cup {[conn |-> c, resp |-> r]} /\ UNCHANGED responses
      /\ requests' = [requests EXCEPT ![c] = Tail(@)]
      /\ UNCHANGED <<clientVars, linkVars, answerVars>>
  BY DEF handle_request_msg, retrieve, Reply
<1>2. /\ requests' \in [Conns -> Seq(Requests)]
      /\ 1 \in 1..Len(requests[c]) /\ m = requests[c][1] /\ m \in Requests
      /\ \A d \in Conns : \A i \in 1..Len(requests'[d]) :
           IF d = c THEN i + 1 \in 2..Len(requests[d]) /\ requests'[d][i] = requests[d][i + 1]
                    ELSE i \in 1..Len(requests[d]) /\ requests'[d][i] = requests[d][i]
  <2>1. requests \in [Conns -> Seq(Requests)]
    BY DEF RpcInv, TypeOK
  <2> QED
    BY <1>1, <2>1, TailAt
<1>3. m.id \in Ids /\ m.call \in Calls /\ r \in Responses /\ r.id = m.id /\ r.body = Reply(m.call)
  <2>1. m.id \in Ids /\ m.call \in Calls
    BY <1>2 DEF Requests
  <2> HIDE DEF m
  <2> QED
    BY <2>1 DEF Responses, Reply
<1>4. IsRequest(m)
  BY <1>2 DEF RpcInv, RequestsOnce
<1> HIDE DEF m, r
<1>5. /\ handled' \in [Calls -> Nat] /\ handled'[m.call] = 1
      /\ \A k \in Calls \ {m.call} : handled'[k] = handled[k]
  BY <1>1, <1>3, <1>4 DEF RpcInv, TypeOK, IsRequest
<1>6. /\ m.id \in DOMAIN outstandings_ /\ outstandings_[m.id] = m.call /\ m.call \in called
      /\ \A i \in DOMAIN outstandings_ : outstandings_[i] = m.call => i = m.id
      /\ \A i \in DOMAIN outstandings_ : outstandings_[i] \in Calls
  BY <1>4 DEF RpcInv, TypeOK, OutstandingOnce, IsRequest
<1>7. ASSUME NEW x, IsResponse(x) PROVE x.id # m.id /\ IsResponse(x)'
  <2>1. outstandings_[x.id] # m.call /\ x.id # m.id /\ outstandings_[x.id] \in Calls
    BY <1>4, <1>6, <1>7 DEF IsResponse, IsRequest
  <2> QED
    BY <2>1, <1>1, <1>5, <1>7 DEF IsResponse, clientVars
<1>8. /\ \A d \in Conns : \A i \in 1..Len(responses[d]) : responses[d][i].id # m.id
      /\ \A d \in running : d.resp.id # m.id
  BY <1>7 DEF RpcInv, ResponsesOnce, RunningOnce
<1>9. ASSUME NEW x, x = r PROVE IsResponse(x)'
  BY <1>1, <1>3, <1>5, <1>6, <1>9 DEF IsResponse, clientVars
<1>10. CallersApart'
  <2>1. \A u \in Callers : InCall(u) => caller[u].call \in Calls /\ caller[u].call # m.call
    <3> SUFFICES ASSUME NEW u \in Callers, InCall(u)
                 PROVE  caller[u].call \in Calls /\ caller[u].call # m.call
      OBVIOUS
    <3>1. caller[u].call \in Calls
      BY CallerType DEF RpcInv
    <3>2. caller[u].id # m.id
      BY <1>4 DEF IsRequest
    <3>3. CASE caller[u].at = "register"
      BY <3>1, <3>3, <1>6 DEF RpcInv, CallersApart
    <3>4. CASE caller[u].at \in {"codec", "send"}
      BY <3>1, <3>2, <3>4, <1>6 DEF RpcInv, CallersApart
    <3> QED
      BY <3>3, <3>4 DEF InCall
  <2> QED
    BY <2>1, <1>1, <1>5 DEF RpcInv, CallersApart, InCall, clientVars
<1>11. RequestsOnce'
  <2> DEFINE at(d, i) == IF d = c THEN i + 1 ELSE i
  <2>a. \A d \in Conns : \A i \in 1..Len(requests'[d]) :
          /\ at(d, i) \in 1..Len(requests[d]) /\ requests'[d][i] = requests[d][at(d, i)]
          /\ d = c => at(d, i) # 1
    <3> SUFFICES ASSUME NEW d \in Conns, NEW i \in 1..Len(requests'[d])
                 PROVE  /\ at(d, i) \in 1..Len(requests[d]) /\ requests'[d][i] = requests[d][at(d, i)]
                        /\ d = c => at(d, i) # 1
      OBVIOUS
    <3>1. CASE d = c
      <4>1. i + 1 \in 2..Len(requests[d]) /\ requests'[d][i] = requests[d][i + 1]
        BY <1>2, <3>1
      <4> QED
        BY <4>1, <3>1
    <3>2. CASE d # c
      BY <1>2, <3>2
    <3> QED
      BY <3>1, <3>2
  <2>1. ASSUME NEW d \in Conns, NEW i \in 1..Len(requests'[d]) PROVE IsRequest(requests[d][i])'
    <3>1. PICK j \in 1..Len(requests[d]) : requests'[d][i] = requests[d][j] /\ (d = c => j # 1)
      <4>1. /\ at(d, i) \in 1..Len(requests[d]) /\ requests'[d][i] = requests[d][at(d, i)]
            /\ d = c => at(d, i) # 1
        BY <2>a, Zenon
      <4> HIDE DEF at
      <4> QED
        BY <4>1, Zenon
    <3>2. IsRequest(requests[d][j]) /\ requests[d][j].id # m.id
      BY <3>1, <1>2, SMTT(60) DEF RpcInv, RequestsOnce
    <3>3. requests[d][j].call # m.call /\ requests[d][j].call \in Calls
      BY <3>2, <1>6 DEF IsRequest
    <3> QED
      BY <3>1, <3>2, <3>3, <1>1, <1>5 DEF IsRequest, InCall, clientVars
  <2>2. ASSUME NEW d \in Conns, NEW e \in Conns, NEW i \in 1..Len(requests'[d]),
               NEW j \in 1..Len(requests'[e]), requests'[d][i].id = requests'[e][j].id
        PROVE  d = e /\ i = j
    <3>1. \A f, g \in Conns : \A x \in 1..Len(requests[f]), y \in 1..Len(requests[g]) :
            requests[f][x].id = requests[g][y].id => f = g /\ x = y
      BY DEF RpcInv, RequestsOnce
    <3>2. d = e /\ at(d, i) = at(e, j)
      <4>1. /\ at(d, i) \in 1..Len(requests[d]) /\ requests'[d][i] = requests[d][at(d, i)]
            /\ at(e, j) \in 1..Len(requests[e]) /\ requests'[e][j] = requests[e][at(e, j)]
        BY <2>a
      <4> HIDE DEF at
      <4>2. requests[d][at(d, i)].id = requests[e][at(e, j)].id
        BY <4>1, <2>2
      <4> QED
        BY <4>1, <4>2, <3>1, SMTT(60)
    <3> QED
      BY <3>2
  <2> QED
    BY <2>1, <2>2 DEF RequestsOnce
<1>12. HandledThenDone'
  <2> SUFFICES ASSUME NEW k \in Calls
               PROVE  /\ handled'[k] \in {0, 1} /\ dones'[k] \in {0, 1} /\ dones'[k] <= handled'[k]
                      /\ k \notin called' => handled'[k] = 0
    BY DEF HandledThenDone
  <2>1. /\ handled[k] \in {0, 1} /\ dones[k] \in {0, 1} /\ dones[k] <= handled[k]
        /\ k \notin called => handled[k] = 0
    BY DEF RpcInv, HandledThenDone
  <2>2. dones' = dones /\ called' = called
    BY <1>1 DEF clientVars, answerVars
  <2>3. CASE k = m.call
    BY <2>1, <2>2, <2>3, <1>5, <1>6
  <2>4. CASE k # m.call
    BY <2>1, <2>2, <2>4, <1>5
  <2> QED
    BY <2>3, <2>4
<1>13. OneConnection' /\ IdsRecent' /\ OutstandingOnce' /\ OwnAnswer'
  BY <1>1, Frames DEF clientVars, linkVars, answerVars
<1>14. CASE sendResponse(c, r) /\ UNCHANGED running
  <2>1. /\ responses' \in [Conns -> Seq(Responses)]
        /\ \A d \in Conns : \A i \in 1..Len(responses'[d]) :
             \/ responses'[d][i] = r
             \/ i \in 1..Len(responses[d]) /\ responses'[d][i] = responses[d][i]
        /\ \A d, e \in Conns : \A i \in 1..Len(responses'[d]), j \in 1..Len(responses'[e]) :
             responses'[d][i].id = responses'[e][j].id => d = e /\ i = j
    BY <1>3, <1>8, <1>14, SendResponseStep
  <2>2. TypeOK'
    BY <1>1, <1>2, <1>5, <1>14, <2>1 DEF RpcInv, TypeOK, clientVars, linkVars, answerVars
  <2>3. ResponsesOnce'
    <3>1. ASSUME NEW d \in Conns, NEW i \in 1..Len(responses'[d]) PROVE IsResponse(responses[d][i])'
      <4>1. CASE responses'[d][i] = r
        BY <4>1, <1>9
      <4>2. CASE i \in 1..Len(responses[d]) /\ responses'[d][i] = responses[d][i]
        <5>1. IsResponse(responses[d][i])
          BY <4>2 DEF RpcInv, ResponsesOnce
        <5> QED
          BY <5>1, <4>2, <1>7
      <4> QED
        BY <2>1, <4>1, <4>2
    <3> QED
      BY <2>1, <3>1 DEF ResponsesOnce
  <2>4. RunningOnce'
    <3>1. \A d \in running : IsResponse(d.resp)'
      BY <1>7 DEF RpcInv, RunningOnce
    <3>2. \A d \in running, e \in Conns : \A i \in 1..Len(responses'[e]) :
            responses'[e][i].id # d.resp.id
      <4> SUFFICES ASSUME NEW d \in running, NEW e \in Conns, NEW i \in 1..Len(responses'[e])
                   PROVE  responses'[e][i].id # d.resp.id
        OBVIOUS
      <4>1. CASE responses'[e][i] = r
        BY <4>1, <1>3, <1>8
      <4>2. CASE i \in 1..Len(responses[e]) /\ responses'[e][i] = responses[e][i]
        BY <4>2 DEF RpcInv, RunningOnce
      <4> QED
        BY <2>1, <4>1, <4>2
    <3> QED
      BY <3>1, <3>2, <1>14 DEF RpcInv, RunningOnce
  <2> QED
    BY <1>10, <1>11, <1>12, <1>13, <2>2, <2>3, <2>4 DEF RpcInv
<1>15. CASE running' = running \cup {[conn |-> c, resp |-> r]} /\ UNCHANGED responses
  <2> DEFINE n == [conn |-> c, resp |-> r]
  <2>1. n \in [conn : Conns, resp : Responses] /\ n.resp = r
    BY <1>3
  <2> HIDE DEF n
  <2>2. running' = running \cup {n} /\ responses' = responses
    BY <1>15 DEF n
  <2>3. TypeOK'
    <3>1. running' \subseteq [conn : Conns, resp : Responses]
      BY <2>1, <2>2 DEF RpcInv, TypeOK
    <3> QED
      BY <1>1, <1>2, <1>5, <2>2, <3>1 DEF RpcInv, TypeOK, clientVars, linkVars, answerVars
  <2>4. ResponsesOnce'
    BY <1>7, <2>2 DEF RpcInv, ResponsesOnce
  <2>5. RunningOnce'
    <3>1. ASSUME NEW d \in running' PROVE IsResponse(d.resp)'
      <4>1. CASE d = n
        BY <4>1, <2>1, <1>9
      <4>2. CASE d \in running
        BY <4>2, <1>7 DEF RpcInv, RunningOnce
      <4> QED
        BY <2>2, <4>1, <4>2
    <3>2. \A d, e \in running' : d.resp.id = e.resp.id => d = e
      BY <2>1, <2>2, <1>3, <1>8 DEF RpcInv, RunningOnce
    <3>3. \A d \in running', e \in Conns : \A i \in 1..Len(responses[e]) :
            responses[e][i].id # d.resp.id
      BY <2>1, <2>2, <1>3, <1>8 DEF RpcInv, RunningOnce
    <3> QED
      BY <2>2, <3>1, <3>2, <3>3 DEF RunningOnce
  <2> QED
    BY <1>10, <1>11, <1>12, <1>13, <2>3, <2>4, <2>5 DEF RpcInv
<1> QED
  BY <1>1, <1>14, <1>15

\* A closure the service kept is run: its response goes into transit.
LEMMA DoneCallbackStep == ASSUME RpcInv, NEW d \in running, doneCallback(d) PROVE RpcInv'
<1>1. /\ sendResponse(d.conn, d.resp) /\ running' = running \ {d}
      /\ UNCHANGED <<clientVars, linkVars, requests, answerVars, handled>>
      /\ d.conn \in Conns /\ d.resp \in Responses
  BY DEF doneCallback, RpcInv, TypeOK
<1>2. /\ IsResponse(d.resp)
      /\ \A e \in Conns : \A i \in 1..Len(responses[e]) : responses[e][i].id # d.resp.id
      /\ \A e \in running' : e.resp.id # d.resp.id
  BY <1>1 DEF RpcInv, RunningOnce
<1>3. /\ responses' \in [Conns -> Seq(Responses)]
      /\ \A e \in Conns : \A i \in 1..Len(responses'[e]) :
           \/ responses'[e][i] = d.resp
           \/ i \in 1..Len(responses[e]) /\ responses'[e][i] = responses[e][i]
      /\ \A e, f \in Conns : \A i \in 1..Len(responses'[e]), j \in 1..Len(responses'[f]) :
           responses'[e][i].id = responses'[f][j].id => e = f /\ i = j
  BY <1>1, <1>2, SendResponseStep
<1>4. TypeOK'
  BY <1>1, <1>3 DEF RpcInv, TypeOK, clientVars, linkVars, answerVars
<1>5. ASSUME NEW x, IsResponse(x) PROVE IsResponse(x)'
  BY <1>1, <1>5 DEF IsResponse, clientVars
<1>6. ResponsesOnce'
  <2>1. \A e \in Conns : \A i \in 1..Len(responses'[e]) : IsResponse(responses'[e][i])
    BY <1>2, <1>3 DEF RpcInv, ResponsesOnce
  <2>2. ASSUME NEW e \in Conns, NEW i \in 1..Len(responses'[e]) PROVE IsResponse(responses[e][i])'
    <3>1. IsResponse(responses'[e][i])
      BY <2>1
    <3> QED
      BY <3>1, <1>1 DEF IsResponse, clientVars
  <2> QED
    BY <1>3, <2>2 DEF ResponsesOnce
<1>7. RunningOnce'
  <2>1. \A e \in running' : IsResponse(e.resp)'
    BY <1>1, <1>5 DEF RpcInv, RunningOnce
  <2>2. \A e \in running', f \in Conns : \A i \in 1..Len(responses'[f]) :
          responses'[f][i].id # e.resp.id
    BY <1>1, <1>2, <1>3 DEF RpcInv, RunningOnce
  <2>3. \A e, f \in running' : e.resp.id = f.resp.id => e = f
    BY <1>1 DEF RpcInv, RunningOnce
  <2> QED
    BY <2>1, <2>2, <2>3 DEF RunningOnce
<1> QED
  BY <1>1, <1>4, <1>6, <1>7, Frames DEF RpcInv, clientVars, linkVars, answerVars

\* A response finds its call in outstandings_, and the closure sees its own answer.
LEMMA HandleResponseStep == ASSUME RpcInv, NEW c \in Conns, handle_response_msg(c) PROVE RpcInv'
<1> DEFINE m == Head(responses[c])
           k == outstandings_[m.id]
<1>1. /\ responses[c] # <<>>
      /\ responses' = [responses EXCEPT ![c] = Tail(@)]
      /\ UNCHANGED <<id_, conn_, caller, called, crashed, linkVars, requests, running, handled>>
  BY DEF handle_response_msg
<1>2. /\ responses' \in [Conns -> Seq(Responses)]
      /\ 1 \in 1..Len(responses[c]) /\ m = responses[c][1] /\ m \in Responses
      /\ \A d \in Conns : \A i \in 1..Len(responses'[d]) :
           IF d = c THEN i + 1 \in 2..Len(responses[d]) /\ responses'[d][i] = responses[d][i + 1]
                    ELSE i \in 1..Len(responses[d]) /\ responses'[d][i] = responses[d][i]
  <2>1. responses \in [Conns -> Seq(Responses)]
    BY DEF RpcInv, TypeOK
  <2> QED
    BY <1>1, <2>1, TailAt
<1>3. IsResponse(m)
  BY <1>2 DEF RpcInv, ResponsesOnce
<1>4. /\ m.id \in DOMAIN outstandings_ /\ handled[k] = 1 /\ m.body = Reply(k) /\ k \in Calls
      /\ dones[k] = 0
  BY <1>3 DEF IsResponse, RpcInv, TypeOK, OutstandingOnce
<1>5. /\ outstandings_' = [i \in DOMAIN outstandings_ \ {m.id} |-> outstandings_[i]]
      /\ dones' = [dones EXCEPT ![k] = @ + 1]
      /\ result' = [result EXCEPT ![k] = m.body]
  BY <1>4 DEF handle_response_msg
<1>6. m.body \in {Empty} \cup {Answer(j) : j \in Calls}
  BY <1>2 DEF Responses
<1> HIDE DEF m, k
<1>7. /\ DOMAIN outstandings_' = DOMAIN outstandings_ \ {m.id}
      /\ \A i \in DOMAIN outstandings_' : i # m.id /\ i \in DOMAIN outstandings_
                                          /\ outstandings_'[i] = outstandings_[i]
      /\ \A i \in DOMAIN outstandings_' : outstandings_[i] # k
  <2>1. \A i \in DOMAIN outstandings_ : outstandings_[i] = outstandings_[m.id] => i = m.id
    BY <1>4 DEF RpcInv, OutstandingOnce
  <2> QED
    BY <2>1, <1>5 DEF k
<1>8. TypeOK'
  <2>1. DOMAIN outstandings_' \subseteq Ids /\ \A i \in DOMAIN outstandings_' : outstandings_'[i] \in called'
    BY <1>1, <1>7 DEF RpcInv, TypeOK
  <2>2. dones' \in [Calls -> Nat]
    BY <1>4, <1>5 DEF RpcInv, TypeOK
  <2>3. result' \in [Calls -> {None, Empty} \cup {Answer(j) : j \in Calls}]
    BY <1>4, <1>5, <1>6 DEF RpcInv, TypeOK
  <2> QED
    BY <2>1, <2>2, <2>3, <1>1, <1>2 DEF RpcInv, TypeOK, linkVars
<1>9. IdsRecent'
  BY <1>1, <1>7 DEF RpcInv, IdsRecent, Age, InCall
<1>10. CallersApart'
  <2>1. \A u \in Callers : caller[u].at \in {"codec", "send"} => caller[u].id # m.id
    BY <1>4 DEF RpcInv, CallersApart, InCall, k
  <2> QED
    BY <2>1, <1>1, <1>7 DEF RpcInv, CallersApart, InCall
<1>11. OutstandingOnce'
  <2>1. \A i \in DOMAIN outstandings_' : outstandings_[i] \in Calls
    BY <1>7 DEF RpcInv, TypeOK
  <2>2. \A j \in Calls \ {k} : dones'[j] = dones[j]
    BY <1>5 DEF RpcInv, TypeOK
  <2> QED
    BY <2>1, <2>2, <1>7 DEF RpcInv, OutstandingOnce
<1>12. RequestsOnce'
  <2>1. ASSUME NEW x, IsRequest(x) PROVE IsRequest(x)'
    <3>1. x.id # m.id
      BY <2>1, <1>4 DEF IsRequest, k
    <3> QED
      BY <2>1, <3>1, <1>1, <1>7 DEF IsRequest, InCall
  <2> QED
    BY <2>1, <1>1 DEF RpcInv, RequestsOnce
<1>13. ASSUME NEW x, IsResponse(x), x.id # m.id PROVE IsResponse(x)'
  BY <1>13, <1>1, <1>7 DEF IsResponse
<1> DEFINE at(d, i) == IF d = c THEN i + 1 ELSE i
<1>14. \A d \in Conns : \A i \in 1..Len(responses'[d]) :
         /\ at(d, i) \in 1..Len(responses[d]) /\ responses'[d][i] = responses[d][at(d, i)]
         /\ d = c => at(d, i) # 1
  <2> SUFFICES ASSUME NEW d \in Conns, NEW i \in 1..Len(responses'[d])
               PROVE  /\ at(d, i) \in 1..Len(responses[d]) /\ responses'[d][i] = responses[d][at(d, i)]
                      /\ d = c => at(d, i) # 1
    OBVIOUS
  <2>1. CASE d = c
    <3>1. i + 1 \in 2..Len(responses[d]) /\ responses'[d][i] = responses[d][i + 1]
      BY <1>2, <2>1
    <3> QED
      BY <3>1, <2>1
  <2>2. CASE d # c
    BY <1>2, <2>2
  <2> QED
    BY <2>1, <2>2
<1>15. ResponsesOnce'
  <2>1. ASSUME NEW d \in Conns, NEW i \in 1..Len(responses'[d]) PROVE IsResponse(responses[d][i])'
    <3>1. PICK j \in 1..Len(responses[d]) : responses'[d][i] = responses[d][j] /\ (d = c => j # 1)
      <4>1. /\ at(d, i) \in 1..Len(responses[d]) /\ responses'[d][i] = responses[d][at(d, i)]
            /\ d = c => at(d, i) # 1
        BY <1>14, Zenon
      <4> HIDE DEF at
      <4> QED
        BY <4>1, Zenon
    <3>2. IsResponse(responses[d][j]) /\ responses[d][j].id # m.id
      BY <3>1, <1>2 DEF RpcInv, ResponsesOnce
    <3> QED
      BY <3>1, <3>2, <1>13
  <2>2. ASSUME NEW d \in Conns, NEW e \in Conns, NEW i \in 1..Len(responses'[d]),
               NEW j \in 1..Len(responses'[e]), responses'[d][i].id = responses'[e][j].id
        PROVE  d = e /\ i = j
    <3>1. \A f, g \in Conns : \A x \in 1..Len(responses[f]), y \in 1..Len(responses[g]) :
            responses[f][x].id = responses[g][y].id => f = g /\ x = y
      BY DEF RpcInv, ResponsesOnce
    <3>2. d = e /\ at(d, i) = at(e, j)
      <4>1. /\ at(d, i) \in 1..Len(responses[d]) /\ responses'[d][i] = responses[d][at(d, i)]
            /\ at(e, j) \in 1..Len(responses[e]) /\ responses'[e][j] = responses[e][at(e, j)]
        BY <1>14
      <4> HIDE DEF at
      <4>2. responses[d][at(d, i)].id = responses[e][at(e, j)].id
        BY <4>1, <2>2
      <4> QED
        BY <4>1, <4>2, <3>1, SMTT(60)
    <3> QED
      BY <3>2
  <2> QED
    BY <2>1, <2>2 DEF ResponsesOnce
<1>16. RunningOnce'
  <2>1. \A d \in running : IsResponse(d.resp) /\ d.resp.id # m.id
    BY <1>2 DEF RpcInv, RunningOnce
  <2>2. \A d \in running : IsResponse(d.resp)'
    BY <2>1, <1>13
  <2>3. \A d \in running, e \in Conns : \A i \in 1..Len(responses'[e]) :
          responses'[e][i].id # d.resp.id
    <3> SUFFICES ASSUME NEW d \in running, NEW e \in Conns, NEW i \in 1..Len(responses'[e])
                 PROVE  responses'[e][i].id # d.resp.id
      OBVIOUS
    <3>1. at(e, i) \in 1..Len(responses[e]) /\ responses'[e][i] = responses[e][at(e, i)]
      BY <1>14
    <3> HIDE DEF at
    <3> QED
      BY <3>1 DEF RpcInv, RunningOnce
  <2> QED
    BY <2>2, <2>3, <1>1 DEF RpcInv, RunningOnce
<1>17. HandledThenDone'
  <2> SUFFICES ASSUME NEW j \in Calls
               PROVE  /\ handled'[j] \in {0, 1} /\ dones'[j] \in {0, 1} /\ dones'[j] <= handled'[j]
                      /\ j \notin called' => handled'[j] = 0
    BY DEF HandledThenDone
  <2>1. /\ handled[j] \in {0, 1} /\ dones[j] \in {0, 1} /\ dones[j] <= handled[j]
        /\ j \notin called => handled[j] = 0
    BY DEF RpcInv, HandledThenDone
  <2>2. dones'[j] = IF j = k THEN 1 ELSE dones[j]
    BY <1>4, <1>5 DEF RpcInv, TypeOK
  <2> QED
    BY <2>1, <2>2, <1>1, <1>4
<1>18. OwnAnswer'
  BY <1>4, <1>5 DEF RpcInv, TypeOK, OwnAnswer, Reply
<1> QED
  BY <1>1, <1>8, <1>9, <1>10, <1>11, <1>12, <1>15, <1>16, <1>17, <1>18, Frames DEF RpcInv, linkVars

\* Every step of the callers, the connections, the server and the client's loop
\* keeps the invariant.
LEMMA RpcInvStep == RpcInv /\ [Next]_vars => RpcInv'
<1> SUFFICES ASSUME RpcInv, [Next]_vars PROVE RpcInv'
  OBVIOUS
<1>1. CASE UNCHANGED vars
  <2>1. TypeOK'
    BY <1>1 DEF RpcInv, TypeOK, vars, clientVars, linkVars, wireVars, answerVars
  <2> QED
    BY <1>1, <2>1, Frames DEF RpcInv, vars, clientVars, linkVars, wireVars, answerVars
<1>2. CASE Next
  BY <1>2, LinkStep, BreakStep, CallMethodStep, RegisterStep, CodecSendStep, CrashStep, SendStep,
     HandleRequestStep, DoneCallbackStep, HandleResponseStep DEF Next, CallStep, NetStep
<1> QED
  BY <1>1, <1>2

\* The invariant holds in every reachable state.
THEOREM RpcInvariant == Spec => []RpcInv
  BY RpcInvInit, RpcInvStep, PTL DEF Spec

-----------------------------------------------------------------------------
\* The variables keep their types; in particular every message in transit is a
\* request or a response of a call with a number id_ gives out.
THEOREM TypeCorrect == Spec => []TypeOK
<1>1. RpcInv => TypeOK
  BY DEF RpcInv
<1> QED
  BY <1>1, RpcInvariant, PTL

\* The closure of a call sees the answer to that call and to no other.
THEOREM EveryCallOwnAnswer == Spec => []OwnAnswer
<1>1. RpcInv => OwnAnswer
  BY DEF RpcInv
<1> QED
  BY <1>1, RpcInvariant, PTL

\* A response that arrives finds its call in outstandings_.
THEOREM EveryResponseExpected == Spec => []ResponsesExpected
<1>1. RpcInv => ResponsesExpected
  <2> SUFFICES ASSUME RpcInv, NEW c \in Conns
               PROVE  \A i \in DOMAIN responses[c] : responses[c][i].id \in DOMAIN outstandings_
    BY DEF ResponsesExpected
  <2>1. DOMAIN responses[c] = 1..Len(responses[c])
    BY DEF RpcInv, TypeOK
  <2> QED
    BY <2>1 DEF RpcInv, ResponsesOnce, IsResponse
<1> QED
  BY <1>1, RpcInvariant, PTL

\* When the calls wait for the first connection, a thread in CallMethod() has one to send
\* on: conn_, or one that was in conn_ before.
Senders ==
  /\ \A t \in Callers : CallersWait /\ InCall(t) => conn_ # Null
  /\ \A t \in Callers : caller[t].at = "send" =>
       caller[t].conn <= conn_ /\ (CallersWait => caller[t].conn # Null)

\* conn_ is only replaced by a later connection, and codecSend() copies it.
LEMMA SendersStep == ASSUME RpcInv, Senders, [Next]_vars PROVE Senders'
<1>1. conn_ \in {Null} \cup Conns
  BY DEF RpcInv, TypeOK
<1>2. ASSUME UNCHANGED <<conn_, caller>> PROVE Senders'
  BY <1>2 DEF Senders, InCall
<1>3. ASSUME NEW c \in Conns, clientUp(c) PROVE Senders'
  <2>1. conn_' = c /\ conn_ <= c /\ UNCHANGED caller
    BY <1>1, <1>3 DEF clientUp, Connects, RpcInv, OneConnection
  <2>2. \A t \in Callers : caller[t].at = "send" => caller[t].conn \in {Null} \cup Conns
    BY CallerType DEF RpcInv
  <2> QED
    BY <1>1, <2>1, <2>2 DEF Senders, InCall
<1>4. ASSUME NEW t \in Callers, NEW k \in Calls, CallMethod(t, k) PROVE Senders'
  <2>1. /\ caller'[t].at = "register" /\ UNCHANGED conn_ /\ (CallersWait => conn_ # Null)
        /\ \A u \in Callers \ {t} : caller'[u] = caller[u]
    BY <1>4 DEF CallMethod, RpcInv, TypeOK
  <2> QED
    BY <2>1 DEF Senders, InCall
<1>5. ASSUME NEW t \in Callers, register(t) PROVE Senders'
  <2>1. caller[t].at = "register" /\ InCall(t) /\ UNCHANGED conn_ /\ caller' = [caller EXCEPT ![t].at = "codec"]
    BY <1>5 DEF register, Step, InCall
  <2>2. caller[t].conn \in {Null} \cup Conns
    BY <2>1, CallerType DEF RpcInv
  <2>3. caller'[t].at = "codec" /\ \A u \in Callers \ {t} : caller'[u] = caller[u]
    BY <2>1, <2>2, StepEffect DEF RpcInv
  <2> QED
    BY <2>1, <2>3 DEF Senders, InCall
<1>6. ASSUME NEW t \in Callers, codecSend(t) PROVE Senders'
  <2>1. /\ InCall(t) /\ UNCHANGED conn_
        /\ caller' = [caller EXCEPT ![t].at = "send", ![t].conn = conn_]
    BY <1>6 DEF codecSend, InCall
  <2>2. /\ caller'[t].at = "send" /\ caller'[t].conn = conn_
        /\ \A u \in Callers \ {t} : caller'[u] = caller[u]
    BY <1>1, <2>1, StepEffect DEF RpcInv
  <2>3. \A u \in Callers \ {t} : (InCall(u)' <=> InCall(u)) /\ caller'[u].at = caller[u].at
                                 /\ caller'[u].conn = caller[u].conn
    BY <2>2 DEF InCall
  <2>4. conn_ <= conn_ /\ (CallersWait => conn_ # Null)
    BY <1>1, <2>1 DEF Senders
  <2>5. \A u \in Callers : CallersWait /\ InCall(u)' => conn_' # Null
    BY <2>1, <2>4
  <2>6. \A u \in Callers : caller'[u].at = "send" =>
          caller'[u].conn <= conn_' /\ (CallersWait => caller'[u].conn # Null)
    BY <2>1, <2>2, <2>3, <2>4 DEF Senders
  <2> QED
    BY <2>5, <2>6 DEF Senders
<1>7. ASSUME NEW t \in Callers, send(t) PROVE Senders'
  <2>1. UNCHANGED conn_ /\ (caller' = caller \/ caller' = [caller EXCEPT ![t] = Idle])
    BY <1>7 DEF send
  <2>2. \A u \in Callers : caller'[u] = caller[u] \/ caller'[u].at = "idle"
    BY <2>1 DEF RpcInv, TypeOK, Idle
  <2> QED
    BY <2>1, <2>2 DEF Senders, InCall
<1>8. ASSUME NEW c \in Conns, NetStep(c) \/ break(c) PROVE UNCHANGED <<conn_, caller>>
  BY <1>8 DEF NetStep, onConnection, clientDown, break, handle_request_msg, handle_response_msg,
              clientVars
<1>9. ASSUME NEW d \in running, doneCallback(d) PROVE UNCHANGED <<conn_, caller>>
  BY <1>9 DEF doneCallback, clientVars
<1>10. CASE UNCHANGED vars
  BY <1>2, <1>10 DEF vars, clientVars
<1> QED
  BY <1>2, <1>3, <1>4, <1>5, <1>6, <1>7, <1>8, <1>9, <1>10 DEF Next, CallStep

\* Nothing happens after a crash, and the one step that crashes finds the connection it
\* uses neither in conn_ nor up.
LEMMA CrashExplained ==
  ASSUME RpcInv, Senders, CrashNeedsReplacement, [Next]_vars PROVE CrashNeedsReplacement'
<1>1. ASSUME NEW t \in Callers, send(t), ~Lives(caller[t].conn), CallersWait
      PROVE  /\ caller'[t].at = "send" /\ Null < caller'[t].conn /\ caller'[t].conn < conn_'
             /\ broken'[caller'[t].conn]
  <2>1. caller[t].at = "send" /\ UNCHANGED <<caller, conn_, broken>>
    BY <1>1 DEF send, linkVars
  <2>2. caller[t].conn \in Conns /\ caller[t].conn <= conn_ /\ caller[t].conn # conn_
    BY <1>1, <2>1, CallerType DEF RpcInv, Senders, Lives
  <2>3. conn_ \in {Null} \cup Conns
    BY DEF RpcInv, TypeOK
  <2> QED
    BY <2>1, <2>2, <2>3 DEF RpcInv, OneConnection
<1>2. ASSUME NEW t \in Callers, send(t), Lives(caller[t].conn) PROVE crashed' = crashed
  BY <1>2 DEF send
<1>3. ASSUME NEW t \in Callers, send(t), ~crashed PROVE CrashNeedsReplacement'
  BY <1>1, <1>2, <1>3 DEF CrashNeedsReplacement
<1>4. ASSUME NEW t \in Callers, register(t) \/ codecSend(t) \/ \E k \in Calls : CallMethod(t, k)
      PROVE  crashed' = crashed
  BY <1>4 DEF register, codecSend, CallMethod
<1>5. ASSUME NEW c \in Conns, NetStep(c) \/ clientUp(c) \/ break(c) PROVE crashed' = crashed
  BY <1>5 DEF NetStep, onConnection, clientDown, clientUp, Connects, break, handle_request_msg,
              handle_response_msg, clientVars
<1>6. ASSUME NEW d \in running, doneCallback(d) PROVE crashed' = crashed
  BY <1>6 DEF doneCallback, clientVars
<1>7. CASE UNCHANGED vars
  BY <1>7 DEF CrashNeedsReplacement, vars, clientVars, linkVars
<1>8. CASE Next
  <2>1. ~crashed
    BY <1>8 DEF Next, Running
  <2>2. crashed' = crashed => CrashNeedsReplacement'
    BY <2>1 DEF CrashNeedsReplacement
  <2> QED
    BY <1>3, <1>4, <1>5, <1>6, <1>8, <2>1, <2>2 DEF Next, CallStep
<1> QED
  BY <1>7, <1>8

\* The only use of a TcpConnection that does not exist is a send() on the one that was in
\* conn_ before, and neither the null pointer nor a connection that has only ended is used.
THEOREM CrashOnlyAfterReplacement == Spec => []CrashNeedsReplacement
<1>1. Init => Senders /\ CrashNeedsReplacement
  BY DEF Init, Senders, InCall, Idle, CrashNeedsReplacement
<1>2. RpcInv /\ Senders /\ CrashNeedsReplacement /\ [Next]_vars => Senders' /\ CrashNeedsReplacement'
  BY SendersStep, CrashExplained
<1> QED
  BY <1>1, <1>2, RpcInvariant, PTL DEF Spec

\* The framework implements RpcCalls: it handles a call that was made at most
\* once and runs its closure at most once, after the server handled it.
THEOREM ChannelImplementsRpcCalls == Spec => ImplementsRpcCalls
<1>1. Init => Rpc!Init
  BY DEF Init, Rpc!Init
<1>2. RpcInv /\ [Next]_vars => [Rpc!Next]_(Rpc!vars)
  <2> SUFFICES ASSUME RpcInv, [Next]_vars PROVE Rpc!Next \/ UNCHANGED <<called, handled, dones>>
    BY DEF Rpc!vars
  <2>1. ASSUME NEW t \in Callers, NEW k \in Calls, CallMethod(t, k) PROVE Rpc!Next
    <3>1. Rpc!Call(k)
      BY <2>1 DEF CallMethod, answerVars, Rpc!Call
    <3> QED
      BY <3>1 DEF Rpc!Next
  <2>2. ASSUME NEW c \in Conns, handle_request_msg(c) PROVE Rpc!Next
    <3> DEFINE m == Head(requests[c])
    <3>1. /\ requests[c] \in Seq(Requests) /\ requests[c] # <<>>
          /\ handled' = [handled EXCEPT ![m.call] = @ + 1]
          /\ UNCHANGED <<called, dones>>
      BY <2>2 DEF RpcInv, TypeOK, handle_request_msg, clientVars, answerVars
    <3>2. 1 \in 1..Len(requests[c]) /\ m = requests[c][1] /\ m \in Requests
      BY <3>1
    <3>3. m.call \in Calls
      BY <3>2 DEF Requests
    <3>4. IsRequest(m)
      BY <3>2 DEF RpcInv, RequestsOnce
    <3> HIDE DEF m
    <3>5. Rpc!Handle(m.call)
      BY <3>1, <3>4 DEF RpcInv, TypeOK, IsRequest, Rpc!Handle
    <3> QED
      BY <3>3, <3>5 DEF Rpc!Next
  <2>3. ASSUME NEW c \in Conns, handle_response_msg(c) PROVE Rpc!Next
    <3> DEFINE m == Head(responses[c])
               k == outstandings_[m.id]
    <3>1. responses[c] \in Seq(Responses) /\ responses[c] # <<>> /\ UNCHANGED <<called, handled>>
      BY <2>3 DEF RpcInv, TypeOK, handle_response_msg
    <3>2. 1 \in 1..Len(responses[c]) /\ m = responses[c][1]
      BY <3>1
    <3>3. IsResponse(m)
      BY <3>2 DEF RpcInv, ResponsesOnce
    <3>4. k \in Calls /\ handled[k] = 1 /\ dones[k] = 0
      BY <3>3 DEF RpcInv, TypeOK, OutstandingOnce, IsResponse
    <3>5. dones' = [dones EXCEPT ![k] = @ + 1]
      BY <2>3, <3>3 DEF handle_response_msg, IsResponse
    <3> HIDE DEF k
    <3>6. Rpc!Return(k)
      BY <3>1, <3>4, <3>5 DEF Rpc!Return
    <3> QED
      BY <3>4, <3>6 DEF Rpc!Next
  <2>4. ASSUME NEW t \in Callers, CallStep(t) PROVE UNCHANGED <<called, handled, dones>>
    BY <2>4 DEF CallStep, register, codecSend, send, answerVars
  <2>5. ASSUME NEW c \in Conns, onConnection(c) \/ clientDown(c) \/ clientUp(c) \/ break(c)
        PROVE  UNCHANGED <<called, handled, dones>>
    BY <2>5 DEF onConnection, clientDown, clientUp, Connects, break, clientVars, answerVars
  <2>6. ASSUME NEW d \in running, doneCallback(d) PROVE UNCHANGED <<called, handled, dones>>
    BY <2>6 DEF doneCallback, clientVars, answerVars
  <2>7. CASE UNCHANGED vars
    BY <2>7 DEF vars, clientVars, answerVars
  <2> QED
    BY <2>1, <2>2, <2>3, <2>4, <2>5, <2>6, <2>7 DEF Next, NetStep
<1> QED
  BY <1>1, <1>2, RpcInvariant, PTL DEF Spec, ImplementsRpcCalls, Rpc!Spec
=============================================================================
