--------------------------- MODULE TcpClientProofs ---------------------------
(***************************************************************************)
(* Theorems about TcpClient for any number of descriptors and calls, if    *)
(* connect() is called once and not from the connection callback.          *)
(***************************************************************************)
EXTENDS TcpClient, FiniteSetTheorems, TLAPS

USE BoundsAssumption DEF Fds, Null

\* What the code asks of its user: startInLoop() asserts kDisconnected.
ConnectedOnce == ConnectOnce /\ "connect" \notin CallbackOps

\* Callbacks.
Start == <<"startInLoop">>
Reset == <<"resetChannel">>
FClose(f) == <<"forceClose", f>>
Destroy(f) == <<"connectDestroyed", f>>

-----------------------------------------------------------------------------
(* The inductive invariant.  First the types.                              *)

Flags == /\ clientConnect_ \in BOOLEAN /\ retry_ \in BOOLEAN /\ connect_ \in BOOLEAN
         /\ armed \in BOOLEAN /\ stopped \in BOOLEAN /\ destroyed \in BOOLEAN
         /\ aborted \in BOOLEAN
Refs ==
  /\ connection_ \in {Null} \cup Fds /\ orphan \in {Null} \cup Fds /\ channel_ \in {Null} \cup Fds
  /\ state_ \in {"kDisconnected", "kConnecting", "kConnected"}
  /\ fds \in [Fds -> {"free", "connecting", "owned", "ended", "released", "kept"}]
QueueOK == pending \in Seq(Functors) /\ batch \in Seq(Functors)
Phases ==
  /\ phase \in {"poll", "handle", "functors"} /\ (batch # <<>> => phase = "functors")
  /\ \A f \in Fds : fds[f] = "released" => phase = "functors"
  /\ ready \subseteq {"OUT", "ERR", "end"} /\ (ready # {} => phase = "handle")
Cbs ==
  /\ cb \in {"none", "up", "down", "remove", "reconnect", "restart", "start"}
  /\ cb \in {"up", "down", "remove"} => Conn # Null
Users ==
  /\ call \in {"idle", "connect", "stop", "queueStart", "queueStop"}
  /\ calls \in 0..MaxCalls /\ connects \in 0..MaxCalls /\ connects <= calls

\* The parts of SocketsAccounted.
Connecting == \A f \in Fds : fds[f] = "connecting" <=> (state_ = "kConnecting" /\ channel_ = f)
Owned == \A f \in Fds : fds[f] = "owned" <=> Conn = f
Ended == \A f \in Fds : Queued(Destroy(f)) = IF fds[f] = "ended" THEN 1 ELSE 0
OrphanCloses ==
  \A f \in Fds : orphan = f => held = f \/ Queued(FClose(f)) # 0 \/ cb \in {"down", "remove"}
Armed == armed <=> state_ = "kConnecting"
ResetOnce == Queued(Reset) = IF channel_ # Null /\ ~armed THEN 1 ELSE 0

\* Before ~TcpClient() the connection is connection_, after it orphan, and the
\* Connector is at rest.
Owner ==
  /\ ~destroyed => orphan = Null
  /\ destroyed => /\ connection_ = Null /\ channel_ = Null /\ state_ # "kConnecting"
                  /\ call = "idle" /\ cb \in {"none", "down", "remove"}

\* Until startInLoop() has run nothing has been attempted; it runs once.
Unstarted == connects = 0 \/ call \in {"connect", "queueStart"} \/ Queued(Start) # 0
StartOnce ==
  /\ Unstarted => /\ state_ = "kDisconnected" /\ channel_ = Null /\ Conn = Null /\ cb = "none"
                  /\ ~destroyed
  /\ connects = 0 => call \notin {"connect", "queueStart"}
  /\ connects = 0 \/ call \in {"connect", "queueStart"} => Queued(Start) = 0
  /\ Queued(Start) <= 1

\* An attempt is made only without a connection; only an attempt's channel
\* reports that it can be written, and only a connection ends.
Attempt ==
  /\ state_ = "kConnecting" => channel_ # Null /\ Conn = Null /\ cb = "none"
  /\ "OUT" \in ready => state_ = "kConnecting"
  /\ "end" \in ready => ready = {"end"} /\ Conn # Null /\ channel_ = Null /\ cb = "none"
  /\ cb = "start" => state_ = "kDisconnected"

NoForce == \A f \in Fds : Queued(FClose(f)) = 0

\* The Connector has no channel when a connection ends.
Callbacks ==
  /\ cb = "up" => ~destroyed /\ phase = "handle" /\ "end" \notin ready /\ NoForce
  /\ cb \in {"down", "remove", "reconnect", "restart", "start"} => channel_ = Null
  /\ cb \in {"reconnect", "restart", "start"} => Conn = Null /\ ~destroyed

\* While the client exists a forceClose() waits only for its connection, and is
\* run in the same turn of the loop as it is queued.
Forces ==
  ~destroyed =>
    /\ \A f \in Fds : Queued(FClose(f)) # 0 => connection_ = f
    /\ \A f \in Fds : Queued(FClose(f)) <= 1
    /\ \A i \in 1..Len(pending) : \A f \in Fds : pending[i] = FClose(f) => phase = "handle"
    /\ "end" \in ready \/ cb \in {"down", "remove"} => NoForce

\* resetChannel() of the attempt that made the connection runs before the connection
\* can end.
ResetFirst(s) ==
  \E i \in 1..Len(s) : /\ s[i] = Reset
                       /\ \A j \in 1..Len(s) : \A f \in Fds : s[j] = FClose(f) => i < j
ResetBeforeEnd ==
  Conn # Null /\ channel_ # Null =>
    (phase = "handle" /\ ResetFirst(pending)) \/ (phase = "functors" /\ ResetFirst(batch))

\* The user's pointer is to a connection that exists, and keeps it alive at its end.
Held ==
  /\ held \in {Null} \cup Fds
  /\ \A f \in Fds : fds[f] = "kept" => held = f
  /\ \A f \in Fds : held = f => fds[f] \in {"owned", "ended", "released", "kept"}

ClientInv ==
  /\ ConnectedOnce
  /\ Flags /\ Refs /\ QueueOK /\ Phases /\ Cbs /\ Users
  /\ NoAbort
  /\ Connecting /\ Owned /\ Ended /\ OrphanCloses /\ Armed /\ ResetOnce
  /\ Owner /\ StartOnce /\ Attempt /\ Callbacks /\ Forces /\ ResetBeforeEnd

-----------------------------------------------------------------------------
\* How often f is in s.
Places(s, f) == {i \in DOMAIN s : s[i] = f}
Count(s, f) == Cardinality(Places(s, f))

\* A count is a number, and 0 for what is not there.
LEMMA CountNat ==
  ASSUME NEW S, NEW s \in Seq(S), NEW f
  PROVE  /\ IsFiniteSet(Places(s, f)) /\ Count(s, f) \in Nat
         /\ Count(s, f) = 0 <=> \A i \in 1..Len(s) : s[i] # f
<1>1. Places(s, f) = {i \in 1..Len(s) : s[i] = f} /\ Len(s) \in Nat
  BY DEF Places
<1>2. IsFiniteSet(1..Len(s))
  BY <1>1, FS_Interval
<1>3. IsFiniteSet(Places(s, f))
  <2>1. Places(s, f) \in SUBSET (1..Len(s))
    BY <1>1
  <2> QED BY <1>2, <2>1, FS_Subset
<1>4. Count(s, f) \in Nat
  BY <1>3, FS_CardinalityType DEF Count
<1>5. Count(s, f) = 0 <=> Places(s, f) = {}
  BY <1>3, FS_EmptySet DEF Count
<1> QED BY <1>1, <1>3, <1>4, <1>5, Zenon

\* Nothing is in the empty sequence.
LEMMA CountEmpty ==
  ASSUME NEW f
  PROVE  Count(<<>>, f) = 0
<1>1. <<>> \in Seq({}) /\ Len(<<>>) = 0 /\ 1..0 = {}
  OBVIOUS
<1> QED BY <1>1, CountNat

\* Append() adds one.
LEMMA CountAppend ==
  ASSUME NEW S, NEW s \in Seq(S), NEW g \in S, NEW f
  PROVE  Count(Append(s, g), f) = IF f = g THEN Count(s, f) + 1 ELSE Count(s, f)
<1> DEFINE t == Append(s, g)
           n == Len(s) + 1
           P == Places(s, f)
           Q == Places(t, f)
<1>1. /\ DOMAIN t = 1..n /\ Len(s) \in Nat /\ n \in Nat
      /\ t[n] = g /\ \A i \in 1..Len(s) : t[i] = s[i] /\ i \in 1..n
      /\ \A i \in 1..n : i # n => i \in 1..Len(s)
      /\ DOMAIN s = 1..Len(s) /\ n \in 1..n /\ n \notin 1..Len(s)
  OBVIOUS
<1> HIDE DEF t, n
<1>2. IsFiniteSet(P)
  BY CountNat
<1>3. n \notin P
  BY <1>1 DEF Places
<1>4. CASE f = g
  <2>1. Q = P \cup {n}
    BY <1>1, <1>4, Zenon DEF Places
  <2> QED BY <1>2, <1>3, <1>4, <2>1, FS_AddElement DEF Count, t
<1>5. CASE f # g
  <2>1. Q = P
    BY <1>1, <1>5, Zenon DEF Places
  <2> QED BY <1>5, <2>1 DEF Count, t
<1> QED BY <1>4, <1>5

\* Tail() takes the first away.
LEMMA CountTail ==
  ASSUME NEW S, NEW s \in Seq(S), s # <<>>, NEW f
  PROVE  /\ Head(s) \in S /\ Tail(s) \in Seq(S)
         /\ Count(s, f) = IF f = Head(s) THEN Count(Tail(s), f) + 1 ELSE Count(Tail(s), f)
<1> DEFINE t == Tail(s)
           P == Places(t, f)
           Q == Places(s, f) \ {1}
           h == [i \in P |-> i + 1]
<1>0. Head(s) \in S /\ t \in Seq(S) /\ Head(s) = s[1] /\ 1 \in DOMAIN s
  OBVIOUS
<1>1. /\ P = {i \in 1..Len(t) : t[i] = f} /\ Len(t) \in Nat
      /\ Q = {i \in 2..(Len(t) + 1) : s[i] = f}
      /\ \A i \in 1..Len(t) : t[i] = s[i + 1]
  <2>1. DOMAIN t = 1..Len(t) /\ DOMAIN s = 1..(Len(t) + 1) /\ Len(t) \in Nat
    BY <1>0
  <2>2. \A i \in 1..Len(t) : t[i] = s[i + 1]
    OBVIOUS
  <2> HIDE DEF t
  <2>3. Q = {i \in 2..(Len(t) + 1) : s[i] = f}
    BY <2>1 DEF Places
  <2> QED BY <2>1, <2>2, <2>3 DEF Places
<1> HIDE DEF t, P, Q
<1>2. h \in Bijection(P, Q)
  <2>1. h \in [P -> Q]
    <3>1. ASSUME NEW i \in P PROVE i + 1 \in Q
      BY <1>1
    <3> QED BY <3>1
  <2>2. ASSUME NEW i \in P, NEW j \in P, h[i] = h[j] PROVE i = j
    BY <1>1, <2>2
  <2>3. ASSUME NEW j \in Q PROVE \E i \in P : h[i] = j
    <3>1. j - 1 \in P /\ (j - 1) + 1 = j
      BY <1>1
    <3> QED BY <3>1
  <2>4. DOMAIN h = P
    OBVIOUS
  <2> HIDE DEF h
  <2> QED BY <2>1, <2>2, <2>3, <2>4, Zenon DEF Bijection, Injection, Surjection, IsInjective
<1>3. IsFiniteSet(P) /\ Cardinality(Q) = Cardinality(P)
  <2>1. IsFiniteSet(P)
    BY <1>0, CountNat DEF P
  <2>2. ExistsBijection(P, Q)
    BY <1>2 DEF ExistsBijection
  <2> QED BY <2>1, <2>2, FS_Bijection
<1>4. IsFiniteSet(Places(s, f)) /\ Count(s, f) \in Nat
  BY CountNat
<1>5. 1 \in Places(s, f) <=> f = Head(s)
  BY <1>0 DEF Places
<1>6. Cardinality(Q) = IF 1 \in Places(s, f) THEN Count(s, f) - 1 ELSE Count(s, f)
  BY <1>4, FS_RemoveElement DEF Q, Count
<1>7. Count(t, f) = Cardinality(P) /\ Count(t, f) \in Nat
  BY <1>0, CountNat DEF Count, P
<1> QED BY <1>0, <1>3, <1>4, <1>5, <1>6, <1>7 DEF t

\* Queued() by the two counts.
LEMMA QueuedIs ==
  ASSUME NEW f
  PROVE  Queued(f) = Count(pending, f) + Count(batch, f)
  BY DEF Queued, Count, Places

\* Queued(f) is a number, and 0 if f waits nowhere.
LEMMA QueuedNat ==
  ASSUME QueueOK, NEW f
  PROVE  /\ Queued(f) \in Nat
         /\ Queued(f) = 0 <=> /\ \A i \in 1..Len(pending) : pending[i] # f
                             /\ \A i \in 1..Len(batch) : batch[i] # f
<1>1. /\ Count(pending, f) \in Nat /\ Count(batch, f) \in Nat
      /\ Count(pending, f) = 0 <=> \A i \in 1..Len(pending) : pending[i] # f
      /\ Count(batch, f) = 0 <=> \A i \in 1..Len(batch) : batch[i] # f
  BY CountNat DEF QueueOK
<1>2. Queued(f) \in Nat /\ (Queued(f) = 0 <=> Count(pending, f) = 0 /\ Count(batch, f) = 0)
  BY <1>1, QueuedIs
<1> QED BY <1>1, <1>2, Zenon

\* A step that queues and runs nothing.
LEMMA QueuedSame ==
  ASSUME UNCHANGED <<pending, batch>>, NEW f
  PROVE  Queued(f)' = Queued(f)
  BY Zenon DEF Queued

\* queueInLoop().
LEMMA QueuedAppend ==
  ASSUME QueueOK, NEW g \in Functors, pending' = Append(pending, g), batch' = batch, NEW f
  PROVE  Queued(f)' = IF f = g THEN Queued(f) + 1 ELSE Queued(f)
<1>1. Queued(f) = Count(pending, f) + Count(batch, f)
  BY QueuedIs
<1>2. Queued(f)' = Count(Append(pending, g), f) + Count(batch, f)
  <2>1. Queued(f)' = Count(pending', f) + Count(batch', f)
    BY DEF Queued, Count, Places
  <2> QED BY <2>1
<1>3. Count(Append(pending, g), f) = IF f = g THEN Count(pending, f) + 1 ELSE Count(pending, f)
  BY CountAppend DEF QueueOK
<1>4. Count(pending, f) \in Nat /\ Count(batch, f) \in Nat
  BY CountNat DEF QueueOK
<1> QED BY <1>1, <1>2, <1>3, <1>4

\* The swap of doPendingFunctors().
LEMMA QueuedSwap ==
  ASSUME QueueOK, batch = <<>>, batch' = pending, pending' = <<>>, NEW f
  PROVE  Queued(f)' = Queued(f)
<1>1. Queued(f)' = Count(<<>>, f) + Count(pending, f)
  <2>1. Queued(f)' = Count(pending', f) + Count(batch', f)
    BY DEF Queued, Count, Places
  <2> QED BY <2>1
<1>2. Queued(f) = Count(pending, f) + Count(<<>>, f)
  BY QueuedIs
<1>3. Count(pending, f) \in Nat /\ Count(<<>>, f) = 0
  BY CountNat, CountEmpty DEF QueueOK
<1> QED BY <1>1, <1>2, <1>3

\* The first callback of the batch is run.
LEMMA QueuedRun ==
  ASSUME QueueOK, batch # <<>>, batch' = Tail(batch), pending' = pending, NEW f
  PROVE  Queued(f)' = IF f = Head(batch) THEN Queued(f) - 1 ELSE Queued(f)
<1>1. Queued(f)' = Count(pending, f) + Count(Tail(batch), f)
  <2>1. Queued(f)' = Count(pending', f) + Count(batch', f)
    BY DEF Queued, Count, Places
  <2> QED BY <2>1
<1>2. Queued(f) = Count(pending, f) + Count(batch, f)
  BY QueuedIs
<1>3. /\ Tail(batch) \in Seq(Functors)
      /\ Count(batch, f) = IF f = Head(batch) THEN Count(Tail(batch), f) + 1
                                              ELSE Count(Tail(batch), f)
  BY CountTail DEF QueueOK
<1>4. Count(pending, f) \in Nat /\ Count(batch, f) \in Nat /\ Count(Tail(batch), f) \in Nat
  BY <1>3, CountNat DEF QueueOK
<1> QED BY <1>1, <1>2, <1>3, <1>4

\* It is run and queues another one.
LEMMA QueuedRunAppend ==
  ASSUME QueueOK, batch # <<>>, batch' = Tail(batch), NEW g \in Functors,
         pending' = Append(pending, g), g # Head(batch), NEW f
  PROVE  Queued(f)' = IF f = Head(batch) THEN Queued(f) - 1
                      ELSE IF f = g THEN Queued(f) + 1 ELSE Queued(f)
<1>1. Queued(f)' = Count(Append(pending, g), f) + Count(Tail(batch), f)
  <2>1. Queued(f)' = Count(pending', f) + Count(batch', f)
    BY DEF Queued, Count, Places
  <2> QED BY <2>1
<1>2. Queued(f) = Count(pending, f) + Count(batch, f)
  BY QueuedIs
<1>3. /\ Tail(batch) \in Seq(Functors)
      /\ Count(batch, f) = IF f = Head(batch) THEN Count(Tail(batch), f) + 1
                                              ELSE Count(Tail(batch), f)
  BY CountTail DEF QueueOK
<1>4. Count(pending, f) \in Nat /\ Count(batch, f) \in Nat /\ Count(Tail(batch), f) \in Nat
  BY <1>3, CountNat DEF QueueOK
<1>5. Count(Append(pending, g), f) = IF f = g THEN Count(pending, f) + 1 ELSE Count(pending, f)
  BY CountAppend DEF QueueOK
<1> QED BY <1>1, <1>2, <1>3, <1>4, <1>5

\* What is queued, in one go: the callbacks are different, and are callbacks.
LEMMA Apart ==
  /\ Start \in Functors /\ Reset \in Functors /\ <<"stopInLoop">> \in Functors
  /\ \A f \in Fds : FClose(f) \in Functors /\ Destroy(f) \in Functors
  /\ Start # Reset /\ Start # <<"stopInLoop">> /\ Reset # <<"stopInLoop">>
  /\ \A f \in Fds : /\ FClose(f) # Start /\ FClose(f) # Reset /\ FClose(f) # <<"stopInLoop">>
                    /\ Destroy(f) # Start /\ Destroy(f) # Reset /\ Destroy(f) # <<"stopInLoop">>
  /\ \A f, g \in Fds : FClose(f) # Destroy(g) /\ (FClose(f) = FClose(g) => f = g)
                       /\ (Destroy(f) = Destroy(g) => f = g)
<1>1. Start \in Functors /\ Reset \in Functors /\ <<"stopInLoop">> \in Functors
  BY DEF Functors, Start, Reset
<1>2. ASSUME NEW f \in Fds PROVE FClose(f) \in Functors /\ Destroy(f) \in Functors
  BY DEF Functors, FClose, Destroy
<1>3. Start # Reset /\ Start # <<"stopInLoop">> /\ Reset # <<"stopInLoop">>
  BY DEF Start, Reset
<1>4. ASSUME NEW f \in Fds
      PROVE  /\ FClose(f) # Start /\ FClose(f) # Reset /\ FClose(f) # <<"stopInLoop">>
             /\ Destroy(f) # Start /\ Destroy(f) # Reset /\ Destroy(f) # <<"stopInLoop">>
  BY DEF Start, Reset, FClose, Destroy
<1>5. ASSUME NEW f \in Fds, NEW g \in Fds
      PROVE  FClose(f) # Destroy(g) /\ (FClose(f) = FClose(g) => f = g)
             /\ (Destroy(f) = Destroy(g) => f = g)
  BY DEF FClose, Destroy
<1> QED BY <1>1, <1>2, <1>3, <1>4, <1>5

\* The callbacks by the name of their function.
LEMMA ByName ==
  ASSUME NEW h \in Functors
  PROVE  /\ h[1] = "startInLoop" => h = Start
         /\ h[1] = "resetChannel" => h = Reset
         /\ h[1] = "stopInLoop" => h = <<"stopInLoop">>
         /\ h[1] = "forceClose" => h[2] \in Fds /\ h = FClose(h[2])
         /\ h[1] = "connectDestroyed" => h[2] \in Fds /\ h = Destroy(h[2])
  BY DEF Functors, Start, Reset, FClose, Destroy

\* ~TcpClient() looks for a callback where Queued() counts it.
LEMMA PendingIs ==
  ASSUME QueueOK, NEW f
  PROVE  Pending(f) <=> Queued(f) # 0
<1> DEFINE q == batch \o pending
           m == Len(batch)
           n == Len(pending)
<1>1. /\ m \in Nat /\ n \in Nat /\ DOMAIN q = 1..(m + n)
      /\ \A i \in 1..(m + n) : q[i] = IF i <= m THEN batch[i] ELSE pending[i - m]
  BY DEF QueueOK
<1> HIDE DEF q, m, n
<1>2. ASSUME NEW i \in DOMAIN q, q[i] = f
      PROVE  (\E j \in 1..n : pending[j] = f) \/ (\E j \in 1..m : batch[j] = f)
  <2>1. CASE i <= m
    BY <1>1, <1>2, <2>1
  <2>2. CASE ~(i <= m)
    <3>1. i - m \in 1..n /\ pending[i - m] = f
      BY <1>1, <1>2, <2>2
    <3> QED BY <3>1
  <2> QED BY <2>1, <2>2
<1>3. ASSUME NEW j \in 1..m, batch[j] = f PROVE \E i \in DOMAIN q : q[i] = f
  <2>1. j \in DOMAIN q /\ q[j] = f
    BY <1>1, <1>3
  <2> QED BY <2>1
<1>4. ASSUME NEW j \in 1..n, pending[j] = f PROVE \E i \in DOMAIN q : q[i] = f
  <2>1. j + m \in DOMAIN q /\ (j + m) - m = j /\ ~(j + m <= m)
    BY <1>1
  <2>2. q[j + m] = f
    BY <1>1, <1>4, <2>1
  <2> QED BY <2>1, <2>2
<1>5. (\E i \in DOMAIN q : q[i] = f)
        <=> (\E j \in 1..n : pending[j] = f) \/ (\E j \in 1..m : batch[j] = f)
  BY <1>2, <1>3, <1>4, Zenon
<1>6. Queued(f) = 0 <=> /\ \A i \in 1..n : pending[i] # f
                        /\ \A i \in 1..m : batch[i] # f
  BY QueuedNat DEF n, m
<1> QED BY <1>5, <1>6, Zenon DEF Pending, q

\* Queueing behind a resetChannel(), and running what is before it.
LEMMA ResetFirstAppend ==
  ASSUME NEW s \in Seq(Functors), NEW g \in Functors, ResetFirst(s)
  PROVE  ResetFirst(Append(s, g))
<1> DEFINE t == Append(s, g)
<1>1. PICK i \in 1..Len(s) : /\ s[i] = Reset
                             /\ \A j \in 1..Len(s) : \A f \in Fds : s[j] = FClose(f) => i < j
  BY DEF ResetFirst
<1>2. /\ Len(t) = Len(s) + 1 /\ Len(s) \in Nat
      /\ \A j \in 1..Len(s) : t[j] = s[j]
  OBVIOUS
<1> HIDE DEF t
<1>3. i \in 1..Len(t) /\ t[i] = Reset
  BY <1>1, <1>2
<1>4. ASSUME NEW j \in 1..Len(t), NEW f \in Fds, t[j] = FClose(f) PROVE i < j
  <2>1. CASE j \in 1..Len(s)
    BY <1>1, <1>2, <1>4, <2>1
  <2>2. CASE j \notin 1..Len(s)
    BY <1>2, <2>2
  <2> QED BY <2>1, <2>2
<1>5. ResetFirst(t)
  BY <1>3, <1>4, Zenon DEF ResetFirst
<1> QED BY <1>5 DEF t

\* A batch that resets the channel first does not begin with forceClose().
LEMMA ResetFirstTail ==
  ASSUME NEW s \in Seq(Functors), s # <<>>, ResetFirst(s)
  PROVE  /\ \A f \in Fds : Head(s) # FClose(f)
         /\ Head(s) # Reset => ResetFirst(Tail(s))
<1> DEFINE t == Tail(s)
<1>1. PICK i \in 1..Len(s) : /\ s[i] = Reset
                             /\ \A j \in 1..Len(s) : \A f \in Fds : s[j] = FClose(f) => i < j
  BY DEF ResetFirst
<1>2. /\ Len(t) = Len(s) - 1 /\ Len(s) \in Nat \ {0} /\ Head(s) = s[1] /\ 1 \in 1..Len(s)
      /\ \A j \in 1..Len(t) : t[j] = s[j + 1]
  OBVIOUS
<1> HIDE DEF t
<1>3. \A f \in Fds : Head(s) # FClose(f)
  BY <1>1, <1>2
<1>4. ASSUME Head(s) # Reset PROVE ResetFirst(t)
  <2>1. i # 1
    BY <1>1, <1>2, <1>4, Zenon
  <2>2. i - 1 \in 1..Len(t) /\ (i - 1) + 1 = i
    BY <1>2, <2>1
  <2>3. t[i - 1] = Reset
    BY <1>1, <1>2, <2>2
  <2>4. ASSUME NEW j \in 1..Len(t), NEW f \in Fds, t[j] = FClose(f) PROVE i - 1 < j
    <3>1. j + 1 \in 1..Len(s) /\ s[j + 1] = FClose(f)
      BY <1>2, <2>4
    <3>2. i < j + 1
      BY <1>1, <3>1, Zenon
    <3> QED BY <3>2
  <2> QED BY <2>2, <2>3, <2>4 DEF ResetFirst
<1> QED BY <1>3, <1>4 DEF t

\* Nothing comes first in an empty batch.
LEMMA ResetFirstEmpty == ~ResetFirst(<<>>)
  BY DEF ResetFirst

\* What a step that leaves its variables alone keeps.
LEMMA Frames ==
  ASSUME ClientInv
  PROVE  /\ UNCHANGED <<connection_, orphan, channel_, state_, fds>> => Refs'
         /\ UNCHANGED <<pending, batch>> => QueueOK'
         /\ UNCHANGED <<phase, batch, fds, ready>> => Phases'
         /\ UNCHANGED <<cb, connection_, orphan>> => Cbs'
         /\ UNCHANGED <<call, calls, connects>> => Users'
         /\ UNCHANGED aborted => NoAbort'
         /\ UNCHANGED <<fds, state_, channel_>> => Connecting'
         /\ UNCHANGED <<fds, connection_, orphan>> => Owned'
         /\ UNCHANGED <<pending, batch, fds>> => Ended'
         /\ UNCHANGED <<orphan, pending, batch, cb, held>> => OrphanCloses'
         /\ UNCHANGED <<armed, state_>> => Armed'
         /\ UNCHANGED <<pending, batch, channel_, armed>> => ResetOnce'
         /\ UNCHANGED <<destroyed, orphan, connection_, channel_, state_, call, cb>> => Owner'
         /\ UNCHANGED <<connects, call, pending, batch, state_, channel_, connection_, orphan, cb,
                        destroyed>> => StartOnce'
         /\ UNCHANGED <<state_, channel_, connection_, orphan, cb, ready>> => Attempt'
         /\ UNCHANGED <<cb, destroyed, phase, ready, pending, batch, channel_, connection_,
                        orphan>> => Callbacks'
         /\ UNCHANGED <<destroyed, pending, batch, connection_, phase, ready, cb>> => Forces'
         /\ UNCHANGED <<connection_, orphan, channel_, phase, pending, batch>> => ResetBeforeEnd'
<1> USE DEF ClientInv
<1>1. UNCHANGED <<connection_, orphan, channel_, state_, fds>> => Refs'
  BY Zenon DEF Refs
<1>2. UNCHANGED <<pending, batch>> => QueueOK'
  BY Zenon DEF QueueOK
<1>3. UNCHANGED <<phase, batch, fds, ready>> => Phases'
  BY Zenon DEF Phases
<1>4. UNCHANGED <<cb, connection_, orphan>> => Cbs'
  BY Zenon DEF Cbs, Conn
<1>5. UNCHANGED <<call, calls, connects>> => Users'
  BY Zenon DEF Users
<1>6. UNCHANGED aborted => NoAbort'
  BY DEF NoAbort
<1>7. UNCHANGED <<fds, state_, channel_>> => Connecting'
  BY Zenon DEF Connecting
<1>8. UNCHANGED <<fds, connection_, orphan>> => Owned'
  BY Zenon DEF Owned, Conn
<1>9. UNCHANGED <<pending, batch, fds>> => Ended'
  BY Zenon DEF Ended, Queued
<1>10. UNCHANGED <<orphan, pending, batch, cb, held>> => OrphanCloses'
  BY Zenon DEF OrphanCloses, Queued
<1>11. UNCHANGED <<armed, state_>> => Armed'
  BY DEF Armed
<1>12. UNCHANGED <<pending, batch, channel_, armed>> => ResetOnce'
  BY DEF ResetOnce, Queued
<1>13. UNCHANGED <<destroyed, orphan, connection_, channel_, state_, call, cb>> => Owner'
  BY DEF Owner
<1>14. UNCHANGED <<connects, call, pending, batch, state_, channel_, connection_, orphan, cb,
                   destroyed>> => StartOnce'
  BY DEF StartOnce, Unstarted, Conn, Queued
<1>15. UNCHANGED <<state_, channel_, connection_, orphan, cb, ready>> => Attempt'
  BY Zenon DEF Attempt, Conn
<1>16. UNCHANGED <<cb, destroyed, phase, ready, pending, batch, channel_, connection_, orphan>>
         => Callbacks'
  BY DEF Callbacks, Conn, Queued, NoForce
<1>17. ASSUME UNCHANGED <<destroyed, pending, batch, connection_, phase, ready, cb>> PROVE Forces'
  <2>1. \A f : Queued(f)' = Queued(f)
    BY <1>17, QueuedSame
  <2>2. (destroyed' <=> destroyed) /\ (NoForce' <=> NoForce)
    BY <1>17, <2>1 DEF NoForce
  <2> QED BY <1>17, <2>1, <2>2, Zenon DEF Forces
<1>18. UNCHANGED <<connection_, orphan, channel_, phase, pending, batch>> => ResetBeforeEnd'
  BY Zenon DEF ResetBeforeEnd, Conn, ResetFirst
<1> HIDE DEF ClientInv
<1> QED
  BY <1>1, <1>2, <1>3, <1>4, <1>5, <1>6, <1>7, <1>8, <1>9, <1>10, <1>11, <1>12, <1>13, <1>14,
     <1>15, <1>16, <1>17, <1>18, Zenon

-----------------------------------------------------------------------------
(* Facts the steps share.                                                  *)

\* While the client has no connection no forceClose() waits.
LEMMA NoConnNoForce ==
  ASSUME ClientInv, ~destroyed, connection_ = Null
  PROVE  NoForce
<1>1. Forces /\ Null \notin Fds
  BY DEF ClientInv
<1> QED BY <1>1, Zenon DEF Forces, NoForce

\* Without a forceClose() nothing is said of it.
LEMMA ForcesOf ==
  ASSUME QueueOK', NoForce'
  PROVE  Forces'
<1>1. ASSUME NEW f \in Fds
      PROVE  /\ Queued(FClose(f))' = 0
             /\ \A i \in 1..Len(pending') : pending'[i] # FClose(f)
  <2>1. Queued(FClose(f))' = 0
    BY Zenon DEF NoForce
  <2>2. Queued(FClose(f))' = Count(pending', FClose(f)) + Count(batch', FClose(f))
    BY DEF Queued, Count, Places
  <2>3. /\ Count(pending', FClose(f)) \in Nat /\ Count(batch', FClose(f)) \in Nat
        /\ Count(pending', FClose(f)) = 0 <=> \A i \in 1..Len(pending') : pending'[i] # FClose(f)
    BY CountNat DEF QueueOK
  <2>4. Count(pending', FClose(f)) = 0
    BY <2>1, <2>2, <2>3
  <2> QED BY <2>1, <2>3, <2>4, Zenon
<1>2. \A f \in Fds : Queued(FClose(f))' = 0 /\ Queued(FClose(f))' <= 1
  BY <1>1
<1> QED BY <1>1, <1>2, Zenon DEF Forces

\* Once the start has run it does not come back.
LEMMA StartedKeeps ==
  ASSUME ~Unstarted'
  PROVE  StartOnce'
<1>1. /\ connects' # 0 /\ call' \notin {"connect", "queueStart"} /\ Queued(Start)' = 0
  BY Zenon DEF Unstarted
<1>2. Queued(Start)' <= 1
  BY <1>1
<1> QED BY <1>1, <1>2, Zenon DEF StartOnce

\* A step that has no part in connect().
LEMMA UnstartedSame ==
  ASSUME UNCHANGED <<connects, call>>, Queued(Start)' = Queued(Start)
  PROVE  Unstarted' <=> Unstarted
  BY Zenon DEF Unstarted

\* Whoever is in a callback, or has a connection, has been started.
LEMMA Started ==
  ASSUME ClientInv, Conn # Null \/ cb # "none" \/ state_ # "kDisconnected" \/ channel_ # Null
                    \/ destroyed
  PROVE  ~Unstarted
  BY Zenon DEF ClientInv, StartOnce

\* While an attempt is in progress there is nothing else.
LEMMA AttemptState ==
  ASSUME ClientInv, state_ = "kConnecting"
  PROVE  /\ channel_ \in Fds /\ fds[channel_] = "connecting" /\ armed
         /\ Queued(Reset) = 0 /\ connection_ = Null /\ orphan = Null /\ cb = "none" /\ ~destroyed
         /\ ~Unstarted /\ NoForce /\ "end" \notin ready
<1>1. channel_ # Null /\ Conn = Null /\ cb = "none" /\ "end" \notin ready
  BY Zenon DEF ClientInv, Attempt
<1>2. channel_ \in Fds
  BY <1>1, Zenon DEF ClientInv, Refs
<1>3. fds[channel_] = "connecting"
  BY <1>2, Zenon DEF ClientInv, Connecting
<1>4. armed
  BY Zenon DEF ClientInv, Armed
<1>5. Queued(Reset) = 0
  BY <1>4, Zenon DEF ClientInv, ResetOnce
<1>6. connection_ = Null /\ orphan = Null
  BY <1>1, Zenon DEF Conn
<1>7. ~destroyed
  BY Zenon DEF ClientInv, Owner
<1>8. ~Unstarted
  <2>1. state_ # "kDisconnected"
    OBVIOUS
  <2> QED BY <2>1, Started
<1>9. NoForce
  BY <1>6, <1>7, NoConnNoForce
<1> QED BY <1>1, <1>2, <1>3, <1>4, <1>5, <1>6, <1>7, <1>8, <1>9, Zenon

\* The attempt ends without a connection: retry(), or the close in handleWrite().
LEMMA AttemptEnds ==
  ASSUME ClientInv, QueueOK', state_ = "kConnecting",
         state_' \in {"kDisconnected", "kConnected"}, armed' = FALSE,
         fds' = [fds EXCEPT ![channel_] = "free"],
         UNCHANGED <<channel_, connection_, orphan, destroyed, connects, call, cb>>,
         ready' \subseteq ready, "OUT" \notin ready',
         Queued(Reset)' = Queued(Reset) + 1, Queued(Start)' = Queued(Start),
         \A f \in Fds : Queued(FClose(f))' = Queued(FClose(f))
                        /\ Queued(Destroy(f))' = Queued(Destroy(f))
  PROVE  /\ Refs' /\ Cbs' /\ Connecting' /\ Owned' /\ Ended' /\ OrphanCloses' /\ Armed' /\ ResetOnce'
         /\ Owner' /\ StartOnce' /\ Attempt' /\ Callbacks' /\ Forces' /\ ResetBeforeEnd'
<1>0. /\ channel_ \in Fds /\ fds[channel_] = "connecting" /\ armed
      /\ Queued(Reset) = 0 /\ connection_ = Null /\ orphan = Null /\ cb = "none" /\ ~destroyed
      /\ ~Unstarted /\ NoForce /\ "end" \notin ready
  BY AttemptState
<1>1. Refs'
  BY DEF ClientInv, Refs
<1>2. /\ Conn' = Null /\ cb' = "none" /\ Null \notin Fds /\ state_' # "kConnecting"
      /\ "end" \notin ready' /\ channel_' # Null /\ ~destroyed' /\ orphan' = Null
  BY <1>0 DEF Conn
<1>3. /\ \A f \in Fds : fds'[f] = IF f = channel_ THEN "free" ELSE fds[f]
  BY DEF ClientInv, Refs
<1>4. Connecting'
  <2>1. \A f \in Fds : f # channel_ => fds[f] # "connecting"
    BY Zenon DEF ClientInv, Connecting
  <2> QED BY <1>2, <1>3, <2>1 DEF Connecting
<1>5. Owned'
  <2>1. \A f \in Fds : fds[f] # "owned"
    BY <1>0, <1>2, Zenon DEF ClientInv, Owned, Conn
  <2> QED BY <1>2, <1>3, <2>1 DEF Owned
<1>6. Ended'
  BY <1>0, <1>3 DEF ClientInv, Ended
<1>7. OrphanCloses'
  BY <1>2, Zenon DEF OrphanCloses
<1>8. Armed'
  BY <1>2, Zenon DEF Armed
<1>9. ResetOnce'
  BY <1>0, <1>2 DEF ResetOnce
<1>10. Owner'
  BY <1>2, Zenon DEF Owner
<1>11. StartOnce'
  BY <1>0, UnstartedSame, StartedKeeps
<1>12. Attempt'
  BY <1>2, Zenon DEF Attempt
<1>13. Callbacks'
  BY <1>2, Zenon DEF Callbacks
<1>14. Forces'
  <2>1. NoForce'
    BY <1>0, Zenon DEF NoForce
  <2> QED BY <2>1, ForcesOf
<1>15. ResetBeforeEnd'
  BY <1>2, Zenon DEF ResetBeforeEnd
<1>16. Cbs'
  BY <1>2, Zenon DEF Cbs
<1> QED BY <1>1, <1>4, <1>5, <1>6, <1>7, <1>8, <1>9, <1>10, <1>11, <1>12, <1>13, <1>14, <1>15, <1>16

\* Connector::connect(), when the Connector has no channel and the client no connection.
LEMMA AttemptMade ==
  ASSUME ClientInv, QueueOK', connect, state_ # "kConnecting", channel_ = Null, Conn = Null,
         ~destroyed, "end" \notin ready, cb' = "none",
         UNCHANGED <<connection_, orphan, destroyed, ready>>,
         Queued(Reset)' = Queued(Reset), ~Unstarted',
         \A f \in Fds : Queued(FClose(f))' = Queued(FClose(f))
                        /\ Queued(Destroy(f))' = Queued(Destroy(f))
  PROVE  /\ Refs' /\ Cbs' /\ NoAbort' /\ armed' \in BOOLEAN /\ aborted' \in BOOLEAN
         /\ (\A f \in Fds : fds'[f] = "released" => fds[f] = "released")
         /\ Connecting' /\ Owned' /\ Ended' /\ OrphanCloses' /\ Armed' /\ ResetOnce'
         /\ Owner' /\ StartOnce' /\ Attempt' /\ Callbacks' /\ Forces' /\ ResetBeforeEnd'
<1>0. /\ connection_ = Null /\ orphan = Null /\ NoForce /\ ~armed /\ "OUT" \notin ready
      /\ Null \notin Fds
  <2>1. connection_ = Null /\ orphan = Null
    BY DEF Conn
  <2>2. NoForce
    BY <2>1, NoConnNoForce
  <2> QED BY <2>1, <2>2 DEF ClientInv, Armed, Attempt
<1>1. /\ Conn' = Null /\ ~destroyed' /\ orphan' = Null /\ connection_' = Null
      /\ "end" \notin ready' /\ "OUT" \notin ready'
  BY <1>0 DEF Conn
<1>2. NoForce'
  BY <1>0, Zenon DEF NoForce
<1>3. Forces' /\ StartOnce'
  BY <1>2, ForcesOf, StartedKeeps
<1>4. Cbs' /\ OrphanCloses' /\ Owner' /\ Callbacks' /\ ResetBeforeEnd'
  <2>1. Cbs'
    BY <1>1, Zenon DEF Cbs
  <2>2. OrphanCloses'
    BY <1>0, <1>1, Zenon DEF OrphanCloses
  <2>3. Owner'
    BY <1>1, Zenon DEF Owner
  <2>4. Callbacks'
    BY <1>1, Zenon DEF Callbacks
  <2>5. ResetBeforeEnd'
    BY <1>1, Zenon DEF ResetBeforeEnd
  <2> QED BY <2>1, <2>2, <2>3, <2>4, <2>5
<1>5. /\ \A f \in Fds : fds[f] \notin {"connecting", "owned"}
      /\ fds \in [Fds -> {"free", "connecting", "owned", "ended", "released", "kept"}]
  <2>1. \A f \in Fds : fds[f] # "connecting"
    BY Zenon DEF ClientInv, Connecting
  <2>2. \A f \in Fds : fds[f] # "owned"
    BY <1>0, Zenon DEF ClientInv, Owned
  <2> QED BY <2>1, <2>2 DEF ClientInv, Refs
<1>6. PICK f \in Fds :
        /\ fds[f] = "free"
        /\ \/ /\ aborted' = (channel_ # Null)
              /\ fds' = [fds EXCEPT ![f] = "connecting"]
              /\ state_' = "kConnecting" /\ channel_' = f /\ armed' = TRUE
           \/ /\ retry(f)
              /\ UNCHANGED <<channel_, armed, aborted>>
           \/ /\ state_' = "kDisconnected"
              /\ UNCHANGED <<channel_, armed, fds, aborted>>
  BY Zenon DEF connect
<1>7. CASE /\ aborted' = (channel_ # Null)
           /\ fds' = [fds EXCEPT ![f] = "connecting"]
           /\ state_' = "kConnecting" /\ channel_' = f /\ armed' = TRUE
  <2>1. \A g \in Fds : fds'[g] = IF g = f THEN "connecting" ELSE fds[g]
    BY <1>5, <1>7
  <2>2. Refs'
    BY <1>5, <1>7, <1>1 DEF Refs
  <2>3. NoAbort'
    BY <1>7 DEF NoAbort
  <2>4. Connecting'
    BY <1>5, <1>7, <2>1 DEF Connecting
  <2>5. Owned'
    BY <1>5, <1>0, <1>1, <2>1 DEF Owned
  <2>6. Ended'
    BY <1>6, <2>1 DEF ClientInv, Ended
  <2>7. Armed'
    BY <1>7 DEF Armed
  <2>8. ResetOnce'
    BY <1>7, <1>0 DEF ClientInv, ResetOnce
  <2>9. Attempt'
    BY <1>1, <1>7, <1>0, Zenon DEF Attempt
  <2>10. (\A g \in Fds : fds'[g] = "released" => fds[g] = "released")
         /\ armed' \in BOOLEAN /\ aborted' \in BOOLEAN
    <3>1. \A g \in Fds : fds'[g] = "released" => fds[g] = "released"
      BY <2>1
    <3> QED BY <1>7, <3>1, Zenon
  <2> QED BY <1>3, <1>4, <2>2, <2>3, <2>4, <2>5, <2>6, <2>7, <2>8, <2>9, <2>10, Zenon
<1>8. CASE \/ /\ retry(f)
              /\ UNCHANGED <<channel_, armed, aborted>>
           \/ /\ state_' = "kDisconnected"
              /\ UNCHANGED <<channel_, armed, fds, aborted>>
  <2>1. fds' = fds /\ state_' = "kDisconnected" /\ UNCHANGED <<channel_, armed, aborted>>
    BY <1>5, <1>6, <1>8 DEF retry
  <2>2. Refs'
    BY <1>5, <2>1, <1>1 DEF ClientInv, Refs
  <2>3. NoAbort'
    BY <2>1, Zenon DEF ClientInv, NoAbort
  <2>4. Connecting'
    BY <1>5, <2>1 DEF Connecting
  <2>5. Owned'
    BY <1>5, <1>0, <1>1, <2>1 DEF Owned
  <2>6. Ended'
    BY <2>1 DEF ClientInv, Ended
  <2>7. Armed'
    BY <1>0, <2>1, Zenon DEF Armed
  <2>8. ResetOnce'
    BY <2>1, <1>0, Zenon DEF ClientInv, ResetOnce
  <2>9. Attempt'
    BY <1>1, <2>1, <1>0, Zenon DEF Attempt
  <2>10. (\A g \in Fds : fds'[g] = "released" => fds[g] = "released")
         /\ armed' \in BOOLEAN /\ aborted' \in BOOLEAN
    BY <2>1, Zenon DEF ClientInv, Flags
  <2> QED BY <1>3, <1>4, <2>2, <2>3, <2>4, <2>5, <2>6, <2>7, <2>8, <2>9, <2>10, Zenon
<1> QED BY <1>6, <1>7, <1>8

-----------------------------------------------------------------------------
(* The steps of the loop thread.                                           *)

\* A step that neither queues nor runs a callback.
LEMMA QueueKept ==
  ASSUME UNCHANGED <<pending, batch>>
  PROVE  /\ \A f : Queued(f)' = Queued(f)
         /\ NoForce' <=> NoForce
<1>1. \A f : Queued(f)' = Queued(f)
  BY QueuedSame
<1> QED BY <1>1 DEF NoForce

\* poll(): what it reports is there.
LEMMA PollKeeps == ASSUME ClientInv, poll PROVE ClientInv'
<1>0. /\ phase = "poll" /\ phase' = "handle" /\ cb = "none"
      /\ ready' \in (IF armed THEN SUBSET {"OUT", "ERR"} ELSE {{}})
                    \cup (IF Conn # Null THEN {{}, {"end"}} ELSE {{}})
      /\ UNCHANGED <<clientVars, connectorVars, pending, batch, cb, userVars, aborted>>
  BY DEF poll, LoopFree
<1> USE DEF clientVars, connectorVars, userVars
<1>1. /\ "OUT" \in ready' => armed
      /\ "end" \in ready' => ready' = {"end"} /\ Conn # Null
      /\ ready' \subseteq {"OUT", "ERR", "end"}
  BY <1>0
<1>2. batch = <<>> /\ \A f \in Fds : fds[f] # "released"
  BY <1>0, Zenon DEF ClientInv, Phases
<1>3. Conn # Null => channel_ = Null
  BY <1>0 DEF ClientInv, ResetBeforeEnd
<1>4. Conn' = Conn
  BY <1>0 DEF Conn
<1>5. ~destroyed => NoForce
  <2>1. ASSUME ~destroyed, NEW f \in Fds PROVE Queued(FClose(f)) = 0
    <3>1. \A i \in 1..Len(pending) : pending[i] # FClose(f)
      BY <1>0, <2>1 DEF ClientInv, Forces
    <3>2. \A i \in 1..Len(batch) : batch[i] # FClose(f)
      BY <1>2
    <3> QED BY <3>1, <3>2, QueuedNat DEF ClientInv
  <2> QED BY <2>1, Zenon DEF NoForce
<1>6. Phases'
  BY <1>0, <1>1, <1>2 DEF Phases
<1>7. Attempt'
  BY <1>0, <1>1, <1>3, <1>4 DEF ClientInv, Attempt, Armed
<1>8. Callbacks'
  BY <1>0, Zenon DEF Callbacks
<1>9. Forces'
  <2>1. \A f : Queued(f)' = Queued(f)
    BY <1>0, QueuedSame
  <2>2. (destroyed' <=> destroyed) /\ (~destroyed => NoForce')
    BY <1>0, <1>5, <2>1 DEF NoForce
  <2> QED BY <1>0, <2>1, <2>2, Zenon DEF ClientInv, Forces
<1>10. ResetBeforeEnd'
  BY <1>0, <1>3, <1>4 DEF ResetBeforeEnd
<1>11. Flags'
  BY <1>0, Zenon DEF ClientInv, Flags
<1> QED
  BY <1>0, <1>6, <1>7, <1>8, <1>9, <1>10, <1>11, Frames, Zenon DEF ClientInv

\* The connecting socket is ready: it fails, is given to the client or is closed.
LEMMA HandleWriteKeeps == ASSUME ClientInv, handleWrite PROVE ClientInv'
<1>1. /\ "OUT" \in ready /\ ready' = ready \ {"OUT"} /\ state_ = "kConnecting"
      /\ removeAndResetChannel /\ UNCHANGED aborted
      /\ UNCHANGED <<clientConnect_, retry_, orphan, destroyed, connect_, batch, phase, userVars>>
  <2>1. "OUT" \in ready
    BY Zenon DEF handleWrite
  <2>2. state_ = "kConnecting"
    BY <2>1, Zenon DEF ClientInv, Attempt
  <2> QED BY <2>1, <2>2 DEF handleWrite
<1>2. /\ channel_ \in Fds /\ fds[channel_] = "connecting" /\ armed
      /\ Queued(Reset) = 0 /\ connection_ = Null /\ orphan = Null /\ cb = "none" /\ ~destroyed
      /\ ~Unstarted /\ NoForce /\ "end" \notin ready
  BY <1>1, AttemptState
<1>3. /\ pending' = Append(pending, Reset) /\ batch' = batch /\ armed' = FALSE
      /\ channel_' = channel_ /\ UNCHANGED <<call, calls, connects, stopped>>
  BY <1>1 DEF removeAndResetChannel, queueInLoop, Reset, userVars
<1>4. QueueOK'
  BY <1>3, Apart DEF ClientInv, QueueOK
<1>5. \A f : Queued(f)' = IF f = Reset THEN Queued(f) + 1 ELSE Queued(f)
  BY <1>3, Apart, QueuedAppend DEF ClientInv
<1>6. /\ Queued(Reset)' = Queued(Reset) + 1 /\ Queued(Start)' = Queued(Start)
      /\ \A f \in Fds : Queued(FClose(f))' = Queued(FClose(f))
                        /\ Queued(Destroy(f))' = Queued(Destroy(f))
  BY <1>5, Apart
<1>7. phase = "handle" /\ phase' = "handle"
  BY <1>1, Zenon DEF ClientInv, Phases
<1>8. Users' /\ NoAbort' /\ Flags'
  <2>1. Flags'
    BY <1>1, <1>3, Zenon DEF ClientInv, Flags
  <2> QED BY <1>1, <1>3, <2>1, Frames, Zenon
<1>9. ASSUME fds' = [fds EXCEPT ![channel_] = "free"], state_' \in {"kDisconnected", "kConnected"},
             UNCHANGED <<connection_, cb>>
      PROVE  ClientInv'
  <2>1. ready' \subseteq ready /\ "OUT" \notin ready'
    BY <1>1
  <2>2. Phases'
    BY <1>1, <1>3, <1>7, <1>9 DEF ClientInv, Phases, Refs
  <2>3. /\ Refs' /\ Cbs' /\ Connecting' /\ Owned' /\ Ended' /\ OrphanCloses' /\ Armed' /\ ResetOnce'
        /\ Owner' /\ StartOnce' /\ Attempt' /\ Callbacks' /\ Forces' /\ ResetBeforeEnd'
    BY <1>1, <1>3, <1>4, <1>6, <1>9, <2>1, AttemptEnds, Zenon
  <2> QED BY <1>4, <1>8, <2>2, <2>3, Zenon DEF ClientInv
<1>10. ASSUME state_' = "kConnected", newConnection(channel_)
       PROVE  ClientInv'
  <2>1. /\ fds' = [fds EXCEPT ![channel_] = "owned"] /\ connection_' = channel_ /\ cb' = "up"
        /\ Conn' = channel_ /\ channel_ # Null /\ orphan' = Null /\ ~destroyed'
    BY <1>1, <1>2, <1>10 DEF newConnection, Conn
  <2>2. /\ \A f \in Fds : fds'[f] = IF f = channel_ THEN "owned" ELSE fds[f]
        /\ \A f \in Fds : f # channel_ => fds[f] # "connecting"
        /\ \A f \in Fds : fds[f] # "owned"
    <3>1. \A f \in Fds : f # channel_ => fds[f] # "connecting"
      BY Zenon DEF ClientInv, Connecting
    <3>2. \A f \in Fds : fds[f] # "owned"
      BY <1>2 DEF ClientInv, Owned, Conn
    <3>3. \A f \in Fds : fds'[f] = IF f = channel_ THEN "owned" ELSE fds[f]
      BY <2>1 DEF ClientInv, Refs
    <3> QED BY <3>1, <3>2, <3>3, Zenon
  <2>3. NoForce'
    BY <1>2, <1>6, Zenon DEF NoForce
  <2>4. Refs'
    BY <1>2, <1>3, <1>1, <1>10, <2>1 DEF ClientInv, Refs
  <2>5. Phases'
    BY <1>1, <1>3, <1>7, <2>2 DEF ClientInv, Phases
  <2>6. Cbs'
    BY <2>1 DEF Cbs
  <2>7. Connecting'
    BY <1>10, <2>2 DEF Connecting
  <2>8. Owned'
    BY <2>1, <2>2 DEF Owned
  <2>9. Ended'
    BY <1>2, <1>6, <2>2 DEF ClientInv, Ended
  <2>10. OrphanCloses'
    BY <2>1 DEF OrphanCloses
  <2>11. Armed'
    BY <1>3, <1>10 DEF Armed
  <2>12. ResetOnce'
    BY <1>2, <1>3, <1>6 DEF ResetOnce
  <2>13. Owner'
    BY <2>1, Zenon DEF Owner
  <2>14. StartOnce'
    <3>1. ~Unstarted'
      BY <1>2, <1>3, <1>6, UnstartedSame
    <3> QED BY <3>1, StartedKeeps
  <2>15. Attempt'
    <3>1. state_' # "kConnecting" /\ "OUT" \notin ready' /\ "end" \notin ready' /\ cb' # "start"
      BY <1>1, <1>2, <1>10, <2>1
    <3> QED BY <3>1, Zenon DEF Attempt
  <2>16. Callbacks'
    <3>1. "end" \notin ready'
      BY <1>1, <1>2
    <3> QED BY <1>7, <2>1, <2>3, <3>1 DEF Callbacks
  <2>17. Forces'
    BY <1>4, <2>3, ForcesOf
  <2>18. ResetBeforeEnd'
    <3>1. /\ Len(pending) + 1 \in 1..Len(pending')
          /\ pending'[Len(pending) + 1] = Reset
      BY <1>3 DEF ClientInv, QueueOK
    <3>2. \A f \in Fds : \A j \in 1..Len(pending') : pending'[j] # FClose(f)
      <4>1. ASSUME NEW f \in Fds PROVE \A j \in 1..Len(pending') : pending'[j] # FClose(f)
        <5>1. Queued(FClose(f)) = 0
          BY <1>2, Zenon DEF NoForce
        <5>2. \A j \in 1..Len(pending) : pending[j] # FClose(f)
          BY <5>1, QueuedNat DEF ClientInv
        <5>3. FClose(f) # Reset
          BY Apart
        <5> QED BY <1>3, <5>2, <5>3 DEF ClientInv, QueueOK
      <4> QED BY <4>1
    <3>3. ResetFirst(pending')
      BY <3>1, <3>2, Zenon DEF ResetFirst
    <3>4. ResetFirst(pending)'
      BY <3>3, Zenon DEF ResetFirst
    <3> QED BY <1>7, <3>4, Zenon DEF ResetBeforeEnd
  <2> QED BY <1>4, <1>8, <2>4, <2>5, <2>6, <2>7, <2>8, <2>9, <2>10, <2>11, <2>12, <2>13, <2>14,
             <2>15, <2>16, <2>17, <2>18, Zenon DEF ClientInv
<1>11. \/ retry(channel_) /\ UNCHANGED <<connection_, cb>>
       \/ /\ state_' = "kConnected"
          /\ \/ newConnection(channel_)
             \/ /\ fds' = [fds EXCEPT ![channel_] = "free"]
                /\ UNCHANGED <<connection_, cb>>
  BY <1>1, Zenon DEF handleWrite
<1> QED BY <1>9, <1>10, <1>11, Zenon DEF retry

\* The connecting socket reports an error.
LEMMA HandleErrorKeeps == ASSUME ClientInv, handleError PROVE ClientInv'
<1>1. /\ ready = {"ERR"} /\ ready' = {} /\ cb = "none"
      /\ UNCHANGED <<clientVars, connect_, batch, phase, cb, userVars, aborted>>
  BY DEF handleError, LoopFree
<1> USE DEF clientVars, userVars, connectorVars
<1>2. Users' /\ NoAbort' /\ Cbs'
  BY <1>1, Frames, Zenon
<1>3. CASE state_ = "kConnecting"
  <2>1. /\ pending' = Append(pending, Reset) /\ armed' = FALSE /\ channel_' = channel_
        /\ state_' = "kDisconnected" /\ fds' = [fds EXCEPT ![channel_] = "free"]
    BY <1>3, Zenon DEF handleError, removeAndResetChannel, retry, queueInLoop, Reset
  <2>2. QueueOK'
    BY <1>1, <2>1, Apart DEF ClientInv, QueueOK
  <2>3. \A f : Queued(f)' = IF f = Reset THEN Queued(f) + 1 ELSE Queued(f)
    BY <1>1, <2>1, Apart, QueuedAppend DEF ClientInv
  <2>4. /\ Queued(Reset)' = Queued(Reset) + 1 /\ Queued(Start)' = Queued(Start)
        /\ \A f \in Fds : Queued(FClose(f))' = Queued(FClose(f))
                          /\ Queued(Destroy(f))' = Queued(Destroy(f))
    BY <2>3, Apart
  <2>5. ready' \subseteq ready /\ "OUT" \notin ready' /\ state_' \in {"kDisconnected", "kConnected"}
    BY <1>1, <2>1
  <2>6. Phases'
    BY <1>1, <2>1 DEF ClientInv, Phases, Refs
  <2>7. Flags'
    BY <1>1, <2>1, Zenon DEF ClientInv, Flags
  <2>8. /\ Refs' /\ Cbs' /\ Connecting' /\ Owned' /\ Ended' /\ OrphanCloses' /\ Armed' /\ ResetOnce'
        /\ Owner' /\ StartOnce' /\ Attempt' /\ Callbacks' /\ Forces' /\ ResetBeforeEnd'
    BY <1>1, <1>3, <2>1, <2>2, <2>4, <2>5, AttemptEnds, Zenon
  <2> QED BY <1>2, <2>2, <2>6, <2>7, <2>8, Zenon DEF ClientInv
<1>4. CASE state_ # "kConnecting"
  <2>1. UNCHANGED <<state_, channel_, armed, fds, pending>>
    BY <1>4, Zenon DEF handleError
  <2>2. Flags'
    BY <1>1, <2>1, Zenon DEF ClientInv, Flags
  <2>3. Phases'
    BY <1>1, <2>1 DEF ClientInv, Phases
  <2>4. Attempt'
    BY <1>1, <1>4, <2>1 DEF Attempt
  <2>5. Callbacks'
    BY <1>1, Zenon DEF Callbacks
  <2>6. Forces'
    <3>1. \A f : Queued(f)' = Queued(f)
      BY <1>1, <2>1, QueuedSame
    <3>2. destroyed' <=> destroyed
      BY <1>1
    <3> QED BY <1>1, <2>1, <3>1, <3>2, Zenon DEF ClientInv, Forces
  <2> QED BY <1>1, <1>2, <2>1, <2>2, <2>3, <2>4, <2>5, <2>6, Frames, Zenon DEF ClientInv
<1> QED BY <1>3, <1>4

\* TcpConnection::handleClose() calls the connection callback.
LEMMA HandleCloseKeeps == ASSUME ClientInv, handleClose PROVE ClientInv'
<1>1. /\ cb = "none" /\ cb' = "down" /\ "end" \in ready /\ ready' = {}
      /\ UNCHANGED <<clientVars, connectorVars, pending, batch, phase, userVars, aborted>>
  BY DEF handleClose, LoopFree
<1> USE DEF clientVars, userVars, connectorVars
<1>2. Conn # Null /\ channel_ = Null /\ Conn' = Conn
  BY <1>1 DEF ClientInv, Attempt, Conn
<1>3. state_ # "kConnecting"
  BY <1>2, Zenon DEF ClientInv, Attempt
<1>4. \A f : Queued(f)' = Queued(f)
  BY <1>1, QueuedSame
<1>5. (NoForce' <=> NoForce) /\ (destroyed' <=> destroyed) /\ (~destroyed => NoForce)
  <2>1. NoForce' <=> NoForce
    BY <1>1, QueueKept
  <2>2. ~destroyed => NoForce
    BY <1>1, Zenon DEF ClientInv, Forces
  <2> QED BY <1>1, <2>1, <2>2
<1>6. Flags'
  BY <1>1, Zenon DEF ClientInv, Flags
<1>7. Phases'
  BY <1>1 DEF ClientInv, Phases
<1>8. Cbs'
  BY <1>1, <1>2 DEF Cbs
<1>9. OrphanCloses'
  BY <1>1 DEF OrphanCloses
<1>10. Owner'
  BY <1>1, <1>5 DEF ClientInv, Owner
<1>11. StartOnce'
  <2>1. ~Unstarted'
    BY <1>1, <1>2, <1>4, Started, UnstartedSame
  <2> QED BY <2>1, StartedKeeps
<1>12. Attempt'
  BY <1>1, <1>3 DEF Attempt
<1>13. Callbacks'
  BY <1>1, <1>2 DEF Callbacks
<1>14. Forces'
  BY <1>1, <1>4, <1>5, Zenon DEF ClientInv, Forces
<1> QED BY <1>1, <1>6, <1>7, <1>8, <1>9, <1>10, <1>11, <1>12, <1>13, <1>14, Frames, Zenon
        DEF ClientInv

\* TcpClient::removeConnection() and detail::removeConnection() let the connection go, which
\* waits for its connectDestroyed().
LEMMA RemoveKeeps == ASSUME ClientInv, removeConnection \/ removeOrphan PROVE ClientInv'
<1> DEFINE c == Conn
<1>1. /\ cb = "remove" /\ Conn \in Fds /\ channel_ = Null /\ fds[Conn] = "owned"
      /\ state_ # "kConnecting" /\ ~Unstarted /\ "end" \notin ready /\ "OUT" \notin ready
      /\ armed = FALSE
  <2>1. cb = "remove"
    BY Zenon DEF removeConnection, removeOrphan
  <2>2. Conn # Null /\ channel_ = Null
    BY <2>1 DEF ClientInv, Cbs, Callbacks
  <2>3. Conn \in Fds
    BY <2>2 DEF ClientInv, Refs, Conn
  <2>4. fds[Conn] = "owned"
    BY <2>3 DEF ClientInv, Owned
  <2>5. state_ # "kConnecting" /\ "end" \notin ready
    BY <2>1, Zenon DEF ClientInv, Attempt
  <2>6. "OUT" \notin ready
    BY <2>5, Zenon DEF ClientInv, Attempt
  <2>7. ~Unstarted
    BY <2>2, Started
  <2>8. armed = FALSE
    BY <2>5 DEF ClientInv, Armed, Flags
  <2> QED BY <2>1, <2>2, <2>3, <2>4, <2>5, <2>6, <2>7, <2>8
<1>2. /\ pending' = Append(pending, Destroy(Conn)) /\ batch' = batch
      /\ connection_' = Null /\ orphan' = Null /\ fds' = [fds EXCEPT ![Conn] = "ended"]
      /\ cb' \in {"none", "reconnect"} /\ (cb' = "reconnect" => ~destroyed)
      /\ UNCHANGED <<clientConnect_, retry_, destroyed, connect_, state_, channel_, armed, phase,
                     ready, userVars, aborted>>
  <2>1. CASE removeConnection
    <3>1. orphan = Null /\ Conn = connection_ /\ ~destroyed
      BY <1>1, <2>1 DEF removeConnection, ClientInv, Owner, Conn
    <3> QED BY <2>1, <3>1, Zenon DEF removeConnection, queueInLoop, Destroy
  <2>2. CASE removeOrphan
    <3>1. connection_ = Null /\ Conn = orphan
      BY <1>1, <2>2 DEF removeOrphan, ClientInv, Owner, Conn
    <3> QED BY <2>2, <3>1, Zenon DEF removeOrphan, queueInLoop, Destroy
  <2> QED BY <2>1, <2>2
<1> USE DEF userVars
<1>3. \A f : Queued(f)' = IF f = Destroy(c) THEN Queued(f) + 1 ELSE Queued(f)
  BY <1>1, <1>2, Apart, QueuedAppend DEF ClientInv
<1>4. c \in Fds /\ Conn' = Null /\ Null \notin Fds
  BY <1>1, <1>2 DEF Conn
<1> HIDE DEF c
<1>5. /\ Queued(Reset)' = Queued(Reset) /\ Queued(Start)' = Queued(Start)
      /\ \A f \in Fds : Queued(FClose(f))' = Queued(FClose(f))
      /\ \A f \in Fds : Queued(Destroy(f))' = IF f = c THEN Queued(Destroy(f)) + 1
                                                       ELSE Queued(Destroy(f))
  BY <1>3, <1>4, Apart
<1>6. fds[c] = "owned" /\ \A f \in Fds : fds'[f] = IF f = c THEN "ended" ELSE fds[f]
  BY <1>1, <1>2 DEF ClientInv, Refs, c
<1>7. QueueOK'
  BY <1>1, <1>2, Apart DEF ClientInv, QueueOK
<1>8. Flags' /\ Users' /\ NoAbort' /\ Armed'
  <2>1. Flags'
    BY <1>2, Zenon DEF ClientInv, Flags
  <2> QED BY <1>2, <2>1, Frames, Zenon
<1>9. Refs'
  BY <1>2, <1>4 DEF ClientInv, Refs
<1>10. Phases'
  BY <1>2, <1>6 DEF ClientInv, Phases
<1>11. Cbs'
  BY <1>2, Zenon DEF Cbs
<1>12. Connecting'
  BY <1>1, <1>2, <1>6 DEF ClientInv, Connecting
<1>13. Owned'
  <2>1. \A f \in Fds : f # c => fds[f] # "owned"
    BY Zenon DEF ClientInv, Owned, c
  <2> QED BY <1>4, <1>6, <2>1 DEF Owned
<1>14. Ended'
  BY <1>5, <1>6 DEF ClientInv, Ended
<1>15. OrphanCloses'
  BY <1>2, <1>4, Zenon DEF OrphanCloses
<1>16. ResetOnce'
  BY <1>1, <1>2, <1>5 DEF ClientInv, ResetOnce
<1>17. Owner'
  BY <1>1, <1>2 DEF ClientInv, Owner
<1>18. StartOnce'
  <2>1. ~Unstarted'
    BY <1>1, <1>2, <1>5, UnstartedSame
  <2> QED BY <2>1, StartedKeeps
<1>19. Attempt'
  BY <1>1, <1>2 DEF Attempt
<1>20. Callbacks'
  BY <1>1, <1>2, <1>4 DEF Callbacks
<1>21. Forces'
  <2>1. CASE destroyed
    BY <1>2, <2>1 DEF Forces
  <2>2. CASE ~destroyed
    <3>1. NoForce
      BY <1>1, <2>2, Zenon DEF ClientInv, Forces
    <3>2. NoForce'
      BY <1>5, <3>1, Zenon DEF NoForce
    <3> QED BY <1>7, <3>2, ForcesOf
  <2> QED BY <2>1, <2>2
<1>22. ResetBeforeEnd'
  BY <1>4, Zenon DEF ResetBeforeEnd
<1> QED BY <1>7, <1>8, <1>9, <1>10, <1>11, <1>12, <1>13, <1>14, <1>15, <1>16, <1>17, <1>18, <1>19,
           <1>20, <1>21, <1>22, Zenon DEF ClientInv

\* A connection has ended and may be retried.
LEMMA RetryState ==
  ASSUME ClientInv, cb \in {"reconnect", "restart", "start"}
  PROVE  /\ channel_ = Null /\ Conn = Null /\ ~destroyed /\ ~Unstarted /\ NoForce
         /\ connection_ = Null /\ orphan = Null
         /\ state_ # "kConnecting" /\ "end" \notin ready /\ "OUT" \notin ready
<1>1. channel_ = Null /\ Conn = Null /\ ~destroyed
  BY DEF ClientInv, Callbacks
<1>2. state_ # "kConnecting" /\ "end" \notin ready
  BY DEF ClientInv, Attempt
<1>3. "OUT" \notin ready
  BY <1>2 DEF ClientInv, Attempt
<1>4. ~Unstarted
  <2>1. cb # "none"
    OBVIOUS
  <2> QED BY <2>1, Started
<1>5. connection_ = Null /\ orphan = Null
  BY <1>1 DEF Conn
<1>6. NoForce
  BY <1>1, <1>5, NoConnNoForce
<1> QED BY <1>1, <1>2, <1>3, <1>4, <1>5, <1>6

\* A step of the retry that makes no attempt.
LEMMA RetryKeeps ==
  ASSUME ClientInv, cb \in {"reconnect", "restart", "start"}, cb' \in {"none", "restart", "start"},
         state_' = state_ \/ state_' = "kDisconnected", cb' = "start" => state_' = "kDisconnected",
         connect_' \in BOOLEAN,
         UNCHANGED <<clientVars, channel_, armed, fds, pending, batch, phase, ready, userVars, aborted>>
  PROVE  ClientInv'
<1> USE DEF clientVars, userVars
<1>1. /\ channel_ = Null /\ Conn = Null /\ ~destroyed /\ ~Unstarted /\ NoForce
      /\ connection_ = Null /\ orphan = Null
      /\ state_ # "kConnecting" /\ "end" \notin ready /\ "OUT" \notin ready
  BY RetryState
<1>2. /\ \A f : Queued(f)' = Queued(f)
      /\ (NoForce' <=> NoForce) /\ QueueOK' /\ Users' /\ Phases' /\ NoAbort' /\ Owned' /\ Ended'
      /\ ResetOnce' /\ ResetBeforeEnd'
  BY QueueKept, Frames, Zenon
<1>3. ~Unstarted'
  BY <1>1, <1>2, UnstartedSame
<1>4. Conn' = Null /\ ~destroyed' /\ orphan' = Null /\ state_' # "kConnecting" /\ Null \notin Fds
  BY <1>1 DEF Conn
<1>5. Flags'
  BY Zenon DEF ClientInv, Flags
<1>6. Refs'
  BY DEF ClientInv, Refs
<1>7. Cbs'
  BY DEF Cbs
<1>8. Connecting' /\ Armed'
  <2>1. Connecting'
    BY <1>1, <1>4, Zenon DEF ClientInv, Connecting
  <2>2. Armed'
    BY <1>1, <1>4 DEF ClientInv, Armed
  <2> QED BY <2>1, <2>2
<1>9. OrphanCloses'
  BY <1>4, Zenon DEF OrphanCloses
<1>10. Owner'
  BY <1>4, Zenon DEF Owner
<1>11. StartOnce'
  BY <1>3, StartedKeeps
<1>12. Attempt'
  BY <1>1, <1>4 DEF Attempt
<1>13. Callbacks'
  BY <1>1, <1>4 DEF Callbacks
<1>14. Forces'
  BY <1>1, <1>2, ForcesOf
<1> QED BY <1>2, <1>5, <1>6, <1>7, <1>8, <1>9, <1>10, <1>11, <1>12, <1>13, <1>14, Zenon DEF ClientInv

\* removeConnection() tests whether to connect again, and restart() sets the flags.
LEMMA ReconnectKeeps == ASSUME ClientInv, reconnect \/ restart PROVE ClientInv'
<1> USE DEF connectorVars
<1>1. CASE reconnect
  <2>1. /\ cb = "reconnect" /\ cb' \in {"none", "restart"}
        /\ UNCHANGED <<clientVars, connectorVars, pending, batch, phase, ready, userVars, aborted>>
    BY <1>1 DEF reconnect
  <2>2. connect_' \in BOOLEAN
    BY <2>1 DEF ClientInv, Flags
  <2> QED BY <2>1, <2>2, RetryKeeps
<1>2. CASE restart
  BY <1>2, RetryKeeps DEF restart
<1> QED BY <1>1, <1>2

\* The client attempts to connect again, if no stop() has come meanwhile.
LEMMA StartAgainKeeps == ASSUME ClientInv, startAgain PROVE ClientInv'
<1>1. /\ cb = "start" /\ cb' = "none" /\ startInLoop(connect_)
      /\ UNCHANGED <<clientVars, connect_, pending, batch, phase, ready, userVars>>
  BY DEF startAgain
<1>2. state_ = "kDisconnected"
  BY <1>1 DEF ClientInv, Attempt
<1>3. connect \/ UNCHANGED <<state_, channel_, armed, fds, aborted>>
  BY <1>1, <1>2 DEF startInLoop
<1>4. CASE connect
  <2> USE DEF clientVars, userVars
  <2>1. /\ channel_ = Null /\ Conn = Null /\ ~destroyed /\ ~Unstarted
        /\ state_ # "kConnecting" /\ "end" \notin ready
    BY <1>1, RetryState
  <2>2. (\A f : Queued(f)' = Queued(f)) /\ QueueOK' /\ Users'
    BY <1>1, QueueKept, Frames
  <2>3. ~Unstarted'
    BY <1>1, <2>1, <2>2, UnstartedSame
  <2>4. /\ Queued(Reset)' = Queued(Reset)
        /\ \A f \in Fds : Queued(FClose(f))' = Queued(FClose(f))
                          /\ Queued(Destroy(f))' = Queued(Destroy(f))
    BY <2>2, Zenon
  <2>5. /\ Refs' /\ Cbs' /\ NoAbort' /\ armed' \in BOOLEAN /\ aborted' \in BOOLEAN
        /\ (\A f \in Fds : fds'[f] = "released" => fds[f] = "released")
        /\ Connecting' /\ Owned' /\ Ended' /\ OrphanCloses' /\ Armed' /\ ResetOnce'
        /\ Owner' /\ StartOnce' /\ Attempt' /\ Callbacks' /\ Forces' /\ ResetBeforeEnd'
    BY <1>1, <1>4, <2>1, <2>2, <2>3, <2>4, AttemptMade, Zenon
  <2>6. Flags'
    BY <1>1, <2>5, Zenon DEF ClientInv, Flags
  <2>7. Phases'
    BY <1>1, <2>5, Zenon DEF ClientInv, Phases
  <2> QED BY <2>2, <2>5, <2>6, <2>7, Zenon DEF ClientInv
<1>5. CASE UNCHANGED <<state_, channel_, armed, fds, aborted>>
  <2>1. connect_' \in BOOLEAN
    BY <1>1 DEF ClientInv, Flags
  <2> QED BY <1>1, <1>5, <2>1, RetryKeeps
<1> QED BY <1>3, <1>4, <1>5

\* The swap.
LEMMA SwapKeeps == ASSUME ClientInv, doPendingFunctors PROVE ClientInv'
<1>1. /\ cb = "none" /\ phase = "handle" /\ phase' = "functors" /\ batch' = pending
      /\ pending' = <<>> /\ ready = {}
      /\ UNCHANGED <<clientVars, connectorVars, ready, cb, userVars, aborted>>
  BY DEF doPendingFunctors, LoopFree
<1> USE DEF clientVars, userVars, connectorVars
<1>2. batch = <<>>
  BY <1>1, Zenon DEF ClientInv, Phases
<1>3. \A f : Queued(f)' = Queued(f)
  BY <1>1, <1>2, QueuedSwap DEF ClientInv
<1>4. (NoForce' <=> NoForce) /\ (destroyed' <=> destroyed) /\ Conn' = Conn
  BY <1>1, <1>3 DEF NoForce, Conn
<1>5. QueueOK'
  BY <1>1 DEF ClientInv, QueueOK
<1>6. Flags'
  BY <1>1, Zenon DEF ClientInv, Flags
<1>7. Phases'
  BY <1>1 DEF ClientInv, Phases
<1>8. Ended'
  BY <1>1, <1>3, Zenon DEF ClientInv, Ended
<1>9. OrphanCloses'
  BY <1>1, <1>3, Zenon DEF ClientInv, OrphanCloses
<1>10. ResetOnce'
  BY <1>1, <1>3 DEF ClientInv, ResetOnce
<1>11. StartOnce'
  <2>1. Unstarted' <=> Unstarted
    BY <1>1, <1>3, UnstartedSame
  <2> QED BY <1>1, <1>3, <1>4, <2>1 DEF ClientInv, StartOnce
<1>12. Callbacks'
  BY <1>1, Zenon DEF Callbacks
<1>13. Forces'
  <2>1. 1..Len(pending') = {}
    BY <1>1
  <2> QED BY <1>1, <1>3, <1>4, <2>1, Zenon DEF ClientInv, Forces
<1>14. ResetBeforeEnd'
  <2>1. Conn # Null /\ channel_ # Null => ResetFirst(pending)
    BY <1>1 DEF ClientInv, ResetBeforeEnd
  <2>2. ResetFirst(batch)' <=> ResetFirst(pending)
    BY <1>1, Zenon DEF ResetFirst
  <2> QED BY <1>1, <1>4, <2>1, <2>2, Zenon DEF ResetBeforeEnd
<1> QED BY <1>1, <1>5, <1>6, <1>7, <1>8, <1>9, <1>10, <1>11, <1>12, <1>13, <1>14, Frames, Zenon
        DEF ClientInv

\* Where the loop is when it runs the first callback of the batch, and what is left of the batch.
LEMMA RunState ==
  ASSUME ClientInv, NEW k, Next1(k)
  PROVE  /\ cb = "none" /\ phase = "functors" /\ ready = {} /\ batch # <<>>
         /\ Head(batch) \in Functors /\ Head(batch)[1] = k /\ batch' = Tail(batch)
         /\ Tail(batch) \in Seq(Functors) /\ Queued(Head(batch)) \in Nat \ {0}
         /\ \A f : Queued(f) \in Nat
<1>1. cb = "none" /\ batch # <<>> /\ Head(batch)[1] = k /\ batch' = Tail(batch)
  BY DEF Next1, LoopFree
<1>2. phase = "functors" /\ ready = {}
  BY <1>1 DEF ClientInv, Phases
<1>3. /\ Head(batch) \in Functors /\ Tail(batch) \in Seq(Functors)
      /\ 1 \in 1..Len(batch) /\ batch[1] = Head(batch)
  BY <1>1 DEF ClientInv, QueueOK
<1>4. \A f : Queued(f) \in Nat
  BY QueuedNat DEF ClientInv
<1>5. Queued(Head(batch)) # 0
  BY <1>3, QueuedNat DEF ClientInv
<1> QED BY <1>1, <1>2, <1>3, <1>4, <1>5

\* What every callback that queues nothing keeps.
LEMMA RunKeeps ==
  ASSUME ClientInv, NEW k, Next1(k), UNCHANGED <<pending, phase, ready>>
  PROVE  /\ QueueOK' /\ Phases'
         /\ \A f : Queued(f)' = IF f = Head(batch) THEN Queued(f) - 1 ELSE Queued(f)
         /\ UNCHANGED <<connection_, orphan, channel_>> /\ Head(batch) # Reset => ResetBeforeEnd'
<1>1. /\ cb = "none" /\ phase = "functors" /\ ready = {} /\ batch # <<>>
      /\ Head(batch) \in Functors /\ batch' = Tail(batch) /\ Tail(batch) \in Seq(Functors)
  BY RunState
<1>2. QueueOK'
  BY <1>1 DEF ClientInv, QueueOK
<1>3. \A f : Queued(f)' = IF f = Head(batch) THEN Queued(f) - 1 ELSE Queued(f)
  BY <1>1, QueuedRun DEF ClientInv
<1>4. Phases'
  BY <1>1 DEF Phases
<1>5. ASSUME UNCHANGED <<connection_, orphan, channel_>>, Head(batch) # Reset PROVE ResetBeforeEnd'
  <2>1. Conn' = Conn
    BY <1>5 DEF Conn
  <2>2. ASSUME Conn # Null, channel_ # Null PROVE ResetFirst(batch)'
    <3>1. ResetFirst(batch)
      BY <1>1, <2>2 DEF ClientInv, ResetBeforeEnd
    <3>2. ResetFirst(Tail(batch))
      BY <1>1, <1>5, <3>1, ResetFirstTail DEF ClientInv, QueueOK
    <3> QED BY <1>1, <3>2, Zenon DEF ResetFirst
  <2> QED BY <1>1, <1>5, <2>1, <2>2 DEF ResetBeforeEnd
<1> QED BY <1>2, <1>3, <1>4, <1>5

\* Connector::startInLoop(), which runs once.
LEMMA RunStartKeeps == ASSUME ClientInv, runStart PROVE ClientInv'
<1>1. /\ Next1("startInLoop") /\ startInLoop(connect_)
      /\ UNCHANGED <<clientVars, connect_, pending, phase, ready, cb, userVars>>
  BY Zenon DEF runStart
<1> USE DEF clientVars, userVars
<1>2. /\ cb = "none" /\ phase = "functors" /\ ready = {} /\ batch # <<>>
      /\ Head(batch) \in Functors /\ Head(batch)[1] = "startInLoop" /\ batch' = Tail(batch)
      /\ Queued(Head(batch)) \in Nat \ {0}
  BY <1>1, RunState
<1>3. Head(batch) = Start
  BY <1>2, ByName
<1>4. /\ QueueOK' /\ Phases'
      /\ \A f : Queued(f)' = IF f = Start THEN Queued(f) - 1 ELSE Queued(f)
      /\ UNCHANGED <<connection_, orphan, channel_>> => ResetBeforeEnd'
  BY <1>1, <1>3, RunKeeps, Apart
<1>5. /\ Queued(Reset)' = Queued(Reset)
      /\ \A f \in Fds : Queued(FClose(f))' = Queued(FClose(f))
                        /\ Queued(Destroy(f))' = Queued(Destroy(f))
  BY <1>4, Apart
<1>6. /\ state_ = "kDisconnected" /\ channel_ = Null /\ Conn = Null /\ ~destroyed
      /\ connects # 0 /\ call \notin {"connect", "queueStart"} /\ Queued(Start) = 1
  <2>1. Queued(Start) # 0
    BY <1>2, <1>3
  <2>2. Unstarted
    BY <2>1, Zenon DEF Unstarted
  <2>3. Queued(Start) = 1
    BY <1>2, <1>3 DEF ClientInv, StartOnce
  <2> QED BY <2>1, <2>2, <2>3, Zenon DEF ClientInv, StartOnce
<1>7. ~Unstarted'
  <2>1. Queued(Start)' = 0
    BY <1>4, <1>6
  <2> QED BY <1>1, <1>6, <2>1, Zenon DEF Unstarted
<1>8. Users'
  BY <1>1, Frames, Zenon
<1>9. CASE connect
  <2>1. state_ # "kConnecting" /\ "end" \notin ready /\ cb' = "none"
    BY <1>1, <1>2, <1>6
  <2>2. /\ Refs' /\ Cbs' /\ NoAbort' /\ armed' \in BOOLEAN /\ aborted' \in BOOLEAN
        /\ Connecting' /\ Owned' /\ Ended' /\ OrphanCloses' /\ Armed' /\ ResetOnce'
        /\ Owner' /\ StartOnce' /\ Attempt' /\ Callbacks' /\ Forces' /\ ResetBeforeEnd'
    BY <1>1, <1>4, <1>5, <1>6, <1>7, <1>9, <2>1, AttemptMade, Zenon
  <2>3. Flags'
    BY <1>1, <2>2, Zenon DEF ClientInv, Flags
  <2> QED BY <1>4, <1>8, <2>2, <2>3, Zenon DEF ClientInv
<1>10. CASE UNCHANGED <<state_, channel_, armed, fds, aborted>>
  <2>1. Flags'
    BY <1>1, <1>10, Zenon DEF ClientInv, Flags
  <2>2. Ended'
    BY <1>5, <1>10, Zenon DEF ClientInv, Ended
  <2>3. OrphanCloses'
    BY <1>1, <1>5, Zenon DEF ClientInv, OrphanCloses
  <2>4. ResetOnce'
    BY <1>5, <1>10 DEF ClientInv, ResetOnce
  <2>5. StartOnce'
    BY <1>7, StartedKeeps
  <2>6. Callbacks'
    BY <1>1, <1>2, Zenon DEF Callbacks
  <2>7. Forces'
    <3>1. connection_ = Null
      BY <1>6 DEF Conn
    <3>2. NoForce
      BY <1>6, <3>1, NoConnNoForce
    <3>3. NoForce'
      BY <1>5, <3>2, Zenon DEF NoForce
    <3> QED BY <1>4, <3>3, ForcesOf
  <2>8. ResetBeforeEnd'
    BY <1>1, <1>4, <1>10, Zenon
  <2> QED BY <1>1, <1>4, <1>8, <1>10, <2>1, <2>2, <2>3, <2>4, <2>5, <2>6, <2>7, <2>8, Frames, Zenon
          DEF ClientInv
<1> QED BY <1>1, <1>6, <1>9, <1>10 DEF startInLoop

\* Connector::stopInLoop() ends the attempt, if there is one.
LEMMA RunStopKeeps == ASSUME ClientInv, runStop PROVE ClientInv'
<1>1. /\ Next1("stopInLoop") /\ stopInLoop
      /\ UNCHANGED <<clientVars, connect_, phase, ready, cb, userVars, aborted>>
  BY Zenon DEF runStop
<1> USE DEF clientVars, userVars
<1>2. /\ cb = "none" /\ phase = "functors" /\ ready = {} /\ batch # <<>>
      /\ Head(batch) \in Functors /\ Head(batch)[1] = "stopInLoop" /\ batch' = Tail(batch)
      /\ Tail(batch) \in Seq(Functors) /\ \A f : Queued(f) \in Nat
  BY <1>1, RunState
<1>3. Head(batch) = <<"stopInLoop">>
  BY <1>2, ByName
<1>4. Users' /\ NoAbort' /\ Cbs'
  BY <1>1, Frames, Zenon
<1>5. CASE state_ = "kConnecting"
  <2>1. /\ pending' = Append(pending, Reset) /\ armed' = FALSE /\ channel_' = channel_
        /\ state_' = "kDisconnected" /\ fds' = [fds EXCEPT ![channel_] = "free"]
    BY <1>1, <1>5, Zenon DEF stopInLoop, removeAndResetChannel, retry, queueInLoop, Reset
  <2>2. QueueOK'
    BY <1>2, <2>1, Apart DEF ClientInv, QueueOK
  <2>3. \A f : Queued(f)' = IF f = Head(batch) THEN Queued(f) - 1
                            ELSE IF f = Reset THEN Queued(f) + 1 ELSE Queued(f)
    BY <1>2, <1>3, <2>1, Apart, QueuedRunAppend DEF ClientInv
  <2>4. /\ Queued(Reset)' = Queued(Reset) + 1 /\ Queued(Start)' = Queued(Start)
        /\ \A f \in Fds : Queued(FClose(f))' = Queued(FClose(f))
                          /\ Queued(Destroy(f))' = Queued(Destroy(f))
    BY <1>3, <2>3, Apart
  <2>5. ready' \subseteq ready /\ "OUT" \notin ready' /\ state_' \in {"kDisconnected", "kConnected"}
    BY <1>1, <1>2, <2>1
  <2>6. Phases'
    BY <1>1, <1>2 DEF ClientInv, Phases
  <2>7. Flags'
    BY <1>1, <2>1, Zenon DEF ClientInv, Flags
  <2>8. /\ Refs' /\ Cbs' /\ Connecting' /\ Owned' /\ Ended' /\ OrphanCloses' /\ Armed' /\ ResetOnce'
        /\ Owner' /\ StartOnce' /\ Attempt' /\ Callbacks' /\ Forces' /\ ResetBeforeEnd'
    BY <1>1, <1>5, <2>1, <2>2, <2>4, <2>5, AttemptEnds, Zenon
  <2> QED BY <1>4, <2>2, <2>6, <2>7, <2>8, Zenon DEF ClientInv
<1>6. CASE state_ # "kConnecting"
  <2>1. UNCHANGED <<state_, channel_, armed, fds, pending>>
    BY <1>1, <1>6, Zenon DEF stopInLoop
  <2>2. /\ QueueOK' /\ Phases' /\ ResetBeforeEnd'
        /\ \A f : Queued(f)' = IF f = Head(batch) THEN Queued(f) - 1 ELSE Queued(f)
    BY <1>1, <1>3, <2>1, RunKeeps, Apart
  <2>3. /\ Queued(Reset)' = Queued(Reset) /\ Queued(Start)' = Queued(Start)
        /\ \A f \in Fds : Queued(FClose(f))' = Queued(FClose(f))
                          /\ Queued(Destroy(f))' = Queued(Destroy(f))
    BY <1>3, <2>2, Apart
  <2>4. Flags'
    BY <1>1, <2>1, Zenon DEF ClientInv, Flags
  <2>5. Ended'
    BY <2>1, <2>3, Zenon DEF ClientInv, Ended
  <2>6. OrphanCloses'
    BY <1>1, <2>3, Zenon DEF ClientInv, OrphanCloses
  <2>7. ResetOnce'
    BY <2>1, <2>3 DEF ClientInv, ResetOnce
  <2>8. StartOnce'
    <3>1. (Unstarted' <=> Unstarted) /\ Conn' = Conn
      BY <1>1, <2>3, UnstartedSame DEF Conn
    <3> QED BY <1>1, <2>1, <2>3, <3>1 DEF ClientInv, StartOnce
  <2>9. Callbacks'
    BY <1>1, <1>2, Zenon DEF Callbacks
  <2>10. Forces'
    <3>1. (destroyed' <=> destroyed) /\ (NoForce' <=> NoForce)
      BY <1>1, <2>3 DEF NoForce
    <3> QED BY <1>1, <2>1, <2>3, <3>1, Zenon DEF ClientInv, Forces
  <2> QED BY <1>1, <1>4, <2>1, <2>2, <2>4, <2>5, <2>6, <2>7, <2>8, <2>9, <2>10, Frames, Zenon
          DEF ClientInv
<1> QED BY <1>5, <1>6

\* Connector::resetChannel().
LEMMA ResetKeeps == ASSUME ClientInv, resetChannel PROVE ClientInv'
<1>1. /\ Next1("resetChannel") /\ channel_' = Null
      /\ UNCHANGED <<clientVars, connect_, state_, armed, fds, pending, phase, ready, cb, userVars,
                     aborted>>
  BY Zenon DEF resetChannel
<1> USE DEF clientVars, userVars
<1>2. /\ cb = "none" /\ phase = "functors" /\ ready = {} /\ batch # <<>>
      /\ Head(batch) \in Functors /\ Head(batch)[1] = "resetChannel"
      /\ Queued(Head(batch)) \in Nat \ {0}
  BY <1>1, RunState
<1>3. Head(batch) = Reset
  BY <1>2, ByName
<1>4. /\ QueueOK' /\ Phases'
      /\ \A f : Queued(f)' = IF f = Reset THEN Queued(f) - 1 ELSE Queued(f)
  BY <1>1, <1>3, RunKeeps
<1>5. Queued(Reset) = 1 /\ ~armed /\ state_ # "kConnecting"
  BY <1>2, <1>3 DEF ClientInv, ResetOnce, Armed
<1>6. /\ Queued(Reset)' = 0 /\ Queued(Start)' = Queued(Start)
      /\ \A f \in Fds : Queued(FClose(f))' = Queued(FClose(f))
                        /\ Queued(Destroy(f))' = Queued(Destroy(f))
  BY <1>4, <1>5, Apart
<1>7. Flags'
  BY <1>1, Zenon DEF ClientInv, Flags
<1>8. Refs'
  BY <1>1 DEF ClientInv, Refs
<1>9. Connecting'
  BY <1>1, <1>5 DEF ClientInv, Connecting
<1>10. Ended'
  BY <1>1, <1>6, Zenon DEF ClientInv, Ended
<1>11. OrphanCloses'
  BY <1>1, <1>6, Zenon DEF ClientInv, OrphanCloses
<1>12. ResetOnce'
  BY <1>1, <1>6 DEF ResetOnce
<1>13. Owner'
  BY <1>1 DEF ClientInv, Owner
<1>14. StartOnce'
  <2>1. (Unstarted' <=> Unstarted) /\ Conn' = Conn
    BY <1>1, <1>6, UnstartedSame DEF Conn
  <2> QED BY <1>1, <1>6, <2>1 DEF ClientInv, StartOnce
<1>15. Attempt'
  BY <1>1, <1>2, <1>5 DEF Attempt
<1>16. Callbacks'
  BY <1>1, <1>2, Zenon DEF Callbacks
<1>17. Forces'
  <2>1. (destroyed' <=> destroyed) /\ (NoForce' <=> NoForce)
    BY <1>1, <1>6 DEF NoForce
  <2> QED BY <1>1, <1>6, <2>1, Zenon DEF ClientInv, Forces
<1>18. ResetBeforeEnd'
  BY <1>1, Zenon DEF ResetBeforeEnd
<1> QED BY <1>1, <1>4, <1>7, <1>8, <1>9, <1>10, <1>11, <1>12, <1>13, <1>14, <1>15, <1>16, <1>17,
           <1>18, Frames, Zenon DEF ClientInv

\* TcpConnection::connectDestroyed(), in the batch that keeps the connection.
LEMMA DestroyedKeeps == ASSUME ClientInv, connectDestroyed PROVE ClientInv'
<1> DEFINE c == Head(batch)[2]
<1>1. /\ Next1("connectDestroyed") /\ fds' = [fds EXCEPT ![c] = "released"]
      /\ UNCHANGED <<clientVars, connect_, state_, channel_, armed, pending, phase, ready, cb,
                     userVars, aborted>>
  BY Zenon DEF connectDestroyed
<1> USE DEF clientVars, userVars
<1>2. /\ cb = "none" /\ phase = "functors" /\ ready = {} /\ batch # <<>>
      /\ Head(batch) \in Functors /\ Head(batch)[1] = "connectDestroyed"
      /\ Queued(Head(batch)) \in Nat \ {0}
  BY <1>1, RunState
<1>3. c \in Fds /\ Head(batch) = Destroy(c)
  BY <1>2, ByName
<1> HIDE DEF c
<1>4. /\ QueueOK' /\ Phases'
      /\ \A f : Queued(f)' = IF f = Destroy(c) THEN Queued(f) - 1 ELSE Queued(f)
      /\ ResetBeforeEnd'
  BY <1>1, <1>3, RunKeeps, Apart
<1>5. Queued(Destroy(c)) = 1 /\ fds[c] = "ended"
  BY <1>2, <1>3 DEF ClientInv, Ended
<1>6. /\ Queued(Reset)' = Queued(Reset) /\ Queued(Start)' = Queued(Start)
      /\ \A f \in Fds : Queued(FClose(f))' = Queued(FClose(f))
      /\ \A f \in Fds : Queued(Destroy(f))' = IF f = c THEN 0 ELSE Queued(Destroy(f))
  BY <1>3, <1>4, <1>5, Apart
<1>7. \A f \in Fds : fds'[f] = IF f = c THEN "released" ELSE fds[f]
  BY <1>1, <1>3 DEF ClientInv, Refs
<1>8. Flags'
  BY <1>1, Zenon DEF ClientInv, Flags
<1>9. Refs'
  BY <1>1, <1>3 DEF ClientInv, Refs
<1>10. Connecting'
  BY <1>1, <1>5, <1>7 DEF ClientInv, Connecting
<1>11. Owned'
  <2>1. Conn' = Conn
    BY <1>1 DEF Conn
  <2> QED BY <1>5, <1>7, <2>1 DEF ClientInv, Owned
<1>12. Ended'
  BY <1>6, <1>7 DEF ClientInv, Ended
<1>13. OrphanCloses'
  BY <1>1, <1>6, Zenon DEF ClientInv, OrphanCloses
<1>14. ResetOnce'
  BY <1>1, <1>6 DEF ClientInv, ResetOnce
<1>15. StartOnce'
  <2>1. (Unstarted' <=> Unstarted) /\ Conn' = Conn
    BY <1>1, <1>6, UnstartedSame DEF Conn
  <2> QED BY <1>1, <1>6, <2>1 DEF ClientInv, StartOnce
<1>16. Callbacks'
  BY <1>1, <1>2, Zenon DEF Callbacks
<1>17. Forces'
  <2>1. (destroyed' <=> destroyed) /\ (NoForce' <=> NoForce)
    BY <1>1, <1>6 DEF NoForce
  <2> QED BY <1>1, <1>6, <2>1, Zenon DEF ClientInv, Forces
<1> QED BY <1>1, <1>4, <1>8, <1>9, <1>10, <1>11, <1>12, <1>13, <1>14, <1>15, <1>16, <1>17, Frames,
           Zenon DEF ClientInv

\* TcpConnection::forceCloseInLoop() ends the connection it was called on, if that still is one.
LEMMA ForceCloseKeeps == ASSUME ClientInv, forceCloseInLoop PROVE ClientInv'
<1> DEFINE c == Head(batch)[2]
<1>1. /\ Next1("forceClose") /\ cb' = IF Conn = c THEN "down" ELSE "none"
      /\ UNCHANGED <<clientVars, connectorVars, pending, phase, ready, userVars, aborted>>
  BY Zenon DEF forceCloseInLoop
<1> USE DEF clientVars, userVars, connectorVars
<1>2. /\ cb = "none" /\ phase = "functors" /\ ready = {} /\ batch # <<>>
      /\ Head(batch) \in Functors /\ Head(batch)[1] = "forceClose"
      /\ Queued(Head(batch)) \in Nat \ {0}
  BY <1>1, RunState
<1>3. c \in Fds /\ Head(batch) = FClose(c)
  BY <1>2, ByName
<1> HIDE DEF c
<1>4. /\ QueueOK' /\ Phases'
      /\ \A f : Queued(f)' = IF f = FClose(c) THEN Queued(f) - 1 ELSE Queued(f)
      /\ ResetBeforeEnd'
  BY <1>1, <1>3, RunKeeps, Apart
<1>5. /\ Queued(Reset)' = Queued(Reset) /\ Queued(Start)' = Queued(Start)
      /\ \A f \in Fds : Queued(Destroy(f))' = Queued(Destroy(f))
      /\ \A f \in Fds : f # c => Queued(FClose(f))' = Queued(FClose(f))
      /\ \A f \in Fds : f = c => Queued(FClose(f))' = Queued(FClose(f)) - 1
  <2>1. ASSUME NEW f \in Fds, f # c PROVE Queued(FClose(f))' = Queued(FClose(f))
    <3>1. FClose(f) # FClose(c)
      BY <1>3, <2>1, Apart
    <3> QED BY <1>4, <3>1
  <2>2. ASSUME NEW f \in Fds PROVE Queued(Destroy(f))' = Queued(Destroy(f))
    <3>1. Destroy(f) # FClose(c)
      BY <1>3, Apart
    <3> QED BY <1>4, <3>1
  <2>3. Reset # FClose(c) /\ Start # FClose(c)
    BY <1>3, Apart
  <2> QED BY <1>4, <2>1, <2>2, <2>3
<1>6. /\ Conn' = Conn /\ (destroyed' <=> destroyed) /\ Null \notin Fds
  BY <1>1 DEF Conn
<1>7. ~destroyed => Conn = c /\ NoForce'
  <2>1. ASSUME ~destroyed PROVE Conn = c /\ NoForce'
    <3>1. connection_ = c /\ Queued(FClose(c)) <= 1
      BY <1>2, <1>3, <2>1 DEF ClientInv, Forces
    <3>2. ASSUME NEW f \in Fds, f = c PROVE Queued(FClose(f))' = 0
      <4>1. Queued(FClose(f)) = 1
        BY <1>2, <1>3, <3>1, <3>2
      <4> QED BY <1>5, <3>2, <4>1
    <3>3. ASSUME NEW f \in Fds, f # c PROVE Queued(FClose(f))' = 0
      <4>1. Queued(FClose(f)) = 0
        BY <2>1, <3>1, <3>3, Zenon DEF ClientInv, Forces
      <4> QED BY <1>5, <3>3, <4>1
    <3>4. Conn = c
      BY <1>3, <3>1 DEF Conn
    <3>5. ASSUME NEW f \in Fds PROVE Queued(FClose(f))' = 0
      <4>1. CASE f = c
        BY <3>2, <4>1
      <4>2. CASE f # c
        BY <3>3, <4>2
      <4> QED BY <4>1, <4>2
    <3> QED BY <3>4, <3>5, Zenon DEF NoForce
  <2> QED BY <2>1
<1>8. Flags'
  BY <1>1, Zenon DEF ClientInv, Flags
<1>9. Ended'
  BY <1>1, <1>5, Zenon DEF ClientInv, Ended
<1>10. ResetOnce'
  BY <1>1, <1>5 DEF ClientInv, ResetOnce
<1>11. Unstarted' <=> Unstarted
  BY <1>1, <1>5, UnstartedSame
<1>12. Forces'
  <2>1. CASE destroyed
    BY <1>6, <2>1, Zenon DEF Forces
  <2>2. CASE ~destroyed
    BY <1>4, <1>7, <2>2, ForcesOf
  <2> QED BY <2>1, <2>2
<1>13. CASE Conn = c
  <2>1. cb' = "down" /\ Conn # Null /\ Conn' # Null
    BY <1>1, <1>3, <1>6, <1>13
  <2>2. channel_ = Null
    <3>1. ASSUME channel_ # Null PROVE FALSE
      <4>1. ResetFirst(batch)
        BY <1>2, <2>1, <3>1 DEF ClientInv, ResetBeforeEnd
      <4> QED BY <1>2, <1>3, <4>1, ResetFirstTail DEF ClientInv, QueueOK
    <3> QED BY <3>1
  <2>3. state_ # "kConnecting" /\ ~Unstarted
    <3>1. state_ # "kConnecting"
      BY <2>1, Zenon DEF ClientInv, Attempt
    <3> QED BY <2>1, <3>1, Started
  <2>4. Cbs'
    BY <2>1 DEF Cbs
  <2>5. OrphanCloses'
    BY <2>1 DEF OrphanCloses
  <2>6. Owner'
    BY <1>1, <1>6, <2>1 DEF ClientInv, Owner
  <2>7. StartOnce'
    BY <1>11, <2>3, StartedKeeps
  <2>8. Attempt'
    BY <1>1, <1>2, <2>3 DEF Attempt
  <2>9. Callbacks'
    BY <1>1, <2>1, <2>2 DEF Callbacks
  <2> QED BY <1>1, <1>4, <1>8, <1>9, <1>10, <1>12, <2>4, <2>5, <2>6, <2>7, <2>8, <2>9, Frames, Zenon
          DEF ClientInv
<1>14. CASE Conn # c
  <2>1. cb' = "none" /\ destroyed /\ connection_ = Null /\ orphan # c
    <3>1. cb' = "none" /\ destroyed
      BY <1>1, <1>7, <1>14
    <3>2. connection_ = Null
      BY <3>1, Zenon DEF ClientInv, Owner
    <3> QED BY <1>14, <3>1, <3>2 DEF Conn
  <2>2. OrphanCloses'
    BY <1>1, <1>2, <1>5, <2>1 DEF ClientInv, OrphanCloses
  <2>3. StartOnce'
    BY <2>1, <1>11, Started, StartedKeeps
  <2>4. Callbacks'
    BY <2>1, Zenon DEF Callbacks
  <2>5. cb' = cb
    BY <1>2, <2>1
  <2> QED BY <1>1, <1>4, <1>8, <1>9, <1>10, <1>12, <2>2, <2>3, <2>4, <2>5, Frames, Zenon
          DEF ClientInv
<1> QED BY <1>13, <1>14

\* The batch dies, and with it the last pointers.
LEMMA EndBatchKeeps == ASSUME ClientInv, endBatch PROVE ClientInv'
<1>1. /\ cb = "none" /\ phase = "functors" /\ batch = <<>> /\ phase' = "poll"
      /\ fds' = Unqueued
      /\ UNCHANGED <<clientVars, connect_, state_, channel_, armed, pending, batch, ready, cb,
                     userVars, aborted>>
  BY DEF endBatch, LoopFree
<1> USE DEF clientVars, userVars
<1>2. ready = {} /\ Conn' = Conn /\ (destroyed' <=> destroyed)
  BY <1>1 DEF ClientInv, Phases, Conn
<1>3. /\ \A f : Queued(f)' = Queued(f)
      /\ NoForce' <=> NoForce
  BY <1>1, QueueKept
<1>4. \A f \in Fds : fds[f] # "released" => fds'[f] = fds[f]
  BY <1>1 DEF Unqueued
<1>a. \A f \in Fds : fds[f] = "released" => fds'[f] \in {"free", "kept"}
  BY <1>1 DEF Unqueued
<1>5. Flags'
  BY <1>1, Zenon DEF ClientInv, Flags
<1>6. Refs'
  BY <1>1 DEF Unqueued, ClientInv, Refs
<1>7. Phases'
  BY <1>1, <1>2, <1>4, <1>a DEF Phases
<1>8. Connecting'
  BY <1>1, <1>4, <1>a DEF ClientInv, Connecting
<1>9. Owned'
  BY <1>2, <1>4, <1>a DEF ClientInv, Owned
<1>10. Ended'
  BY <1>3, <1>4, <1>a DEF ClientInv, Ended
<1>11. Callbacks'
  BY <1>1, Zenon DEF Callbacks
<1>12. Forces'
  <2>1. ~destroyed => \A i \in 1..Len(pending) : \A f \in Fds : pending[i] # FClose(f)
    BY <1>1 DEF ClientInv, Forces
  <2> QED BY <1>1, <1>2, <1>3, <2>1, Zenon DEF ClientInv, Forces
<1>13. ResetBeforeEnd'
  <2>1. ~(Conn # Null /\ channel_ # Null)
    BY <1>1, ResetFirstEmpty DEF ClientInv, ResetBeforeEnd
  <2> QED BY <1>1, <1>2, <2>1 DEF ResetBeforeEnd
<1> QED BY <1>1, <1>5, <1>6, <1>7, <1>8, <1>9, <1>10, <1>11, <1>12, <1>13, Frames, Zenon
        DEF ClientInv

-----------------------------------------------------------------------------
(* The user: the connection callback, the other thread and ~TcpClient().   *)

\* Queueing anything but a forceClose().
LEMMA QueueKeeps ==
  ASSUME ClientInv, NEW g \in {Start, <<"stopInLoop">>}, pending' = Append(pending, g),
         UNCHANGED <<batch, phase, ready, connection_, orphan, channel_, destroyed>>,
         cb' \in {"down", "remove"} => cb \in {"down", "remove"}
  PROVE  /\ QueueOK' /\ Forces' /\ ResetBeforeEnd'
         /\ Queued(Reset)' = Queued(Reset)
         /\ \A f \in Fds : Queued(FClose(f))' = Queued(FClose(f))
                           /\ Queued(Destroy(f))' = Queued(Destroy(f))
         /\ Queued(Start)' = IF g = Start THEN Queued(Start) + 1 ELSE Queued(Start)
<1>1. /\ g \in Functors /\ g # Reset /\ \A f \in Fds : FClose(f) # g /\ Destroy(f) # g
  BY Apart
<1>2. QueueOK'
  BY <1>1 DEF ClientInv, QueueOK
<1>3. \A f : Queued(f)' = IF f = g THEN Queued(f) + 1 ELSE Queued(f)
  BY <1>1, QueuedAppend DEF ClientInv
<1>4. /\ Queued(Reset)' = Queued(Reset)
      /\ \A f \in Fds : Queued(FClose(f))' = Queued(FClose(f))
                        /\ Queued(Destroy(f))' = Queued(Destroy(f))
      /\ Queued(Start)' = IF g = Start THEN Queued(Start) + 1 ELSE Queued(Start)
  BY <1>1, <1>3
<1>5. Forces'
  <2>1. (destroyed' <=> destroyed) /\ (NoForce' <=> NoForce)
    BY <1>4 DEF NoForce
  <2>2. \A i \in 1..Len(pending') : pending'[i] = g \/ (i \in 1..Len(pending) /\ pending'[i] = pending[i])
    BY <1>1 DEF ClientInv, QueueOK
  <2>3. ~destroyed => \A i \in 1..Len(pending') : \A f \in Fds : pending'[i] = FClose(f) => phase = "handle"
    BY <1>1, <2>2, Zenon DEF ClientInv, Forces
  <2> QED BY <1>4, <2>1, <2>3, Zenon DEF ClientInv, Forces
<1>6. ResetBeforeEnd'
  <2>1. Conn' = Conn
    BY DEF Conn
  <2>2. ResetFirst(pending) => ResetFirst(Append(pending, g))
    BY <1>1, ResetFirstAppend DEF ClientInv, QueueOK
  <2>3. (ResetFirst(pending) => ResetFirst(pending)') /\ (ResetFirst(batch)' <=> ResetFirst(batch))
    BY <2>2, Zenon DEF ResetFirst
  <2> QED BY <2>1, <2>3, Zenon DEF ClientInv, ResetBeforeEnd
<1> QED BY <1>2, <1>4, <1>5, <1>6

\* The end of the connection callback.
LEMMA CallbackState ==
  ASSUME ClientInv, InCallback
  PROVE  /\ cb \in {"up", "down"} /\ cb' = AfterCallback
         /\ Conn # Null /\ ~Unstarted /\ state_ # "kConnecting"
         /\ "end" \notin ready /\ "OUT" \notin ready
<1>1. cb \in {"up", "down"} /\ cb' = AfterCallback /\ cb # "none"
  BY DEF InCallback
<1>2. Conn # Null
  BY <1>1 DEF ClientInv, Cbs
<1>3. ~Unstarted
  BY <1>1, Started
<1>4. state_ # "kConnecting" /\ "end" \notin ready
  BY <1>1 DEF ClientInv, Attempt
<1>5. "OUT" \notin ready
  BY <1>4 DEF ClientInv, Attempt
<1> QED BY <1>1, <1>2, <1>3, <1>4, <1>5

\* Returning from it.
LEMMA CallbackKeeps ==
  ASSUME ClientInv, InCallback,
         UNCHANGED <<connection_, orphan, destroyed, state_, channel_, call, connects, ready>>,
         Queued(Start)' = Queued(Start)
  PROVE  Cbs' /\ OrphanCloses' /\ Owner' /\ StartOnce' /\ Attempt' /\ Callbacks'
         /\ (cb' \in {"down", "remove"} => cb \in {"down", "remove"})
<1>1. /\ cb \in {"up", "down"} /\ cb' = AfterCallback
      /\ Conn # Null /\ ~Unstarted /\ state_ # "kConnecting"
      /\ "end" \notin ready /\ "OUT" \notin ready
  BY CallbackState
<1>2. /\ cb' \in {"none", "remove"} /\ (cb' = "remove" <=> cb = "down") /\ Conn' = Conn
      /\ (destroyed' <=> destroyed)
  BY <1>1 DEF AfterCallback, Conn
<1>3. cb = "up" => ~destroyed /\ orphan = Null
  BY DEF ClientInv, Callbacks, Owner
<1>4. Cbs'
  BY <1>1, <1>2 DEF Cbs
<1>5. OrphanCloses'
  BY <1>1, <1>2, <1>3 DEF OrphanCloses
<1>6. Owner'
  BY <1>2 DEF ClientInv, Owner
<1>7. StartOnce'
  BY <1>1, UnstartedSame, StartedKeeps
<1>8. Attempt'
  BY <1>1, <1>2 DEF Attempt
<1>9. Callbacks'
  BY <1>1, <1>2 DEF ClientInv, Callbacks
<1> QED BY <1>1, <1>2, <1>4, <1>5, <1>6, <1>7, <1>8, <1>9

\* The connection callback returns without a call.
LEMMA ReturnKeeps == ASSUME ClientInv, callbackReturn PROVE ClientInv'
<1>1. /\ InCallback
      /\ UNCHANGED <<clientVars, connectorVars, pending, batch, phase, ready, userVars, aborted>>
  BY Zenon DEF callbackReturn
<1> USE DEF clientVars, userVars, connectorVars
<1>2. /\ \A f : Queued(f)' = Queued(f)
      /\ NoForce' <=> NoForce
  BY <1>1, QueueKept
<1>3. Cbs' /\ OrphanCloses' /\ Owner' /\ StartOnce' /\ Attempt' /\ Callbacks'
      /\ (cb' \in {"down", "remove"} => cb \in {"down", "remove"})
  BY <1>1, <1>2, CallbackKeeps, Zenon
<1>4. Flags'
  BY <1>1, Zenon DEF ClientInv, Flags
<1>5. Forces'
  <2>1. destroyed' <=> destroyed
    BY <1>1
  <2> QED BY <1>1, <1>2, <1>3, <2>1, Zenon DEF ClientInv, Forces
<1> QED BY <1>1, <1>3, <1>4, <1>5, Frames, Zenon DEF ClientInv

\* It calls disconnect() or stop(); connect() is excluded by ConnectedOnce.
LEMMA CallbackCallKeeps ==
  ASSUME ClientInv, NEW op \in Ops, callbackCall(op)
  PROVE  ClientInv'
<1>1. /\ InCallback /\ op # "connect"
      /\ clientConnect_' \in BOOLEAN /\ connect_' \in BOOLEAN /\ stopped' \in BOOLEAN
      /\ pending' = IF op = "stop" THEN Append(pending, <<"stopInLoop">>) ELSE pending
      /\ UNCHANGED <<retry_, connection_, orphan, destroyed, batch, phase, ready, call, calls,
                     connects>>
      /\ UNCHANGED <<state_, channel_, armed, fds, aborted>>
  <2>1. op # "connect"
    BY Zenon DEF callbackCall, ClientInv, ConnectedOnce
  <2>2. connect_ \in BOOLEAN /\ connect_' = IF op = "disconnect" THEN connect_ ELSE (op = "connect")
    BY Zenon DEF callbackCall, ClientInv, Flags
  <2>3. connect_' \in BOOLEAN
    <3>1. CASE op = "disconnect"
      BY <2>2, <3>1, Zenon
    <3>2. CASE op # "disconnect"
      BY <2>2, <3>2, Zenon
    <3> QED BY <3>1, <3>2
  <2>4. clientConnect_' \in BOOLEAN /\ stopped' \in BOOLEAN
    BY Zenon DEF callbackCall
  <2> QED BY <2>1, <2>3, <2>4, Zenon DEF callbackCall
<1>2. cb' \in {"down", "remove"} => cb \in {"down", "remove"}
  BY <1>1, CallbackState DEF AfterCallback
<1>3. /\ QueueOK' /\ Forces' /\ ResetBeforeEnd'
      /\ Queued(Reset)' = Queued(Reset) /\ Queued(Start)' = Queued(Start)
      /\ \A f \in Fds : Queued(FClose(f))' = Queued(FClose(f))
                        /\ Queued(Destroy(f))' = Queued(Destroy(f))
  <2>1. CASE op = "stop"
    <3>1. pending' = Append(pending, <<"stopInLoop">>) /\ Start # <<"stopInLoop">>
      BY <1>1, <2>1, Apart
    <3> QED BY <1>1, <1>2, <3>1, QueueKeeps
  <2>2. CASE op # "stop"
    <3>1. UNCHANGED <<pending, batch>>
      BY <1>1, <2>2
    <3>2. /\ \A f : Queued(f)' = Queued(f)
          /\ NoForce' <=> NoForce
      BY <3>1, QueueKept
    <3>3. Forces'
      <4>1. destroyed' <=> destroyed
        BY <1>1
      <4> QED BY <1>1, <1>2, <3>1, <3>2, <4>1, Zenon DEF ClientInv, Forces
    <3> QED BY <1>1, <3>1, <3>2, <3>3, Frames, Zenon
  <2> QED BY <2>1, <2>2
<1>4. Cbs' /\ OrphanCloses' /\ Owner' /\ StartOnce' /\ Attempt' /\ Callbacks'
  BY <1>1, <1>3, CallbackKeeps, Zenon
<1>5. Flags'
  BY <1>1, Zenon DEF ClientInv, Flags
<1>6. Ended'
  BY <1>1, <1>3, Zenon DEF ClientInv, Ended
<1>7. ResetOnce'
  BY <1>1, <1>3 DEF ClientInv, ResetOnce
<1> QED BY <1>1, <1>3, <1>4, <1>5, <1>6, <1>7, Frames, Zenon DEF ClientInv

\* It calls forceClose() on the new connection.
LEMMA CallbackForceKeeps == ASSUME ClientInv, callbackForceClose PROVE ClientInv'
<1> DEFINE c == connection_
<1>1. /\ InCallback /\ cb = "up" /\ pending' = Append(pending, FClose(connection_))
      /\ UNCHANGED <<clientVars, connectorVars, batch, phase, ready, userVars, aborted>>
  BY Zenon DEF callbackForceClose, queueInLoop, FClose
<1> USE DEF clientVars, userVars, connectorVars
<1>2. /\ ~destroyed /\ phase = "handle" /\ "end" \notin ready /\ NoForce /\ orphan = Null
      /\ Conn # Null /\ c \in Fds /\ Conn' = Conn /\ cb' = "none" /\ (destroyed' <=> destroyed)
  <2>1. ~destroyed /\ phase = "handle" /\ "end" \notin ready /\ NoForce /\ orphan = Null
    BY <1>1 DEF ClientInv, Callbacks, Owner
  <2>2. Conn # Null /\ cb' = "none"
    BY <1>1, CallbackState DEF AfterCallback
  <2> QED BY <1>1, <2>1, <2>2 DEF ClientInv, Refs, Conn
<1>3. \A f : Queued(f)' = IF f = FClose(c) THEN Queued(f) + 1 ELSE Queued(f)
  BY <1>1, <1>2, Apart, QueuedAppend DEF ClientInv
<1>4. QueueOK'
  BY <1>1, <1>2, Apart DEF ClientInv, QueueOK
<1>5. UNCHANGED connection_ /\ connection_ = c
  BY <1>1
<1> HIDE DEF c
<1>6. /\ Queued(Reset)' = Queued(Reset) /\ Queued(Start)' = Queued(Start)
      /\ \A f \in Fds : Queued(Destroy(f))' = Queued(Destroy(f))
      /\ \A f \in Fds : Queued(FClose(f))' = IF f = c THEN 1 ELSE 0
  <2>1. ASSUME NEW f \in Fds PROVE Queued(Destroy(f))' = Queued(Destroy(f))
    <3>1. Destroy(f) # FClose(c)
      BY <1>2, Apart
    <3> QED BY <1>3, <3>1
  <2>2. ASSUME NEW f \in Fds PROVE Queued(FClose(f))' = IF f = c THEN 1 ELSE 0
    <3>1. Queued(FClose(f)) = 0
      BY <1>2, Zenon DEF NoForce
    <3>2. f # c => FClose(f) # FClose(c)
      BY <1>2, Apart
    <3> QED BY <1>3, <3>1, <3>2
  <2>3. Reset # FClose(c) /\ Start # FClose(c)
    BY <1>2, Apart
  <2> QED BY <1>3, <2>1, <2>2, <2>3
<1>7. Cbs' /\ OrphanCloses' /\ Owner' /\ StartOnce' /\ Attempt' /\ Callbacks'
  BY <1>1, <1>6, CallbackKeeps, Zenon
<1>8. Flags'
  BY <1>1, Zenon DEF ClientInv, Flags
<1>9. Ended'
  BY <1>1, <1>6, Zenon DEF ClientInv, Ended
<1>10. ResetOnce'
  BY <1>1, <1>6 DEF ClientInv, ResetOnce
<1>11. Forces'
  <2>1. \A f \in Fds : (Queued(FClose(f))' # 0 => connection_' = f) /\ Queued(FClose(f))' <= 1
    BY <1>5, <1>6
  <2>2. phase' = "handle" /\ "end" \notin ready' /\ cb' = "none"
    BY <1>1, <1>2
  <2> QED BY <2>1, <2>2, Zenon DEF Forces
<1>12. ResetBeforeEnd'
  <2>1. FClose(c) \in Functors
    BY <1>2, Apart
  <2>2. ResetFirst(pending) => ResetFirst(Append(pending, FClose(c)))
    BY <2>1, ResetFirstAppend DEF ClientInv, QueueOK
  <2>3. ResetFirst(pending) => ResetFirst(pending)'
    BY <1>1, <1>5, <2>2, Zenon DEF ResetFirst
  <2> QED BY <1>1, <1>2, <2>3 DEF ClientInv, ResetBeforeEnd
<1> QED BY <1>1, <1>4, <1>7, <1>8, <1>9, <1>10, <1>11, <1>12, Frames, Zenon DEF ClientInv

\* The other thread begins a call; connect() only once.
LEMMA BeginKeeps ==
  ASSUME ClientInv, NEW op \in Ops, begin(op)
  PROVE  ClientInv'
<1>1. /\ call = "idle" /\ calls < MaxCalls /\ ~destroyed /\ (op = "connect" => connects = 0)
      /\ clientConnect_' \in BOOLEAN /\ stopped' \in BOOLEAN
      /\ call' = IF op = "disconnect" THEN "idle" ELSE op
      /\ calls' = calls + 1 /\ connects' = IF op = "connect" THEN connects + 1 ELSE connects
      /\ UNCHANGED <<retry_, connection_, orphan, destroyed, connectorVars, loopVars, held, aborted>>
  <2>1. clientConnect_' \in BOOLEAN /\ stopped' \in BOOLEAN
    BY Zenon DEF begin
  <2>2. op = "connect" => connects = 0
    BY Zenon DEF begin, ClientInv, ConnectedOnce
  <2> QED BY <2>1, <2>2, Zenon DEF begin
<1> USE DEF connectorVars, loopVars
<1>2. call' \in {"idle", "connect", "stop"} /\ (call' = "connect" <=> op = "connect")
  BY <1>1 DEF Ops
<1>3. Users'
  BY <1>1, <1>2 DEF ClientInv, Users
<1>4. Owner'
  BY <1>1 DEF ClientInv, Owner
<1>5. Queued(Start)' = Queued(Start) /\ Conn' = Conn
  BY <1>1, QueuedSame DEF Conn
<1>6. StartOnce'
  <2>1. connects \in Nat
    BY DEF ClientInv, Users
  <2>2. Unstarted' => Unstarted
    BY <1>1, <1>2, <1>5, <2>1 DEF Unstarted
  <2>3. connects' = 0 => call' \notin {"connect", "queueStart"}
    BY <1>1, <1>2, <2>1
  <2>4. connects' = 0 \/ call' \in {"connect", "queueStart"} => connects = 0
    BY <1>1, <1>2, <2>1
  <2>5. Queued(Start)' <= 1 /\ (connects = 0 => Queued(Start)' = 0)
    BY <1>5 DEF ClientInv, StartOnce
  <2>6. Unstarted => /\ state_' = "kDisconnected" /\ channel_' = Null /\ Conn' = Null /\ cb' = "none"
                     /\ ~destroyed'
    BY <1>1, <1>5 DEF ClientInv, StartOnce
  <2> QED BY <2>2, <2>3, <2>4, <2>5, <2>6, Zenon DEF StartOnce
<1>7. Flags'
  BY <1>1, Zenon DEF ClientInv, Flags
<1> QED BY <1>1, <1>3, <1>4, <1>6, <1>7, Frames, Zenon DEF ClientInv

\* It sets connect_.
LEMMA SetConnectKeeps == ASSUME ClientInv, setConnect PROVE ClientInv'
<1>1. /\ call \in {"connect", "stop"} /\ connect_' \in BOOLEAN
      /\ call' = IF call = "connect" THEN "queueStart" ELSE "queueStop"
      /\ UNCHANGED <<clientVars, state_, channel_, armed, fds, loopVars, calls, connects, held, stopped,
                     aborted>>
  BY Zenon DEF setConnect
<1> USE DEF clientVars, loopVars
<1>2. ~destroyed /\ ~destroyed' /\ Conn' = Conn /\ Queued(Start)' = Queued(Start)
  BY <1>1, QueuedSame DEF ClientInv, Owner, Conn
<1>3. Users'
  BY <1>1 DEF ClientInv, Users
<1>4. Owner'
  BY <1>1, <1>2 DEF ClientInv, Owner
<1>5. StartOnce'
  <2>1. call' \in {"connect", "queueStart"} <=> call \in {"connect", "queueStart"}
    BY <1>1
  <2>2. Unstarted' <=> Unstarted
    BY <1>1, <1>2, <2>1, Zenon DEF Unstarted
  <2> QED BY <1>1, <1>2, <2>1, <2>2 DEF ClientInv, StartOnce
<1>6. Flags'
  BY <1>1, Zenon DEF ClientInv, Flags
<1> QED BY <1>1, <1>3, <1>4, <1>5, <1>6, Frames, Zenon DEF ClientInv

\* It queues startInLoop() or stopInLoop().
LEMMA QueueCallKeeps == ASSUME ClientInv, queueCall PROVE ClientInv'
<1> DEFINE g == IF call = "queueStart" THEN Start ELSE <<"stopInLoop">>
<1>1. /\ call \in {"queueStart", "queueStop"} /\ pending' = Append(pending, g) /\ call' = "idle"
      /\ UNCHANGED <<clientVars, connectorVars, batch, phase, ready, cb, calls, connects, held, aborted>>
  BY Zenon DEF queueCall, queueInLoop, Start
<1> USE DEF clientVars, connectorVars
<1>2. stopped' \in BOOLEAN
  BY Zenon DEF queueCall
<1>3. g \in {Start, <<"stopInLoop">>} /\ (g = Start <=> call = "queueStart")
  BY <1>1, Apart
<1> HIDE DEF g
<1>4. /\ QueueOK' /\ Forces' /\ ResetBeforeEnd'
      /\ Queued(Reset)' = Queued(Reset)
      /\ \A f \in Fds : Queued(FClose(f))' = Queued(FClose(f))
                        /\ Queued(Destroy(f))' = Queued(Destroy(f))
      /\ Queued(Start)' = IF g = Start THEN Queued(Start) + 1 ELSE Queued(Start)
  BY <1>1, <1>3, QueueKeeps
<1>5. ~destroyed /\ ~destroyed' /\ Conn' = Conn
  BY <1>1 DEF ClientInv, Owner, Conn
<1>6. StartOnce'
  <2>1. CASE call = "queueStart"
    <3>1. Unstarted /\ connects # 0 /\ Queued(Start) = 0
      BY <2>1 DEF ClientInv, StartOnce, Unstarted
    <3>2. Queued(Start)' = 1
      BY <1>3, <1>4, <2>1, <3>1
    <3> QED BY <1>1, <1>5, <3>1, <3>2 DEF ClientInv, StartOnce
  <2>2. CASE call # "queueStart"
    <3>1. Queued(Start)' = Queued(Start) /\ call \notin {"connect", "queueStart"}
      BY <1>1, <1>3, <1>4, <2>2
    <3>2. Unstarted' <=> Unstarted
      BY <1>1, <3>1 DEF Unstarted
    <3> QED BY <1>1, <1>5, <3>1, <3>2 DEF ClientInv, StartOnce
  <2> QED BY <2>1, <2>2
<1>7. Flags'
  BY <1>1, <1>2, Zenon DEF ClientInv, Flags
<1>8. Users'
  BY <1>1 DEF ClientInv, Users
<1>9. Ended'
  BY <1>1, <1>4, Zenon DEF ClientInv, Ended
<1>10. OrphanCloses'
  BY <1>1, <1>4, Zenon DEF ClientInv, OrphanCloses
<1>11. ResetOnce'
  BY <1>1, <1>4 DEF ClientInv, ResetOnce
<1>12. Owner'
  BY <1>1, <1>5 DEF ClientInv, Owner
<1>13. Callbacks'
  <2>1. NoForce' <=> NoForce
    BY <1>4 DEF NoForce
  <2> QED BY <1>1, <1>5, <2>1 DEF ClientInv, Callbacks
<1> QED BY <1>1, <1>4, <1>6, <1>7, <1>8, <1>9, <1>10, <1>11, <1>12, <1>13, Frames, Zenon
        DEF ClientInv

\* ~TcpClient() leaves its connection to a forceClose(), or to the user.
LEMMA DestroyKeeps == ASSUME ClientInv, destroy PROVE ClientInv'
<1> DEFINE c == connection_
<1>1. /\ cb = "none" /\ phase = "functors" /\ ~destroyed /\ SafeToDestroy
      /\ destroyed' = TRUE /\ orphan' = connection_ /\ connection_' = Null
      /\ forceCloseIfUnique
      /\ UNCHANGED <<clientConnect_, retry_, connectorVars, batch, phase, ready, cb, userVars,
                     aborted>>
  BY DEF destroy, LoopFree
<1> USE DEF userVars, connectorVars
<1>2. /\ c # Null /\ c \in Fds /\ call = "idle" /\ channel_ = Null /\ Conn = c /\ Conn' = c
      /\ orphan' = c
  BY <1>1 DEF SafeToDestroy, ClientInv, Refs, Conn
<1>3. state_ # "kConnecting" /\ ~Unstarted
  <2>1. state_ # "kConnecting"
    BY <1>2, Zenon DEF ClientInv, Attempt
  <2>2. Conn # Null
    BY <1>2
  <2> QED BY <2>1, <2>2, Started
<1>4. /\ QueueOK' /\ \A f \in Fds : f = c => held' = f \/ Queued(FClose(f))' # 0
      /\ Queued(Reset)' = Queued(Reset) /\ Queued(Start)' = Queued(Start)
      /\ \A f \in Fds : Queued(Destroy(f))' = Queued(Destroy(f))
  <2>1. CASE Pending(FClose(c)) \/ held = c
    <3>1. Queued(FClose(c)) # 0 \/ held = c
      BY <2>1, PendingIs DEF ClientInv
    <3>2. UNCHANGED <<pending, batch>>
      BY <1>1, <2>1 DEF forceCloseIfUnique, FClose
    <3>3. \A f : Queued(f)' = Queued(f)
      BY <3>2, QueueKept
    <3>4. QueueOK'
      BY <3>2, Frames, Zenon
    <3>5. held' = held
      BY <1>1
    <3> HIDE DEF c
    <3> QED BY <3>1, <3>3, <3>4, <3>5, Zenon
  <2>2. CASE ~(Pending(FClose(c)) \/ held = c)
    <3>1. Queued(FClose(c)) = 0
      BY <2>2, PendingIs DEF ClientInv
    <3>2. pending' = Append(pending, FClose(c)) /\ batch' = batch
      BY <1>1, <2>2 DEF forceCloseIfUnique, FClose, queueInLoop
    <3>3. FClose(c) \in Functors
      BY <1>2, Apart
    <3>4. \A f : Queued(f)' = IF f = FClose(c) THEN Queued(f) + 1 ELSE Queued(f)
      BY <3>2, <3>3, QueuedAppend DEF ClientInv
    <3>5. QueueOK'
      BY <3>2, <3>3 DEF ClientInv, QueueOK
    <3>6. Reset # FClose(c) /\ Start # FClose(c) /\ \A f \in Fds : Destroy(f) # FClose(c)
      BY <1>2, Apart
    <3>7. ASSUME NEW f \in Fds, f = c PROVE Queued(FClose(f))' # 0
      <4>1. Queued(FClose(f)) = 0 /\ FClose(f) = FClose(c)
        BY <3>1, <3>7
      <4> QED BY <3>4, <4>1
    <3> QED BY <3>4, <3>5, <3>6, <3>7
  <2> QED BY <2>1, <2>2
<1> HIDE DEF c
<1>5. Flags'
  BY <1>1, Zenon DEF ClientInv, Flags
<1>6. Refs'
  BY <1>1, <1>2 DEF ClientInv, Refs
<1>7. Cbs'
  BY <1>1 DEF Cbs
<1>8. Owned'
  BY <1>1, <1>2 DEF ClientInv, Owned
<1>9. Ended'
  BY <1>1, <1>4, Zenon DEF ClientInv, Ended
<1>10. OrphanCloses'
  BY <1>2, <1>4 DEF OrphanCloses
<1>11. ResetOnce'
  BY <1>1, <1>4 DEF ClientInv, ResetOnce
<1>12. Owner'
  BY <1>1, <1>2, <1>3 DEF Owner
<1>13. StartOnce'
  <2>1. ~Unstarted'
    BY <1>1, <1>3, <1>4, UnstartedSame
  <2> QED BY <2>1, StartedKeeps
<1>14. Attempt'
  BY <1>1, <1>2, <1>3 DEF ClientInv, Attempt
<1>15. Callbacks'
  BY <1>1, Zenon DEF Callbacks
<1>16. Forces'
  BY <1>1, Zenon DEF Forces
<1>17. ResetBeforeEnd'
  BY <1>1, <1>2 DEF ResetBeforeEnd
<1> QED BY <1>1, <1>4, <1>5, <1>6, <1>7, <1>8, <1>9, <1>10, <1>11, <1>12, <1>13, <1>14, <1>15, <1>16,
           <1>17, Frames, Zenon DEF ClientInv

\* The user gets a pointer, or gives up one that the connection does not need.
LEMMA PointerKeeps == ASSUME ClientInv, keep \/ release PROVE ClientInv'
<1>1. /\ fds' = Unheld
      /\ UNCHANGED <<clientVars, connect_, state_, channel_, armed, loopVars, call, calls, connects,
                     stopped, aborted>>
  BY Zenon DEF keep, release
<1> USE DEF clientVars, loopVars
<1>2. \A f \in Fds : fds'[f] = IF fds[f] = "kept" THEN "free" ELSE fds[f]
  BY <1>1 DEF Unheld
<1>3. /\ \A f : Queued(f)' = Queued(f)
      /\ Conn' = Conn
  BY <1>1, QueueKept DEF Conn
<1>4. Flags'
  BY <1>1, Zenon DEF ClientInv, Flags
<1>5. Refs'
  BY <1>1 DEF Unheld, ClientInv, Refs
<1>6. Phases'
  BY <1>1, <1>2 DEF ClientInv, Phases
<1>7. Connecting' /\ Owned' /\ Ended'
  <2>1. Connecting'
    BY <1>1, <1>2 DEF ClientInv, Connecting
  <2>2. Owned'
    BY <1>2, <1>3 DEF ClientInv, Owned
  <2>3. Ended'
    BY <1>2, <1>3 DEF ClientInv, Ended
  <2> QED BY <2>1, <2>2, <2>3
<1>8. OrphanCloses'
  <2>1. CASE keep
    <3>1. orphan' = Null /\ Null \notin Fds
      BY <1>1, <2>1 DEF keep, ClientInv, Owner
    <3> QED BY <3>1 DEF OrphanCloses
  <2>2. CASE release
    <3> SUFFICES ASSUME NEW f \in Fds, orphan = f
                 PROVE  Queued(FClose(f)) # 0 \/ cb \in {"down", "remove"}
      BY <1>1, <1>3 DEF OrphanCloses
    <3>1. held = f \/ Queued(FClose(f)) # 0 \/ cb \in {"down", "remove"}
      BY Zenon DEF ClientInv, OrphanCloses
    <3>2. held # f \/ Pending(FClose(f)) \/ cb \in {"down", "remove"}
      BY <2>2 DEF release, SafeToRelease, FClose
    <3>3. Pending(FClose(f)) <=> Queued(FClose(f)) # 0
      BY PendingIs DEF ClientInv
    <3> QED BY <3>1, <3>2, <3>3
  <2> QED BY <2>1, <2>2
<1> QED BY <1>1, <1>4, <1>5, <1>6, <1>7, <1>8, Frames, Zenon DEF ClientInv

\* The user closes the connection that was left to him.
LEMMA CloseHeldKeeps == ASSUME ClientInv, closeHeld PROVE ClientInv'
<1>1. /\ orphan # Null /\ pending' = Append(pending, FClose(orphan))
      /\ UNCHANGED <<clientVars, connectorVars, batch, phase, ready, cb, userVars, aborted>>
  BY DEF closeHeld, queueInLoop, FClose
<1> USE DEF clientVars, connectorVars, userVars
<1>2. orphan \in Fds /\ destroyed /\ channel_ = Null /\ Conn # Null
  <2>1. orphan \in Fds /\ destroyed /\ channel_ = Null
    BY <1>1 DEF ClientInv, Refs, Owner
  <2> QED BY <2>1 DEF Conn, ClientInv, Owner
<1>3. FClose(orphan) \in Functors /\ Reset # FClose(orphan) /\ Start # FClose(orphan)
      /\ \A f \in Fds : Destroy(f) # FClose(orphan)
  BY <1>2, Apart
<1>4. \A f : Queued(f)' = IF f = FClose(orphan) THEN Queued(f) + 1 ELSE Queued(f)
  BY <1>1, <1>3, QueuedAppend DEF ClientInv
<1>5. QueueOK'
  BY <1>1, <1>3 DEF ClientInv, QueueOK
<1>6. /\ Queued(Reset)' = Queued(Reset) /\ Queued(Start)' = Queued(Start)
      /\ \A f \in Fds : Queued(Destroy(f))' = Queued(Destroy(f))
  BY <1>3, <1>4
<1>7. Flags'
  BY <1>1, Zenon DEF ClientInv, Flags
<1>8. Ended'
  BY <1>1, <1>6, Zenon DEF ClientInv, Ended
<1>9. OrphanCloses'
  <2>1. Queued(FClose(orphan)) \in Nat
    BY QueuedNat DEF ClientInv
  <2>2. Queued(FClose(orphan))' # 0
    BY <1>1, <1>4, <2>1
  <2>3. \A f \in Fds : orphan' = f => Queued(FClose(f))' # 0
    BY <1>1, <1>4, <2>1
  <2> QED BY <2>3 DEF OrphanCloses
<1>10. ResetOnce'
  BY <1>1, <1>6 DEF ClientInv, ResetOnce
<1>11. StartOnce'
  <2>1. ~Unstarted
    BY <1>2, Started
  <2>2. ~Unstarted'
    BY <1>1, <1>6, <2>1, UnstartedSame
  <2> QED BY <2>2, StartedKeeps
<1>12. Callbacks'
  <2>1. cb # "up"
    BY <1>2 DEF ClientInv, Callbacks
  <2>2. Conn' = Conn
    BY <1>1 DEF Conn
  <2> QED BY <1>1, <2>1, <2>2 DEF ClientInv, Callbacks
<1>13. Forces'
  BY <1>1, <1>2 DEF Forces
<1>14. ResetBeforeEnd'
  BY <1>1, <1>2 DEF ResetBeforeEnd
<1> QED BY <1>1, <1>5, <1>7, <1>8, <1>9, <1>10, <1>11, <1>12, <1>13, <1>14, Frames, Zenon DEF ClientInv

\* Who changes a descriptor leaves the user's alone, or gives him what he asks for.
LEMMA HeldKept ==
  ASSUME Held, held' = held,
         \A f \in Fds : /\ fds'[f] = "kept" => fds[f] = "kept" \/ held = f
                        /\ fds'[f] \in {"free", "connecting"}
                             => fds[f] \in {"free", "connecting"},
         fds' \in [Fds -> {"free", "connecting", "owned", "ended", "released", "kept"}]
  PROVE  Held'
<1>1. \A f \in Fds : fds'[f] = "kept" => held' = f
  BY DEF Held
<1>2. ASSUME NEW f \in Fds, held' = f PROVE fds'[f] \in {"owned", "ended", "released", "kept"}
  <2>1. fds[f] \notin {"free", "connecting"}
    BY <1>2 DEF Held
  <2> QED BY <2>1
<1> QED BY <1>1, <1>2 DEF Held

\* Every step keeps what is known of the user's pointer.
LEMMA HeldStep == ASSUME ClientInv, ClientInv', Held, [Next]_vars PROVE Held'
<1> USE DEF clientVars, connectorVars, loopVars, userVars
<1>a. /\ fds \in [Fds -> {"free", "connecting", "owned", "ended", "released", "kept"}]
      /\ fds' \in [Fds -> {"free", "connecting", "owned", "ended", "released", "kept"}]
  BY DEF ClientInv, Refs
<1>1. CASE UNCHANGED <<held, fds>>
  BY <1>1 DEF Held
<1>2. ASSUME connect, held' = held PROVE Held'
  <2>1. PICK f \in Fds : fds[f] = "free" /\ (fds' = [fds EXCEPT ![f] = "connecting"] \/ fds' = fds
                                             \/ fds' = [fds EXCEPT ![f] = "free"])
    BY <1>2, Zenon DEF connect, retry
  <2>2. \A g \in Fds : g # f => fds'[g] = fds[g]
    BY <1>a, <2>1
  <2>3. fds'[f] \in {"free", "connecting"}
    BY <1>a, <2>1
  <2> QED BY <1>a, <1>2, <2>1, <2>2, <2>3, HeldKept
<1>3. ASSUME state_ = "kConnecting", NEW p \in {"free", "owned"}, fds' = [fds EXCEPT ![channel_] = p],
             held' = held PROVE Held'
  <2>1. channel_ \in Fds /\ fds[channel_] = "connecting"
    BY <1>3, AttemptState
  <2>2. fds'[channel_] = p /\ \A g \in Fds : g # channel_ => fds'[g] = fds[g]
    BY <1>a, <1>3, <2>1
  <2> QED BY <1>a, <1>3, <2>1, <2>2, HeldKept
<1>4. ASSUME NEW c \in Fds, NEW p \in {"ended", "released"}, fds' = [fds EXCEPT ![c] = p],
             held' = held PROVE Held'
  <2>1. fds'[c] = p /\ \A g \in Fds : g # c => fds'[g] = fds[g]
    BY <1>a, <1>4
  <2> QED BY <1>a, <1>4, <2>1, HeldKept
<1>5. CASE handleWrite
  <2>1. held' = held
    BY <1>5 DEF handleWrite
  <2>2. \/ fds' = fds
        \/ state_ = "kConnecting" /\ \E p \in {"free", "owned"} : fds' = [fds EXCEPT ![channel_] = p]
    BY <1>5 DEF handleWrite, retry, newConnection
  <2> QED BY <1>1, <1>3, <2>1, <2>2
<1>6. CASE handleError \/ runStop
  <2>1. held' = held
    BY <1>6 DEF handleError, runStop
  <2>2. \/ fds' = fds
        \/ state_ = "kConnecting" /\ fds' = [fds EXCEPT ![channel_] = "free"]
    BY <1>6 DEF handleError, runStop, stopInLoop, retry
  <2> QED BY <1>1, <1>3, <2>1, <2>2
<1>7. CASE removeConnection \/ removeOrphan
  <2>1. held' = held /\ cb = "remove"
    BY <1>7, Zenon DEF removeConnection, removeOrphan
  <2>2. Conn # Null /\ (destroyed => connection_ = Null) /\ (~destroyed => orphan = Null)
    BY <2>1 DEF ClientInv, Cbs, Owner
  <2>3. Conn \in Fds
    BY <2>2 DEF Conn, ClientInv, Refs
  <2>4. fds' = [fds EXCEPT ![Conn] = "ended"]
    BY <1>7, <2>2 DEF removeConnection, removeOrphan, Conn
  <2> QED BY <1>4, <2>1, <2>3, <2>4
<1>8. CASE runStart \/ startAgain
  <2>1. held' = held
    BY <1>8, Zenon DEF runStart, startAgain
  <2>2. connect \/ fds' = fds
    BY <1>8 DEF runStart, startAgain, startInLoop
  <2> QED BY <1>1, <1>2, <2>1, <2>2
<1>9. CASE connectDestroyed
  <2>1. Next1("connectDestroyed") /\ held' = held /\ fds' = [fds EXCEPT ![Head(batch)[2]] = "released"]
    BY <1>9 DEF connectDestroyed
  <2>2. Head(batch)[2] \in Fds
    BY <2>1, RunState, ByName
  <2> QED BY <1>4, <2>1, <2>2
<1>10. CASE endBatch
  <2>1. held' = held /\ \A f \in Fds : fds'[f] = IF fds[f] # "released" THEN fds[f]
                                               ELSE IF held = f THEN "kept" ELSE "free"
    BY <1>10 DEF endBatch, Unqueued
  <2>2. \A f \in Fds : fds'[f] = "kept" => held' = f
    BY <2>1 DEF Held
  <2>3. \A f \in Fds : held' = f => fds'[f] \in {"owned", "ended", "released", "kept"}
    BY <2>1 DEF Held
  <2> QED BY <2>1, <2>2, <2>3 DEF Held
<1>11. CASE LoopStep
  <2>1. poll \/ handleClose \/ reconnect \/ restart \/ doPendingFunctors \/ resetChannel
        \/ forceCloseInLoop \/ callbackReturn => UNCHANGED <<held, fds>>
    BY DEF poll, handleClose, reconnect, restart, doPendingFunctors, resetChannel,
           forceCloseInLoop, callbackReturn
  <2> QED BY <1>1, <1>5, <1>6, <1>7, <1>8, <1>9, <1>10, <1>11, <2>1, Zenon DEF LoopStep
<1>12. CASE callback
  <2>1. callbackForceClose => UNCHANGED <<held, fds>>
    BY DEF callbackForceClose
  <2>2. ASSUME NEW op \in Ops, callbackCall(op) PROVE UNCHANGED <<held, fds>>
    <3>1. op # "connect"
      BY <2>2 DEF callbackCall, ClientInv, ConnectedOnce
    <3> QED BY <2>2, <3>1 DEF callbackCall
  <2> QED BY <1>1, <1>12, <2>1, <2>2, Zenon DEF callback
<1>13. CASE ThreadStep \/ destroy
  BY <1>1, <1>13 DEF ThreadStep, setConnect, queueCall, destroy
<1>14. ASSUME NEW op \in Ops, begin(op) PROVE Held'
  BY <1>1, <1>14 DEF begin
<1>15. CASE keep
  <2>1. /\ held' = connection_ /\ connection_ # Null /\ ~destroyed
        /\ \A f \in Fds : fds'[f] = IF fds[f] = "kept" THEN "free" ELSE fds[f]
    BY <1>15 DEF keep, Unheld
  <2>2. connection_ \in Fds /\ fds[connection_] = "owned"
    BY <2>1 DEF ClientInv, Refs, Owned, Conn
  <2> QED BY <2>1, <2>2 DEF Held
<1>16. CASE release
  <2>1. held' = Null /\ \A f \in Fds : fds'[f] = IF fds[f] = "kept" THEN "free" ELSE fds[f]
    BY <1>16 DEF release, Unheld
  <2> QED BY <2>1 DEF Held
<1>17. CASE closeHeld \/ UNCHANGED vars
  BY <1>1, <1>17 DEF closeHeld, vars
<1> QED BY <1>11, <1>12, <1>13, <1>14, <1>15, <1>16, <1>17, Zenon DEF Next, UserStep

-----------------------------------------------------------------------------
(* The theorems.                                                           *)

\* A client is made without a connection and without an attempt.
LEMMA ClientInvInit == ASSUME ConnectedOnce, Init PROVE ClientInv
<1>1. pending = <<>> /\ batch = <<>> /\ QueueOK
  BY DEF Init, QueueOK
<1>2. ASSUME NEW f PROVE Queued(f) = 0
  BY <1>1, CountEmpty, QueuedIs
<1>3. Conn = Null /\ Null \notin Fds
  BY DEF Init, Conn
<1>4. Flags /\ NoAbort
  BY Zenon DEF Init, Flags, NoAbort
<1>5. Refs
  BY DEF Init, Refs
<1>6. Phases /\ Cbs /\ Users
  BY DEF Init, Phases, Cbs, Users
<1>7. Connecting /\ Owned /\ Armed
  BY <1>3 DEF Init, Connecting, Owned, Armed
<1>8. Ended /\ OrphanCloses /\ ResetOnce
  BY <1>2, <1>3 DEF Init, Ended, OrphanCloses, ResetOnce
<1>9. Owner /\ Attempt /\ Callbacks
  BY DEF Init, Owner, Attempt, Callbacks
<1>10. StartOnce
  BY <1>2, <1>3 DEF Init, StartOnce
<1>11. Forces
  BY <1>1, <1>2 DEF Init, Forces, NoForce
<1>12. ResetBeforeEnd
  BY <1>3 DEF ResetBeforeEnd
<1> QED BY <1>1, <1>4, <1>5, <1>6, <1>7, <1>8, <1>9, <1>10, <1>11, <1>12, Zenon DEF ClientInv

\* Every step keeps the invariant.
LEMMA ClientInvStep == ASSUME ClientInv, [Next]_vars PROVE ClientInv'
<1>1. CASE LoopStep
  BY <1>1, PollKeeps, HandleWriteKeeps, HandleErrorKeeps, HandleCloseKeeps, RemoveKeeps,
     ReconnectKeeps, StartAgainKeeps, SwapKeeps, RunStartKeeps, RunStopKeeps, ResetKeeps, DestroyedKeeps,
     ForceCloseKeeps, EndBatchKeeps, ReturnKeeps, Zenon DEF LoopStep
<1>2. CASE callback
  BY <1>2, CallbackCallKeeps, CallbackForceKeeps, Zenon DEF callback
<1>3. CASE ThreadStep
  BY <1>3, SetConnectKeeps, QueueCallKeeps, Zenon DEF ThreadStep
<1>4. CASE destroy
  BY <1>4, DestroyKeeps
<1>5. ASSUME NEW op \in Ops, begin(op) PROVE ClientInv'
  BY <1>5, BeginKeeps
<1>6. CASE UNCHANGED vars
  <2>1. Flags'
    BY <1>6, Zenon DEF ClientInv, Flags, vars, clientVars, connectorVars, userVars
  <2> QED BY <1>6, <2>1, Frames, Zenon
          DEF ClientInv, vars, clientVars, connectorVars, loopVars, userVars
<1>7. CASE UserStep
  BY <1>7, PointerKeeps, CloseHeldKeeps, Zenon DEF UserStep
<1> QED BY <1>1, <1>2, <1>3, <1>4, <1>5, <1>6, <1>7, Zenon DEF Next

\* The inductive invariant of TcpClient and Connector.
THEOREM ClientInvariant == ConnectedOnce => (Spec => [](ClientInv /\ Held))
<1>1. ConnectedOnce /\ Init => ClientInv /\ Held
  <2>1. Init => Held
    BY DEF Init, Held
  <2> QED BY <2>1, ClientInvInit
<1>2. ClientInv /\ Held /\ [Next]_vars => ClientInv' /\ Held'
  BY ClientInvStep, HeldStep
<1> QED BY <1>1, <1>2, PTL DEF Spec

\* The variables keep their types, and a connection callback runs only while there is a
\* connection.
THEOREM TypeCorrect == ConnectedOnce => (Spec => []TypeOK)
<1>1. ClientInv /\ Held => TypeOK
  <2> SUFFICES ASSUME ClientInv, Held PROVE TypeOK
    OBVIOUS
  <2>1. {clientConnect_, retry_, connect_, armed, stopped, aborted} \subseteq BOOLEAN
        /\ destroyed \in BOOLEAN
    BY Zenon DEF ClientInv, Flags
  <2>2. /\ {connection_, orphan, held} \subseteq {Null} \cup Fds
        /\ channel_ \in {Null} \cup Fds
        /\ state_ \in {"kDisconnected", "kConnecting", "kConnected"}
        /\ fds \in [Fds -> {"free", "connecting", "owned", "ended", "released", "kept"}]
    BY DEF ClientInv, Refs, Held
  <2>3. QueueOK /\ Phases /\ Cbs /\ Users
    BY Zenon DEF ClientInv
  <2> QED BY <2>1, <2>2, <2>3, Zenon DEF QueueOK, Phases, Cbs, Users, TypeOK
<1> QED BY <1>1, ClientInvariant, PTL

\* Connector::startInLoop(), connecting() and handleWrite(): no assert fails.
THEOREM ClientNeverAborts == ConnectedOnce => (Spec => []NoAbort)
<1>1. ClientInv => NoAbort
  BY DEF ClientInv
<1> QED BY <1>1, ClientInvariant, PTL

\* Connector::retry(), resetChannel(), TcpClient::newConnection(), removeConnection() and
\* ~TcpClient(): every socket has one owner that closes it, and the channel is freed once.  The
\* connection that ~TcpClient() leaves open is closed by a forceClose() unless the user has a
\* pointer to it.
THEOREM EverySocketAccounted == ConnectedOnce => (Spec => []SocketsAccounted)
<1>1. ClientInv /\ Held => SocketsAccounted
  <2> SUFFICES ASSUME ClientInv, Held PROVE SocketsAccounted
    OBVIOUS
  <2>1. Connecting /\ Owned /\ Ended /\ OrphanCloses /\ Armed /\ ResetOnce
    BY Zenon DEF ClientInv
  <2>2. orphan # Null => \/ Pending(<<"forceClose", orphan>>) \/ cb \in {"down", "remove"}
                         \/ held = orphan
    <3>1. ASSUME orphan # Null PROVE orphan \in Fds
      BY <3>1, Zenon DEF ClientInv, Refs
    <3>2. Pending(FClose(orphan)) <=> Queued(FClose(orphan)) # 0
      BY PendingIs DEF ClientInv
    <3> QED BY <2>1, <3>1, <3>2, Zenon DEF OrphanCloses, FClose
  <2> QED BY <2>1, <2>2, Zenon
          DEF SocketsAccounted, Connecting, Owned, Ended, Armed, ResetOnce, Destroy, Reset, Held
<1> QED BY <1>1, ClientInvariant, PTL
=============================================================================
