--------------------------- MODULE TcpServerProofs ---------------------------
(***************************************************************************)
(* Theorems about TcpServer for any clients, threads and descriptors, if   *)
(* the server is destroyed only after its connections.                     *)
(***************************************************************************)
EXTENDS TcpServer, SequenceTheorems, WellFoundedInduction, TLAPS

USE BoundsAssumption DEF Base, Loops, AllLoops

-----------------------------------------------------------------------------
(* What waits in the loops.                                                *)

\* What is left of s when n of it have run, and t behind it.
Left(s, n, t) == SubSeq(s, n + 1, Len(s)) \o t

\* The callbacks of each loop that have not run yet, in their order.
work == [l \in AllLoops |-> Left(batch[l], ran[l], pending[l])]

\* A callback of the start or of the removal of c, or a forceClose() of c.
Moves(g, c) == g.conn = c /\ g.op # "forceClose"
Forces(g, c) == g.conn = c /\ g.op = "forceClose"

None(s, c) == \A i \in 1..Len(s) : ~Moves(s[i], c)
One(s, c, op) ==
  \E i \in 1..Len(s) : /\ s[i].conn = c /\ s[i].op = op /\ op # "forceClose"
                       /\ \A j \in 1..Len(s) : Moves(s[j], c) => j = i
HasForce(s, c) == \E i \in 1..Len(s) : Forces(s[i], c)

\* Nothing waits for c in any loop, or one callback op in loop l.
NoneIn(w, c) == \A l \in DOMAIN w : None(w[l], c)
OneIn(w, c, op, l) == l \in DOMAIN w /\ One(w[l], c, op) /\ \A m \in DOMAIN w : m # l => None(w[m], c)

\* What is known of the callbacks that wait for c in w holds in v.
Keeps(w, v, c) ==
  /\ NoneIn(w, c) => NoneIn(v, c)
  /\ \A op, l : OneIn(w, c, op, l) => OneIn(v, c, op, l)

\* A callback f is queued in loop l, and the first callback of loop l runs.
Put(w, l, f) == [w EXCEPT ![l] = Append(@, f)]
Run(w, l) == [w EXCEPT ![l] = Tail(@)]

\* Who refers to a connection in loop l.
Held(l) == {c \in Clients : \/ \E i \in 1..Len(pending[l]) : pending[l][i].conn = c
                            \/ \E i \in 1..Len(batch[l]) : batch[l][i].conn = c}
Refd == {c \in Clients : c \in connections_ \/ \E l \in AllLoops : c \in Held(l)}

-----------------------------------------------------------------------------
(* The inductive invariant.                                                *)

\* TypeOK, with the functions' domains.
Types ==
  /\ limit \in 1..MaxFds /\ numThreads \in 0..MaxThreads
  /\ next_ \in 0..MaxThreads /\ (next_ < numThreads \/ next_ = 0)
  /\ server \in {"new", "up", "dtor", "gone"} /\ joining \in 0..numThreads
  /\ connections_ \subseteq Clients
  /\ state_ \in [Clients -> {"none", "kConnecting", "kConnected", "kDisconnecting",
                             "kDisconnected"}]
  /\ ioLoop \in [Clients -> AllLoops] /\ fd \in [Clients -> 0..MaxFds]
  /\ backlog \in Seq(Clients)
  /\ input \subseteq Clients /\ ended \subseteq Clients /\ refused \subseteq Clients
LoopTypes ==
  /\ phase \in [Loops -> {"poll", "handle", "functors", "out"}]
  /\ quit_ \in [Loops -> BOOLEAN]
  /\ pending \in [Loops -> Seq(Functors)] /\ batch \in [Loops -> Seq(Functors)]
  /\ ran \in [Loops -> Nat] /\ active \in [Loops -> SUBSET (Clients \cup {Acceptor})]
  /\ channels_ \in [Loops -> SUBSET Clients] /\ size \in [Loops -> Nat \ {0}]
Phases ==
  \A l \in Loops :
    /\ ran[l] <= Len(batch[l]) /\ (batch[l] # <<>> <=> phase[l] = "functors")
    /\ active[l] # {} => phase[l] = "handle"

Unregistered(c) == \A l \in AllLoops : c \notin channels_[l]
Registered(c) == \A l \in AllLoops : c \in channels_[l] <=> l = ioLoop[c]

\* The stages of LifeCycle.
Accepted(c)  == /\ state_[c] = "kConnecting" /\ c \in connections_
                /\ OneIn(work, c, "connectEstablished", ioLoop[c]) /\ Unregistered(c)
Serving(c)   == Open(c) /\ c \in connections_ /\ NoneIn(work, c) /\ Registered(c)
Closed(c)    == /\ state_[c] = "kDisconnected" /\ c \in connections_
                /\ OneIn(work, c, "removeConnection", Base) /\ Registered(c)
Removed(c)   == /\ state_[c] = "kDisconnected" /\ c \notin connections_
                /\ OneIn(work, c, "connectDestroyed", ioLoop[c]) /\ Registered(c)
Absent(c)    == /\ state_[c] \in {"none", "kDisconnected"} /\ c \notin connections_
                /\ NoneIn(work, c) /\ Unregistered(c)
Stage(c) == Absent(c) \/ Accepted(c) \/ Serving(c) \/ Closed(c) \/ Removed(c)
Stages == \A c \in Clients : Stage(c)

\* A descriptor is given to one connection that something refers to.
Descriptors ==
  /\ \A c \in Refd : state_[c] # "none"
  /\ \A c, d \in Refd : fd[c] = fd[d] => c = d

\* The clients in the backlog have no connection yet.
Waiters ==
  /\ \A i \in 1..Len(backlog) : state_[backlog[i]] = "none"
  /\ \A i, j \in 1..Len(backlog) : backlog[i] = backlog[j] => i = j

\* A connection whose events wait to be handled is open, in its own loop.
Actives ==
  \A l \in AllLoops :
    /\ \A c \in Clients : c \in active[l] => Open(c) /\ ioLoop[c] = l
    /\ Acceptor \in active[l] => l = Base /\ backlog # <<>>

\* forceClose() waits in the connection's own loop, and for every kDisconnecting.
ClosingOf(c) ==
  /\ \A l \in AllLoops : HasForce(work[l], c) => l = ioLoop[c]
  /\ state_[c] = "kDisconnecting" => \A l \in AllLoops : l = ioLoop[c] => HasForce(work[l], c)
Closing == \A c \in Clients : ClosingOf(c)

\* The threads stop after the destructor has begun, and it begins when the server's
\* loop has returned with nothing queued and, with threads, nothing is referred to.
Ending ==
  /\ \A l \in AllLoops : l # Base /\ quit_[l] => server \in {"dtor", "gone"}
  /\ server \in {"dtor", "gone"} => /\ phase[Base] = "out" /\ pending[Base] = <<>>
                                    /\ (numThreads = 0 \/ Refd = {})

\* A loop is in write() only inside a handler, to a client whose connection is open.
Stalls ==
  /\ stalled \subseteq Clients
  /\ \A c \in stalled : state_[c] = "kConnected" /\ phase[ioLoop[c]] = "handle"

ServerInv ==
  /\ LiveDtor = FALSE /\ aborted = FALSE
  /\ Types /\ LoopTypes /\ Phases
  /\ Stages /\ Descriptors /\ Waiters /\ Actives /\ Closing /\ Ending

-----------------------------------------------------------------------------
(* Sequences of callbacks, and the queues of all loops.                    *)

\* A callback that is queued comes last.
LEMMA LeftAppend ==
  ASSUME NEW s \in Seq(Functors), NEW t \in Seq(Functors), NEW n \in 0..Len(s), NEW e \in Functors
  PROVE  /\ Left(s, n, t) \in Seq(Functors)
         /\ Left(s, n, Append(t, e)) = Append(Left(s, n, t), e)
<1> DEFINE r == SubSeq(s, n + 1, Len(s))
<1>1. r \in Seq(Functors)
  OBVIOUS
<1>2. \A q \in Seq(Functors) : q \o Append(t, e) = Append(q \o t, e)
  OBVIOUS
<1> HIDE DEF r
<1>3. r \o Append(t, e) = Append(r \o t, e) /\ r \o t \in Seq(Functors)
  BY <1>1, <1>2
<1> QED BY <1>3 DEF Left, r

\* What is left of s when n of it have run.
LEMMA SubSeqShape ==
  ASSUME NEW s \in Seq(Functors), NEW n \in 0..Len(s)
  PROVE  /\ SubSeq(s, n + 1, Len(s)) \in Seq(Functors)
         /\ Len(SubSeq(s, n + 1, Len(s))) = Len(s) - n
         /\ \A i \in 1..Len(SubSeq(s, n + 1, Len(s))) : SubSeq(s, n + 1, Len(s))[i] = s[n + i]
<1> DEFINE r == SubSeq(s, n + 1, Len(s))
<1>1. r \in Seq(Functors)
  OBVIOUS
<1>2. Len(r) = Len(s) - n
  OBVIOUS
<1>3. ASSUME NEW i \in 1..(Len(s) - n) PROVE r[i] = s[n + i]
  OBVIOUS
<1> HIDE DEF r
<1>4. \A i \in 1..Len(r) : r[i] = s[n + i]
  BY <1>2, <1>3
<1> QED BY <1>1, <1>2, <1>4 DEF r

\* The callback that runs comes first.
LEMMA LeftRun ==
  ASSUME NEW s \in Seq(Functors), NEW t \in Seq(Functors), NEW n \in Nat, n < Len(s)
  PROVE  /\ Left(s, n, t) # <<>> /\ Head(Left(s, n, t)) = s[n + 1]
         /\ Left(s, n + 1, t) = Tail(Left(s, n, t))
<1> DEFINE r == SubSeq(s, n + 1, Len(s))
           q == SubSeq(s, n + 2, Len(s))
<1>0. n \in 0..Len(s)
  OBVIOUS
<1>1. /\ r \in Seq(Functors) /\ Len(r) = Len(s) - n
      /\ \A i \in 1..Len(r) : r[i] = s[n + i]
  BY <1>0, SubSeqShape, Zenon
<1>2. /\ q \in Seq(Functors) /\ Len(q) = Len(s) - (n + 1)
      /\ \A i \in 1..Len(q) : q[i] = s[n + 1 + i]
  <2>1. n + 1 \in 0..Len(s) /\ q = SubSeq(s, (n + 1) + 1, Len(s))
    OBVIOUS
  <2> DEFINE p == SubSeq(s, (n + 1) + 1, Len(s))
  <2>2. /\ p \in Seq(Functors) /\ Len(p) = Len(s) - (n + 1)
        /\ \A i \in 1..Len(p) : p[i] = s[(n + 1) + i]
    BY <2>1, SubSeqShape, Zenon
  <2>3. q = p
    BY <2>1
  <2> HIDE DEF p, q
  <2> QED BY <2>2, <2>3, Zenon
<1>3. Left(s, n + 1, t) = q \o t /\ Left(s, n, t) = r \o t
  <2>1. (n + 1) + 1 = n + 2
    OBVIOUS
  <2> QED BY <2>1 DEF Left
<1> HIDE DEF r, q
<1>4. /\ r \o t \in Seq(Functors) /\ Len(r \o t) = Len(r) + Len(t)
      /\ \A i \in 1..Len(r) + Len(t) : (r \o t)[i] = IF i <= Len(r) THEN r[i] ELSE t[i - Len(r)]
  BY <1>1, ConcatProperties, Zenon
<1>5. /\ q \o t \in Seq(Functors) /\ Len(q \o t) = Len(q) + Len(t)
      /\ \A i \in 1..Len(q) + Len(t) : (q \o t)[i] = IF i <= Len(q) THEN q[i] ELSE t[i - Len(q)]
  BY <1>2, ConcatProperties, Zenon
<1>6. r \o t # <<>> /\ Head(r \o t) = s[n + 1]
  BY <1>1, <1>4
<1>7. Len(q \o t) = Len(Tail(r \o t)) /\ Tail(r \o t) \in Seq(Functors)
  BY <1>1, <1>2, <1>4, <1>5, <1>6
<1>8. ASSUME NEW i \in 1..Len(q \o t) PROVE (q \o t)[i] = Tail(r \o t)[i]
  <2>1. Tail(r \o t)[i] = (r \o t)[i + 1]
    BY <1>4, <1>6, <1>7
  <2>2. i \in Nat /\ i <= Len(q) + Len(t) /\ i >= 1
    BY <1>5, <1>2
  <2>3. i + 1 \in 1..Len(r) + Len(t)
    BY <2>2, <1>1, <1>2
  <2>4. CASE i <= Len(q)
    <3>1. (q \o t)[i] = s[n + 1 + i]
      BY <1>2, <1>5, <2>2, <2>4
    <3>2. (r \o t)[i + 1] = s[n + (i + 1)]
      BY <1>1, <1>2, <1>4, <2>2, <2>3, <2>4
    <3>3. n + 1 + i = n + (i + 1)
      BY <2>2
    <3> QED BY <3>1, <3>2, <3>3, <2>1, Zenon
  <2>5. CASE ~(i <= Len(q))
    <3>1. (q \o t)[i] = t[i - Len(q)]
      BY <1>2, <1>5, <2>2, <2>5
    <3>2. (r \o t)[i + 1] = t[i + 1 - Len(r)]
      BY <1>1, <1>2, <1>4, <2>2, <2>3, <2>5, SMTT(40)
    <3>3. i + 1 - Len(r) = i - Len(q)
      BY <1>1, <1>2, <2>2
    <3> QED BY <3>1, <3>2, <3>3, <2>1
  <2> QED BY <2>4, <2>5
<1>9. q \o t = Tail(r \o t)
  BY <1>5, <1>7, <1>8, SeqEqual, Zenon
<1> QED BY <1>3, <1>6, <1>9

\* A batch that has run is gone, and a queue becomes a batch as it is.
LEMMA LeftEnds ==
  ASSUME NEW s \in Seq(Functors), NEW t \in Seq(Functors)
  PROVE  /\ Left(s, Len(s), t) = t /\ Left(<<>>, 0, t) = t
         /\ Left(s, 0, <<>>) = s
<1>1. SubSeq(s, Len(s) + 1, Len(s)) = <<>> /\ SubSeq(s, 1, Len(s)) = s
  OBVIOUS
<1>2. <<>> \o t = t /\ s \o <<>> = s
  OBVIOUS
<1>3. SubSeq(<<>>, 0 + 1, Len(<<>>)) = <<>> /\ 0 + 1 = 1
  OBVIOUS
<1> QED BY <1>1, <1>2, <1>3 DEF Left

\* What a callback f at the end of s says of c.
LEMMA AppendWaits ==
  ASSUME NEW s \in Seq(Functors), NEW f \in Functors, NEW c
  PROVE  /\ ~Moves(f, c) /\ None(s, c) => None(Append(s, f), c)
         /\ ~Moves(f, c) => \A op : One(s, c, op) => One(Append(s, f), c, op)
         /\ Moves(f, c) /\ None(s, c) => One(Append(s, f), c, f.op)
         /\ HasForce(Append(s, f), c) <=> HasForce(s, c) \/ Forces(f, c)
<1> DEFINE t == Append(s, f)
<1>1. /\ Len(s) \in Nat /\ Len(t) = Len(s) + 1
      /\ \A i \in 1..Len(s) : t[i] = s[i]
      /\ t[Len(s) + 1] = f
  OBVIOUS
<1>2. \A i \in 1..(Len(s) + 1) : i \in 1..Len(s) \/ i = Len(s) + 1
  BY <1>1
<1>3. 1..Len(s) \subseteq 1..(Len(s) + 1) /\ Len(s) + 1 \in 1..(Len(s) + 1)
      /\ Len(s) + 1 \notin 1..Len(s)
  BY <1>1
<1> HIDE DEF t
<1>4. ~Moves(f, c) /\ None(s, c) => None(t, c)
  BY <1>1, <1>2, Zenon DEF None
<1>5. ~Moves(f, c) => \A op : One(s, c, op) => One(t, c, op)
  <2> SUFFICES ASSUME ~Moves(f, c), NEW op, One(s, c, op) PROVE One(t, c, op)
    OBVIOUS
  <2>1. PICK i \in 1..Len(s) : /\ s[i].conn = c /\ s[i].op = op /\ op # "forceClose"
                               /\ \A j \in 1..Len(s) : Moves(s[j], c) => j = i
    BY Zenon DEF One
  <2>2. i \in 1..Len(t) /\ t[i] = s[i]
    BY <1>1, <1>3, Zenon
  <2>3. \A j \in 1..Len(t) : Moves(t[j], c) => j = i
    BY <1>1, <1>2, <2>1, Zenon
  <2> QED BY <2>1, <2>2, <2>3, Zenon DEF One
<1>6. Moves(f, c) /\ None(s, c) => One(t, c, f.op)
  BY <1>1, <1>2, <1>3, ZenonT(40) DEF None, One, Moves
<1>7. HasForce(t, c) <=> HasForce(s, c) \/ Forces(f, c)
  BY <1>1, <1>2, <1>3, Zenon DEF HasForce
<1> QED BY <1>4, <1>5, <1>6, <1>7 DEF t

\* What the first callback of s said of c, and what the rest says.
LEMMA TailWaits ==
  ASSUME NEW s \in Seq(Functors), s # <<>>, NEW c
  PROVE  /\ None(s, c) => None(Tail(s), c) /\ ~Moves(Head(s), c)
         /\ ~Moves(Head(s), c) => \A op : One(s, c, op) => One(Tail(s), c, op)
         /\ Moves(Head(s), c) => \A op : One(s, c, op) => op = Head(s).op /\ None(Tail(s), c)
         /\ HasForce(s, c) <=> HasForce(Tail(s), c) \/ Forces(Head(s), c)
<1> DEFINE t == Tail(s)
           h == Head(s)
<1>1. /\ Len(s) \in Nat /\ Len(s) >= 1 /\ Len(t) = Len(s) - 1
      /\ \A i \in 1..Len(t) : t[i] = s[i + 1]
      /\ s[1] = h
  OBVIOUS
<1>2. \A i \in 1..Len(s) : i = 1 \/ (i - 1 \in 1..Len(t) /\ t[i - 1] = s[i])
  <2> SUFFICES ASSUME NEW i \in 1..Len(s), i # 1
               PROVE  i - 1 \in 1..Len(t) /\ t[i - 1] = s[i]
    OBVIOUS
  <2>1. i - 1 \in 1..Len(t) /\ (i - 1) + 1 = i
    BY <1>1
  <2> QED BY <2>1, <1>1
<1>3. \A i \in 1..Len(t) : i + 1 \in 1..Len(s) /\ i + 1 # 1
  BY <1>1
<1>4. 1 \in 1..Len(s)
  BY <1>1
<1>a. \A i, j \in 1..Len(s) : i - 1 = j - 1 => i = j
  BY <1>1
<1>b. \A i \in 1..Len(s) : \A j \in 1..Len(t) : j + 1 = i => j = i - 1
  BY <1>1
<1> HIDE DEF t, h
<1>5. None(s, c) => None(t, c) /\ ~Moves(h, c)
  BY <1>1, <1>3, <1>4, Zenon DEF None
<1>6. ASSUME NEW op, One(s, c, op)
      PROVE  /\ ~Moves(h, c) => One(t, c, op)
             /\ Moves(h, c) => op = h.op /\ None(t, c)
  <2>1. PICK i \in 1..Len(s) : /\ s[i].conn = c /\ s[i].op = op /\ op # "forceClose"
                               /\ \A j \in 1..Len(s) : Moves(s[j], c) => j = i
    BY <1>6, Zenon DEF One
  <2>2. ASSUME ~Moves(h, c) PROVE One(t, c, op)
    <3>1. i # 1
      BY <1>1, <2>1, <2>2, Zenon DEF Moves
    <3>2. i - 1 \in 1..Len(t) /\ t[i - 1] = s[i]
      BY <1>2, <3>1, Zenon
    <3>3. \A j \in 1..Len(t) : Moves(t[j], c) => j = i - 1
      BY <1>1, <1>3, <1>b, <2>1, Zenon
    <3> QED BY <2>1, <3>2, <3>3, Zenon DEF One
  <2>3. ASSUME Moves(h, c) PROVE op = h.op /\ None(t, c)
    <3>1. i = 1
      BY <1>1, <1>4, <2>1, <2>3, Zenon
    <3>2. op = h.op
      BY <1>1, <2>1, <3>1, Zenon
    <3>3. None(t, c)
      BY <1>1, <1>3, <2>1, <3>1, Zenon DEF None
    <3> QED BY <3>2, <3>3
  <2> QED BY <2>2, <2>3
<1>7. HasForce(s, c) <=> HasForce(t, c) \/ Forces(h, c)
  BY <1>1, <1>2, <1>3, <1>4, Zenon DEF HasForce
<1> QED BY <1>5, <1>6, <1>7, Zenon DEF t, h

\* A callback f is queued in loop l of w.
LEMMA PutWaits ==
  ASSUME NEW S, NEW w \in [S -> Seq(Functors)], NEW l \in S, NEW f \in Functors, NEW c
  PROVE  /\ Put(w, l, f) \in [S -> Seq(Functors)]
         /\ ~Moves(f, c) => Keeps(w, Put(w, l, f), c)
         /\ Moves(f, c) /\ NoneIn(w, c) => OneIn(Put(w, l, f), c, f.op, l)
         /\ \A m \in S : HasForce(Put(w, l, f)[m], c)
                         <=> HasForce(w[m], c) \/ (m = l /\ Forces(f, c))
<1> DEFINE v == Put(w, l, f)
<1>1. /\ v \in [S -> Seq(Functors)] /\ v[l] = Append(w[l], f)
      /\ \A m \in S : m # l => v[m] = w[m]
      /\ DOMAIN v = S /\ DOMAIN w = S
  BY DEF Put
<1> HIDE DEF v
<1>2. w[l] \in Seq(Functors)
  OBVIOUS
<1>3. /\ ~Moves(f, c) /\ None(w[l], c) => None(v[l], c)
      /\ ~Moves(f, c) => \A op : One(w[l], c, op) => One(v[l], c, op)
      /\ Moves(f, c) /\ None(w[l], c) => One(v[l], c, f.op)
      /\ HasForce(v[l], c) <=> HasForce(w[l], c) \/ Forces(f, c)
  BY <1>1, <1>2, AppendWaits
<1>4. ~Moves(f, c) /\ NoneIn(w, c) => NoneIn(v, c)
  BY <1>1, <1>3, Zenon DEF NoneIn
<1>5. ASSUME ~Moves(f, c), NEW op, NEW m, OneIn(w, c, op, m) PROVE OneIn(v, c, op, m)
  BY <1>1, <1>3, <1>5, Zenon DEF OneIn
<1>6. Moves(f, c) /\ NoneIn(w, c) => OneIn(v, c, f.op, l)
  BY <1>1, <1>3, Zenon DEF OneIn, NoneIn
<1>7. \A m \in S : HasForce(v[m], c) <=> HasForce(w[m], c) \/ (m = l /\ Forces(f, c))
  BY <1>1, <1>3, Zenon
<1>8. ~Moves(f, c) => Keeps(w, v, c)
  BY <1>4, <1>5, Zenon DEF Keeps
<1> QED BY <1>1, <1>6, <1>7, <1>8, Zenon DEF v

\* The first callback of loop l of w runs.
LEMMA RunWaits ==
  ASSUME NEW S, NEW w \in [S -> Seq(Functors)], NEW l \in S, w[l] # <<>>, NEW c
  PROVE  /\ Run(w, l) \in [S -> Seq(Functors)]
         /\ ~Moves(Head(w[l]), c) => Keeps(w, Run(w, l), c)
         /\ Moves(Head(w[l]), c) =>
              /\ ~NoneIn(w, c)
              /\ \A op, m : OneIn(w, c, op, m) =>
                   m = l /\ op = Head(w[l]).op /\ NoneIn(Run(w, l), c)
         /\ \A m \in S : HasForce(w[m], c)
                         <=> HasForce(Run(w, l)[m], c) \/ (m = l /\ Forces(Head(w[l]), c))
<1> DEFINE v == Run(w, l)
           h == Head(w[l])
<1>2. w[l] \in Seq(Functors)
  OBVIOUS
<1>1. /\ v \in [S -> Seq(Functors)] /\ v[l] = Tail(w[l])
      /\ \A m \in S : m # l => v[m] = w[m]
      /\ DOMAIN v = S /\ DOMAIN w = S
  <2>1. Tail(w[l]) \in Seq(Functors)
    BY <1>2
  <2> QED BY <2>1 DEF Run
<1> HIDE DEF v
<1>3. /\ None(w[l], c) => None(v[l], c) /\ ~Moves(h, c)
      /\ ~Moves(h, c) => \A op : One(w[l], c, op) => One(v[l], c, op)
      /\ Moves(h, c) => \A op : One(w[l], c, op) => op = h.op /\ None(v[l], c)
      /\ HasForce(w[l], c) <=> HasForce(v[l], c) \/ Forces(h, c)
  BY <1>1, <1>2, TailWaits
<1> HIDE DEF h
<1>4. ~Moves(h, c) /\ NoneIn(w, c) => NoneIn(v, c)
  BY <1>1, <1>3, Zenon DEF NoneIn
<1>5. ASSUME ~Moves(h, c), NEW op, NEW m, OneIn(w, c, op, m) PROVE OneIn(v, c, op, m)
  BY <1>1, <1>3, <1>5, Zenon DEF OneIn
<1>6. ASSUME Moves(h, c), NEW op, NEW m, OneIn(w, c, op, m)
      PROVE  m = l /\ op = h.op /\ NoneIn(v, c)
  <2>1. m = l
    BY <1>1, <1>3, <1>6, Zenon DEF OneIn
  <2>2. op = h.op /\ None(v[l], c)
    BY <1>3, <1>6, <2>1, Zenon DEF OneIn
  <2>3. NoneIn(v, c)
    BY <1>1, <1>6, <2>1, <2>2, Zenon DEF OneIn, NoneIn
  <2> QED BY <2>1, <2>2, <2>3
<1>7. Moves(h, c) => ~NoneIn(w, c)
  BY <1>1, <1>3, Zenon DEF NoneIn
<1>8. \A m \in S : HasForce(w[m], c) <=> HasForce(v[m], c) \/ (m = l /\ Forces(h, c))
  BY <1>1, <1>3, Zenon
<1>9. ~Moves(h, c) => Keeps(w, v, c)
  BY <1>4, <1>5, Zenon DEF Keeps
<1> QED BY <1>1, <1>6, <1>7, <1>8, <1>9, Zenon DEF v, h

\* If it was of the start or the removal of c, it was the one that waited.
LEMMA RunMoved ==
  ASSUME NEW S, NEW w \in [S -> Seq(Functors)], NEW l \in S, w[l] # <<>>, NEW c,
         Moves(Head(w[l]), c), NEW op, NEW m, OneIn(w, c, op, m)
  PROVE  m = l /\ op = Head(w[l]).op /\ NoneIn(Run(w, l), c)
<1>1. Moves(Head(w[l]), c) =>
        /\ ~NoneIn(w, c)
        /\ \A o, k : OneIn(w, c, o, k) => k = l /\ o = Head(w[l]).op /\ NoneIn(Run(w, l), c)
  BY RunWaits
<1> QED BY <1>1, Zenon

\* Two steps that keep what waits for c.
LEMMA KeepsBoth ==
  ASSUME NEW u, NEW v, NEW w, NEW c, Keeps(u, v, c), Keeps(v, w, c)
  PROVE  Keeps(u, w, c)
BY Zenon DEF Keeps

-----------------------------------------------------------------------------
(* What the steps do to the queues, and to who refers to a connection.     *)

\* Every callback that waits is in the batch or in the queue.
LEMMA LeftElement ==
  ASSUME NEW s \in Seq(Functors), NEW t \in Seq(Functors), NEW n \in 0..Len(s),
         NEW i \in 1..Len(Left(s, n, t))
  PROVE  \/ \E j \in 1..Len(s) : Left(s, n, t)[i] = s[j]
         \/ \E j \in 1..Len(t) : Left(s, n, t)[i] = t[j]
<1> DEFINE r == SubSeq(s, n + 1, Len(s))
<1>1. /\ r \in Seq(Functors) /\ Len(r) = Len(s) - n
      /\ \A k \in 1..Len(r) : r[k] = s[n + k]
  BY SubSeqShape, Zenon
<1>2. Left(s, n, t) = r \o t
  BY DEF Left
<1> HIDE DEF r
<1>3. /\ r \o t \in Seq(Functors) /\ Len(r \o t) = Len(r) + Len(t)
      /\ \A k \in 1..Len(r) + Len(t) : (r \o t)[k] = IF k <= Len(r) THEN r[k] ELSE t[k - Len(r)]
  BY <1>1, ConcatProperties, Zenon
<1>4. i \in 1..Len(r) + Len(t)
  BY <1>2, <1>3
<1>5. CASE i <= Len(r)
  <2>1. i \in 1..Len(r) /\ n + i \in 1..Len(s)
    BY <1>1, <1>4, <1>5
  <2>2. (r \o t)[i] = s[n + i]
    BY <1>1, <1>3, <1>4, <1>5, <2>1, Zenon
  <2> QED BY <1>2, <2>1, <2>2, Zenon
<1>6. CASE ~(i <= Len(r))
  <2>1. i - Len(r) \in 1..Len(t)
    BY <1>1, <1>4, <1>6
  <2>2. (r \o t)[i] = t[i - Len(r)]
    BY <1>3, <1>4, <1>6, Zenon
  <2> QED BY <1>2, <2>1, <2>2, Zenon
<1> QED BY <1>5, <1>6

\* The queues have their types.
LEMMA WorkType ==
  ASSUME Types, LoopTypes, Phases
  PROVE  /\ AllLoops \subseteq Loops /\ 0 \in AllLoops
         /\ work \in [AllLoops -> Seq(Functors)]
         /\ \A l \in AllLoops : /\ work[l] = Left(batch[l], ran[l], pending[l])
                                /\ pending[l] \in Seq(Functors) /\ batch[l] \in Seq(Functors)
                                /\ ran[l] \in 0..Len(batch[l])
<1>1. AllLoops \subseteq Loops /\ 0 \in AllLoops
  BY DEF Types
<1>2. ASSUME NEW l \in AllLoops
      PROVE  /\ pending[l] \in Seq(Functors) /\ batch[l] \in Seq(Functors)
             /\ ran[l] \in 0..Len(batch[l])
             /\ Left(batch[l], ran[l], pending[l]) \in Seq(Functors)
  <2>1. l \in Loops
    BY <1>1
  <2>2. pending[l] \in Seq(Functors) /\ batch[l] \in Seq(Functors) /\ ran[l] \in Nat
    BY <2>1 DEF LoopTypes
  <2>3. ran[l] <= Len(batch[l])
    BY <2>1 DEF Phases
  <2>4. ran[l] \in 0..Len(batch[l])
    BY <2>2, <2>3
  <2>5. Left(batch[l], ran[l], pending[l]) \in Seq(Functors)
    BY <2>2, <2>4 DEF Left
  <2> QED BY <2>2, <2>4, <2>5
<1>3. work \in [AllLoops -> Seq(Functors)]
  BY <1>2 DEF work
<1>4. \A l \in AllLoops : work[l] = Left(batch[l], ran[l], pending[l])
  BY DEF work
<1> QED BY <1>1, <1>2, <1>3, <1>4

\* Nothing waits for a connection to which nothing refers.
LEMMA UnreferencedIdle ==
  ASSUME Types, LoopTypes, Phases, NEW c \in Clients, c \notin Refd
  PROVE  NoneIn(work, c) /\ \A l \in AllLoops : ~HasForce(work[l], c)
<1>1. ASSUME NEW l \in AllLoops, NEW i \in 1..Len(work[l]) PROVE work[l][i].conn # c
  <2>1. \/ \E j \in 1..Len(batch[l]) : work[l][i] = batch[l][j]
        \/ \E j \in 1..Len(pending[l]) : work[l][i] = pending[l][j]
    <3>1. /\ work[l] = Left(batch[l], ran[l], pending[l])
          /\ pending[l] \in Seq(Functors) /\ batch[l] \in Seq(Functors)
          /\ ran[l] \in 0..Len(batch[l])
      BY WorkType
    <3>2. i \in 1..Len(Left(batch[l], ran[l], pending[l]))
      BY <1>1, <3>1
    <3> DEFINE q == Left(batch[l], ran[l], pending[l])
    <3>3. \/ \E j \in 1..Len(batch[l]) : q[i] = batch[l][j]
          \/ \E j \in 1..Len(pending[l]) : q[i] = pending[l][j]
      BY <3>1, <3>2, LeftElement, ZenonT(40)
    <3>4. q = work[l]
      BY <3>1
    <3> HIDE DEF q
    <3> QED BY <3>3, <3>4, Zenon
  <2>2. c \notin Held(l)
    BY Zenon DEF Refd
  <2> QED BY <2>1, <2>2, Zenon DEF Held
<1>2. DOMAIN work = AllLoops
  BY WorkType
<1> QED BY <1>1, <1>2, Zenon DEF NoneIn, None, Moves, HasForce, Forces

\* The model's test of references.
LEMMA ReferencedRefd ==
  ASSUME Types, LoopTypes, Phases, NEW c \in Clients
  PROVE  Referenced(c) <=> c \in Refd
<1>1. \A l \in AllLoops : DOMAIN pending[l] = 1..Len(pending[l]) /\ DOMAIN batch[l] = 1..Len(batch[l])
  BY WorkType
<1> QED BY <1>1, Zenon DEF Referenced, Refd, Held

\* A callback that waits refers to its connection.
LEMMA WaitingRefd ==
  ASSUME Types, LoopTypes, Phases, NEW l \in AllLoops
  PROVE  /\ \A i \in 1..Len(pending[l]) : pending[l][i].conn \in Refd
         /\ \A i \in 1..Len(batch[l]) : batch[l][i].conn \in Refd
<1>1. /\ \A i \in 1..Len(pending[l]) : pending[l][i] \in Functors
      /\ \A i \in 1..Len(batch[l]) : batch[l][i] \in Functors
  BY WorkType
<1>2. \A g \in Functors : g.conn \in Clients
  BY DEF Functors
<1> QED BY <1>1, <1>2, Zenon DEF Refd, Held

\* Who is referred to after a step.
LEMMA RefdBound ==
  ASSUME numThreads' = numThreads, NEW Y, connections_' \subseteq Refd \cup Y,
         \A l \in AllLoops :
           /\ \A i \in 1..Len(pending'[l]) : pending'[l][i].conn \in Refd \cup Y
           /\ \A i \in 1..Len(batch'[l]) : batch'[l][i].conn \in Refd \cup Y
  PROVE  Refd' \subseteq Refd \cup Y
<1>1. AllLoops' = AllLoops
  OBVIOUS
<1>2. ASSUME NEW c \in Refd' PROVE c \in Refd \cup Y
  <2>1. c \in connections_' \/ \E l \in AllLoops : c \in Held(l)'
    BY <1>1, <1>2, Zenon DEF Refd
  <2>2. CASE c \in connections_'
    BY <2>2
  <2>3. ASSUME NEW l \in AllLoops, c \in Held(l)' PROVE c \in Refd \cup Y
    BY <2>3, Zenon DEF Held
  <2> QED BY <2>1, <2>2, <2>3, Zenon
<1> QED BY <1>2

\* A step that leaves the queues.
LEMMA QueuesSame ==
  ASSUME UNCHANGED <<numThreads, connections_, pending, batch, ran>>
  PROVE  work' = work /\ Refd' = Refd
<1>1. work' = work
  BY DEF work, Left
<1>2. \A l : Held(l)' = Held(l)
  BY DEF Held
<1>3. Refd' = Refd
  BY <1>2, Zenon DEF Refd
<1> QED BY <1>1, <1>3

\* A callback is queued.
LEMMA WorkPut ==
  ASSUME Types, LoopTypes, Phases, UNCHANGED <<numThreads, batch, ran>>,
         NEW l \in AllLoops, NEW f \in Functors,
         pending' = [pending EXCEPT ![l] = Append(@, f)]
  PROVE  work' = Put(work, l, f)
<1>1. /\ AllLoops' = AllLoops /\ AllLoops \subseteq Loops
      /\ work \in [AllLoops -> Seq(Functors)]
  BY WorkType
<1>2. pending'[l] = Append(pending[l], f) /\ \A m \in AllLoops : m # l => pending'[m] = pending[m]
  BY <1>1 DEF LoopTypes
<1>3. Left(batch[l], ran[l], pending'[l]) = Append(work[l], f)
  <2>1. /\ work[l] = Left(batch[l], ran[l], pending[l])
        /\ pending[l] \in Seq(Functors) /\ batch[l] \in Seq(Functors)
        /\ ran[l] \in 0..Len(batch[l])
    BY WorkType
  <2>2. Left(batch[l], ran[l], Append(pending[l], f)) = Append(work[l], f)
    BY <2>1, LeftAppend, SMTT(40)
  <2> QED BY <1>2, <2>2
<1>4. \A m \in AllLoops : m # l => Left(batch[m], ran[m], pending'[m]) = work[m]
  BY <1>2, WorkType
<1>5. work' = [m \in AllLoops |-> Left(batch[m], ran[m], pending'[m])]
  BY <1>1 DEF work
<1>6. \A m \in AllLoops : Left(batch[m], ran[m], pending'[m]) = Put(work, l, f)[m]
  BY <1>1, <1>3, <1>4 DEF Put
<1>7. DOMAIN Put(work, l, f) = AllLoops /\ Put(work, l, f) = [m \in AllLoops |-> Put(work, l, f)[m]]
  BY <1>1 DEF Put
<1> QED BY <1>5, <1>6, <1>7

\* The callback that runs is the first of its loop's, and leaves.
LEMMA WorkRun ==
  ASSUME Types, LoopTypes, Phases, UNCHANGED <<numThreads, batch, pending>>,
         NEW l \in AllLoops, ran[l] < Len(batch[l]),
         ran' = [ran EXCEPT ![l] = @ + 1]
  PROVE  /\ work' = Run(work, l) /\ work[l] # <<>>
         /\ Head(work[l]) = batch[l][ran[l] + 1]
<1>1. /\ AllLoops' = AllLoops /\ AllLoops \subseteq Loops
      /\ work \in [AllLoops -> Seq(Functors)]
  BY WorkType
<1>2. ran'[l] = ran[l] + 1 /\ \A m \in AllLoops : m # l => ran'[m] = ran[m]
  BY <1>1 DEF LoopTypes
<1>3. /\ Left(batch[l], ran'[l], pending[l]) = Tail(work[l])
      /\ work[l] # <<>> /\ Head(work[l]) = batch[l][ran[l] + 1]
  <2>1. ran[l] \in Nat
    BY WorkType
  <2> QED BY <1>2, <2>1, WorkType, LeftRun, SMTT(40)
<1>4. \A m \in AllLoops : m # l => Left(batch[m], ran'[m], pending[m]) = work[m]
  BY <1>2, WorkType
<1>5. work' = [m \in AllLoops |-> Left(batch[m], ran'[m], pending[m])]
  BY <1>1 DEF work
<1>6. \A m \in AllLoops : Left(batch[m], ran'[m], pending[m]) = Run(work, l)[m]
  BY <1>1, <1>3, <1>4 DEF Run
<1>7. Run(work, l) = [m \in AllLoops |-> Run(work, l)[m]]
  BY <1>1 DEF Run
<1> QED BY <1>3, <1>5, <1>6, <1>7

\* A callback of loop l runs and queues f in loop k.
LEMMA WorkRunPut ==
  ASSUME Types, LoopTypes, Phases, UNCHANGED <<numThreads, batch>>,
         NEW l \in AllLoops, ran[l] < Len(batch[l]),
         ran' = [ran EXCEPT ![l] = @ + 1],
         NEW k \in AllLoops, NEW f \in Functors,
         pending' = [pending EXCEPT ![k] = Append(@, f)]
  PROVE  /\ work' = Put(Run(work, l), k, f) /\ work[l] # <<>>
         /\ Head(work[l]) = batch[l][ran[l] + 1]
<1>1. /\ AllLoops' = AllLoops /\ AllLoops \subseteq Loops
      /\ work \in [AllLoops -> Seq(Functors)]
  BY WorkType
<1>2. /\ ran'[l] = ran[l] + 1 /\ \A m \in AllLoops : m # l => ran'[m] = ran[m]
      /\ pending'[k] = Append(pending[k], f)
      /\ \A m \in AllLoops : m # k => pending'[m] = pending[m]
  BY <1>1 DEF LoopTypes
<1>a. \A m \in AllLoops : /\ work[m] = Left(batch[m], ran[m], pending[m])
                          /\ pending[m] \in Seq(Functors) /\ batch[m] \in Seq(Functors)
                          /\ ran[m] \in 0..Len(batch[m]) /\ ran[m] \in Nat
  BY WorkType
<1>3. /\ Left(batch[l], ran[l] + 1, pending[l]) = Tail(work[l])
      /\ work[l] # <<>> /\ Head(work[l]) = batch[l][ran[l] + 1]
  <2>1. /\ pending[l] \in Seq(Functors) /\ batch[l] \in Seq(Functors) /\ ran[l] \in Nat
        /\ work[l] = Left(batch[l], ran[l], pending[l]) /\ ran[l] < Len(batch[l])
    BY <1>a, Zenon
  <2> DEFINE q == Left(batch[l], ran[l], pending[l])
  <2>2. /\ q # <<>> /\ Head(q) = batch[l][ran[l] + 1]
        /\ Left(batch[l], ran[l] + 1, pending[l]) = Tail(q)
    BY <2>1, LeftRun, Zenon
  <2>3. q = work[l]
    BY <2>1
  <2> HIDE DEF q
  <2> QED BY <2>2, <2>3, Zenon
<1>4. ASSUME NEW m \in AllLoops
      PROVE  Left(batch[m], ran'[m], pending[m]) = IF m = l THEN Tail(work[m]) ELSE work[m]
  BY <1>2, <1>3, <1>a
<1>5. ran'[k] \in 0..Len(batch[k])
  <2>1. CASE k = l
    BY <2>1, <1>2, <1>a
  <2>2. CASE k # l
    BY <2>2, <1>2, <1>a
  <2> QED BY <2>1, <2>2
<1>6. Left(batch[k], ran'[k], pending'[k]) = Append(Left(batch[k], ran'[k], pending[k]), f)
  <2>1. pending[k] \in Seq(Functors) /\ batch[k] \in Seq(Functors)
    BY <1>a
  <2>2. Left(batch[k], ran'[k], Append(pending[k], f))
          = Append(Left(batch[k], ran'[k], pending[k]), f)
    BY <1>5, <2>1, LeftAppend, ZenonT(40)
  <2> QED BY <1>2, <2>2
<1>7. work' = [m \in AllLoops |-> Left(batch[m], ran'[m], pending'[m])]
  BY <1>1 DEF work
<1> DEFINE v == Run(work, l)
           u == Put(v, k, f)
<1>8. /\ v = [m \in AllLoops |-> IF m = l THEN Tail(work[m]) ELSE work[m]]
  BY <1>1 DEF Run
<1>9. u = [m \in AllLoops |-> IF m = k THEN Append(v[m], f) ELSE v[m]]
  <2> HIDE DEF v
  <2> QED BY <1>8 DEF Put
<1>10. \A m \in AllLoops : Left(batch[m], ran'[m], pending[m]) = v[m]
  <2> HIDE DEF v
  <2> QED BY <1>4, <1>8
<1>11. \A m \in AllLoops : Left(batch[m], ran'[m], pending'[m]) = u[m]
  <2> HIDE DEF v, u
  <2>1. Left(batch[k], ran'[k], pending'[k]) = u[k]
    BY <1>6, <1>9, <1>10
  <2>2. \A m \in AllLoops : m # k => Left(batch[m], ran'[m], pending'[m]) = u[m]
    BY <1>2, <1>9, <1>10
  <2> QED BY <2>1, <2>2, Zenon
<1>12. work' = u
  <2> HIDE DEF v, u
  <2>1. u = [m \in AllLoops |-> u[m]]
    BY <1>9
  <2> QED BY <1>7, <1>11, <2>1
<1> QED BY <1>3, <1>12

-----------------------------------------------------------------------------
(* The conjuncts.                                                          *)

\* A registered connection is in its own loop's Poller, and referred to.
LEMMA RegisteredRefd ==
  ASSUME Types, LoopTypes, Phases, Stages, NEW c \in Clients, NEW l \in AllLoops,
         c \in channels_[l]
  PROVE  l = ioLoop[c] /\ c \in Refd
<1>1. Stage(c)
  BY DEF Stages
<1>2. ~Unregistered(c)
  BY Zenon DEF Unregistered
<1>3. Registered(c)
  BY <1>1, <1>2, Zenon DEF Stage, Absent, Accepted, Serving, Closed, Removed
<1>4. l = ioLoop[c]
  BY <1>3, Zenon DEF Registered
<1>5. ASSUME c \notin connections_ PROVE c \in Refd
  <2>1. OneIn(work, c, "connectDestroyed", ioLoop[c])
    BY <1>1, <1>2, <1>5, Zenon DEF Stage, Absent, Accepted, Serving, Closed, Removed
  <2>2. ~NoneIn(work, c)
    BY <2>1, Zenon DEF OneIn, One, NoneIn, None, Moves
  <2> QED BY <2>2, UnreferencedIdle
<1>6. c \in connections_ => c \in Refd
  BY Zenon DEF Refd
<1> QED BY <1>4, <1>5, <1>6

\* A connection to which nothing refers has ended, or has not begun.
LEMMA UnreferencedAbsent ==
  ASSUME Types, LoopTypes, Phases, Stages, NEW c \in Clients, c \notin Refd
  PROVE  Absent(c) /\ ~Open(c)
<1>1. Stage(c) /\ NoneIn(work, c) /\ c \notin connections_
  <2>1. c \notin connections_
    BY Zenon DEF Refd
  <2> QED BY <2>1, UnreferencedIdle, Zenon DEF Stages
<1>2. \A op, l : ~OneIn(work, c, op, l)
  BY <1>1, Zenon DEF OneIn, One, NoneIn, None, Moves
<1>3. Absent(c)
  BY <1>1, <1>2, Zenon DEF Stage, Accepted, Serving, Closed, Removed
<1>4. ~Open(c)
  BY <1>3 DEF Absent, Open
<1> QED BY <1>3, <1>4

\* The stage of a connection that the step does not touch.
LEMMA StageKept ==
  ASSUME numThreads' = numThreads, NEW d, Stage(d),
         state_'[d] = state_[d], ioLoop'[d] = ioLoop[d],
         d \in connections_' <=> d \in connections_,
         \A l \in AllLoops : d \in channels_'[l] <=> d \in channels_[l],
         Keeps(work, work', d)
  PROVE  Stage(d)'
<1>1. AllLoops' = AllLoops
  OBVIOUS
<1>2. Unregistered(d) => Unregistered(d)'
  BY <1>1, Zenon DEF Unregistered
<1>3. Registered(d) => Registered(d)'
  BY <1>1, Zenon DEF Registered
<1>4. Open(d) => Open(d)'
  BY DEF Open
<1>5. /\ NoneIn(work, d) => NoneIn(work, d)'
      /\ \A op, l : OneIn(work, d, op, l) => OneIn(work', d, op, l)
  BY Zenon DEF Keeps
<1>6. Absent(d) => Absent(d)'
  BY <1>2, <1>5, Zenon DEF Absent
<1>7. Accepted(d) => Accepted(d)'
  BY <1>2, <1>5, Zenon DEF Accepted
<1>8. Serving(d) => Serving(d)'
  BY <1>3, <1>4, <1>5, Zenon DEF Serving
<1>9. Closed(d) => Closed(d)'
  BY <1>3, <1>5, Zenon DEF Closed
<1>10. Removed(d) => Removed(d)'
  BY <1>3, <1>5, Zenon DEF Removed
<1> QED BY <1>6, <1>7, <1>8, <1>9, <1>10, Zenon DEF Stage

\* What closes a connection that the step does not touch.
LEMMA ClosingKept ==
  ASSUME numThreads' = numThreads, NEW d, ClosingOf(d), ioLoop'[d] = ioLoop[d],
         state_'[d] = "kDisconnecting" => state_[d] = "kDisconnecting",
         \A l \in AllLoops : HasForce(work'[l], d) <=> HasForce(work[l], d)
  PROVE  ClosingOf(d)'
<1>1. AllLoops' = AllLoops
  OBVIOUS
<1> QED BY <1>1, Zenon DEF ClosingOf

\* Descriptors are kept by what still refers to a connection.
LEMMA DescriptorsKept ==
  ASSUME Descriptors, Refd' \subseteq Refd,
         \A d \in Refd' : fd'[d] = fd[d] /\ (state_'[d] = "none" => state_[d] = "none")
  PROVE  Descriptors'
<1>1. \A d \in Refd' : d \in Refd
  OBVIOUS
<1>2. \A d \in Refd' : state_'[d] # "none"
  BY <1>1, Zenon DEF Descriptors
<1>3. \A c, d \in Refd' : fd'[c] = fd'[d] => c = d
  <2> SUFFICES ASSUME NEW c \in Refd', NEW d \in Refd', fd'[c] = fd'[d] PROVE c = d
    OBVIOUS
  <2>1. fd[c] = fd[d]
    BY Zenon
  <2> QED BY <1>1, <2>1, Zenon DEF Descriptors
<1> QED BY <1>2, <1>3, Zenon DEF Descriptors

\* The backlog, when nobody in it gets a connection.
LEMMA WaitersKept ==
  ASSUME Waiters, backlog' = backlog,
         \A d : state_[d] = "none" => state_'[d] = "none"
  PROVE  Waiters'
BY Zenon DEF Waiters

\* Channels that wait to be handled, when none is added and the connections behind
\* those that are left do not change.
LEMMA ActivesKept ==
  ASSUME numThreads' = numThreads, Actives,
         \A l \in AllLoops : active'[l] \subseteq active[l],
         \A l \in AllLoops : \A d \in Clients :
            d \in active'[l] => Open(d)' /\ ioLoop'[d] = ioLoop[d],
         \A l \in AllLoops : Acceptor \in active'[l] /\ backlog # <<>> => backlog' # <<>>
  PROVE  Actives'
<1>1. AllLoops' = AllLoops
  OBVIOUS
<1>2. \A l \in AllLoops : \A d : d \in active'[l] => d \in active[l]
  OBVIOUS
<1> QED BY <1>1, <1>2, Zenon DEF Actives

\* A step while the server is there.
LEMMA EndingBefore ==
  ASSUME Ending, server \notin {"dtor", "gone"}, UNCHANGED <<numThreads, server, quit_>>
  PROVE  Ending'
BY DEF Ending

\* A step that adds nothing to the server's queue.
LEMMA EndingKept ==
  ASSUME Ending, UNCHANGED <<numThreads, server, quit_>>, Refd' \subseteq Refd,
         phase[0] = "out" => phase'[0] = "out",
         pending[0] = <<>> => pending'[0] = <<>>
  PROVE  Ending'
<1>1. AllLoops' = AllLoops
  OBVIOUS
<1>2. Refd = {} => Refd' = {}
  OBVIOUS
<1> QED BY <1>1, <1>2 DEF Ending

\* A step that changes nothing of the connections.
LEMMA CalmStep ==
  ASSUME ServerInv, UNCHANGED <<numThreads, connections_, state_, ioLoop, fd, channels_, aborted>>,
         work' = work, Refd' \subseteq Refd
  PROVE  aborted' = FALSE /\ Stages' /\ Descriptors' /\ Closing'
<1>1. aborted' = FALSE
  BY DEF ServerInv
<1>2. Stages'
  <2> SUFFICES ASSUME NEW d \in Clients PROVE Stage(d)'
    BY DEF Stages
  <2>1. Stage(d)
    BY DEF ServerInv, Stages
  <2>2. Keeps(work, work', d)
    BY Zenon DEF Keeps
  <2> QED BY <2>1, <2>2, StageKept
<1>3. Descriptors'
  BY DescriptorsKept DEF ServerInv
<1>4. Closing'
  <2> SUFFICES ASSUME NEW d \in Clients PROVE ClosingOf(d)'
    BY DEF Closing
  <2>1. ClosingOf(d)
    BY DEF ServerInv, Closing
  <2> QED BY <2>1, ClosingKept
<1> QED BY <1>1, <1>2, <1>3, <1>4

\* While callbacks are queued the server is there.
LEMMA ServerThere ==
  ASSUME ServerInv, NEW l \in AllLoops, phase[l] \in {"handle", "functors"},
         l = 0 \/ Refd # {}
  PROVE  server \notin {"dtor", "gone"}
<1>1. numThreads = 0 => l = 0
  BY DEF ServerInv, Types
<1>2. server \in {"dtor", "gone"} => phase[0] = "out" /\ (numThreads = 0 \/ Refd = {})
  BY DEF ServerInv, Ending
<1> QED BY <1>1, <1>2

\* An open connection is in the map.
LEMMA OpenServing ==
  ASSUME ServerInv, NEW c \in Clients, Open(c)
  PROVE  Serving(c) /\ c \in connections_ /\ c \in Refd
<1>1. Stage(c)
  BY DEF ServerInv, Stages
<1>2. state_[c] \notin {"none", "kConnecting", "kDisconnected"}
  BY DEF Open
<1>3. Serving(c)
  BY <1>1, <1>2 DEF Stage, Absent, Accepted, Closed, Removed
<1> QED BY <1>3, Zenon DEF Serving, Refd

-----------------------------------------------------------------------------
(* The steps that do not touch a connection.                               *)

\* TcpServer::start().
LEMMA StartInv == ASSUME ServerInv, start PROVE ServerInv'
<1> USE DEF poolVars, serverVars, connVars, queueVars, loopVars, netVars
<1>1. Types'
  BY DEF start, ServerInv, Types
<1>2. LoopTypes' /\ Phases'
  BY DEF start, ServerInv, LoopTypes, Phases
<1>3. work' = work /\ Refd' = Refd
  BY QueuesSame DEF start
<1>4. aborted' = FALSE /\ Stages' /\ Descriptors' /\ Closing'
  BY <1>3, CalmStep DEF start
<1>5. Waiters' /\ Actives'
  BY DEF start, ServerInv, Waiters, Actives, Open
<1>6. Ending'
  BY DEF start, ServerInv, Ending
<1> QED BY <1>1, <1>2, <1>4, <1>5, <1>6, Zenon DEF ServerInv

\* EventLoop::quit() on the server's loop.
LEMMA QuitInv == ASSUME ServerInv, quit PROVE ServerInv'
<1> USE DEF poolVars, serverVars, connVars, queueVars, loopVars, netVars
<1>1. Types'
  BY DEF quit, ServerInv, Types
<1>2. LoopTypes' /\ Phases'
  BY DEF quit, ServerInv, LoopTypes, Phases
<1>3. work' = work /\ Refd' = Refd
  BY QueuesSame DEF quit
<1>4. aborted' = FALSE /\ Stages' /\ Descriptors' /\ Closing'
  BY <1>3, CalmStep DEF quit
<1>5. Waiters' /\ Actives'
  BY DEF quit, ServerInv, Waiters, Actives, Open
<1>6. Ending'
  <2>1. \A l \in AllLoops : l # 0 => quit_'[l] = quit_[l]
    BY DEF quit, ServerInv, LoopTypes, Types
  <2> QED BY <1>3, <2>1 DEF quit, ServerInv, Ending
<1> QED BY <1>1, <1>2, <1>4, <1>5, <1>6, Zenon DEF ServerInv

\* ~TcpServer() begins.
LEMMA DestroyInv == ASSUME ServerInv, destroy PROVE ServerInv'
<1> USE DEF poolVars, serverVars, connVars, queueVars, loopVars, netVars
<1>1. Types'
  BY DEF destroy, ServerInv, Types
<1>2. LoopTypes' /\ Phases'
  BY DEF destroy, ServerInv, LoopTypes, Phases
<1>3. work' = work /\ Refd' = Refd
  BY QueuesSame DEF destroy
<1>4. aborted' = FALSE /\ Stages' /\ Descriptors' /\ Closing'
  BY <1>3, CalmStep DEF destroy
<1>5. Waiters' /\ Actives'
  BY DEF destroy, ServerInv, Waiters, Actives, Open
<1>6. Ending'
  <2>1. pending[0] = <<>> /\ phase[0] = "out" /\ (numThreads = 0 \/ \A c \in Clients : ~Referenced(c))
    BY DEF destroy, Quiet, ServerInv
  <2>2. (\A c \in Clients : ~Referenced(c)) => Refd = {}
    <3>1. \A c \in Clients : Referenced(c) <=> c \in Refd
      BY ReferencedRefd DEF ServerInv
    <3>2. Refd \subseteq Clients
      BY DEF Refd
    <3> QED BY <3>1, <3>2
  <2>3. \A l \in AllLoops : l # 0 => ~quit_[l]
    BY DEF destroy, ServerInv, Ending
  <2>4. UNCHANGED <<numThreads, phase, quit_, pending>> /\ server' = "dtor"
    BY DEF destroy
  <2>5. numThreads = 0 \/ Refd = {}
    BY <2>1, <2>2
  <2> QED BY <1>3, <2>1, <2>3, <2>4, <2>5 DEF Ending
<1> QED BY <1>1, <1>2, <1>4, <1>5, <1>6, Zenon DEF ServerInv

\* ~EventLoopThread() of a thread.
LEMMA StopThreadInv == ASSUME ServerInv, stopThread PROVE ServerInv'
<1> USE DEF poolVars, serverVars, connVars, queueVars, loopVars, netVars
<1>1. Types'
  BY DEF stopThread, ServerInv, Types
<1>2. LoopTypes' /\ Phases'
  BY DEF stopThread, ServerInv, LoopTypes, Phases
<1>3. work' = work /\ Refd' = Refd
  BY QueuesSame DEF stopThread
<1>4. aborted' = FALSE /\ Stages' /\ Descriptors' /\ Closing'
  BY <1>3, CalmStep DEF stopThread
<1>5. Waiters' /\ Actives'
  BY DEF stopThread, ServerInv, Waiters, Actives, Open
<1>6. Ending'
  BY <1>3 DEF stopThread, ServerInv, Ending
<1> QED BY <1>1, <1>2, <1>4, <1>5, <1>6, Zenon DEF ServerInv

\* ~Acceptor() and the end of the server's loop, whose queue is empty.
LEMMA DestroyAcceptorInv == ASSUME ServerInv, destroyAcceptor PROVE ServerInv'
<1> USE DEF poolVars, serverVars, connVars, queueVars, loopVars, netVars
<1>a. /\ server = "dtor" /\ phase[0] = "out" /\ pending[0] = <<>> /\ (numThreads = 0 \/ Refd = {})
  BY DEF destroyAcceptor, ServerInv, Ending
<1>b. pending' = pending
  BY <1>a DEF destroyAcceptor, ServerInv, LoopTypes
<1>1. Types'
  <2>1. \A i \in DOMAIN backlog : backlog[i] \in Clients
    BY DEF ServerInv, Types
  <2>2. refused' \subseteq Clients
    BY <2>1 DEF destroyAcceptor, ServerInv, Types
  <2>3. backlog' \in Seq(Clients) /\ server' = "gone"
    BY DEF destroyAcceptor
  <2> QED BY <2>2, <2>3 DEF destroyAcceptor, ServerInv, Types
<1>2. LoopTypes' /\ Phases'
  BY <1>b DEF destroyAcceptor, ServerInv, LoopTypes, Phases
<1>3. work' = work /\ Refd' = Refd
  BY <1>b, QueuesSame DEF destroyAcceptor
<1>4. aborted' = FALSE /\ Stages' /\ Descriptors' /\ Closing'
  BY <1>3, CalmStep DEF destroyAcceptor
<1>5. Waiters'
  BY DEF destroyAcceptor, Waiters
<1>6. Actives'
  <2>1. active[0] = {}
    BY <1>a DEF ServerInv, Phases
  <2>2. UNCHANGED <<active, state_, ioLoop, numThreads>>
    BY DEF destroyAcceptor
  <2> QED BY <2>1, <2>2 DEF ServerInv, Actives, Open
<1>7. Ending'
  <2>1. UNCHANGED <<numThreads, phase, quit_>> /\ server' = "gone"
    BY DEF destroyAcceptor
  <2> QED BY <1>a, <1>b, <1>3, <2>1 DEF ServerInv, Ending
<1> QED BY <1>1, <1>2, <1>4, <1>5, <1>6, <1>7, Zenon DEF ServerInv

\* A client sends.
LEMMA SendInv == ASSUME ServerInv, NEW c \in Clients, send(c) PROVE ServerInv'
<1> USE DEF poolVars, serverVars, connVars, queueVars, loopVars, netVars
<1>1. Types'
  BY DEF send, ServerInv, Types
<1>2. LoopTypes' /\ Phases'
  BY DEF send, ServerInv, LoopTypes, Phases
<1>3. work' = work /\ Refd' = Refd
  BY QueuesSame DEF send
<1>4. aborted' = FALSE /\ Stages' /\ Descriptors' /\ Closing'
  BY <1>3, CalmStep DEF send
<1>5. Waiters' /\ Actives'
  BY DEF send, ServerInv, Waiters, Actives, Open
<1>6. Ending'
  BY <1>3 DEF send, ServerInv, Ending
<1> QED BY <1>1, <1>2, <1>4, <1>5, <1>6, Zenon DEF ServerInv

\* A client closes.
LEMMA CloseInv == ASSUME ServerInv, NEW c \in Clients, close(c) PROVE ServerInv'
<1> USE DEF poolVars, serverVars, connVars, queueVars, loopVars, netVars
<1>1. Types'
  BY DEF close, ServerInv, Types
<1>2. LoopTypes' /\ Phases'
  BY DEF close, ServerInv, LoopTypes, Phases
<1>3. work' = work /\ Refd' = Refd
  BY QueuesSame DEF close
<1>4. aborted' = FALSE /\ Stages' /\ Descriptors' /\ Closing'
  BY <1>3, CalmStep DEF close
<1>5. Waiters' /\ Actives'
  BY DEF close, ServerInv, Waiters, Actives, Open
<1>6. Ending'
  BY <1>3 DEF close, ServerInv, Ending
<1> QED BY <1>1, <1>2, <1>4, <1>5, <1>6, Zenon DEF ServerInv

\* Poller::poll(): every reported connection is open and in its own loop.
LEMMA PollInv == ASSUME ServerInv, NEW l \in AllLoops, poll(l) PROVE ServerInv'
<1> USE DEF poolVars, serverVars, connVars, queueVars, loopVars, netVars
<1>a. l \in Loops
  BY DEF ServerInv, Types
<1>b. /\ phase[l] = "poll" /\ phase' = [phase EXCEPT ![l] = "handle"]
      /\ UNCHANGED <<limit, numThreads, next_, server, joining, connections_, state_, ioLoop, fd>>
      /\ UNCHANGED <<quit_, pending, batch, ran, channels_, backlog, input, ended, refused, aborted>>
  BY DEF poll
<1>c. PICK chosen : chosen \subseteq Ready(l) /\ active' = [active EXCEPT ![l] = chosen]
  BY DEF poll, kSubset
<1>d. PICK k \in {size[l], 2 * size[l]} : size' = [size EXCEPT ![l] = k]
  <2>1. PICK n : size' = [size EXCEPT ![l] = IF n = @ THEN 2 * @ ELSE @]
    BY Zenon DEF poll, grow
  <2>2. CASE n = size[l]
    BY <2>1, <2>2
  <2>3. CASE n # size[l]
    BY <2>1, <2>3
  <2> QED BY <2>2, <2>3
<1>e. \A c \in chosen : c = Acceptor \/ (c \in channels_[l] /\ Open(c))
  BY <1>c DEF Ready
<1>f. Acceptor \in chosen => l = 0 /\ backlog # <<>>
  <2>1. channels_[l] \subseteq Clients
    BY <1>a DEF ServerInv, LoopTypes
  <2> QED BY <1>c, <2>1, AcceptorAssumption DEF Ready
<1>g. chosen \subseteq Clients \cup {Acceptor}
  BY <1>a, <1>e DEF ServerInv, LoopTypes
<1>1. Types'
  BY <1>b DEF ServerInv, Types
<1>2. LoopTypes'
  <2>1. size' \in [Loops -> Nat \ {0}]
    <3>1. size \in [Loops -> Nat \ {0}] /\ size[l] \in Nat \ {0}
      BY <1>a DEF ServerInv, LoopTypes
    <3>2. k \in Nat \ {0}
      BY <1>d, <3>1
    <3> QED BY <1>a, <1>d, <3>1, <3>2
  <2>2. active' \in [Loops -> SUBSET (Clients \cup {Acceptor})]
    BY <1>a, <1>c, <1>g DEF ServerInv, LoopTypes
  <2>3. phase' \in [Loops -> {"poll", "handle", "functors", "out"}]
    BY <1>a, <1>b DEF ServerInv, LoopTypes
  <2> QED BY <1>b, <2>1, <2>2, <2>3 DEF ServerInv, LoopTypes
<1>3. Phases'
  <2>1. phase'[l] = "handle" /\ \A m \in Loops : m # l => phase'[m] = phase[m] /\ active'[m] = active[m]
    BY <1>a, <1>b, <1>c DEF ServerInv, LoopTypes
  <2> QED BY <1>b, <2>1 DEF ServerInv, Phases
<1>4. work' = work /\ Refd' = Refd
  BY <1>b, QueuesSame
<1>5. aborted' = FALSE /\ Stages' /\ Descriptors' /\ Closing'
  BY <1>b, <1>4, CalmStep
<1>6. Waiters'
  BY <1>b DEF ServerInv, Waiters
<1>7. Actives'
  <2>1. AllLoops' = AllLoops /\ AllLoops \subseteq Loops
    BY <1>b DEF ServerInv, Types
  <2>2. active'[l] = chosen /\ \A m \in AllLoops : m # l => active'[m] = active[m]
    BY <1>a, <1>c, <2>1 DEF ServerInv, LoopTypes
  <2>3. \A c : Open(c)' <=> Open(c)
    BY <1>b DEF Open
  <2>4. \A c \in Clients : c \in chosen => Open(c) /\ ioLoop[c] = l
    <3> SUFFICES ASSUME NEW c \in Clients, c \in chosen PROVE Open(c) /\ ioLoop[c] = l
      OBVIOUS
    <3>1. c \in channels_[l] /\ Open(c)
      BY <1>e, AcceptorAssumption
    <3> QED BY <3>1, RegisteredRefd DEF ServerInv
  <2>5. /\ \A m \in AllLoops : /\ \A c \in Clients : c \in active[m] => Open(c) /\ ioLoop[c] = m
                               /\ Acceptor \in active[m] => m = 0 /\ backlog # <<>>
    BY DEF ServerInv, Actives
  <2>6. ASSUME NEW m \in AllLoops
        PROVE  /\ \A c \in Clients : c \in active'[m] => Open(c) /\ ioLoop[c] = m
               /\ Acceptor \in active'[m] => m = 0 /\ backlog # <<>>
    <3>1. CASE m = l
      BY <3>1, <1>f, <2>2, <2>4
    <3>2. CASE m # l
      BY <3>2, <2>2, <2>5
    <3> QED BY <3>1, <3>2
  <2> QED BY <1>b, <2>1, <2>3, <2>6, Zenon DEF Actives
<1>8. Ending'
  <2>1. phase[0] = "out" => phase'[0] = "out"
    BY <1>b DEF ServerInv, LoopTypes
  <2> QED BY <1>b, <1>4, <2>1, EndingKept DEF ServerInv
<1> QED BY <1>1, <1>2, <1>3, <1>5, <1>6, <1>7, <1>8, Zenon DEF ServerInv

\* loop() returns: a thread's queue is empty then.
LEMMA LeaveInv == ASSUME ServerInv, NEW l \in AllLoops, leave(l) PROVE ServerInv'
<1> USE DEF poolVars, serverVars, connVars, queueVars, loopVars, netVars
<1>a. l \in Loops
  BY DEF ServerInv, Types
<1>b. /\ phase[l] = "poll" /\ quit_[l] /\ phase' = [phase EXCEPT ![l] = "out"]
      /\ pending' = [pending EXCEPT ![l] = IF l = 0 THEN @ ELSE <<>>]
      /\ UNCHANGED <<limit, numThreads, next_, server, joining, connections_, state_, ioLoop, fd>>
      /\ UNCHANGED <<quit_, active, size, batch, ran, channels_, backlog, input, ended, refused, aborted>>
  BY DEF leave
<1>c. l # 0 => pending[l] = <<>>
  <2> SUFFICES ASSUME l # 0 PROVE pending[l] = <<>>
    OBVIOUS
  <2>1. server \in {"dtor", "gone"}
    BY <1>b DEF ServerInv, Ending
  <2>2. Refd = {}
    BY <2>1 DEF ServerInv, Ending, Types
  <2>3. pending[l] \in Seq(Functors) /\ \A i \in 1..Len(pending[l]) : FALSE
    BY <1>a, <2>2, WaitingRefd DEF ServerInv, LoopTypes
  <2> QED BY <2>3
<1>d. pending' = pending
  BY <1>a, <1>b, <1>c DEF ServerInv, LoopTypes
<1>1. Types'
  BY <1>b DEF ServerInv, Types
<1>2. LoopTypes' /\ Phases'
  BY <1>a, <1>b, <1>d DEF ServerInv, LoopTypes, Phases
<1>4. work' = work /\ Refd' = Refd
  BY <1>b, <1>d, QueuesSame
<1>5. aborted' = FALSE /\ Stages' /\ Descriptors' /\ Closing'
  BY <1>b, <1>4, CalmStep
<1>6. Waiters' /\ Actives'
  BY <1>b DEF ServerInv, Waiters, Actives, Open
<1>8. Ending'
  <2>1. phase[0] = "out" => phase'[0] = "out"
    BY <1>b DEF ServerInv, LoopTypes
  <2> QED BY <1>b, <1>d, <1>4, <2>1, EndingKept DEF ServerInv
<1> QED BY <1>1, <1>2, <1>5, <1>6, <1>8, Zenon DEF ServerInv

\* doPendingFunctors(): the swap.
LEMMA SwapInv == ASSUME ServerInv, NEW l \in AllLoops, doPendingFunctors(l) PROVE ServerInv'
<1> USE DEF poolVars, serverVars, connVars, queueVars, loopVars, netVars
<1>a. l \in Loops /\ AllLoops \subseteq Loops
  BY DEF ServerInv, Types
<1>b. /\ phase[l] = "handle" /\ active[l] = {}
      /\ phase' = [phase EXCEPT ![l] = IF pending[l] = <<>> THEN "poll" ELSE "functors"]
      /\ batch' = [batch EXCEPT ![l] = pending[l]] /\ pending' = [pending EXCEPT ![l] = <<>>]
      /\ UNCHANGED <<limit, numThreads, next_, server, joining, connections_, state_, ioLoop, fd>>
      /\ UNCHANGED <<quit_, active, size, ran, channels_, backlog, input, ended, refused, aborted>>
  BY DEF doPendingFunctors
<1>c. batch[l] = <<>> /\ ran[l] = 0 /\ pending[l] \in Seq(Functors)
  <2>1. batch[l] = <<>> /\ ran[l] <= Len(batch[l])
    BY <1>a, <1>b DEF ServerInv, Phases
  <2>2. ran[l] \in Nat /\ pending[l] \in Seq(Functors)
    BY <1>a DEF ServerInv, LoopTypes
  <2>3. Len(<<>>) = 0
    OBVIOUS
  <2> QED BY <2>1, <2>2, <2>3
<1>d. /\ batch'[l] = pending[l] /\ pending'[l] = <<>>
      /\ \A m \in Loops : m # l => batch'[m] = batch[m] /\ pending'[m] = pending[m] /\ phase'[m] = phase[m]
      /\ phase'[l] = IF pending[l] = <<>> THEN "poll" ELSE "functors"
  BY <1>a, <1>b DEF ServerInv, LoopTypes
<1>1. Types'
  BY <1>b DEF ServerInv, Types
<1>2. LoopTypes'
  BY <1>a, <1>b, <1>c DEF ServerInv, LoopTypes
<1>3. Phases'
  <2> SUFFICES ASSUME NEW m \in Loops
               PROVE  /\ ran'[m] <= Len(batch'[m]) /\ (batch'[m] # <<>> <=> phase'[m] = "functors")
                      /\ active'[m] # {} => phase'[m] = "handle"
    BY DEF Phases
  <2>1. CASE m = l
    BY <2>1, <1>b, <1>c, <1>d
  <2>2. CASE m # l
    BY <2>2, <1>b, <1>d DEF ServerInv, Phases
  <2> QED BY <2>1, <2>2
<1>4. work' = work
  <2>1. Left(batch'[l], ran'[l], pending'[l]) = Left(batch[l], ran[l], pending[l])
    <3>1. Left(<<>>, 0, pending[l]) = pending[l] /\ Left(pending[l], 0, <<>>) = pending[l]
      BY <1>c, LeftEnds, Zenon
    <3> QED BY <1>b, <1>c, <1>d, <3>1
  <2>2. \A m \in AllLoops : Left(batch'[m], ran'[m], pending'[m]) = Left(batch[m], ran[m], pending[m])
    BY <1>a, <1>b, <1>d, <2>1
  <2>3. work' = [m \in AllLoops |-> Left(batch'[m], ran'[m], pending'[m])]
    BY <1>b DEF work
  <2> QED BY <2>2, <2>3 DEF work
<1>e. Refd' \subseteq Refd
  <2>1. \A m \in AllLoops : /\ \A i \in 1..Len(pending[m]) : pending[m][i].conn \in Refd
                            /\ \A i \in 1..Len(batch[m]) : batch[m][i].conn \in Refd
    BY WaitingRefd DEF ServerInv
  <2>2. 1..Len(<<>>) = {}
    OBVIOUS
  <2>3. ASSUME NEW m \in AllLoops
        PROVE  /\ \A i \in 1..Len(pending'[m]) : pending'[m][i].conn \in Refd \cup {}
               /\ \A i \in 1..Len(batch'[m]) : batch'[m][i].conn \in Refd \cup {}
    <3>1. CASE m = l
      BY <3>1, <1>d, <2>1, <2>2
    <3>2. CASE m # l
      BY <3>2, <1>a, <1>d, <2>1
    <3> QED BY <3>1, <3>2
  <2>4. connections_' \subseteq Refd \cup {}
    BY <1>b DEF Refd, ServerInv, Types
  <2>5. Refd' \subseteq Refd \cup {}
    BY <1>b, <2>3, <2>4, RefdBound, Zenon
  <2> QED BY <2>5
<1>5. aborted' = FALSE /\ Stages' /\ Descriptors' /\ Closing'
  BY <1>b, <1>4, <1>e, CalmStep
<1>6. Waiters' /\ Actives'
  BY <1>b DEF ServerInv, Waiters, Actives, Open
<1>8. Ending'
  <2>1. (phase[0] = "out" => phase'[0] = "out") /\ (pending[0] = <<>> => pending'[0] = <<>>)
    BY <1>b, <1>d DEF ServerInv, LoopTypes
  <2> QED BY <1>b, <1>e, <2>1, EndingKept DEF ServerInv
<1> QED BY <1>1, <1>2, <1>3, <1>5, <1>6, <1>8, Zenon DEF ServerInv

\* The batch has run and dies.
LEMMA EndBatchInv == ASSUME ServerInv, NEW l \in AllLoops, endBatch(l) PROVE ServerInv'
<1> USE DEF poolVars, serverVars, connVars, queueVars, loopVars, netVars
<1>a. l \in Loops /\ AllLoops \subseteq Loops
  BY DEF ServerInv, Types
<1>b. /\ phase[l] = "functors" /\ ran[l] = Len(batch[l])
      /\ phase' = [phase EXCEPT ![l] = "poll"]
      /\ batch' = [batch EXCEPT ![l] = <<>>] /\ ran' = [ran EXCEPT ![l] = 0]
      /\ UNCHANGED <<limit, numThreads, next_, server, joining, connections_, state_, ioLoop, fd>>
      /\ UNCHANGED <<quit_, active, size, pending, channels_, backlog, input, ended, refused, aborted>>
  BY DEF endBatch
<1>c. batch[l] \in Seq(Functors) /\ pending[l] \in Seq(Functors)
  BY <1>a, <1>b DEF ServerInv, LoopTypes
<1>d. /\ batch'[l] = <<>> /\ ran'[l] = 0 /\ phase'[l] = "poll"
      /\ \A m \in Loops : m # l => batch'[m] = batch[m] /\ ran'[m] = ran[m] /\ phase'[m] = phase[m]
  BY <1>a, <1>b DEF ServerInv, LoopTypes
<1>1. Types'
  BY <1>b DEF ServerInv, Types
<1>2. LoopTypes'
  BY <1>a, <1>b, <1>c DEF ServerInv, LoopTypes
<1>3. Phases'
  <2> SUFFICES ASSUME NEW m \in Loops
               PROVE  /\ ran'[m] <= Len(batch'[m]) /\ (batch'[m] # <<>> <=> phase'[m] = "functors")
                      /\ active'[m] # {} => phase'[m] = "handle"
    BY DEF Phases
  <2>1. CASE m = l
    BY <2>1, <1>b, <1>c, <1>d DEF ServerInv, Phases
  <2>2. CASE m # l
    BY <2>2, <1>b, <1>d DEF ServerInv, Phases
  <2> QED BY <2>1, <2>2
<1>4. work' = work
  <2>1. Left(batch'[l], ran'[l], pending'[l]) = Left(batch[l], ran[l], pending[l])
    <3>1. Left(<<>>, 0, pending[l]) = pending[l] /\ Left(batch[l], Len(batch[l]), pending[l]) = pending[l]
      BY <1>c, LeftEnds, Zenon
    <3> QED BY <1>b, <1>c, <1>d, <3>1
  <2>2. \A m \in AllLoops : Left(batch'[m], ran'[m], pending'[m]) = Left(batch[m], ran[m], pending[m])
    BY <1>a, <1>b, <1>d, <2>1
  <2>3. work' = [m \in AllLoops |-> Left(batch'[m], ran'[m], pending'[m])]
    BY <1>b DEF work
  <2> QED BY <2>2, <2>3 DEF work
<1>e. Refd' \subseteq Refd
  <2>1. \A m \in AllLoops : /\ \A i \in 1..Len(pending[m]) : pending[m][i].conn \in Refd
                            /\ \A i \in 1..Len(batch[m]) : batch[m][i].conn \in Refd
    BY WaitingRefd DEF ServerInv
  <2>2. 1..Len(<<>>) = {}
    OBVIOUS
  <2>3. ASSUME NEW m \in AllLoops
        PROVE  /\ \A i \in 1..Len(pending'[m]) : pending'[m][i].conn \in Refd \cup {}
               /\ \A i \in 1..Len(batch'[m]) : batch'[m][i].conn \in Refd \cup {}
    <3>1. CASE m = l
      BY <3>1, <1>b, <1>d, <2>1, <2>2
    <3>2. CASE m # l
      BY <3>2, <1>a, <1>b, <1>d, <2>1
    <3> QED BY <3>1, <3>2
  <2>4. connections_' \subseteq Refd \cup {}
    BY <1>b DEF Refd, ServerInv, Types
  <2>5. Refd' \subseteq Refd \cup {}
    BY <1>b, <2>3, <2>4, RefdBound, Zenon
  <2> QED BY <2>5
<1>5. aborted' = FALSE /\ Stages' /\ Descriptors' /\ Closing'
  BY <1>b, <1>4, <1>e, CalmStep
<1>6. Waiters' /\ Actives'
  BY <1>b DEF ServerInv, Waiters, Actives, Open
<1>8. Ending'
  <2>1. (phase[0] = "out" => phase'[0] = "out")
    BY <1>b, <1>d DEF ServerInv, LoopTypes
  <2> QED BY <1>b, <1>e, <2>1, EndingKept DEF ServerInv
<1> QED BY <1>1, <1>2, <1>3, <1>5, <1>6, <1>8, Zenon DEF ServerInv

-----------------------------------------------------------------------------
(* The steps of one connection.                                            *)

\* A step that touches only connection c.
LEMMA OneConnection ==
  ASSUME ServerInv, numThreads' = numThreads, NEW c, Stage(c)', ClosingOf(c)',
         \A d \in Clients : d # c =>
           /\ state_'[d] = state_[d] /\ ioLoop'[d] = ioLoop[d]
           /\ d \in connections_' <=> d \in connections_
           /\ \A l \in AllLoops : d \in channels_'[l] <=> d \in channels_[l],
         \A d \in Clients : d # c =>
           /\ Keeps(work, work', d)
           /\ \A l \in AllLoops : HasForce(work'[l], d) <=> HasForce(work[l], d)
  PROVE  Stages' /\ Closing'
<1>1. ASSUME NEW d \in Clients PROVE Stage(d)' /\ ClosingOf(d)'
  <2>1. CASE d = c
    BY <2>1, Zenon
  <2>2. CASE d # c
    <3>1. Stage(d) /\ ClosingOf(d)
      BY DEF ServerInv, Stages, Closing
    <3>2. Stage(d)'
      BY <2>2, <3>1, StageKept
    <3>3. ClosingOf(d)'
      <4>1. state_'[d] = state_[d] /\ ioLoop'[d] = ioLoop[d]
        BY <2>2
      <4>2. \A l \in AllLoops : HasForce(work'[l], d) <=> HasForce(work[l], d)
        BY <2>2
      <4> QED BY <3>1, <4>1, <4>2, ClosingKept, Zenon
    <3> QED BY <3>2, <3>3
  <2> QED BY <2>1, <2>2
<1> QED BY <1>1 DEF Stages, Closing

\* A callback queued for one connection is nothing to the others.
LEMMA PutOthers ==
  ASSUME Types, LoopTypes, Phases, NEW m \in AllLoops, NEW f \in Functors, NEW d, d # f.conn
  PROVE  /\ Keeps(work, Put(work, m, f), d)
         /\ \A l \in AllLoops : HasForce(Put(work, m, f)[l], d) <=> HasForce(work[l], d)
<1>1. work \in [AllLoops -> Seq(Functors)]
  BY WorkType
<1>2. ~Moves(f, d) /\ ~Forces(f, d)
  BY DEF Moves, Forces
<1> QED BY <1>1, <1>2, PutWaits, Zenon

\* Neither is a callback of one connection that runs.
LEMMA RunOthers ==
  ASSUME Types, LoopTypes, Phases, NEW l \in AllLoops, work[l] # <<>>,
         NEW d, d # Head(work[l]).conn
  PROVE  /\ Run(work, l) \in [AllLoops -> Seq(Functors)]
         /\ Keeps(work, Run(work, l), d)
         /\ \A m \in AllLoops : HasForce(Run(work, l)[m], d) <=> HasForce(work[m], d)
<1>1. work \in [AllLoops -> Seq(Functors)]
  BY WorkType
<1>2. ~Moves(Head(work[l]), d) /\ ~Forces(Head(work[l]), d)
  BY DEF Moves, Forces
<1> QED BY <1>1, <1>2, RunWaits, Zenon

\* Nor both.
LEMMA RunPutOthers ==
  ASSUME Types, LoopTypes, Phases, NEW l \in AllLoops, work[l] # <<>>,
         NEW m \in AllLoops, NEW f \in Functors,
         NEW d, d # Head(work[l]).conn, d # f.conn
  PROVE  /\ Keeps(work, Put(Run(work, l), m, f), d)
         /\ \A k \in AllLoops : HasForce(Put(Run(work, l), m, f)[k], d) <=> HasForce(work[k], d)
<1> DEFINE v == Run(work, l)
<1>1. /\ v \in [AllLoops -> Seq(Functors)] /\ Keeps(work, v, d)
      /\ \A k \in AllLoops : HasForce(v[k], d) <=> HasForce(work[k], d)
  BY RunOthers
<1>2. ~Moves(f, d) /\ ~Forces(f, d)
  BY DEF Moves, Forces
<1> HIDE DEF v
<1>3. /\ Keeps(v, Put(v, m, f), d)
      /\ \A k \in AllLoops : HasForce(Put(v, m, f)[k], d) <=> HasForce(v[k], d)
  <2> HIDE DEF Base, AllLoops
  <2>1. Keeps(v, Put(v, m, f), d)
    BY <1>1, <1>2, PutWaits
  <2>2. ASSUME NEW k \in AllLoops PROVE HasForce(Put(v, m, f)[k], d) <=> HasForce(v[k], d)
    BY <1>1, <1>2, PutWaits
  <2> QED BY <2>1, <2>2, Zenon
<1>4. Keeps(work, Put(v, m, f), d)
  BY <1>1, <1>3, KeepsBoth, Zenon
<1>5. \A k \in AllLoops : HasForce(Put(v, m, f)[k], d) <=> HasForce(work[k], d)
  BY <1>1, <1>3, Zenon
<1> QED BY <1>4, <1>5 DEF v

\* Who is referred to when a callback is queued.
LEMMA RefdPut ==
  ASSUME Types, LoopTypes, Phases, UNCHANGED <<numThreads, batch>>, NEW Y,
         connections_' \subseteq connections_ \cup Y,
         NEW m \in AllLoops, NEW f \in Functors, f.conn \in Refd \cup Y,
         pending' = [pending EXCEPT ![m] = Append(@, f)]
  PROVE  Refd' \subseteq Refd \cup Y
<1>1. \A l \in AllLoops : /\ \A i \in 1..Len(pending[l]) : pending[l][i].conn \in Refd
                          /\ \A i \in 1..Len(batch[l]) : batch[l][i].conn \in Refd
                          /\ pending[l] \in Seq(Functors)
  BY WaitingRefd, WorkType
<1>2. pending'[m] = Append(pending[m], f) /\ \A l \in AllLoops : l # m => pending'[l] = pending[l]
  BY WorkType DEF LoopTypes
<1>3. ASSUME NEW i \in 1..Len(pending'[m]) PROVE pending'[m][i].conn \in Refd \cup Y
  <2>1. pending[m] \in Seq(Functors)
    BY <1>1
  <2>2. \/ pending'[m][i] = f
        \/ i \in 1..Len(pending[m]) /\ pending'[m][i] = pending[m][i]
    BY <1>2, <1>3, <2>1
  <2> QED BY <1>1, <2>2
<1>4. \A l \in AllLoops :
           /\ \A i \in 1..Len(pending'[l]) : pending'[l][i].conn \in Refd \cup Y
           /\ \A i \in 1..Len(batch'[l]) : batch'[l][i].conn \in Refd \cup Y
  BY <1>1, <1>2, <1>3
<1>5. connections_ \subseteq Refd
  BY DEF Types, Refd
<1>6. connections_' \subseteq Refd \cup Y
  BY <1>5
<1> QED BY <1>4, <1>6, RefdBound

\* Who is referred to when the queues are left.
LEMMA RefdLeft ==
  ASSUME Types, LoopTypes, Phases, UNCHANGED <<numThreads, batch, pending>>, NEW Y,
         connections_' \subseteq connections_ \cup Y
  PROVE  Refd' \subseteq Refd \cup Y
<1>1. \A l \in AllLoops : /\ \A i \in 1..Len(pending[l]) : pending[l][i].conn \in Refd
                          /\ \A i \in 1..Len(batch[l]) : batch[l][i].conn \in Refd
  BY WaitingRefd
<1>2. connections_ \subseteq Refd
  BY DEF Types, Refd
<1>3. connections_' \subseteq Refd \cup Y
  BY <1>2
<1>4. \A l \in AllLoops :
           /\ \A i \in 1..Len(pending'[l]) : pending'[l][i].conn \in Refd \cup Y
           /\ \A i \in 1..Len(batch'[l]) : batch'[l][i].conn \in Refd \cup Y
  BY <1>1
<1> QED BY <1>3, <1>4, RefdBound

\* A client connects: nothing refers to its last connection.
LEMMA ConnectInv == ASSUME ServerInv, NEW c \in Clients, connect(c) PROVE ServerInv'
<1> USE DEF poolVars, serverVars, connVars, queueVars, loopVars, netVars
<1>a. /\ server = "up" /\ ~Served(c) /\ ~Waiting(c) /\ backlog' = Append(backlog, c)
      /\ state_' = [state_ EXCEPT ![c] = "none"]
      /\ ioLoop' = [ioLoop EXCEPT ![c] = 0] /\ fd' = [fd EXCEPT ![c] = 0]
      /\ input' = input \ {c} /\ ended' = ended \ {c} /\ refused' = refused \ {c}
      /\ UNCHANGED <<limit, numThreads, next_, server, joining, connections_, channels_, aborted>>
      /\ UNCHANGED <<phase, quit_, active, size, pending, batch, ran>>
  BY DEF connect
<1>b. c \notin Refd
  <2>1. state_[c] = "none" \/ ~Referenced(c)
    BY <1>a DEF Served
  <2>2. Referenced(c) <=> c \in Refd
    BY ReferencedRefd DEF ServerInv
  <2>3. c \in Refd => state_[c] # "none"
    BY DEF ServerInv, Descriptors
  <2> QED BY <2>1, <2>2, <2>3, Zenon
<1>c. Absent(c) /\ ~Open(c) /\ NoneIn(work, c) /\ \A l \in AllLoops : ~HasForce(work[l], c)
  BY <1>b, UnreferencedAbsent, UnreferencedIdle DEF ServerInv
<1>d. work' = work /\ Refd' = Refd
  BY <1>a, QueuesSame
<1>e. /\ state_'[c] = "none" /\ ioLoop'[c] = 0
      /\ \A d \in Clients : d # c => state_'[d] = state_[d] /\ ioLoop'[d] = ioLoop[d] /\ fd'[d] = fd[d]
  BY <1>a DEF ServerInv, Types
<1>1. Types'
  <2>1. 0 \in AllLoops /\ 0 \in 0..MaxFds
    BY DEF ServerInv, Types
  <2>2. /\ ioLoop' \in [Clients -> AllLoops] /\ fd' \in [Clients -> 0..MaxFds]
        /\ state_' \in [Clients -> {"none", "kConnecting", "kConnected", "kDisconnecting",
                                    "kDisconnected"}]
    BY <1>a, <2>1 DEF ServerInv, Types
  <2>3. backlog' \in Seq(Clients) /\ input' \subseteq Clients /\ ended' \subseteq Clients
        /\ refused' \subseteq Clients
    BY <1>a DEF ServerInv, Types
  <2> QED BY <1>a, <2>2, <2>3 DEF ServerInv, Types
<1>2. LoopTypes' /\ Phases'
  BY <1>a DEF ServerInv, LoopTypes, Phases
<1>3. aborted' = FALSE
  BY <1>a DEF ServerInv
<1>4. Stages' /\ Closing'
  <2>1. Absent(c)'
    BY <1>a, <1>c, <1>d, <1>e DEF Absent, Unregistered
  <2>2. ClosingOf(c)'
    BY <1>a, <1>c, <1>d, <1>e DEF ClosingOf
  <2>3. Stage(c)'
    BY <2>1, Zenon DEF Stage
  <2>4. \A d : Keeps(work, work', d) /\ \A l \in AllLoops : HasForce(work'[l], d) <=> HasForce(work[l], d)
    BY <1>d, Zenon DEF Keeps
  <2> QED BY <1>a, <1>e, <2>2, <2>3, <2>4, OneConnection
<1>5. Descriptors'
  <2>1. \A d \in Refd' : d # c /\ d \in Clients
    BY <1>b, <1>d DEF Refd
  <2> QED BY <1>d, <1>e, <2>1, DescriptorsKept DEF ServerInv
<1>6. Waiters'
  <2>1. backlog \in Seq(Clients) /\ \A i \in 1..Len(backlog) : backlog[i] # c
    <3>1. backlog \in Seq(Clients)
      BY DEF ServerInv, Types
    <3>2. DOMAIN backlog = 1..Len(backlog)
      BY <3>1
    <3> QED BY <1>a, <3>1, <3>2, Zenon DEF Waiting
  <2>2. \A i \in 1..Len(backlog') : \/ i \in 1..Len(backlog) /\ backlog'[i] = backlog[i] /\ backlog[i] \in Clients
                                    \/ i = Len(backlog) + 1 /\ backlog'[i] = c
    BY <1>a, <2>1
  <2>3. \A i \in 1..Len(backlog') : state_'[backlog'[i]] = "none"
    <3> SUFFICES ASSUME NEW i \in 1..Len(backlog') PROVE state_'[backlog'[i]] = "none"
      OBVIOUS
    <3>1. CASE backlog'[i] = c
      BY <1>e, <3>1
    <3>2. CASE backlog'[i] # c
      <4>1. i \in 1..Len(backlog) /\ backlog'[i] = backlog[i] /\ backlog[i] \in Clients
        BY <2>2, <3>2, Zenon
      <4>2. state_[backlog[i]] = "none"
        BY <4>1, Zenon DEF ServerInv, Waiters
      <4> QED BY <1>e, <3>2, <4>1, <4>2
    <3> QED BY <3>1, <3>2
  <2>4. \A i, j \in 1..Len(backlog') : backlog'[i] = backlog'[j] => i = j
    BY <2>1, <2>2, Zenon DEF ServerInv, Waiters
  <2> QED BY <2>3, <2>4, Zenon DEF Waiters
<1>7. Actives'
  <2>1. \A l \in AllLoops : c \notin active[l]
    BY <1>c DEF ServerInv, Actives
  <2>2. \A d \in Clients : d # c => (Open(d)' <=> Open(d))
    BY <1>e DEF Open
  <2>3. \A l \in AllLoops : \A d \in Clients : d \in active'[l] => Open(d)' /\ ioLoop'[d] = ioLoop[d]
    BY <1>a, <1>e, <2>1, <2>2, Zenon DEF ServerInv, Actives
  <2>4. \A l \in AllLoops : active'[l] \subseteq active[l]
    BY <1>a
  <2>5. backlog' # <<>>
    <3>1. backlog \in Seq(Clients)
      BY DEF ServerInv, Types
    <3> QED BY <1>a, <3>1
  <2>6. Actives
    BY DEF ServerInv
  <2> QED BY <1>a, <2>3, <2>4, <2>5, <2>6, ActivesKept
<1>8. Ending'
  BY <1>a, EndingBefore DEF ServerInv
<1> QED BY <1>1, <1>2, <1>3, <1>4, <1>5, <1>6, <1>7, <1>8, Zenon DEF ServerInv

\* A queued callback keeps the type of the queues.
LEMMA PutType ==
  ASSUME Types, LoopTypes, NEW m \in AllLoops, NEW f \in Functors,
         pending' = [pending EXCEPT ![m] = Append(@, f)]
  PROVE  pending' \in [Loops -> Seq(Functors)]
<1>1. m \in Loops
  BY DEF Types
<1>2. pending \in [Loops -> Seq(Functors)]
  BY DEF LoopTypes
<1>3. Append(pending[m], f) \in Seq(Functors)
  BY <1>1, <1>2
<1> QED BY <1>1, <1>2, <1>3

\* A callback of a connection.
LEMMA FunctorFacts ==
  ASSUME NEW c \in Clients,
         NEW op \in {"connectEstablished", "forceClose", "removeConnection", "connectDestroyed"}
  PROVE  /\ Functor(op, c) \in Functors /\ Functor(op, c).conn = c /\ Functor(op, c).op = op
         /\ Moves(Functor(op, c), c) <=> op # "forceClose"
         /\ Forces(Functor(op, c), c) <=> op = "forceClose"
BY DEF Functor, Functors, Moves, Forces

\* ~TcpServer() destroys a connection, in the server's own loop.
LEMMA DestroyConnectionInv ==
  ASSUME ServerInv, NEW c \in Clients, destroyConnection(c) PROVE ServerInv'
<1> USE DEF poolVars, serverVars, connVars, queueVars, loopVars, netVars
<1>a. /\ server = "dtor" /\ c \in connections_ /\ connections_' = connections_ \ {c}
      /\ UNCHANGED <<limit, numThreads, next_, server, joining, ioLoop, fd, phase, quit_>>
      /\ UNCHANGED <<active, size, batch, ran, backlog, input, ended, refused>>
  BY DEF destroyConnection
<1>b. phase[0] = "out" /\ pending[0] = <<>> /\ numThreads = 0
  <2>1. c \in Refd
    BY <1>a DEF Refd
  <2> QED BY <1>a, <2>1 DEF ServerInv, Ending
<1>c. ioLoop[c] = 0 /\ 0 \in AllLoops /\ AllLoops = {0} /\ 0 \in Loops
  BY <1>b DEF ServerInv, Types
<1>d. connectDestroyed(0, c) /\ pending' = pending
  BY <1>c DEF destroyConnection
<1>e. work[0] = <<>>
  <2>1. batch[0] = <<>> /\ ran[0] <= Len(batch[0]) /\ ran[0] \in Nat
    BY <1>b, <1>c DEF ServerInv, Phases, LoopTypes
  <2>2. Len(<<>>) = 0 /\ <<>> \in Seq(Functors)
    OBVIOUS
  <2>3. ran[0] = 0
    BY <2>1, <2>2
  <2>4. Left(<<>>, 0, <<>>) = <<>>
    BY <2>2, LeftEnds, Zenon
  <2> QED BY <1>b, <1>c, <2>1, <2>3, <2>4 DEF work
<1>f. /\ NoneIn(work, c) /\ ~HasForce(work[0], c) /\ \A op, l : ~OneIn(work, c, op, l)
  <2>1. DOMAIN work = AllLoops /\ 1..Len(<<>>) = {}
    BY DEF work
  <2>2. NoneIn(work, c) /\ ~HasForce(work[0], c)
    BY <1>c, <1>e, <2>1 DEF NoneIn, None, HasForce
  <2> QED BY <2>2, Zenon DEF OneIn, One, NoneIn, None, Moves
<1>g. Serving(c)
  <2>1. Stage(c)
    BY DEF ServerInv, Stages
  <2> QED BY <1>a, <1>f, <2>1, Zenon DEF Stage, Absent, Accepted, Closed, Removed
<1>h. state_[c] = "kConnected"
  <2>1. ClosingOf(c)
    BY DEF ServerInv, Closing
  <2>2. state_[c] # "kDisconnecting"
    BY <1>c, <1>f, <2>1 DEF ClosingOf
  <2> QED BY <1>g, <2>2 DEF Serving, Open
<1>i. /\ state_' = [state_ EXCEPT ![c] = "kDisconnected"]
      /\ channels_' = [channels_ EXCEPT ![0] = @ \ {c}]
      /\ aborted' = FALSE
  <2>1. state_' = [state_ EXCEPT ![c] = "kDisconnected"]
    BY <1>d, <1>h DEF connectDestroyed
  <2>2. state_'[c] = "kDisconnected"
    BY <2>1 DEF ServerInv, Types
  <2>3. c \in channels_[0]
    BY <1>c, <1>g DEF Serving, Registered
  <2> QED BY <1>d, <2>1, <2>2, <2>3 DEF connectDestroyed
<1>j. /\ state_'[c] = "kDisconnected" /\ \A d \in Clients : d # c => state_'[d] = state_[d]
      /\ channels_'[0] = channels_[0] \ {c}
  BY <1>c, <1>i DEF ServerInv, Types, LoopTypes
<1>1. Types'
  BY <1>a, <1>i DEF ServerInv, Types
<1>2. LoopTypes' /\ Phases'
  BY <1>a, <1>c, <1>d, <1>i DEF ServerInv, LoopTypes, Phases
<1>3. work' = work
  BY <1>a, <1>d DEF work, Left
<1>4. Refd' \subseteq Refd
  <2>1. connections_' \subseteq connections_ \cup {}
    BY <1>a
  <2>2. Refd' \subseteq Refd \cup {}
    BY <1>a, <1>d, <2>1, RefdLeft DEF ServerInv
  <2> QED BY <2>2
<1>5. Stages' /\ Closing'
  <2>1. Absent(c)'
    BY <1>a, <1>c, <1>f, <1>j, <1>3 DEF Absent, Unregistered
  <2>2. ClosingOf(c)'
    BY <1>a, <1>c, <1>f, <1>j, <1>3 DEF ClosingOf
  <2>3. Stage(c)'
    BY <2>1, Zenon DEF Stage
  <2>4. \A d : Keeps(work, work', d) /\ \A l \in AllLoops : HasForce(work'[l], d) <=> HasForce(work[l], d)
    BY <1>3, Zenon DEF Keeps
  <2>5. \A d \in Clients : d # c =>
           /\ state_'[d] = state_[d] /\ ioLoop'[d] = ioLoop[d]
           /\ d \in connections_' <=> d \in connections_
           /\ \A l \in AllLoops : d \in channels_'[l] <=> d \in channels_[l]
    BY <1>a, <1>c, <1>j
  <2> QED BY <1>a, <2>2, <2>3, <2>4, <2>5, OneConnection
<1>6. Descriptors'
  <2>1. Refd' \subseteq Clients
    BY DEF Refd
  <2>2. \A d \in Refd' : fd'[d] = fd[d] /\ (state_'[d] = "none" => state_[d] = "none")
    BY <1>a, <1>j, <2>1
  <2> QED BY <1>4, <2>2, DescriptorsKept DEF ServerInv
<1>7. Waiters'
  <2>1. \A i \in 1..Len(backlog) : backlog[i] \in Clients /\ state_[backlog[i]] = "none" 
    BY DEF ServerInv, Types, Waiters
  <2>2. \A i \in 1..Len(backlog) : state_'[backlog[i]] = "none" 
    BY <1>h, <1>j, <2>1
  <2> QED BY <1>a, <2>2, Zenon DEF ServerInv, Waiters
<1>8. Actives'
  <2>1. active[0] = {}
    BY <1>b, <1>c DEF ServerInv, Phases
  <2> QED BY <1>a, <1>b, <2>1 DEF Actives
<1>9. Ending'
  <2>1. UNCHANGED <<numThreads, server, quit_, phase, pending>> /\ Ending
    BY <1>a, <1>d DEF ServerInv
  <2> QED BY <2>1, <1>4, EndingKept
<1> QED BY <1>1, <1>2, <1>i, <1>5, <1>6, <1>7, <1>8, <1>9, Zenon DEF ServerInv

\* The backlog, when the connection of a client that is not in it changes.
LEMMA WaitersOne ==
  ASSUME ServerInv, backlog' = backlog, NEW c, state_[c] # "none",
         \A d \in Clients : d # c => state_'[d] = state_[d]
  PROVE  Waiters'
<1>1. \A i \in 1..Len(backlog) : backlog[i] \in Clients /\ state_[backlog[i]] = "none"
  BY DEF ServerInv, Types, Waiters
<1>2. \A i \in 1..Len(backlog) : state_'[backlog[i]] = "none"
  <2> SUFFICES ASSUME NEW i \in 1..Len(backlog) PROVE state_'[backlog[i]] = "none"
    OBVIOUS
  <2>1. backlog[i] # c
    BY <1>1
  <2> QED BY <1>1, <2>1
<1> QED BY <1>2, Zenon DEF ServerInv, Waiters

\* The callback that asks for the removal, or the destruction, of a closed connection.
CloseOp(l) == IF l = 0 THEN "connectDestroyed" ELSE "removeConnection"

\* handleClose() of an open connection.
LEMMA CloseEffect ==
  ASSUME ServerInv, NEW c \in Clients, Open(c), NEW l \in AllLoops, l = ioLoop[c],
         handleClose(l, c)
  PROVE  /\ state_' = [state_ EXCEPT ![c] = "kDisconnected"] /\ aborted' = FALSE
         /\ connections_' = IF l = 0 THEN connections_ \ {c} ELSE connections_
         /\ pending' = [pending EXCEPT ![0] = Append(@, Functor(CloseOp(l), c))]
<1>1. c \in connections_
  BY OpenServing
<1>2. state_' = [state_ EXCEPT ![c] = "kDisconnected"] /\ removeConnection(l, c)
  BY DEF handleClose
<1>3. CASE l = 0
  BY <1>1, <1>2, <1>3 DEF removeConnection, removeConnectionInLoop, queueInLoop, CloseOp
<1>4. CASE l # 0
  BY <1>1, <1>2, <1>4 DEF removeConnection, queueInLoop, CloseOp, ServerInv
<1> QED BY <1>3, <1>4

\* It is then to be removed or destroyed.
LEMMA CloseStage ==
  ASSUME ServerInv, NEW c \in Clients, Open(c), NEW l \in AllLoops, l = ioLoop[c],
         NEW v \in [AllLoops -> Seq(Functors)], NoneIn(v, c),
         \A m \in AllLoops : HasForce(v[m], c) => HasForce(work[m], c),
         UNCHANGED <<numThreads, ioLoop, channels_>>, state_'[c] = "kDisconnected",
         connections_' = IF l = 0 THEN connections_ \ {c} ELSE connections_,
         work' = Put(v, 0, Functor(CloseOp(l), c))
  PROVE  Stage(c)' /\ ClosingOf(c)'
<1> DEFINE f == Functor(CloseOp(l), c)
<1>1. CloseOp(l) \in {"connectDestroyed", "removeConnection"}
  BY DEF CloseOp
<1>2. f \in Functors /\ Moves(f, c) /\ ~Forces(f, c) /\ f.op = CloseOp(l)
  <2>1. CloseOp(l) \in {"connectEstablished", "forceClose", "removeConnection", "connectDestroyed"}
        /\ CloseOp(l) # "forceClose"
    BY <1>1
  <2> QED BY <2>1, FunctorFacts
<1>3. 0 \in AllLoops
  BY WorkType DEF ServerInv
<1> HIDE DEF f
<1>4. /\ OneIn(work', c, CloseOp(l), 0)
      /\ \A m \in AllLoops : HasForce(work'[m], c) <=> HasForce(v[m], c)
  <2>1. /\ OneIn(Put(v, 0, f), c, f.op, 0)
        /\ \A m \in AllLoops : HasForce(Put(v, 0, f)[m], c)
                               <=> HasForce(v[m], c) \/ (m = 0 /\ Forces(f, c))
    BY <1>2, <1>3, PutWaits, Zenon
  <2>2. work' = Put(v, 0, f)
    BY DEF f
  <2> QED BY <1>2, <2>1, <2>2, Zenon
<1>5. Serving(c)
  BY OpenServing
<1>6. Registered(c)'
  BY <1>5 DEF Serving, Registered
<1>7. Stage(c)'
  <2>1. CASE l = 0
    <3>1. OneIn(work', c, "connectDestroyed", ioLoop'[c])
      BY <1>4, <2>1 DEF CloseOp
    <3>2. c \notin connections_'
      BY <2>1
    <3>3. Removed(c)'
      BY <1>6, <3>1, <3>2 DEF Removed
    <3> QED BY <3>3, Zenon DEF Stage
  <2>2. CASE l # 0
    <3>1. OneIn(work', c, "removeConnection", 0)
      BY <1>4, <2>2 DEF CloseOp
    <3>2. c \in connections_'
      BY <2>2, <1>5 DEF Serving
    <3>3. Closed(c)'
      BY <1>6, <3>1, <3>2 DEF Closed
    <3> QED BY <3>3, Zenon DEF Stage
  <2> QED BY <2>1, <2>2
<1>8. ClosingOf(c)'
  <2>1. \A m \in AllLoops : HasForce(work[m], c) => m = ioLoop[c]
    BY Zenon DEF ServerInv, Closing, ClosingOf
  <2>2. \A m \in AllLoops : HasForce(work'[m], c) => m = ioLoop'[c]
    BY <1>4, <2>1
  <2> QED BY <2>2 DEF ClosingOf
<1> QED BY <1>7, <1>8

\* A forceClose() of c that is queued is no callback of its start or its removal.
LEMMA PutForce ==
  ASSUME NEW w \in [AllLoops -> Seq(Functors)], NEW l \in AllLoops, NEW f \in Functors, NEW c,
         ~Moves(f, c), Forces(f, c)
  PROVE  /\ Keeps(w, Put(w, l, f), c)
         /\ \A m \in AllLoops : HasForce(Put(w, l, f)[m], c) <=> HasForce(w[m], c) \/ m = l
<1>1. Keeps(w, Put(w, l, f), c)
  BY PutWaits, Zenon
<1>2. ASSUME NEW m \in AllLoops
      PROVE  HasForce(Put(w, l, f)[m], c) <=> HasForce(w[m], c) \/ (m = l /\ Forces(f, c))
  <2> HIDE DEF Base, AllLoops
  <2> QED BY PutWaits
<1> QED BY <1>1, <1>2, Zenon

\* The message callback asks for forceClose().
LEMMA ForceCloseAsked ==
  ASSUME ServerInv, NEW c \in Clients, Open(c), NEW l \in AllLoops, l = ioLoop[c], phase[l] = "handle",
         state_' = [state_ EXCEPT ![c] = "kDisconnecting"],
         pending' = [pending EXCEPT ![l] = Append(@, Functor("forceClose", c))],
         UNCHANGED <<limit, numThreads, next_, server, joining, connections_, ioLoop, fd, phase, quit_>>,
         UNCHANGED <<size, batch, ran, channels_, backlog, ended, refused, aborted>>,
         input' \subseteq Clients, active' \in [Loops -> SUBSET (Clients \cup {Acceptor})],
         \A m \in Loops : active'[m] \subseteq active[m]
  PROVE  ServerInv'
<1> DEFINE f == Functor("forceClose", c)
<1>a. Types /\ LoopTypes /\ Phases
  BY DEF ServerInv
<1>b. AllLoops \subseteq Loops /\ 0 \in AllLoops /\ l \in Loops
  BY <1>a, WorkType
<1>c. Serving(c) /\ c \in connections_ /\ c \in Refd /\ state_[c] # "none"
  BY OpenServing DEF Open
<1>1. f \in Functors /\ f.conn = c /\ ~Moves(f, c) /\ Forces(f, c)
  BY FunctorFacts
<1>d. pending' = [pending EXCEPT ![l] = Append(@, f)]
  OBVIOUS
<1> HIDE DEF f
<1>2. work' = Put(work, l, f)
  BY <1>a, <1>1, <1>d, WorkPut
<1>3. /\ state_'[c] = "kDisconnecting" /\ \A d \in Clients : d # c => state_'[d] = state_[d]
      /\ state_' \in [Clients -> {"none", "kConnecting", "kConnected", "kDisconnecting",
                                  "kDisconnected"}]
  BY <1>a DEF Types
<1>4. Types' /\ LoopTypes' /\ Phases'
  <2>1. pending' \in [Loops -> Seq(Functors)]
    BY <1>a, <1>1, <1>d, PutType
  <2>2. Types'
    BY <1>a, <1>3 DEF Types
  <2>3. LoopTypes'
    BY <1>a, <2>1 DEF LoopTypes
  <2>4. Phases'
    BY <1>a DEF Phases
  <2> QED BY <2>2, <2>3, <2>4
<1>5. Refd' \subseteq Refd
  <2>1. connections_' \subseteq connections_ \cup {} /\ f.conn \in Refd \cup {}
    BY <1>c, <1>1
  <2>2. Refd' \subseteq Refd \cup {}
    BY <1>a, <1>1, <1>d, <2>1, RefdPut
  <2> QED BY <2>2
<1>6. /\ Keeps(work, work', c)
      /\ \A m \in AllLoops : HasForce(work'[m], c) <=> HasForce(work[m], c) \/ m = l
  <2>1. work \in [AllLoops -> Seq(Functors)]
    BY <1>a, WorkType
  <2> QED BY <1>1, <1>2, <2>1, PutForce
<1>7. Stage(c)'
  <2>1. NoneIn(work', c)
    BY <1>c, <1>6, Zenon DEF Keeps, Serving
  <2>2. Registered(c)' /\ c \in connections_' /\ Open(c)'
    BY <1>c, <1>3 DEF Registered, Serving, Open
  <2>3. Serving(c)'
    BY <2>1, <2>2, Zenon DEF Serving
  <2> QED BY <2>3, Zenon DEF Stage
<1>8. ClosingOf(c)'
  <2>1. \A m \in AllLoops : HasForce(work[m], c) => m = ioLoop[c]
    BY Zenon DEF ServerInv, Closing, ClosingOf
  <2>2. \A m \in AllLoops : HasForce(work'[m], c) <=> m = ioLoop'[c]
    BY <1>6, <2>1
  <2> QED BY <2>2 DEF ClosingOf
<1>9. \A d \in Clients : d # c =>
        /\ Keeps(work, work', d)
        /\ \A m \in AllLoops : HasForce(work'[m], d) <=> HasForce(work[m], d)
  BY <1>a, <1>1, <1>2, PutOthers
<1>10. Stages' /\ Closing'
  BY <1>3, <1>7, <1>8, <1>9, OneConnection
<1>11. Descriptors'
  <2>1. Refd' \subseteq Clients
    BY DEF Refd
  <2>2. \A d \in Refd' : fd'[d] = fd[d] /\ (state_'[d] = "none" => state_[d] = "none")
    BY <1>3, <2>1
  <2> QED BY <1>5, <2>2, DescriptorsKept DEF ServerInv
<1>12. Waiters'
  BY <1>c, <1>3, WaitersOne
<1>13. Actives'
  <2>1. ASSUME NEW m \in AllLoops, NEW d \in Clients, d \in active'[m]
        PROVE  Open(d)' /\ ioLoop'[d] = ioLoop[d]
    <3>1. d \in active[m]
      BY <1>b, <2>1
    <3>2. Open(d)
      BY <3>1 DEF ServerInv, Actives
    <3> QED BY <1>3, <3>2 DEF Open
  <2>2. \A m \in AllLoops : active'[m] \subseteq active[m]
    BY <1>b
  <2>3. Actives
    BY DEF ServerInv
  <2> QED BY <2>1, <2>2, <2>3, ActivesKept
<1>14. Ending'
  <2>1. server \notin {"dtor", "gone"}
    BY <1>c, ServerThere
  <2> QED BY <2>1, EndingBefore DEF ServerInv
<1>15. aborted' = FALSE
  BY DEF ServerInv
<1> QED BY <1>4, <1>10, <1>11, <1>12, <1>13, <1>14, <1>15, Zenon DEF ServerInv

\* TcpConnection::handleRead(), with a message or at the end of the stream.
LEMMA HandleEventInv ==
  ASSUME ServerInv, NEW l \in AllLoops, NEW c \in Clients, handleEvent(l, c) PROVE ServerInv'
<1> USE DEF poolVars, serverVars, connVars, queueVars, loopVars, netVars
<1>a. /\ phase[l] = "handle" /\ c \in active[l] /\ active' = [active EXCEPT ![l] = @ \ {c}]
      /\ UNCHANGED <<limit, numThreads, next_, server, joining, ioLoop, fd, phase, quit_>>
      /\ UNCHANGED <<size, batch, ran, channels_, backlog, ended, refused>>
  BY DEF handleEvent
<1>b. Open(c) /\ l = ioLoop[c]
  BY <1>a DEF ServerInv, Actives
<1>c. Serving(c) /\ c \in connections_ /\ c \in Refd
  BY <1>b, OpenServing
<1>d. AllLoops \subseteq Loops /\ 0 \in AllLoops /\ l \in Loops
  BY WorkType DEF ServerInv
<1>e. /\ Types /\ LoopTypes /\ Phases
  BY DEF ServerInv
<1>f. state_[c] # "none"
  BY <1>b DEF Open
<1>g. active'[l] = active[l] \ {c} /\ \A m \in Loops : m # l => active'[m] = active[m]
  BY <1>a, <1>d, <1>e DEF LoopTypes
<1>1. Ending'
  <2>1. server \notin {"dtor", "gone"}
    BY <1>a, <1>c, ServerThere
  <2> QED BY <1>a, <2>1, EndingBefore DEF ServerInv
<1>2. input' \subseteq Clients
  BY <1>e DEF handleEvent, Types
<1>3. ASSUME pending' \in [Loops -> Seq(Functors)], connections_' \subseteq connections_,
             state_' \in [Clients -> {"none", "kConnecting", "kConnected", "kDisconnecting",
                                      "kDisconnected"}]
      PROVE  Types' /\ LoopTypes' /\ Phases'
  <2>1. Types'
    BY <1>a, <1>e, <1>2, <1>3 DEF Types
  <2>2. active' \in [Loops -> SUBSET (Clients \cup {Acceptor})]
    BY <1>a, <1>d, <1>e DEF LoopTypes
  <2>3. LoopTypes'
    BY <1>a, <1>e, <1>3, <2>2 DEF LoopTypes
  <2>4. Phases'
    BY <1>a, <1>d, <1>e, <1>g DEF Phases
  <2> QED BY <2>1, <2>3, <2>4
<1>4. ASSUME \A d \in Clients : d # c => state_'[d] = state_[d]
      PROVE  Waiters' /\ Actives'
  <2>1. Waiters'
    BY <1>a, <1>f, <1>4, WaitersOne
  <2>2. ASSUME NEW m \in AllLoops, NEW d \in Clients, d \in active'[m]
        PROVE  Open(d)' /\ ioLoop'[d] = ioLoop[d]
    <3>1. d \in active[m]
      BY <1>d, <1>g, <2>2
    <3>2. Open(d) /\ ioLoop[d] = m
      BY <3>1 DEF ServerInv, Actives
    <3>3. d # c
      BY <1>b, <1>g, <2>2, <3>2
    <3> QED BY <1>a, <1>4, <3>2, <3>3 DEF Open
  <2>3. \A m \in AllLoops : active'[m] \subseteq active[m]
    BY <1>d, <1>g
  <2>4. Actives
    BY DEF ServerInv
  <2>5. Actives'
    BY <1>a, <2>2, <2>3, <2>4, ActivesKept
  <2> QED BY <2>1, <2>5
<1>5. CASE UNCHANGED <<state_, pending, connections_, aborted>>
  <2>1. work' = work /\ Refd' = Refd
    BY <1>a, <1>5, QueuesSame
  <2>2. aborted' = FALSE /\ Stages' /\ Descriptors' /\ Closing'
    BY <1>a, <1>5, <2>1, CalmStep
  <2>3. Types' /\ LoopTypes' /\ Phases'
    BY <1>3, <1>5, <1>e DEF LoopTypes, Types
  <2> QED BY <1>1, <1>4, <1>5, <2>2, <2>3, Zenon DEF ServerInv
<1>6. CASE /\ state_' = [state_ EXCEPT ![c] = "kDisconnecting"]
           /\ pending' = [pending EXCEPT ![l] = Append(@, Functor("forceClose", c))]
           /\ UNCHANGED <<connections_, aborted>>
  <2>1. active' \in [Loops -> SUBSET (Clients \cup {Acceptor})] /\ \A m \in Loops : active'[m] \subseteq active[m]
    BY <1>a, <1>d, <1>e, <1>g DEF LoopTypes
  <2> QED BY <1>6, <1>a, <1>b, <1>2, <2>1, ForceCloseAsked
<1>7. CASE handleClose(l, c)
  <2> DEFINE f == Functor(CloseOp(l), c)
  <2>1. f \in Functors /\ f.conn = c
    BY FunctorFacts DEF CloseOp
  <2>a. /\ state_' = [state_ EXCEPT ![c] = "kDisconnected"] /\ aborted' = FALSE
        /\ connections_' = IF l = 0 THEN connections_ \ {c} ELSE connections_
        /\ pending' = [pending EXCEPT ![0] = Append(@, f)]
    BY <1>7, <1>b, CloseEffect
  <2>b. f = Functor(CloseOp(l), c)
    OBVIOUS
  <2> HIDE DEF f
  <2>2. work' = Put(work, 0, f)
    BY <1>a, <1>d, <1>e, <2>1, <2>a, WorkPut
  <2>3. /\ state_'[c] = "kDisconnected" /\ \A d \in Clients : d # c => state_'[d] = state_[d]
        /\ state_' \in [Clients -> {"none", "kConnecting", "kConnected", "kDisconnecting",
                                    "kDisconnected"}]
    BY <2>a, <1>e DEF Types
  <2>c. connections_' \subseteq connections_ /\ \A d \in Clients : d # c => (d \in connections_' <=> d \in connections_)
    BY <2>a
  <2>4. Types' /\ LoopTypes' /\ Phases'
    <3>1. pending' \in [Loops -> Seq(Functors)]
      BY <1>d, <1>e, <2>1, <2>a, PutType
    <3> QED BY <1>3, <2>c, <2>3, <3>1
  <2>5. Refd' \subseteq Refd
    <3>1. connections_' \subseteq connections_ \cup {} /\ f.conn \in Refd \cup {}
      BY <1>c, <2>1, <2>c
    <3>2. Refd' \subseteq Refd \cup {}
      BY <1>a, <1>d, <1>e, <2>1, <2>a, <3>1, RefdPut
    <3> QED BY <3>2
  <2>7. Stage(c)' /\ ClosingOf(c)'
    <3>1. work \in [AllLoops -> Seq(Functors)] /\ NoneIn(work, c)
      BY <1>c, <1>e, WorkType DEF Serving
    <3> QED BY <1>a, <1>b, <2>a, <2>b, <2>2, <2>3, <3>1, CloseStage
  <2>9. \A d \in Clients : d # c =>
          /\ Keeps(work, work', d)
          /\ \A m \in AllLoops : HasForce(work'[m], d) <=> HasForce(work[m], d)
    BY <1>d, <1>e, <2>1, <2>2, PutOthers
  <2>10. Stages' /\ Closing'
    BY <1>a, <2>c, <2>3, <2>7, <2>9, OneConnection
  <2>11. Descriptors'
    <3>1. Refd' \subseteq Clients
      BY DEF Refd
    <3>2. \A d \in Refd' : fd'[d] = fd[d] /\ (state_'[d] = "none" => state_[d] = "none")
      BY <1>a, <2>3, <3>1
    <3> QED BY <2>5, <3>2, DescriptorsKept DEF ServerInv
  <2> QED BY <1>1, <1>4, <2>3, <2>4, <2>10, <2>11, <2>a, Zenon DEF ServerInv
<1> QED BY <1>5, <1>6, <1>7, Zenon DEF handleEvent, messageReturns, writeWaits, queueInLoop

-----------------------------------------------------------------------------
(* The callbacks of the loops.                                             *)

\* What every callback that runs leaves alone.
RunFrame(l) ==
  /\ phase[l] = "functors" /\ ran[l] < Len(batch[l]) /\ ran' = [ran EXCEPT ![l] = @ + 1]
  /\ UNCHANGED <<limit, numThreads, next_, server, joining, ioLoop, fd, phase, quit_, active>>
  /\ UNCHANGED <<size, batch, backlog, input, ended, refused>>

\* The callback that runs is of a connection that it refers to.
LEMMA RunFacts ==
  ASSUME ServerInv, NEW l \in AllLoops, RunFrame(l), NEW f, f = batch[l][ran[l] + 1]
  PROVE  /\ f \in Functors /\ f.conn \in Clients /\ f.conn \in Refd
         /\ work[l] # <<>> /\ Head(work[l]) = f
         /\ active[l] = {} /\ Ending' /\ state_[f.conn] # "none"
         /\ AllLoops \subseteq Loops /\ 0 \in AllLoops /\ l \in Loops
<1>a. Types /\ LoopTypes /\ Phases
  BY DEF ServerInv
<1>1. AllLoops \subseteq Loops /\ 0 \in AllLoops /\ l \in Loops
  BY <1>a, WorkType
<1>2. batch[l] \in Seq(Functors) /\ pending[l] \in Seq(Functors) /\ ran[l] \in Nat /\ ran[l] < Len(batch[l])
  BY <1>1, <1>a DEF LoopTypes, RunFrame
<1>3. ran[l] + 1 \in 1..Len(batch[l])
  BY <1>2
<1>4. f \in Functors /\ f.conn \in Clients
  <2>1. f \in Functors
    BY <1>2, <1>3
  <2> QED BY <2>1 DEF Functors
<1>5. f.conn \in Refd
  BY <1>a, <1>3, WaitingRefd
<1>6. work[l] # <<>> /\ Head(work[l]) = f
  <2>1. work[l] = Left(batch[l], ran[l], pending[l])
    BY <1>a, WorkType
  <2> DEFINE q == Left(batch[l], ran[l], pending[l])
  <2>2. q # <<>> /\ Head(q) = batch[l][ran[l] + 1]
    BY <1>2, LeftRun, Zenon
  <2> HIDE DEF q
  <2>3. q = work[l]
    BY <2>1 DEF q
  <2> QED BY <2>2, <2>3, Zenon
<1>7. active[l] = {}
  BY <1>1, <1>a DEF Phases, RunFrame
<1>8. Ending'
  <2>1. server \notin {"dtor", "gone"}
    BY <1>5, ServerThere DEF RunFrame
  <2> QED BY <2>1, EndingBefore DEF ServerInv, RunFrame
<1>9. state_[f.conn] # "none"
  BY <1>5, Zenon DEF ServerInv, Descriptors
<1> QED BY <1>1, <1>4, <1>5, <1>6, <1>7, <1>8, <1>9

\* What a callback of c keeps when c is its connection and its loop the only one that
\* may have had events of c.
LEMMA RunKeeps ==
  ASSUME ServerInv, NEW l \in AllLoops, RunFrame(l), NEW f, f = batch[l][ran[l] + 1],
         NEW c, c = f.conn, Open(c)' \/ ioLoop[c] = l \/ ~Open(c),
         pending' \in [Loops -> Seq(Functors)], connections_' \subseteq connections_,
         channels_' \in [Loops -> SUBSET Clients],
         state_' \in [Clients -> {"none", "kConnecting", "kConnected", "kDisconnecting",
                                  "kDisconnected"}],
         \A d \in Clients : d # c => state_'[d] = state_[d],
         state_'[c] # "none", Refd' \subseteq Refd
  PROVE  Types' /\ LoopTypes' /\ Phases' /\ Descriptors' /\ Waiters' /\ Actives' /\ Ending'
<1>a. Types /\ LoopTypes /\ Phases /\ Actives /\ Descriptors
  BY DEF ServerInv
<1>b. /\ c \in Clients /\ active[l] = {} /\ state_[c] # "none" /\ l \in Loops /\ AllLoops \subseteq Loops
      /\ Ending'
  BY RunFacts
<1>1. Types'
  BY <1>a DEF Types, RunFrame
<1>2. LoopTypes' /\ Phases'
  <2>1. ran' \in [Loops -> Nat]
    BY <1>a, <1>b DEF LoopTypes, RunFrame
  <2>2. LoopTypes'
    BY <1>a, <2>1 DEF LoopTypes, RunFrame
  <2>3. \A m \in Loops : ran'[m] <= Len(batch[m])
    <3> SUFFICES ASSUME NEW m \in Loops PROVE ran'[m] <= Len(batch[m])
      OBVIOUS
    <3>1. ran[m] \in Nat /\ Len(batch[m]) \in Nat /\ ran[m] <= Len(batch[m])
      <4>1. ran[m] \in Nat /\ batch[m] \in Seq(Functors)
        BY <1>a DEF LoopTypes
      <4>2. ran[m] <= Len(batch[m])
        BY <1>a DEF Phases
      <4> QED BY <4>1, <4>2
    <3>2. ran \in [Loops -> Nat] /\ ran' = [ran EXCEPT ![l] = @ + 1] /\ ran[l] < Len(batch[l])
      BY <1>a DEF LoopTypes, RunFrame
    <3> QED BY <1>b, <3>1, <3>2
  <2>4. Phases'
    BY <1>a, <2>3 DEF Phases, RunFrame
  <2> QED BY <2>2, <2>4
<1>3. Descriptors'
  <2>1. Refd' \subseteq Clients
    BY DEF Refd
  <2>2. \A d \in Refd' : fd'[d] = fd[d] /\ (state_'[d] = "none" => state_[d] = "none")
    BY <2>1 DEF RunFrame
  <2> QED BY <1>a, <2>2, DescriptorsKept
<1>4. Waiters'
  BY <1>b, WaitersOne DEF RunFrame
<1>5. Actives'
  <2>1. UNCHANGED <<numThreads, active, ioLoop, backlog>>
    BY DEF RunFrame
  <2>2. ASSUME NEW m \in AllLoops, NEW d \in Clients, d \in active'[m] PROVE Open(d)'
    <3>1. Open(d) /\ ioLoop[d] = m /\ m # l
      BY <1>a, <1>b, <2>1, <2>2 DEF Actives
    <3>2. CASE d = c
      BY <3>1, <3>2
    <3>3. CASE d # c
      BY <3>1, <3>3 DEF Open
    <3> QED BY <3>2, <3>3
  <2> QED BY <1>a, <2>1, <2>2, ActivesKept
<1> QED BY <1>b, <1>1, <1>2, <1>3, <1>4, <1>5

\* What waits for the connection of the callback that runs.
LEMMA RunWork ==
  ASSUME ServerInv, NEW l \in AllLoops, RunFrame(l), NEW f, f = batch[l][ran[l] + 1]
  PROVE  /\ Run(work, l) \in [AllLoops -> Seq(Functors)]
         /\ ~Moves(f, f.conn) => Keeps(work, Run(work, l), f.conn)
         /\ Moves(f, f.conn) => ~NoneIn(work, f.conn)
         /\ \A m \in AllLoops : HasForce(work[m], f.conn)
                                <=> HasForce(Run(work, l)[m], f.conn) \/ (m = l /\ Forces(f, f.conn))
<1>1. work \in [AllLoops -> Seq(Functors)]
  BY WorkType DEF ServerInv
<1>2. work[l] # <<>> /\ Head(work[l]) = f
  BY RunFacts
<1> HIDE DEF Base, AllLoops
<1>3. /\ Run(work, l) \in [AllLoops -> Seq(Functors)]
      /\ ~Moves(Head(work[l]), f.conn) => Keeps(work, Run(work, l), f.conn)
      /\ Moves(Head(work[l]), f.conn) => ~NoneIn(work, f.conn)
      /\ \A m \in AllLoops : HasForce(work[m], f.conn)
                <=> HasForce(Run(work, l)[m], f.conn) \/ (m = l /\ Forces(Head(work[l]), f.conn))
  BY <1>1, <1>2, RunWaits
<1> QED BY <1>2, <1>3, Zenon

\* connectEstablished() in the connection's loop: its descriptor is new to the Poller.
LEMMA RunEstablishedInv ==
  ASSUME ServerInv, NEW l \in AllLoops, RunFrame(l), NEW f, f = batch[l][ran[l] + 1],
         f.op = "connectEstablished", connectEstablished(l, f.conn),
         UNCHANGED <<pending, connections_>>
  PROVE  ServerInv'
<1>a. Types /\ LoopTypes /\ Phases /\ Stages
  BY DEF ServerInv
<1> DEFINE c == f.conn
           v == Run(work, l)
<1>b. /\ f \in Functors /\ c \in Clients /\ c \in Refd /\ work[l] # <<>> /\ Head(work[l]) = f
      /\ AllLoops \subseteq Loops /\ l \in Loops
  BY RunFacts
<1>c. Moves(f, c)
  BY DEF Moves
<1>d. /\ ~NoneIn(work, c)
      /\ \A op, m : OneIn(work, c, op, m) => m = l /\ op = f.op /\ NoneIn(v, c)
      /\ \A m \in AllLoops : HasForce(work[m], c) <=> HasForce(v[m], c)
  <2>1. ~Forces(f, c)
    BY DEF Forces
  <2> HIDE DEF Base, AllLoops
  <2>2. v \in [AllLoops -> Seq(Functors)] /\ ~NoneIn(work, c)
    BY <1>c, RunWork
  <2>3. ASSUME NEW op, NEW m, OneIn(work, c, op, m) PROVE m = l /\ op = f.op /\ NoneIn(v, c)
    <3>1. work \in [AllLoops -> Seq(Functors)] /\ Moves(Head(work[l]), c) /\ work[l] # <<>>
      BY <1>a, <1>b, <1>c, WorkType
    <3>2. m = l /\ op = Head(work[l]).op /\ NoneIn(Run(work, l), c)
      BY <2>3, <3>1, RunMoved
    <3> QED BY <1>b, <3>2
  <2>4. ASSUME NEW m \in AllLoops PROVE HasForce(work[m], c) <=> HasForce(v[m], c)
    BY <2>1, RunWork
  <2> HIDE DEF c, v
  <2> QED BY <2>2, <2>3, <2>4, Zenon
<1>e. Accepted(c)
  <2>1. Stage(c)
    BY <1>a, <1>b DEF Stages
  <2> HIDE DEF c, v
  <2>2. ~Absent(c) /\ ~Serving(c)
    BY <1>d, Zenon DEF Absent, Serving
  <2>3. ~Closed(c)
    BY <1>d DEF Closed
  <2>4. ~Removed(c)
    BY <1>d DEF Removed
  <2> QED BY <2>1, <2>2, <2>3, <2>4, Zenon DEF Stage
<1>f. l = ioLoop[c] /\ NoneIn(v, c) /\ state_[c] = "kConnecting" /\ c \in connections_ /\ Unregistered(c)
  BY <1>d, <1>e, Zenon DEF Accepted
<1>g. work' = v
  BY <1>a, WorkRun DEF RunFrame
<1>h. \A d \in Clients : d # c =>
          /\ Keeps(work, work', d)
          /\ \A m \in AllLoops : HasForce(work'[m], d) <=> HasForce(work[m], d)
  BY <1>a, <1>b, <1>g, RunOthers
<1> HIDE DEF c, v
<1>i. /\ state_' = [state_ EXCEPT ![c] = "kConnected"]
      /\ channels_' = [channels_ EXCEPT ![l] = @ \cup {c}]
      /\ aborted' = \E d \in channels_[l] : fd'[d] = fd'[c]
  BY <1>f DEF connectEstablished, enableReading, c
<1>j. aborted' = FALSE
  <2>1. ASSUME NEW d \in channels_[l] PROVE fd'[d] # fd'[c]
    <3>1. d \in Clients
      BY <1>a, <1>b DEF LoopTypes
    <3>2. d \in Refd
      BY <1>a, <2>1, <3>1, RegisteredRefd
    <3>3. d # c
      BY <1>f, <2>1 DEF Unregistered
    <3>4. fd[d] # fd[c]
      BY <1>b, <3>2, <3>3 DEF ServerInv, Descriptors
    <3> QED BY <3>4 DEF RunFrame
  <2> QED BY <1>i, <2>1, Zenon
<1>1. /\ state_'[c] = "kConnected" /\ \A d \in Clients : d # c => state_'[d] = state_[d]
      /\ state_' \in [Clients -> {"none", "kConnecting", "kConnected", "kDisconnecting",
                                  "kDisconnected"}]
  BY <1>a, <1>b, <1>i DEF Types
<1>2. /\ channels_' \in [Loops -> SUBSET Clients]
      /\ channels_'[l] = channels_[l] \cup {c} /\ \A m \in AllLoops : m # l => channels_'[m] = channels_[m]
  BY <1>a, <1>b, <1>i DEF LoopTypes
<1>3. Refd' \subseteq Refd
  <2>1. connections_' \subseteq connections_ \cup {}
    OBVIOUS
  <2>2. Refd' \subseteq Refd \cup {}
    BY <1>a, <2>1, RefdLeft DEF RunFrame
  <2> QED BY <2>2
<1>4. Types' /\ LoopTypes' /\ Phases' /\ Descriptors' /\ Waiters' /\ Actives' /\ Ending'
  <2>1. pending' \in [Loops -> Seq(Functors)] /\ connections_' \subseteq connections_
    BY <1>a DEF LoopTypes
  <2>2. c = f.conn /\ ~Open(c) /\ state_'[c] # "none"
    BY <1>f, <1>1 DEF Open, c
  <2> QED BY <1>1, <1>2, <1>3, <2>1, <2>2, RunKeeps
<1>5. Stage(c)'
  <2>1. Registered(c)'
    BY <1>f, <1>2 DEF Registered, Unregistered, RunFrame
  <2>2. NoneIn(work', c) /\ c \in connections_' /\ Open(c)'
    BY <1>f, <1>g, <1>1 DEF Open
  <2>3. Serving(c)'
    BY <2>1, <2>2, Zenon DEF Serving
  <2> QED BY <2>3, Zenon DEF Stage
<1>6. ClosingOf(c)'
  <2>1. ClosingOf(c)
    BY <1>b DEF ServerInv, Closing
  <2>2. \A m \in AllLoops : HasForce(work'[m], c) <=> HasForce(work[m], c)
    BY <1>d, <1>g, Zenon
  <2>3. numThreads' = numThreads /\ ioLoop'[c] = ioLoop[c] /\ state_'[c] # "kDisconnecting"
    BY <1>1 DEF RunFrame
  <2> QED BY <2>1, <2>2, <2>3, ClosingKept
<1>7. Stages' /\ Closing'
  <2>1. \A d \in Clients : d # c =>
           /\ state_'[d] = state_[d] /\ ioLoop'[d] = ioLoop[d]
           /\ d \in connections_' <=> d \in connections_
           /\ \A m \in AllLoops : d \in channels_'[m] <=> d \in channels_[m]
    BY <1>1, <1>2 DEF RunFrame
  <2>2. numThreads' = numThreads
    BY DEF RunFrame
  <2> QED BY <1>5, <1>6, <1>h, <2>1, <2>2, OneConnection
<1> QED BY <1>j, <1>4, <1>7, Zenon DEF ServerInv

\* removeConnectionInLoop() in the server's loop: the connection is in the map.
LEMMA RunRemoveInv ==
  ASSUME ServerInv, NEW l \in AllLoops, RunFrame(l), NEW f, f = batch[l][ran[l] + 1],
         f.op = "removeConnection", removeConnectionInLoop(f.conn),
         UNCHANGED <<state_, channels_>>
  PROVE  ServerInv'
<1>a. Types /\ LoopTypes /\ Phases /\ Stages
  BY DEF ServerInv
<1> DEFINE c == f.conn
           v == Run(work, l)
           g == Functor("connectDestroyed", c)
           k == ioLoop[c]
<1>b. /\ f \in Functors /\ c \in Clients /\ c \in Refd /\ work[l] # <<>> /\ Head(work[l]) = f
      /\ AllLoops \subseteq Loops /\ l \in Loops
  BY RunFacts
<1>c. Moves(f, c)
  BY DEF Moves
<1>d. /\ ~NoneIn(work, c) /\ v \in [AllLoops -> Seq(Functors)]
      /\ \A op, m : OneIn(work, c, op, m) => m = l /\ op = f.op /\ NoneIn(v, c)
      /\ \A m \in AllLoops : HasForce(work[m], c) <=> HasForce(v[m], c)
  <2>1. ~Forces(f, c)
    BY DEF Forces
  <2> HIDE DEF Base, AllLoops
  <2>2. v \in [AllLoops -> Seq(Functors)] /\ ~NoneIn(work, c)
    BY <1>c, RunWork
  <2>3. ASSUME NEW op, NEW m, OneIn(work, c, op, m) PROVE m = l /\ op = f.op /\ NoneIn(v, c)
    <3>1. work \in [AllLoops -> Seq(Functors)] /\ Moves(Head(work[l]), c) /\ work[l] # <<>>
      BY <1>a, <1>b, <1>c, WorkType
    <3>2. m = l /\ op = Head(work[l]).op /\ NoneIn(Run(work, l), c)
      BY <2>3, <3>1, RunMoved
    <3> QED BY <1>b, <3>2
  <2>4. ASSUME NEW m \in AllLoops PROVE HasForce(work[m], c) <=> HasForce(v[m], c)
    BY <2>1, RunWork
  <2> HIDE DEF c, v
  <2> QED BY <2>2, <2>3, <2>4, Zenon
<1>e. Closed(c)
  <2>1. Stage(c)
    BY <1>a, <1>b DEF Stages
  <2> HIDE DEF c, v
  <2>2. ~Absent(c) /\ ~Serving(c)
    BY <1>d, Zenon DEF Absent, Serving
  <2>3. ~Accepted(c)
    BY <1>d DEF Accepted
  <2>4. ~Removed(c)
    BY <1>d DEF Removed
  <2> QED BY <2>1, <2>2, <2>3, <2>4, Zenon DEF Stage
<1>f. NoneIn(v, c) /\ state_[c] = "kDisconnected" /\ c \in connections_ /\ Registered(c)
  BY <1>d, <1>e, Zenon DEF Closed
<1>g. g \in Functors /\ g.conn = c /\ g.op = "connectDestroyed" /\ Moves(g, c) /\ ~Forces(g, c)
  BY <1>b, FunctorFacts
<1>h. k \in AllLoops
  BY <1>a, <1>b DEF Types
<1>i. /\ aborted' = FALSE /\ connections_' = connections_ \ {c}
      /\ pending' = [pending EXCEPT ![k] = Append(@, g)]
  BY <1>f DEF removeConnectionInLoop, queueInLoop
<1>j. work' = Put(v, k, g)
  BY <1>a, <1>g, <1>h, <1>i, WorkRunPut DEF RunFrame
<1>k. \A d \in Clients : d # c =>
          /\ Keeps(work, work', d)
          /\ \A m \in AllLoops : HasForce(work'[m], d) <=> HasForce(work[m], d)
  BY <1>a, <1>b, <1>g, <1>h, <1>j, RunPutOthers
<1>l. c = f.conn /\ k = ioLoop[c]
  OBVIOUS
<1> HIDE DEF c, v, g, k
<1>3. Refd' \subseteq Refd
  <2>1. connections_' \subseteq connections_ \cup {} /\ g.conn \in Refd \cup {}
    BY <1>b, <1>g, <1>i
  <2>2. Refd' \subseteq Refd \cup {}
    BY <1>a, <1>g, <1>h, <1>i, <2>1, RefdPut DEF RunFrame
  <2> QED BY <2>2
<1>4. Types' /\ LoopTypes' /\ Phases' /\ Descriptors' /\ Waiters' /\ Actives' /\ Ending'
  <2>1. pending' \in [Loops -> Seq(Functors)]
    BY <1>a, <1>g, <1>h, <1>i, PutType
  <2>2. ~Open(c) /\ state_'[c] # "none" /\ connections_' \subseteq connections_
    BY <1>f, <1>i DEF Open
  <2>3. channels_' \in [Loops -> SUBSET Clients] /\ state_' = state_
        /\ state_ \in [Clients -> {"none", "kConnecting", "kConnected", "kDisconnecting",
                                  "kDisconnected"}]
    BY <1>a DEF LoopTypes, Types
  <2> QED BY <1>3, <1>l, <2>1, <2>2, <2>3, RunKeeps
<1>m. /\ OneIn(work', c, "connectDestroyed", k)
      /\ \A m \in AllLoops : HasForce(work'[m], c) <=> HasForce(v[m], c)
  <2> HIDE DEF Base, AllLoops
  <2>1. OneIn(Put(v, k, g), c, g.op, k)
    BY <1>d, <1>f, <1>g, <1>h, PutWaits, SMTT(40)
  <2>2. \A m \in AllLoops : HasForce(Put(v, k, g)[m], c)
                            <=> HasForce(v[m], c) \/ (m = k /\ Forces(g, c))
    <3> SUFFICES ASSUME NEW m \in AllLoops
                 PROVE  HasForce(Put(v, k, g)[m], c) <=> HasForce(v[m], c) \/ (m = k /\ Forces(g, c))
      OBVIOUS
    <3> QED BY <1>d, <1>g, <1>h, PutWaits, SMTT(40)
  <2> QED BY <1>g, <1>j, <2>1, <2>2, Zenon
<1>5. Stage(c)'
  <2>1. Registered(c)' /\ c \notin connections_' /\ state_'[c] = "kDisconnected" /\ k = ioLoop'[c]
    BY <1>f, <1>i, <1>l DEF Registered, RunFrame
  <2>2. Removed(c)'
    BY <1>m, <2>1, Zenon DEF Removed
  <2> QED BY <2>2, Zenon DEF Stage
<1>6. ClosingOf(c)'
  <2>1. ClosingOf(c)
    BY <1>b DEF ServerInv, Closing
  <2>2. \A m \in AllLoops : HasForce(work'[m], c) <=> HasForce(work[m], c)
    BY <1>d, <1>m, Zenon
  <2>3. numThreads' = numThreads /\ ioLoop'[c] = ioLoop[c] /\ state_'[c] # "kDisconnecting"
    BY <1>f DEF RunFrame
  <2> QED BY <2>1, <2>2, <2>3, ClosingKept
<1>7. Stages' /\ Closing'
  <2>1. \A d \in Clients : d # c =>
           /\ state_'[d] = state_[d] /\ ioLoop'[d] = ioLoop[d]
           /\ d \in connections_' <=> d \in connections_
           /\ \A m \in AllLoops : d \in channels_'[m] <=> d \in channels_[m]
    BY <1>i DEF RunFrame
  <2>2. numThreads' = numThreads
    BY DEF RunFrame
  <2> QED BY <1>5, <1>6, <1>k, <2>1, <2>2, OneConnection
<1> QED BY <1>i, <1>4, <1>7, Zenon DEF ServerInv

\* connectDestroyed() in the connection's loop: it is registered there, and ended.
LEMMA RunDestroyedInv ==
  ASSUME ServerInv, NEW l \in AllLoops, RunFrame(l), NEW f, f = batch[l][ran[l] + 1],
         f.op = "connectDestroyed", connectDestroyed(l, f.conn),
         UNCHANGED <<pending, connections_>>
  PROVE  ServerInv'
<1>a. Types /\ LoopTypes /\ Phases /\ Stages
  BY DEF ServerInv
<1> DEFINE c == f.conn
           v == Run(work, l)
<1>b. /\ f \in Functors /\ c \in Clients /\ c \in Refd /\ work[l] # <<>> /\ Head(work[l]) = f
      /\ AllLoops \subseteq Loops /\ l \in Loops
  BY RunFacts
<1>c. Moves(f, c)
  BY DEF Moves
<1>d. /\ ~NoneIn(work, c)
      /\ \A op, m : OneIn(work, c, op, m) => m = l /\ op = f.op /\ NoneIn(v, c)
      /\ \A m \in AllLoops : HasForce(work[m], c) <=> HasForce(v[m], c)
  <2>1. ~Forces(f, c)
    BY DEF Forces
  <2> HIDE DEF Base, AllLoops
  <2>2. ~NoneIn(work, c)
    BY <1>c, RunWork
  <2>3. ASSUME NEW op, NEW m, OneIn(work, c, op, m) PROVE m = l /\ op = f.op /\ NoneIn(v, c)
    <3>1. work \in [AllLoops -> Seq(Functors)] /\ Moves(Head(work[l]), c) /\ work[l] # <<>>
      BY <1>a, <1>b, <1>c, WorkType
    <3>2. m = l /\ op = Head(work[l]).op /\ NoneIn(Run(work, l), c)
      BY <2>3, <3>1, RunMoved
    <3> QED BY <1>b, <3>2
  <2>4. ASSUME NEW m \in AllLoops PROVE HasForce(work[m], c) <=> HasForce(v[m], c)
    BY <2>1, RunWork
  <2> HIDE DEF c, v
  <2> QED BY <2>2, <2>3, <2>4, Zenon
<1>e. Removed(c)
  <2>1. Stage(c)
    BY <1>a, <1>b DEF Stages
  <2> HIDE DEF c, v
  <2>2. ~Absent(c) /\ ~Serving(c)
    BY <1>d, Zenon DEF Absent, Serving
  <2>3. ~Accepted(c)
    BY <1>d DEF Accepted
  <2>4. ~Closed(c)
    BY <1>d DEF Closed
  <2> QED BY <2>1, <2>2, <2>3, <2>4, Zenon DEF Stage
<1>f. l = ioLoop[c] /\ NoneIn(v, c) /\ state_[c] = "kDisconnected" /\ c \notin connections_ /\ Registered(c)
  BY <1>d, <1>e, Zenon DEF Removed
<1>g. work' = v
  BY <1>a, WorkRun DEF RunFrame
<1>h. \A d \in Clients : d # c =>
          /\ Keeps(work, work', d)
          /\ \A m \in AllLoops : HasForce(work'[m], d) <=> HasForce(work[m], d)
  BY <1>a, <1>b, <1>g, RunOthers
<1>n. connectDestroyed(l, c) /\ c = f.conn
  OBVIOUS
<1> HIDE DEF c, v
<1>i. /\ state_' = state_ /\ channels_' = [channels_ EXCEPT ![l] = @ \ {c}] /\ aborted' = FALSE
  <2>1. state_' = state_
    BY <1>a, <1>b, <1>f, <1>n DEF connectDestroyed, Types
  <2>2. c \in channels_[l]
    BY <1>f DEF Registered
  <2> QED BY <1>f, <1>n, <2>1, <2>2 DEF connectDestroyed
<1>2. /\ channels_' \in [Loops -> SUBSET Clients]
      /\ channels_'[l] = channels_[l] \ {c} /\ \A m \in AllLoops : m # l => channels_'[m] = channels_[m]
  BY <1>a, <1>b, <1>i DEF LoopTypes
<1>3. Refd' \subseteq Refd
  <2>1. connections_' \subseteq connections_ \cup {}
    OBVIOUS
  <2>2. Refd' \subseteq Refd \cup {}
    BY <1>a, <2>1, RefdLeft DEF RunFrame
  <2> QED BY <2>2
<1>4. Types' /\ LoopTypes' /\ Phases' /\ Descriptors' /\ Waiters' /\ Actives' /\ Ending'
  <2>1. pending' \in [Loops -> Seq(Functors)] /\ connections_' \subseteq connections_
    BY <1>a DEF LoopTypes
  <2>2. c = f.conn /\ ~Open(c) /\ state_'[c] # "none"
    BY <1>f, <1>i, <1>n DEF Open
  <2>3. state_' \in [Clients -> {"none", "kConnecting", "kConnected", "kDisconnecting",
                                  "kDisconnected"}]
    BY <1>a, <1>i DEF Types
  <2> QED BY <1>i, <1>2, <1>3, <2>1, <2>2, <2>3, RunKeeps, SMTT(40)
<1>5. Stage(c)'
  <2>1. Unregistered(c)'
    BY <1>f, <1>2 DEF Registered, Unregistered, RunFrame
  <2>2. NoneIn(work', c) /\ c \notin connections_' /\ state_'[c] \in {"none", "kDisconnected"}
    BY <1>f, <1>g, <1>i
  <2>3. Absent(c)'
    BY <2>1, <2>2, Zenon DEF Absent
  <2> QED BY <2>3, Zenon DEF Stage
<1>6. ClosingOf(c)'
  <2>1. ClosingOf(c)
    BY <1>b DEF ServerInv, Closing
  <2>2. \A m \in AllLoops : HasForce(work'[m], c) <=> HasForce(work[m], c)
    BY <1>d, <1>g, Zenon
  <2>3. numThreads' = numThreads /\ ioLoop'[c] = ioLoop[c] /\ state_'[c] # "kDisconnecting"
    BY <1>f, <1>i DEF RunFrame
  <2> QED BY <2>1, <2>2, <2>3, ClosingKept
<1>7. Stages' /\ Closing'
  <2>1. \A d \in Clients : d # c =>
           /\ state_'[d] = state_[d] /\ ioLoop'[d] = ioLoop[d]
           /\ d \in connections_' <=> d \in connections_
           /\ \A m \in AllLoops : d \in channels_'[m] <=> d \in channels_[m]
    BY <1>i, <1>2 DEF RunFrame
  <2>2. numThreads' = numThreads
    BY DEF RunFrame
  <2> QED BY <1>5, <1>6, <1>h, <2>1, <2>2, OneConnection
<1> QED BY <1>i, <1>4, <1>7, Zenon DEF ServerInv

\* forceCloseInLoop() closes the connection, or finds it closed.
LEMMA RunForceInv ==
  ASSUME ServerInv, NEW l \in AllLoops, RunFrame(l), NEW f, f = batch[l][ran[l] + 1],
         f.op = "forceClose", forceCloseInLoop(l, f.conn), UNCHANGED channels_
  PROVE  ServerInv'
<1>a. Types /\ LoopTypes /\ Phases /\ Stages
  BY DEF ServerInv
<1> DEFINE c == f.conn
           v == Run(work, l)
<1>b. /\ f \in Functors /\ c \in Clients /\ c \in Refd /\ work[l] # <<>> /\ Head(work[l]) = f
      /\ AllLoops \subseteq Loops /\ l \in Loops /\ 0 \in AllLoops /\ state_[c] # "none"
  BY RunFacts
<1>c. ~Moves(f, c) /\ Forces(f, c)
  BY DEF Moves, Forces
<1>d. /\ Keeps(work, v, c) /\ v \in [AllLoops -> Seq(Functors)]
      /\ \A m \in AllLoops : HasForce(work[m], c) <=> HasForce(v[m], c) \/ m = l
  <2> HIDE DEF Base, AllLoops
  <2>2. v \in [AllLoops -> Seq(Functors)] /\ Keeps(work, v, c)
    BY <1>c, RunWork
  <2>4. ASSUME NEW m \in AllLoops PROVE HasForce(work[m], c) <=> HasForce(v[m], c) \/ m = l
    BY <1>c, RunWork
  <2> HIDE DEF c, v
  <2> QED BY <2>2, <2>4, Zenon
<1>n. forceCloseInLoop(l, c) /\ c = f.conn
  OBVIOUS
<1>o. v = Run(work, l)
  OBVIOUS
<1> HIDE DEF c, v
<1>e. l = ioLoop[c]
  <2>1. HasForce(work[l], c)
    BY <1>d
  <2> QED BY <1>b, <2>1 DEF ServerInv, Closing, ClosingOf
<1>1. CASE ~Open(c)
  <2>1. UNCHANGED <<state_, pending, connections_, aborted>>
    BY <1>1, <1>n DEF forceCloseInLoop
  <2>2. work' = v
    BY <1>a, <1>o, <2>1, WorkRun DEF RunFrame
  <2>3. \A d \in Clients : d # c =>
            /\ Keeps(work, work', d)
            /\ \A m \in AllLoops : HasForce(work'[m], d) <=> HasForce(work[m], d)
    BY <1>a, <1>b, <1>n, <1>o, <2>2, RunOthers
  <2>4. Refd' \subseteq Refd
    <3>1. connections_' \subseteq connections_ \cup {}
      BY <2>1
    <3>2. Refd' \subseteq Refd \cup {}
      BY <1>a, <2>1, <3>1, RefdLeft DEF RunFrame
    <3> QED BY <3>2
  <2>5. Types' /\ LoopTypes' /\ Phases' /\ Descriptors' /\ Waiters' /\ Actives' /\ Ending'
    <3>1. pending' \in [Loops -> Seq(Functors)] /\ connections_' \subseteq connections_
          /\ channels_' \in [Loops -> SUBSET Clients]
      BY <1>a, <2>1 DEF LoopTypes
    <3>2. c = f.conn /\ state_'[c] # "none" /\ \A d \in Clients : d # c => state_'[d] = state_[d]
      BY <1>b, <1>n, <2>1
    <3>3. state_' \in [Clients -> {"none", "kConnecting", "kConnected", "kDisconnecting",
                                    "kDisconnected"}]
      BY <1>a, <2>1 DEF Types
    <3> QED BY <1>1, <2>4, <3>1, <3>2, <3>3, RunKeeps
  <2>6. Stage(c)'
    <3>1. Stage(c) /\ Keeps(work, work', c)
      BY <1>a, <1>b, <1>d, <2>2 DEF Stages
    <3> QED BY <2>1, <3>1, StageKept DEF RunFrame
  <2>7. ClosingOf(c)'
    <3>1. \A m \in AllLoops : HasForce(work[m], c) => m = ioLoop[c]
      BY <1>b, Zenon DEF ServerInv, Closing, ClosingOf
    <3>2. \A m \in AllLoops : HasForce(work'[m], c) => m = ioLoop'[c]
      BY <1>d, <2>2, <3>1 DEF RunFrame
    <3>3. state_'[c] # "kDisconnecting" /\ numThreads' = numThreads
      BY <1>1, <2>1 DEF Open, RunFrame
    <3> QED BY <3>2, <3>3 DEF ClosingOf
  <2>8. Stages' /\ Closing'
    <3>1. \A d \in Clients : d # c =>
             /\ state_'[d] = state_[d] /\ ioLoop'[d] = ioLoop[d]
             /\ d \in connections_' <=> d \in connections_
             /\ \A m \in AllLoops : d \in channels_'[m] <=> d \in channels_[m]
      BY <2>1 DEF RunFrame
    <3>2. numThreads' = numThreads
      BY DEF RunFrame
    <3> QED BY <2>6, <2>7, <2>3, <3>1, <3>2, OneConnection
  <2>9. aborted' = FALSE
    BY <2>1 DEF ServerInv
  <2> QED BY <2>5, <2>8, <2>9, Zenon DEF ServerInv
<1>2. CASE Open(c)
  <2> DEFINE g == Functor(CloseOp(l), c)
  <2>1. g \in Functors /\ g.conn = c
    BY <1>b, FunctorFacts DEF CloseOp
  <2>a. /\ state_' = [state_ EXCEPT ![c] = "kDisconnected"] /\ aborted' = FALSE
        /\ connections_' = IF l = 0 THEN connections_ \ {c} ELSE connections_
        /\ pending' = [pending EXCEPT ![0] = Append(@, g)]
    <3>1. handleClose(l, c)
      BY <1>2, <1>n DEF forceCloseInLoop
    <3> QED BY <1>2, <1>b, <1>e, <3>1, CloseEffect
  <2>b. g = Functor(CloseOp(l), c)
    OBVIOUS
  <2> HIDE DEF g
  <2>2. work' = Put(v, 0, g)
    BY <1>a, <1>b, <1>o, <2>1, <2>a, WorkRunPut DEF RunFrame
  <2>3. /\ state_'[c] = "kDisconnected" /\ \A d \in Clients : d # c => state_'[d] = state_[d]
        /\ state_' \in [Clients -> {"none", "kConnecting", "kConnected", "kDisconnecting",
                                    "kDisconnected"}]
    BY <1>a, <1>b, <2>a DEF Types
  <2>c. connections_' \subseteq connections_ /\ \A d \in Clients : d # c => (d \in connections_' <=> d \in connections_)
    BY <2>a
  <2>4. Refd' \subseteq Refd
    <3>1. connections_' \subseteq connections_ \cup {} /\ g.conn \in Refd \cup {}
      BY <1>b, <2>1, <2>c
    <3>2. Refd' \subseteq Refd \cup {}
      BY <1>a, <1>b, <2>1, <2>a, <3>1, RefdPut DEF RunFrame
    <3> QED BY <3>2
  <2>5. Types' /\ LoopTypes' /\ Phases' /\ Descriptors' /\ Waiters' /\ Actives' /\ Ending'
    <3>1. pending' \in [Loops -> Seq(Functors)]
      BY <1>a, <1>b, <2>1, <2>a, PutType
    <3>2. c = f.conn /\ state_'[c] # "none" /\ channels_' \in [Loops -> SUBSET Clients]
      BY <1>a, <1>n, <2>3 DEF LoopTypes
    <3>3. Open(c)' \/ ioLoop[c] = l \/ ~Open(c)
      BY <1>e
    <3> QED BY <2>3, <2>4, <2>c, <3>1, <3>2, <3>3, RunKeeps
  <2>6. Stage(c)' /\ ClosingOf(c)'
    <3>1. NoneIn(v, c)
      BY <1>2, <1>b, <1>d, OpenServing, Zenon DEF Serving, Keeps
    <3>2. \A m \in AllLoops : HasForce(v[m], c) => HasForce(work[m], c)
      BY <1>d
    <3>3. UNCHANGED <<numThreads, ioLoop, channels_>>
      BY DEF RunFrame
    <3> QED BY <1>2, <1>b, <1>d, <1>e, <2>a, <2>b, <2>2, <2>3, <3>1, <3>2, <3>3, CloseStage
  <2>7. \A d \in Clients : d # c =>
          /\ Keeps(work, work', d)
          /\ \A m \in AllLoops : HasForce(work'[m], d) <=> HasForce(work[m], d)
    BY <1>a, <1>b, <1>n, <1>o, <2>1, <2>2, RunPutOthers
  <2>8. Stages' /\ Closing'
    <3>1. \A d \in Clients : d # c =>
             /\ state_'[d] = state_[d] /\ ioLoop'[d] = ioLoop[d]
             /\ d \in connections_' <=> d \in connections_
             /\ \A m \in AllLoops : d \in channels_'[m] <=> d \in channels_[m]
      BY <2>3, <2>c DEF RunFrame
    <3>2. numThreads' = numThreads
      BY DEF RunFrame
    <3> QED BY <2>6, <2>7, <3>1, <3>2, OneConnection
  <2> QED BY <2>a, <2>5, <2>8, Zenon DEF ServerInv
<1> QED BY <1>1, <1>2

\* A callback of loop l runs.
LEMMA RunFunctorInv == ASSUME ServerInv, NEW l \in AllLoops, runFunctor(l) PROVE ServerInv'
<1> DEFINE f == batch[l][ran[l] + 1]
<1>1. RunFrame(l)
  BY DEF runFunctor, RunFrame, poolVars, netVars
<1>2. \/ /\ f.op = "connectEstablished" /\ connectEstablished(l, f.conn)
         /\ UNCHANGED <<pending, connections_>>
      \/ /\ f.op = "forceClose" /\ forceCloseInLoop(l, f.conn) /\ UNCHANGED channels_
      \/ /\ f.op = "removeConnection" /\ removeConnectionInLoop(f.conn)
         /\ UNCHANGED <<state_, channels_>>
      \/ /\ f.op = "connectDestroyed" /\ connectDestroyed(l, f.conn)
         /\ UNCHANGED <<pending, connections_>>
  BY Zenon DEF runFunctor
<1>3. CASE /\ f.op = "connectEstablished" /\ connectEstablished(l, f.conn)
           /\ UNCHANGED <<pending, connections_>>
  BY <1>1, <1>3, RunEstablishedInv
<1>4. CASE f.op = "forceClose" /\ forceCloseInLoop(l, f.conn) /\ UNCHANGED channels_
  BY <1>1, <1>4, RunForceInv
<1>5. CASE /\ f.op = "removeConnection" /\ removeConnectionInLoop(f.conn)
           /\ UNCHANGED <<state_, channels_>>
  BY <1>1, <1>5, RunRemoveInv
<1>6. CASE /\ f.op = "connectDestroyed" /\ connectDestroyed(l, f.conn)
           /\ UNCHANGED <<pending, connections_>>
  BY <1>1, <1>6, RunDestroyedInv
<1> QED BY <1>2, <1>3, <1>4, <1>5, <1>6, Zenon

-----------------------------------------------------------------------------
(* Acceptor::handleRead().                                                 *)

\* A set of numbers that is not empty has a least element.
LEMMA LeastNat ==
  ASSUME NEW T, T \subseteq Nat, T # {}
  PROVE  \E x \in T : \A y \in T : x <= y
<1> DEFINE R == {ss \in Nat \X Nat : ss[1] < ss[2]}
<1>1. OpToRel(<, Nat) = R
  BY DEF OpToRel
<1>2. IsWellFoundedOn(R, Nat)
  BY <1>1, NatLessThanWellFounded
<1>3. PICK x \in T : \A y \in T : ~(<<y, x>> \in R)
  <2> HIDE DEF R
  <2> QED BY <1>2, WFMin
<1>4. ASSUME NEW y \in T PROVE x <= y
  <2>1. x \in Nat /\ y \in Nat
    OBVIOUS
  <2>2. y < x => <<y, x>> \in R
    BY <2>1
  <2>3. ~(y < x)
    <3> HIDE DEF R
    <3> QED BY <1>3, <2>2
  <2> QED BY <2>1, <2>3
<1> QED BY <1>4

\* The descriptor of a new connection is one that nothing uses.
LEMMA LeastFree ==
  ASSUME Types, LoopTypes, Phases, FreeFds # {}, NEW f, f = Min(FreeFds)
  PROVE  f \in 1..MaxFds /\ \A d \in Refd : fd[d] # f
<1>1. FreeFds \subseteq 1..limit /\ 1..limit \subseteq Nat /\ limit \in 1..MaxFds
  BY DEF FreeFds, Types
<1>2. \E x \in FreeFds : \A y \in FreeFds : x <= y
  BY <1>1, LeastNat
<1>3. f \in FreeFds
  BY <1>2, Zenon DEF Min
<1>4. f \in 1..MaxFds
  BY <1>1, <1>3
<1>5. ASSUME NEW d \in Refd PROVE fd[d] # f
  <2>1. d \in Clients /\ Referenced(d)
    <3>1. d \in Clients
      BY DEF Refd
    <3> QED BY <3>1, ReferencedRefd
  <2> QED BY <1>3, <2>1 DEF FreeFds
<1> QED BY <1>4, <1>5

\* getNextLoop() is a loop of the pool, or the server's own if the pool has none.
LEMMA NextLoop ==
  ASSUME Types
  PROVE  /\ getNextLoop[1] \in AllLoops /\ (getNextLoop[1] = 0 <=> numThreads = 0)
         /\ getNextLoop[2] \in 0..MaxThreads /\ (getNextLoop[2] < numThreads \/ getNextLoop[2] = 0)
<1>1. \A n \in Nat \ {0} : \A x \in Nat : x % n \in 0..(n - 1)
  OBVIOUS
<1>2. /\ numThreads \in 0..MaxThreads /\ next_ \in 0..MaxThreads
      /\ next_ < numThreads \/ next_ = 0
  BY DEF Types
<1>3. CASE numThreads = 0
  BY <1>2, <1>3 DEF getNextLoop
<1>4. CASE numThreads # 0
  <2> DEFINE x == (next_ + 1) % numThreads
  <2>1. numThreads \in Nat \ {0} /\ next_ + 1 \in Nat
    BY <1>2, <1>4
  <2>2. x \in 0..(numThreads - 1)
    BY <1>1, <2>1
  <2>3. getNextLoop[1] = next_ + 1 /\ getNextLoop[2] = x
    BY <1>4 DEF getNextLoop
  <2> HIDE DEF x
  <2> QED BY <1>2, <1>4, <2>1, <2>2, <2>3
<1> QED BY <1>3, <1>4

\* The first of the backlog is taken.
LEMMA TakeFirst ==
  ASSUME ServerInv, backlog # <<>>, backlog' = Tail(backlog), NEW c, c = Head(backlog),
         \A d \in Clients : d # c => state_'[d] = state_[d]
  PROVE  Waiters' /\ c \in Clients /\ state_[c] = "none" /\ backlog' \in Seq(Clients)
<1>1. /\ backlog \in Seq(Clients)
      /\ \A i \in 1..Len(backlog) : state_[backlog[i]] = "none"
      /\ \A i, j \in 1..Len(backlog) : backlog[i] = backlog[j] => i = j
  BY DEF ServerInv, Types, Waiters
<1>2. /\ backlog' \in Seq(Clients) /\ Len(backlog') = Len(backlog) - 1 /\ Len(backlog) \in Nat
      /\ Len(backlog) >= 1 /\ \A i \in 1..Len(backlog') : backlog'[i] = backlog[i + 1]
      /\ c = backlog[1] /\ c \in Clients
  BY <1>1
<1>3. \A i \in 1..Len(backlog') : i + 1 \in 1..Len(backlog) /\ i + 1 # 1 /\ i \in Nat
  BY <1>2
<1>4. 1 \in 1..Len(backlog)
  BY <1>2
<1>5. \A i \in 1..Len(backlog') : state_'[backlog'[i]] = "none"
  <2> SUFFICES ASSUME NEW i \in 1..Len(backlog') PROVE state_'[backlog'[i]] = "none"
    OBVIOUS
  <2>1. backlog'[i] = backlog[i + 1] /\ backlog'[i] \in Clients
    BY <1>2
  <2>2. backlog[i + 1] # c
    BY <1>1, <1>2, <1>3, <1>4, Zenon
  <2>3. state_[backlog[i + 1]] = "none"
    BY <1>1, <1>3, Zenon
  <2> QED BY <2>1, <2>2, <2>3
<1>6. \A i, j \in 1..Len(backlog') : backlog'[i] = backlog'[j] => i = j
  <2> SUFFICES ASSUME NEW i \in 1..Len(backlog'), NEW j \in 1..Len(backlog'), backlog'[i] = backlog'[j]
               PROVE  i = j
    OBVIOUS
  <2>1. backlog[i + 1] = backlog[j + 1]
    BY <1>2
  <2>2. i + 1 = j + 1
    BY <1>1, <1>3, <2>1, Zenon
  <2> QED BY <1>3, <2>2
<1>7. Waiters'
  BY <1>5, <1>6, Zenon DEF Waiters
<1>8. state_[c] = "none"
  BY <1>1, <1>2, <1>4, Zenon
<1> QED BY <1>2, <1>7, <1>8

\* Acceptor::handleRead(), whatever becomes of the client.
LEMMA HandleReadInv == ASSUME ServerInv, handleRead PROVE ServerInv'
<1>a. Types /\ LoopTypes /\ Phases /\ Stages /\ Actives /\ Descriptors
  BY DEF ServerInv
<1>b. /\ phase[0] = "handle" /\ Acceptor \in active[0]
      /\ active' = [active EXCEPT ![0] = @ \ {Acceptor}]
      /\ UNCHANGED <<limit, numThreads, server, joining, phase, quit_, size, batch, ran, input, ended>>
  BY DEF handleRead
<1>c. 0 \in AllLoops /\ AllLoops \subseteq Loops /\ 0 \in Loops /\ work \in [AllLoops -> Seq(Functors)]
  BY <1>a, WorkType
<1>d. backlog # <<>>
  BY <1>a, <1>b, <1>c DEF Actives
<1>e. active'[0] = active[0] \ {Acceptor} /\ \A m \in Loops : m # 0 => active'[m] = active[m]
  BY <1>a, <1>b, <1>c DEF LoopTypes
<1>f. Ending'
  <2>1. server \notin {"dtor", "gone"}
    BY <1>b, <1>c, ServerThere
  <2> QED BY <1>b, <2>1, EndingBefore DEF ServerInv
<1>g. active' \in [Loops -> SUBSET (Clients \cup {Acceptor})]
  BY <1>a, <1>b, <1>c DEF LoopTypes
<1>h. PICK c : c = Head(backlog)
  OBVIOUS
<1>i. c \in Clients /\ state_[c] = "none" /\ Tail(backlog) \in Seq(Clients)
  <2>1. backlog \in Seq(Clients)
    BY <1>a DEF Types
  <2>2. 1 \in 1..Len(backlog) /\ c = backlog[1] /\ c \in Clients /\ Tail(backlog) \in Seq(Clients)
    BY <1>d, <1>h, <2>1
  <2>3. state_[c] = "none"
    BY <2>2, Zenon DEF ServerInv, Waiters
  <2> QED BY <2>2, <2>3
<1>j. c \notin Refd
  BY <1>a, <1>i, Zenon DEF Descriptors
<1>k. Absent(c) /\ ~Open(c) /\ NoneIn(work, c) /\ \A l \in AllLoops : ~HasForce(work[l], c)
  BY <1>a, <1>i, <1>j, UnreferencedAbsent, UnreferencedIdle
<1>l. /\ \A m \in AllLoops : c \notin active'[m] /\ active'[m] \subseteq active[m] /\ Acceptor \notin active'[m]
  <2>1. \A m \in AllLoops : active'[m] \subseteq active[m]
    BY <1>c, <1>e
  <2>2. \A m \in AllLoops : c \notin active[m]
    BY <1>a, <1>i, <1>k DEF Actives
  <2>3. \A m \in AllLoops : m # 0 => Acceptor \notin active[m]
    BY <1>a DEF Actives
  <2> QED BY <1>e, <2>1, <2>2, <2>3
<1>m. ASSUME \A d \in Clients : d # c => state_'[d] = state_[d] /\ ioLoop'[d] = ioLoop[d]
      PROVE  Actives'
  <2>1. ASSUME NEW m \in AllLoops, NEW d \in Clients, d \in active'[m]
        PROVE  Open(d)' /\ ioLoop'[d] = ioLoop[d]
    <3>1. d # c /\ d \in active[m]
      BY <1>l, <2>1
    <3>2. Open(d)
      BY <1>a, <3>1 DEF Actives
    <3> QED BY <1>m, <3>1, <3>2 DEF Open
  <2>2. numThreads' = numThreads
    BY <1>b
  <2> QED BY <1>a, <1>l, <2>1, <2>2, ActivesKept
<1>n. ASSUME pending' \in [Loops -> Seq(Functors)], channels_' \in [Loops -> SUBSET Clients]
      PROVE  LoopTypes' /\ Phases'
  <2>1. LoopTypes'
    BY <1>a, <1>b, <1>g, <1>n DEF LoopTypes
  <2>2. Phases'
    BY <1>a, <1>b, <1>e DEF Phases
  <2> QED BY <2>1, <2>2
<1>1. CASE /\ backlog' = Tail(backlog) /\ refused' = refused \cup {c}
           /\ UNCHANGED <<next_, connections_, state_, ioLoop, fd, pending, channels_, aborted>>
  <2>1. work' = work /\ Refd' = Refd
    BY <1>1, <1>b, QueuesSame
  <2>2. aborted' = FALSE /\ Stages' /\ Descriptors' /\ Closing'
    BY <1>1, <1>b, <2>1, CalmStep
  <2>3. Waiters'
    BY <1>1, <1>d, <1>h, TakeFirst
  <2>4. Types'
    BY <1>1, <1>a, <1>b, <1>i DEF Types
  <2>5. LoopTypes' /\ Phases'
    BY <1>1, <1>a, <1>n DEF LoopTypes
  <2>6. Actives'
    BY <1>1, <1>m
  <2> QED BY <1>f, <2>2, <2>3, <2>4, <2>5, <2>6, Zenon DEF ServerInv
<1>2. CASE /\ FreeFds # {} /\ newConnection(c, Min(FreeFds))
           /\ backlog' = Tail(backlog) /\ refused' = refused
  <2>a. PICK f : f = Min(FreeFds)
    OBVIOUS
  <2>b. PICK l : l = getNextLoop[1]
    OBVIOUS
  <2>c. f \in 1..MaxFds /\ \A d \in Refd : fd[d] # f
    BY <1>2, <1>a, <2>a, LeastFree
  <2>d. /\ l \in AllLoops /\ (l = 0 <=> numThreads = 0)
        /\ next_' \in 0..MaxThreads /\ (next_' < numThreads \/ next_' = 0)
    <3>1. next_' = getNextLoop[2]
      BY <1>2 DEF newConnection
    <3> QED BY <1>a, <2>b, <3>1, NextLoop
  <2>e. /\ connections_' = connections_ \cup {c} /\ ioLoop' = [ioLoop EXCEPT ![c] = l]
        /\ fd' = [fd EXCEPT ![c] = f]
        /\ IF l = 0
           THEN state_' = [state_ EXCEPT ![c] = "kConnected"] /\ enableReading(l, c) /\ UNCHANGED pending
           ELSE /\ state_' = [state_ EXCEPT ![c] = "kConnecting"]
                /\ queueInLoop(l, "connectEstablished", c) /\ UNCHANGED <<channels_, aborted>>
    BY <1>2, <2>a, <2>b DEF newConnection
  <2>1. /\ state_'[c] = IF l = 0 THEN "kConnected" ELSE "kConnecting"
        /\ ioLoop'[c] = l /\ fd'[c] = f
        /\ \A d \in Clients : d # c => state_'[d] = state_[d] /\ ioLoop'[d] = ioLoop[d] /\ fd'[d] = fd[d]
        /\ state_' \in [Clients -> {"none", "kConnecting", "kConnected", "kDisconnecting",
                                    "kDisconnected"}]
    BY <1>a, <1>i, <2>e DEF Types
  <2>2. Types'
    <3>1. fd' \in [Clients -> 0..MaxFds] /\ ioLoop' \in [Clients -> AllLoops]
      BY <1>a, <1>i, <2>c, <2>d, <2>e DEF Types
    <3>2. connections_' \subseteq Clients /\ backlog' \in Seq(Clients) /\ refused' \subseteq Clients
      BY <1>2, <1>a, <1>i, <2>e DEF Types
    <3> QED BY <1>a, <1>b, <2>1, <2>d, <3>1, <3>2 DEF Types
  <2>3. Waiters'
    BY <1>2, <1>d, <1>h, <2>1, TakeFirst
  <2>4. Actives'
    BY <1>m, <2>1
  <2>5. ASSUME Refd' \subseteq Refd \cup {c} PROVE Descriptors'
    <3>1. ASSUME NEW d \in Refd' PROVE d \in Clients /\ (d # c => d \in Refd)
      <4>1. d \in Clients
        BY <3>1 DEF Refd
      <4> QED BY <2>5, <4>1
    <3>2. \A d \in Refd' : state_'[d] # "none"
      BY <1>a, <2>1, <3>1 DEF Descriptors
    <3>3. ASSUME NEW d \in Refd', NEW e \in Refd', fd'[d] = fd'[e] PROVE d = e
      <4>1. CASE d = c /\ e # c
        BY <2>1, <2>c, <3>1, <3>3, <4>1
      <4>2. CASE d # c /\ e = c
        BY <2>1, <2>c, <3>1, <3>3, <4>2
      <4>3. CASE d # c /\ e # c
        <5>1. fd[d] = fd[e] /\ d \in Refd /\ e \in Refd
          BY <2>1, <3>1, <3>3, <4>3
        <5> QED BY <1>a, <5>1 DEF Descriptors
      <4> QED BY <4>1, <4>2, <4>3
    <3> QED BY <3>2, <3>3, Zenon DEF Descriptors
  <2>6. CASE l = 0
    <3>1. /\ channels_' = [channels_ EXCEPT ![0] = @ \cup {c}] /\ pending' = pending
          /\ aborted' = \E d \in channels_[0] : fd'[d] = fd'[c]
      BY <2>e, <2>6 DEF enableReading
    <3>2. aborted' = FALSE
      <4>1. ASSUME NEW d \in channels_[0] PROVE fd'[d] # fd'[c]
        <5>1. d \in Clients
          BY <1>a, <1>c DEF LoopTypes
        <5>2. d \in Refd
          BY <1>a, <1>c, <4>1, <5>1, RegisteredRefd
        <5> QED BY <1>j, <2>1, <2>c, <5>1, <5>2
      <4> QED BY <3>1, <4>1, Zenon
    <3>3. /\ channels_' \in [Loops -> SUBSET Clients]
          /\ channels_'[0] = channels_[0] \cup {c} /\ \A m \in AllLoops : m # 0 => channels_'[m] = channels_[m]
      BY <1>a, <1>c, <1>i, <3>1 DEF LoopTypes
    <3>4. LoopTypes' /\ Phases'
      BY <1>a, <1>n, <3>1, <3>3 DEF LoopTypes
    <3>5. work' = work
      BY <1>b, <3>1 DEF work, Left
    <3>6. Refd' \subseteq Refd \cup {c}
      BY <1>a, <1>b, <2>e, <3>1, RefdLeft
    <3>7. Stage(c)'
      <4>1. Registered(c)'
        BY <1>b, <1>k, <2>1, <2>6, <3>3 DEF Registered, Absent, Unregistered
      <4>2. NoneIn(work', c) /\ c \in connections_' /\ Open(c)'
        BY <1>k, <2>1, <2>6, <2>e, <3>5 DEF Open
      <4>3. Serving(c)'
        BY <4>1, <4>2, Zenon DEF Serving
      <4> QED BY <4>3, Zenon DEF Stage
    <3>8. ClosingOf(c)'
      BY <1>b, <1>k, <2>1, <2>6, <3>5 DEF ClosingOf
    <3>9. \A d : Keeps(work, work', d) /\ \A m \in AllLoops : HasForce(work'[m], d) <=> HasForce(work[m], d)
      BY <3>5, Zenon DEF Keeps
    <3>10. Stages' /\ Closing'
      <4>1. \A d \in Clients : d # c =>
             /\ state_'[d] = state_[d] /\ ioLoop'[d] = ioLoop[d]
             /\ d \in connections_' <=> d \in connections_
             /\ \A m \in AllLoops : d \in channels_'[m] <=> d \in channels_[m]
        BY <2>1, <2>e, <3>3
      <4>2. numThreads' = numThreads
        BY <1>b
      <4> QED BY <3>7, <3>8, <3>9, <4>1, <4>2, OneConnection
    <3> QED BY <1>f, <2>2, <2>3, <2>4, <2>5, <3>2, <3>4, <3>6, <3>10, Zenon DEF ServerInv
  <2>7. CASE l # 0
    <3> DEFINE g == Functor("connectEstablished", c)
    <3>1. g \in Functors /\ g.conn = c /\ g.op = "connectEstablished" /\ Moves(g, c) /\ ~Forces(g, c)
      BY <1>i, FunctorFacts
    <3>2. UNCHANGED <<channels_, aborted>> /\ pending' = [pending EXCEPT ![l] = Append(@, g)]
      BY <2>e, <2>7 DEF queueInLoop
    <3> HIDE DEF g
    <3>3. LoopTypes' /\ Phases'
      <4>1. pending' \in [Loops -> Seq(Functors)]
        BY <1>a, <2>d, <3>1, <3>2, PutType
      <4> QED BY <1>a, <1>n, <3>2, <4>1 DEF LoopTypes
    <3>4. work' = Put(work, l, g)
      BY <1>a, <1>b, <2>d, <3>1, <3>2, WorkPut
    <3>5. Refd' \subseteq Refd \cup {c}
      BY <1>a, <1>b, <2>d, <2>e, <3>1, <3>2, RefdPut
    <3>6. /\ OneIn(work', c, "connectEstablished", l)
          /\ \A m \in AllLoops : ~HasForce(work'[m], c)
      <4> HIDE DEF Base, AllLoops
      <4>1. work \in [AllLoops -> Seq(Functors)] /\ l \in AllLoops /\ NoneIn(work, c)
            /\ \A m \in AllLoops : ~HasForce(work[m], c)
        BY <1>c, <1>k, <2>d
      <4>2. /\ Moves(g, c) /\ NoneIn(work, c) => OneIn(Put(work, l, g), c, g.op, l)
            /\ \A m \in AllLoops : HasForce(Put(work, l, g)[m], c)
                                   <=> HasForce(work[m], c) \/ (m = l /\ Forces(g, c))
        BY ONLY <2>d, <3>1, <4>1, PutWaits, SMTT(60)
      <4>3. OneIn(Put(work, l, g), c, g.op, l)
        BY <3>1, <4>1, <4>2, Zenon
      <4>4. \A m \in AllLoops : ~HasForce(Put(work, l, g)[m], c)
        BY <3>1, <4>1, <4>2, Zenon
      <4> QED BY <3>1, <3>4, <4>3, <4>4, Zenon
    <3>7. Stage(c)'
      <4>1. Unregistered(c)' /\ c \in connections_' /\ state_'[c] = "kConnecting" /\ ioLoop'[c] = l
        BY <1>b, <1>k, <2>1, <2>7, <2>e, <3>2 DEF Absent, Unregistered
      <4>2. Accepted(c)'
        BY <3>6, <4>1, Zenon DEF Accepted
      <4> QED BY <4>2, Zenon DEF Stage
    <3>8. ClosingOf(c)'
      BY <1>b, <2>1, <2>7, <3>6 DEF ClosingOf
    <3>9. \A d \in Clients : d # c =>
            /\ Keeps(work, work', d)
            /\ \A m \in AllLoops : HasForce(work'[m], d) <=> HasForce(work[m], d)
      BY <1>a, <2>d, <3>1, <3>4, PutOthers
    <3>10. Stages' /\ Closing'
      <4>1. \A d \in Clients : d # c =>
             /\ state_'[d] = state_[d] /\ ioLoop'[d] = ioLoop[d]
             /\ d \in connections_' <=> d \in connections_
             /\ \A m \in AllLoops : d \in channels_'[m] <=> d \in channels_[m]
        BY <2>1, <2>e, <3>2
      <4>2. numThreads' = numThreads
        BY <1>b
      <4> QED BY <3>7, <3>8, <3>9, <4>1, <4>2, OneConnection
    <3>11. aborted' = FALSE
      BY <3>2 DEF ServerInv
    <3> QED BY <1>f, <2>2, <2>3, <2>4, <2>5, <3>3, <3>5, <3>10, <3>11, Zenon DEF ServerInv
  <2> QED BY <2>6, <2>7
<1>3. \/ /\ FreeFds # {} /\ newConnection(Head(backlog), Min(FreeFds))
         /\ backlog' = Tail(backlog) /\ refused' = refused
      \/ /\ backlog' = Tail(backlog) /\ refused' = refused \cup {Head(backlog)}
         /\ UNCHANGED <<next_, connections_, state_, ioLoop, fd, pending, channels_, aborted>>
  BY Zenon DEF handleRead, acceptWithReserve, Drop, connVars
<1> QED BY <1>1, <1>2, <1>3, <1>h

-----------------------------------------------------------------------------
(* The specification.                                                      *)

\* The server before start().
LEMMA ServerInvInit == ASSUME LiveDtor = FALSE, Init PROVE ServerInv
<1>1. Types
  <2>1. PICK setup \in Setups : numThreads = setup[1] /\ limit = setup[2]
    BY Zenon DEF Init
  <2>2. limit \in 1..MaxFds /\ numThreads \in 0..MaxThreads
    BY <2>1, SetupsAssumption
  <2> QED BY <2>2 DEF Init, Types
<1>2. LoopTypes
  BY DEF Init, LoopTypes
<1>3. Phases
  BY DEF Init, Phases
<1>4. Refd = {}
  <2>1. AllLoops \subseteq Loops
    BY <1>1 DEF Types
  <2>2. \A l \in AllLoops : pending[l] = <<>> /\ batch[l] = <<>>
    BY <2>1 DEF Init
  <2>3. 1..Len(<<>>) = {} /\ connections_ = {}
    BY DEF Init
  <2> QED BY <2>2, <2>3 DEF Refd, Held
<1>5. \A c \in Clients : NoneIn(work, c) /\ \A l \in AllLoops : ~HasForce(work[l], c)
  BY <1>1, <1>2, <1>3, <1>4, UnreferencedIdle
<1>6. Stages
  <2> SUFFICES ASSUME NEW c \in Clients PROVE Stage(c)
    BY DEF Stages
  <2>1. Unregistered(c)
    BY <1>1 DEF Unregistered, Init, Types
  <2>2. Absent(c)
    BY <1>5, <2>1 DEF Absent, Init
  <2> QED BY <2>2, Zenon DEF Stage
<1>7. Descriptors
  BY <1>4 DEF Descriptors
<1>8. Waiters
  BY DEF Waiters, Init
<1>9. Actives
  BY <1>1 DEF Actives, Init, Types
<1>10. Closing
  BY <1>5 DEF Closing, ClosingOf, Init
<1>11. Ending
  BY <1>1 DEF Ending, Init, Types
<1>12. aborted = FALSE
  BY DEF Init
<1> QED BY <1>1, <1>2, <1>3, <1>6, <1>7, <1>8, <1>9, <1>10, <1>11, <1>12, Zenon DEF ServerInv

\* Nothing happens, but that a write() may return.
LEMMA StutterInv ==
  ASSUME ServerInv, UNCHANGED <<poolVars, serverVars, connVars, loopVars, channels_, backlog, aborted>>,
         UNCHANGED <<input, ended, refused>>
  PROVE  ServerInv'
<1> USE DEF poolVars, serverVars, connVars, queueVars, loopVars
<1>1. Types' /\ LoopTypes' /\ Phases'
  BY DEF ServerInv, Types, LoopTypes, Phases
<1>2. work' = work /\ Refd' = Refd
  BY QueuesSame
<1>3. aborted' = FALSE /\ Stages' /\ Descriptors' /\ Closing'
  BY <1>2, CalmStep
<1>4. Waiters' /\ Actives'
  BY DEF ServerInv, Waiters, Actives, Open
<1>5. Ending'
  BY <1>2 DEF ServerInv, Ending
<1> QED BY <1>1, <1>3, <1>4, <1>5, Zenon DEF ServerInv

\* The write() to a client returns, inside a handler of the connection's loop.
LEMMA WriteReturnsInv ==
  ASSUME ServerInv, Stalls, NEW c \in Clients, writeReturns(c) PROVE ServerInv'
<1> USE DEF poolVars, serverVars, connVars, queueVars, loopVars
<1>1. c \in stalled /\ Open(c) /\ phase[ioLoop[c]] = "handle" /\ ioLoop[c] \in AllLoops
  BY DEF writeReturns, Stalls, Open, ServerInv, Types
<1>2. /\ UNCHANGED <<limit, numThreads, next_, server, joining, connections_, ioLoop, fd, phase, quit_>>
      /\ UNCHANGED <<active, size, batch, ran, channels_, backlog, input, ended, refused, aborted>>
  BY DEF writeReturns
<1>3. CASE UNCHANGED <<state_, pending>>
  BY <1>2, <1>3, StutterInv
<1>4. CASE /\ state_' = [state_ EXCEPT ![c] = "kDisconnecting"]
           /\ pending' = [pending EXCEPT ![ioLoop[c]] = Append(@, Functor("forceClose", c))]
  <2>1. /\ input' \subseteq Clients /\ active' \in [Loops -> SUBSET (Clients \cup {Acceptor})]
        /\ \A m \in Loops : active'[m] \subseteq active[m]
    BY <1>2 DEF ServerInv, Types, LoopTypes
  <2> QED BY <1>1, <1>2, <1>4, <2>1, ForceCloseAsked
<1> QED BY <1>3, <1>4, Zenon DEF writeReturns, messageReturns, queueInLoop

\* Every step keeps the invariant.
LEMMA ServerInvStep == ASSUME ServerInv, Stalls, [Next]_vars PROVE ServerInv'
<1>1. ASSUME NEW l \in AllLoops, LoopStep(l) PROVE ServerInv'
  <2>1. CASE poll(l)
    BY <2>1, PollInv
  <2>2. CASE leave(l)
    BY <2>2, LeaveInv
  <2>3. CASE doPendingFunctors(l)
    BY <2>3, SwapInv
  <2>4. CASE runFunctor(l)
    BY <2>4, RunFunctorInv
  <2>5. CASE endBatch(l)
    BY <2>5, EndBatchInv
  <2>6. ASSUME NEW c \in Clients, handleEvent(l, c) PROVE ServerInv'
    BY <2>6, HandleEventInv
  <2>7. CASE handleRead
    BY <2>7, HandleReadInv
  <2> QED BY <1>1, <2>1, <2>2, <2>3, <2>4, <2>5, <2>6, <2>7, Zenon DEF LoopStep
<1>2. ASSUME NEW c \in Clients, ClientStep(c) PROVE ServerInv'
  <2>1. CASE connect(c)
    BY <2>1, ConnectInv
  <2>2. CASE send(c)
    BY <2>2, SendInv
  <2>3. CASE close(c)
    BY <2>3, CloseInv
  <2> QED BY <1>2, <2>1, <2>2, <2>3, Zenon DEF ClientStep
<1>3. CASE Destructor
  <2>1. ASSUME NEW c \in Clients, destroyConnection(c) PROVE ServerInv'
    BY <2>1, DestroyConnectionInv
  <2>2. CASE stopThread
    BY <2>2, StopThreadInv
  <2>3. CASE destroyAcceptor
    BY <2>3, DestroyAcceptorInv
  <2> QED BY <1>3, <2>1, <2>2, <2>3, Zenon DEF Destructor
<1>4. CASE start
  BY <1>4, StartInv
<1>5. CASE quit
  BY <1>5, QuitInv
<1>6. CASE destroy
  BY <1>6, DestroyInv
<1>7. CASE UNCHANGED vars
  BY <1>7, StutterInv DEF vars, netVars
<1>8. ASSUME NEW c \in Clients, writeReturns(c) PROVE ServerInv'
  BY <1>8, WriteReturnsInv
<1> QED BY <1>1, <1>2, <1>3, <1>4, <1>5, <1>6, <1>7, <1>8, Zenon DEF Next

\* A step that leaves the connections whose loops are in write().
LEMMA StallsKept ==
  ASSUME Stalls, stalled' = stalled,
         \A c \in stalled : /\ state_'[c] = state_[c] /\ ioLoop'[c] = ioLoop[c]
                            /\ phase'[ioLoop[c]] = phase[ioLoop[c]]
  PROVE  Stalls'
BY DEF Stalls

\* A loop in write() does nothing else, and nobody else ends its connection.
LEMMA StallsLoopStep ==
  ASSUME ServerInv, Stalls, NEW l \in AllLoops, LoopStep(l) PROVE Stalls'
<1> USE DEF poolVars, serverVars, connVars, queueVars, loopVars, netVars
<1>a. /\ l \in Loops /\ \A c \in stalled : c \in Clients /\ ioLoop[c] # l /\ ioLoop[c] \in Loops
                                      /\ state_[c] = "kConnected"
  BY DEF LoopStep, Stalls, ServerInv, Types
<1>b. phase \in [Loops -> {"poll", "handle", "functors", "out"}]
  BY DEF ServerInv, LoopTypes
<1>c. state_ \in [Clients -> {"none", "kConnecting", "kConnected", "kDisconnecting", "kDisconnected"}]
      /\ ioLoop \in [Clients -> AllLoops]
  BY DEF ServerInv, Types
<1>1. ASSUME NEW p, phase' = [phase EXCEPT ![l] = p], UNCHANGED <<state_, ioLoop, stalled>> PROVE Stalls'
  BY <1>1, <1>a, <1>b, StallsKept
<1>2. CASE poll(l)
  BY <1>1, <1>2 DEF poll
<1>3. CASE leave(l)
  BY <1>1, <1>3 DEF leave
<1>4. CASE doPendingFunctors(l)
  BY <1>1, <1>4 DEF doPendingFunctors
<1>5. CASE endBatch(l)
  BY <1>1, <1>5 DEF endBatch
<1>6. CASE runFunctor(l)
  <2> DEFINE f == batch[l][ran[l] + 1]
  <2>1. RunFrame(l) /\ UNCHANGED <<ioLoop, phase, stalled>>
    BY <1>6 DEF runFunctor, RunFrame
  <2>2. f.conn \in Clients
    BY <2>1, RunFacts
  <2>3. \/ connectEstablished(l, f.conn)
        \/ f.op = "forceClose" /\ forceCloseInLoop(l, f.conn)
        \/ UNCHANGED state_
        \/ f.op = "connectDestroyed" /\ connectDestroyed(l, f.conn)
    BY <1>6, Zenon DEF runFunctor
  <2>4. f.op = "forceClose" => ioLoop[f.conn] = l
    <3> SUFFICES ASSUME f.op = "forceClose" PROVE ioLoop[f.conn] = l
      OBVIOUS
    <3>1. Forces(f, f.conn)
      BY DEF Forces
    <3>2. HasForce(work[l], f.conn)
      <4> HIDE DEF Base, AllLoops
      <4> QED BY <2>1, <3>1, RunWork
    <3> QED BY <2>2, <3>2 DEF ServerInv, Closing, ClosingOf
  <2>5. f.op = "connectDestroyed" => ~Open(f.conn)
    <3> SUFFICES ASSUME f.op = "connectDestroyed", Open(f.conn) PROVE FALSE
      OBVIOUS
    <3>1. Moves(f, f.conn)
      BY DEF Moves
    <3>2. ~NoneIn(work, f.conn)
      <4> HIDE DEF Base, AllLoops
      <4> QED BY <2>1, <3>1, RunWork
    <3>3. Serving(f.conn)
      BY <2>2, OpenServing
    <3> QED BY <3>2, <3>3 DEF Serving
  <2> HIDE DEF f
  <2>6. ASSUME NEW c \in stalled PROVE state_'[c] = state_[c]
    <3>1. c \in Clients /\ ioLoop[c] # l /\ state_[c] = "kConnected" /\ Open(c)
      BY <1>a DEF Open
    <3>2. CASE connectEstablished(l, f.conn)
      BY <1>c, <2>2, <3>1, <3>2 DEF connectEstablished
    <3>3. CASE f.op = "forceClose" /\ forceCloseInLoop(l, f.conn)
      <4>1. c # f.conn
        BY <2>4, <3>1, <3>3
      <4> QED BY <1>c, <3>1, <3>3, <4>1 DEF forceCloseInLoop, handleClose
    <3>4. CASE f.op = "connectDestroyed" /\ connectDestroyed(l, f.conn)
      <4>1. c # f.conn
        BY <2>5, <3>1, <3>4
      <4> QED BY <1>c, <3>1, <3>4, <4>1 DEF connectDestroyed
    <3> QED BY <2>3, <3>2, <3>3, <3>4
  <2> QED BY <2>1, <2>6, StallsKept
<1>7. ASSUME NEW c \in Clients, handleEvent(l, c) PROVE Stalls'
  <2>1. /\ phase[l] = "handle" /\ c \in active[l] /\ UNCHANGED <<ioLoop, phase>>
    BY <1>7 DEF handleEvent
  <2>2. ioLoop[c] = l
    BY <2>1 DEF ServerInv, Actives
  <2>3. \/ stalled' = stalled /\ \E s : state_' = [state_ EXCEPT ![c] = s]
        \/ state_[c] = "kConnected" /\ stalled' = stalled \cup {c} /\ state_' = state_
        \/ stalled' = stalled /\ state_' = state_
    BY <1>7, Zenon DEF handleEvent, messageReturns, writeWaits, handleClose
  <2>4. CASE stalled' = stalled /\ \E s : state_' = [state_ EXCEPT ![c] = s]
    BY <1>a, <1>c, <2>1, <2>2, <2>4, StallsKept
  <2>5. CASE state_[c] = "kConnected" /\ stalled' = stalled \cup {c} /\ state_' = state_
    BY <2>1, <2>2, <2>5 DEF Stalls
  <2>6. CASE stalled' = stalled /\ state_' = state_
    BY <2>1, <2>6, StallsKept
  <2> QED BY <2>3, <2>4, <2>5, <2>6
<1>8. CASE handleRead
  <2>1. UNCHANGED <<phase, stalled>> /\ phase[0] = "handle" /\ Acceptor \in active[0]
    BY <1>8 DEF handleRead
  <2>2. backlog # <<>> /\ backlog \in Seq(Clients)
    <3>1. 0 \in AllLoops /\ backlog \in Seq(Clients)
      BY DEF ServerInv, Types
    <3> QED BY <2>1, <3>1 DEF ServerInv, Actives
  <2>3. Head(backlog) \in Clients /\ state_[Head(backlog)] = "none"
    <3>1. 1 \in 1..Len(backlog) /\ Head(backlog) = backlog[1] /\ Head(backlog) \in Clients
      BY <2>2
    <3> QED BY <3>1 DEF ServerInv, Waiters
  <2>4. \/ UNCHANGED <<state_, ioLoop>>
        \/ \E s, m : /\ state_' = [state_ EXCEPT ![Head(backlog)] = s]
                     /\ ioLoop' = [ioLoop EXCEPT ![Head(backlog)] = m]
    BY <1>8, Zenon DEF handleRead, newConnection, connVars
  <2>5. ASSUME NEW c \in stalled PROVE state_'[c] = state_[c] /\ ioLoop'[c] = ioLoop[c]
    <3>1. c \in Clients /\ c # Head(backlog)
      BY <1>a, <2>3
    <3> QED BY <1>c, <2>4, <3>1
  <2> QED BY <2>1, <2>5, StallsKept
<1> QED BY <1>2, <1>3, <1>4, <1>5, <1>6, <1>7, <1>8, Zenon DEF LoopStep

\* Every step keeps what is known of the loops in write().
LEMMA StallsStep == ASSUME ServerInv, Stalls, [Next]_vars PROVE Stalls'
<1> USE DEF poolVars, serverVars, connVars, queueVars, loopVars, netVars
<1>1. ASSUME NEW l \in AllLoops, LoopStep(l) PROVE Stalls'
  BY <1>1, StallsLoopStep
<1>2. CASE UNCHANGED <<connVars, phase, stalled>>
  BY <1>2, StallsKept
<1>3. ASSUME NEW c \in Clients, connect(c) PROVE Stalls'
  <2>1. ~Open(c)
    <3>1. state_[c] = "none" \/ ~Referenced(c)
      BY <1>3 DEF connect, Served
    <3>2. Open(c) => c \in Refd
      BY OpenServing
    <3>3. Referenced(c) <=> c \in Refd
      BY ReferencedRefd DEF ServerInv
    <3> QED BY <3>1, <3>2, <3>3 DEF Open
  <2>2. \A d \in stalled : d # c /\ d \in Clients
    BY <2>1 DEF Stalls, Open
  <2>3. /\ state_' = [state_ EXCEPT ![c] = "none"] /\ ioLoop' = [ioLoop EXCEPT ![c] = 0]
        /\ UNCHANGED <<phase, stalled>>
    BY <1>3 DEF connect
  <2>4. \A d \in stalled : state_'[d] = state_[d] /\ ioLoop'[d] = ioLoop[d]
    BY <2>2, <2>3 DEF ServerInv, Types
  <2> QED BY <2>3, <2>4, StallsKept
<1>4. ASSUME NEW c \in Clients, writeReturns(c) PROVE Stalls'
  <2>1. /\ stalled' = stalled \ {c} /\ UNCHANGED <<ioLoop, phase>>
        /\ (state_' = state_ \/ state_' = [state_ EXCEPT ![c] = "kDisconnecting"])
    BY <1>4 DEF writeReturns, messageReturns
  <2>2. \A d \in stalled' : state_'[d] = state_[d]
    BY <2>1 DEF ServerInv, Types, Stalls
  <2> QED BY <2>1, <2>2 DEF Stalls
<1>5. ASSUME NEW c \in Clients, destroyConnection(c) PROVE Stalls'
  <2>1. c \in Refd /\ server = "dtor" /\ stalled' = stalled
    BY <1>5 DEF destroyConnection, Refd
  <2>2. phase[0] = "out" /\ numThreads = 0
    BY <2>1 DEF ServerInv, Ending
  <2>3. stalled = {}
    BY <2>2 DEF Stalls, ServerInv, Types
  <2> QED BY <2>1, <2>3 DEF Stalls
<1>6. CASE Destructor
  <2>1. stopThread \/ destroyAcceptor => Stalls'
    BY <1>2 DEF stopThread, destroyAcceptor
  <2> QED BY <1>5, <1>6, <2>1, Zenon DEF Destructor
<1>7. ASSUME NEW c \in Clients, ClientStep(c) PROVE Stalls'
  <2>1. send(c) \/ close(c) => Stalls'
    BY <1>2 DEF send, close
  <2> QED BY <1>3, <1>7, <2>1, Zenon DEF ClientStep
<1>8. start \/ quit \/ destroy \/ UNCHANGED vars => Stalls'
  BY <1>2 DEF start, quit, destroy, vars
<1> QED BY <1>1, <1>4, <1>6, <1>7, <1>8, Zenon DEF Next

\* The inductive invariant of the server.
THEOREM ServerInvariant == LiveDtor = FALSE => (Spec => [](ServerInv /\ Stalls))
<1>1. LiveDtor = FALSE /\ Init => ServerInv /\ Stalls
  BY ServerInvInit DEF Init, Stalls
<1>2. ServerInv /\ Stalls /\ [Next]_vars => ServerInv' /\ Stalls'
  BY ServerInvStep, StallsStep
<1> QED BY <1>1, <1>2, PTL DEF Spec

\* The variables of the server, its loops and its connections keep their types.
THEOREM ServerTypes == LiveDtor = FALSE => (Spec => []TypeOK)
<1>1. ServerInv /\ Stalls => TypeOK
  <2> SUFFICES ASSUME ServerInv, Stalls PROVE TypeOK
    OBVIOUS
  <2>1. Types /\ LoopTypes /\ Phases
    BY DEF ServerInv
  <2>2. aborted \in BOOLEAN
    BY Zenon DEF ServerInv
  <2>3. ASSUME NEW l \in Loops
        PROVE  /\ pending[l] \in Seq(Functors) /\ batch[l] \in Seq(Functors)
               /\ ran[l] \in 0..Len(batch[l]) /\ (batch[l] # <<>> <=> phase[l] = "functors")
               /\ active[l] \subseteq Clients \cup {Acceptor} /\ (active[l] # {} => phase[l] = "handle")
               /\ channels_[l] \subseteq Clients /\ size[l] \in Nat \ {0}
    <3>1. /\ pending[l] \in Seq(Functors) /\ batch[l] \in Seq(Functors) /\ ran[l] \in Nat
          /\ active[l] \subseteq Clients \cup {Acceptor} /\ channels_[l] \subseteq Clients
          /\ size[l] \in Nat \ {0}
      BY <2>1 DEF LoopTypes
    <3>2. /\ ran[l] <= Len(batch[l]) /\ (batch[l] # <<>> <=> phase[l] = "functors")
          /\ active[l] # {} => phase[l] = "handle"
      BY <2>1 DEF Phases
    <3>3. ran[l] \in 0..Len(batch[l])
      BY <3>1, <3>2
    <3> QED BY <3>1, <3>2, <3>3, Zenon
  <2> QED BY <2>1, <2>2, <2>3, Zenon DEF Types, LoopTypes, Stalls, TypeOK
<1> QED BY <1>1, ServerInvariant, PTL

\* No assert of the server, its connections and their Pollers fails.
THEOREM ServerNeverAborts == LiveDtor = FALSE => (Spec => []NoAbort)
<1>1. ServerInv => NoAbort
  BY DEF ServerInv, NoAbort
<1> QED BY <1>1, ServerInvariant, PTL

\* The positions of what waits for c, as LifeCycle counts them.
LEMMA OwedIsWaiting ==
  ASSUME Types, LoopTypes, Phases, NEW c
  PROVE  \A t : t \in Owed(c) <=> \E l \in AllLoops : \E i \in 1..Len(work[l]) :
                                     Moves(work[l][i], c) /\ t = <<l, i, work[l][i].op>>
<1> DEFINE W(l) == {<<l, i, work[l][i].op>> :
                      i \in {j \in 1..Len(work[l]) : work[l][j].conn = c
                                                     /\ work[l][j].op # "forceClose"}}
<1>1. Owed(c) = UNION {W(l) : l \in AllLoops}
  <2> DEFINE R(l) == SubSeq(batch[l], ran[l] + 1, Len(batch[l])) \o pending[l]
             X(l) == {<<l, i, R(l)[i].op>> : i \in {j \in DOMAIN R(l) : R(l)[j].conn = c
                                                               /\ R(l)[j].op # "forceClose"}}
  <2>1. ASSUME NEW l \in AllLoops PROVE work[l] = R(l) /\ DOMAIN work[l] = 1..Len(work[l])
    <3>1. work[l] = R(l)
      BY WorkType DEF Left
    <3>2. work[l] \in Seq(Functors)
      BY WorkType
    <3> HIDE DEF R
    <3>3. DOMAIN work[l] = 1..Len(work[l])
      BY <3>2
    <3> QED BY <3>1, <3>3
  <2>2. Owed(c) = UNION {X(l) : l \in AllLoops}
    BY DEF Owed
  <2> HIDE DEF R
  <2>3. ASSUME NEW l \in AllLoops PROVE X(l) = W(l)
    BY <2>1
  <2> HIDE DEF X, W
  <2> QED BY <2>2, <2>3
<1>2. ASSUME NEW l \in AllLoops, NEW t
      PROVE  t \in W(l) <=> \E i \in 1..Len(work[l]) :
                              Moves(work[l][i], c) /\ t = <<l, i, work[l][i].op>>
  BY DEF Moves
<1> HIDE DEF W
<1>3. \A t : t \in Owed(c) <=> \E l \in AllLoops : t \in W(l)
  BY <1>1
<1>4. ASSUME NEW t
      PROVE  t \in Owed(c) <=> \E l \in AllLoops : \E i \in 1..Len(work[l]) :
                                  Moves(work[l][i], c) /\ t = <<l, i, work[l][i].op>>
  <2>1. ASSUME t \in Owed(c)
        PROVE  \E l \in AllLoops : \E i \in 1..Len(work[l]) :
                  Moves(work[l][i], c) /\ t = <<l, i, work[l][i].op>>
    <3>1. PICK l \in AllLoops : t \in W(l)
      BY <1>3, <2>1, Zenon
    <3>2. \E i \in 1..Len(work[l]) : Moves(work[l][i], c) /\ t = <<l, i, work[l][i].op>>
      BY <1>2, <3>1
    <3> QED BY <3>2, Zenon
  <2>2. ASSUME NEW l \in AllLoops, \E i \in 1..Len(work[l]) :
                  Moves(work[l][i], c) /\ t = <<l, i, work[l][i].op>>
        PROVE  t \in Owed(c)
    <3>1. t \in W(l)
      BY <1>2, <2>2
    <3> QED BY <1>3, <3>1, Zenon
  <2> QED BY <2>1, <2>2, Zenon
<1> QED BY <1>4, Zenon

\* newConnection() to connectDestroyed(): a connection is at every moment in exactly one
\* place of its life, whichever loops have run and queued what.
THEOREM ServerLifeCycle == LiveDtor = FALSE => (Spec => []LifeCycle)
<1>1. ServerInv => LifeCycle
  <2> SUFFICES ASSUME ServerInv PROVE LifeCycle
    OBVIOUS
  <2>a. Types /\ LoopTypes /\ Phases /\ Stages
    BY DEF ServerInv
  <2>b. /\ DOMAIN work = AllLoops
        /\ \A l \in AllLoops : Len(work[l]) = (Len(batch[l]) - ran[l]) + Len(pending[l])
                               /\ Len(batch[l]) \in Nat /\ Len(pending[l]) \in Nat /\ ran[l] \in Nat
                               /\ Len(work[l]) \in Nat
    <3>1. DOMAIN work = AllLoops
      BY <2>a, WorkType
    <3>2. ASSUME NEW l \in AllLoops
          PROVE  /\ Len(work[l]) = (Len(batch[l]) - ran[l]) + Len(pending[l])
                 /\ Len(batch[l]) \in Nat /\ Len(pending[l]) \in Nat /\ ran[l] \in Nat
                 /\ Len(work[l]) \in Nat
      <4>1. /\ work[l] = Left(batch[l], ran[l], pending[l]) /\ ran[l] \in 0..Len(batch[l])
            /\ pending[l] \in Seq(Functors) /\ batch[l] \in Seq(Functors)
        BY <2>a, WorkType
      <4>2. Len(batch[l]) \in Nat /\ Len(pending[l]) \in Nat /\ ran[l] \in Nat
        BY <4>1
      <4> DEFINE r == SubSeq(batch[l], ran[l] + 1, Len(batch[l]))
      <4>3. r \in Seq(Functors) /\ Len(r) = Len(batch[l]) - ran[l]
        BY <4>1, SubSeqShape, Zenon
      <4>4. work[l] = r \o pending[l]
        BY <4>1 DEF Left
      <4> HIDE DEF r
      <4>5. Len(work[l]) = Len(r) + Len(pending[l]) /\ Len(r) \in Nat
        <5>1. Len(r \o pending[l]) = Len(r) + Len(pending[l])
          BY <4>1, <4>3, ConcatProperties, Zenon
        <5> QED BY <4>3, <4>4, <5>1
      <4> QED BY <4>2, <4>3, <4>5
    <3> QED BY <3>1, <3>2
  <2>1. ASSUME NEW c \in Clients, NoneIn(work, c) PROVE Owed(c) = {}
    <3>1. \A t : t \notin Owed(c)
      BY <2>a, <2>b, <2>1, OwedIsWaiting, Zenon DEF NoneIn, None
    <3> QED BY <3>1
  <2>2. ASSUME NEW c \in Clients, NEW op, NEW l, OneIn(work, c, op, l) PROVE Owes(c, op, l)
    <3>1. l \in AllLoops /\ One(work[l], c, op) /\ \A m \in AllLoops : m # l => None(work[m], c)
      BY <2>b, <2>2, Zenon DEF OneIn
    <3>2. PICK i \in 1..Len(work[l]) : /\ work[l][i].conn = c /\ work[l][i].op = op
                                       /\ op # "forceClose"
                                       /\ \A j \in 1..Len(work[l]) : Moves(work[l][j], c) => j = i
      BY <3>1, Zenon DEF One
    <3>3. Moves(work[l][i], c)
      BY <3>2, Zenon DEF Moves
    <3>4. \A t : t \in Owed(c) <=> \E m \in AllLoops : \E j \in 1..Len(work[m]) :
                                     Moves(work[m][j], c) /\ t = <<m, j, work[m][j].op>>
      BY <2>a, OwedIsWaiting
    <3>5. <<l, i, op>> \in Owed(c)
      BY <3>1, <3>2, <3>3, <3>4, Zenon
    <3>6. ASSUME NEW t \in Owed(c) PROVE t = <<l, i, op>>
      <4>1. PICK m \in AllLoops : \E j \in 1..Len(work[m]) :
                                     Moves(work[m][j], c) /\ t = <<m, j, work[m][j].op>>
        BY <3>4, <3>6, Zenon
      <4>2. PICK j \in 1..Len(work[m]) : Moves(work[m][j], c) /\ t = <<m, j, work[m][j].op>>
        BY <4>1, Zenon
      <4>3. m = l
        BY <3>1, <4>2, Zenon DEF None
      <4>4. j = i
        BY <3>2, <4>2, <4>3, Zenon
      <4> QED BY <3>2, <4>2, <4>3, <4>4, Zenon
    <3>7. Owed(c) = {<<l, i, op>>}
      BY <3>5, <3>6
    <3>8. i \in 1..(Len(batch[l]) + Len(pending[l]))
      <4>1. /\ Len(work[l]) = (Len(batch[l]) - ran[l]) + Len(pending[l])
            /\ Len(batch[l]) \in Nat /\ Len(pending[l]) \in Nat /\ ran[l] \in Nat
            /\ i \in 1..Len(work[l])
        BY <2>b, <3>1, <3>2
      <4>2. \A x, y, z \in Nat : \A j \in 1..((x - z) + y) : j \in 1..(x + y)
        OBVIOUS
      <4>3. i \in 1..((Len(batch[l]) - ran[l]) + Len(pending[l]))
        BY <4>1, Zenon
      <4> QED BY <4>1, <4>2, <4>3, Zenon
    <3> QED BY <3>7, <3>8, Zenon DEF Owes
  <2>3. ASSUME NEW c \in Clients, Unregistered(c) PROVE RegisteredIn(c) = {}
    BY <2>3 DEF Unregistered, RegisteredIn
  <2>4. ASSUME NEW c \in Clients, Registered(c) PROVE RegisteredIn(c) = {ioLoop[c]}
    <3>1. ioLoop[c] \in AllLoops
      BY <2>a DEF Types
    <3> QED BY <2>4, <3>1 DEF Registered, RegisteredIn
  <2>5. ASSUME NEW c \in Clients
        PROVE
    \/ /\ state_[c] = "none" /\ Owed(c) = {} /\ RegisteredIn(c) = {} /\ c \notin connections_
    \/ /\ state_[c] = "kConnecting" /\ c \in connections_
       /\ Owes(c, "connectEstablished", ioLoop[c]) /\ RegisteredIn(c) = {}
    \/ /\ Open(c) /\ c \in connections_ /\ Owed(c) = {} /\ RegisteredIn(c) = {ioLoop[c]}
    \/ /\ state_[c] = "kDisconnected" /\ c \in connections_
       /\ Owes(c, "removeConnection", 0) /\ RegisteredIn(c) = {ioLoop[c]}
    \/ /\ state_[c] = "kDisconnected" /\ c \notin connections_
       /\ Owes(c, "connectDestroyed", ioLoop[c]) /\ RegisteredIn(c) = {ioLoop[c]}
    \/ /\ state_[c] = "kDisconnected" /\ c \notin connections_
       /\ Owed(c) = {} /\ RegisteredIn(c) = {}
    <3>1. Stage(c)
      BY <2>a DEF Stages
    <3>2. CASE Absent(c)
      BY <2>1, <2>3, <3>2, Zenon DEF Absent
    <3>3. CASE Accepted(c)
      BY <2>2, <2>3, <3>3, Zenon DEF Accepted
    <3>4. CASE Serving(c)
      BY <2>1, <2>4, <3>4, Zenon DEF Serving
    <3>5. CASE Closed(c)
      BY <2>2, <2>4, <3>5, Zenon DEF Closed
    <3>6. CASE Removed(c)
      BY <2>2, <2>4, <3>6, Zenon DEF Removed
    <3> QED BY <3>1, <3>2, <3>3, <3>4, <3>5, <3>6, Zenon DEF Stage
  <2> QED BY <2>5 DEF LifeCycle
<1> QED BY <1>1, ServerInvariant, PTL

\* ~TcpConnection() and ~Channel(): if the server outlives its connections, a connection
\* that dies has been disconnected and taken from its Poller.
THEOREM ServerDtorAsserts == LiveDtor = FALSE => (Spec => []DtorAsserts)
<1>1. ServerInv => DtorAsserts
  <2> SUFFICES ASSUME ServerInv, NEW c \in Clients, state_[c] # "none", ~Referenced(c)
               PROVE  state_[c] = "kDisconnected" /\ RegisteredIn(c) = {}
    BY DEF DtorAsserts
  <2>1. Types /\ LoopTypes /\ Phases /\ Stages
    BY DEF ServerInv
  <2>2. Absent(c)
    BY <2>1, ReferencedRefd, UnreferencedAbsent
  <2> QED BY <2>2 DEF Absent, Unregistered, RegisteredIn
<1> QED BY <1>1, ServerInvariant, PTL

=============================================================================
