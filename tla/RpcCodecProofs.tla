--------------------------- MODULE RpcCodecProofs ---------------------------
(***************************************************************************)
(* Theorems about RpcCodec for messages of any content, words of any size, *)
(* buffers of any size and any way TCP cuts the stream.                    *)
(***************************************************************************)
EXTENDS RpcCodec, BufferProofs, WellFoundedInduction

-----------------------------------------------------------------------------
\* A set of numbers that is not empty has a least element: the form in which
\* induction is used below.
LEMMA LeastNat ==
  ASSUME NEW T, T \subseteq Nat, T # {}
  PROVE  \E x \in T : \A y \in T : x <= y
<1> DEFINE R == {ss \in Nat \X Nat : ss[1] < ss[2]}
<1>1. OpToRel(<, Nat) = R
  BY DEF OpToRel
<1>2. IsWellFoundedOn(R, Nat)
  BY <1>1, NatLessThanWellFounded
<1>3. PICK x \in T : \A y \in T : ~(<<y, x>> \in R)
  <2> HIDE DEF R
  <2> QED BY <1>2, WFMin
<1>4. ASSUME NEW y \in T PROVE x <= y
  <2>1. x \in Nat /\ y \in Nat
    OBVIOUS
  <2>2. y < x => <<y, x>> \in R
    BY <2>1
  <2>3. ~(y < x)
    <3> HIDE DEF R
    <3> QED BY <1>3, <2>2
  <2> QED BY <2>1, <2>3
<1> QED BY <1>4

\* f is the function that FlattenSeq(ss) computes.
IsFlattening(f, ss) ==
  f = [i \in 1..Len(ss) |-> IF i = 1 THEN ss[i] ELSE f[i - 1] \o ss[i]]

\* There is such a function, as long as any part of ss.
LEMMA FlatteningExists ==
  ASSUME NEW ss, Len(ss) \in Nat \ {0}
  PROVE  \E f : IsFlattening(f, ss)
<1> DEFINE n == Len(ss)
           E(m) == \E f : f = [i \in 1..m |-> IF i = 1 THEN ss[i] ELSE f[i - 1] \o ss[i]]
           T == {m \in 1..n : ~E(m)}
<1>1. SUFFICES ASSUME T # {} PROVE FALSE
  <2>1. n \in 1..n
    OBVIOUS
  <2>2. T = {} => E(n)
    <3> HIDE DEF E
    <3> QED BY <2>1
  <2> QED BY <2>2 DEF IsFlattening
<1>2. PICK m \in T : \A k \in T : m <= k
  <2>1. T \subseteq Nat
    <3> HIDE DEF E
    <3> QED OBVIOUS
  <2> HIDE DEF T
  <2> QED BY <1>1, <2>1, LeastNat
<1>3. m \in 1..n /\ ~E(m)
  OBVIOUS
<1>4. CASE m = 1
  <2> DEFINE f == [i \in 1..1 |-> ss[1]]
  <2>1. f = [i \in 1..1 |-> IF i = 1 THEN ss[i] ELSE f[i - 1] \o ss[i]]
    OBVIOUS
  <2> QED BY <1>3, <1>4, <2>1
<1>5. CASE m # 1
  <2>1. m - 1 \in 1..n /\ m - 1 < m
    BY <1>3, <1>5
  <2>2. E(m - 1)
    <3>1. m - 1 \notin T
      <4> HIDE DEF T
      <4> QED BY <1>2, <1>3, <2>1
    <3> QED BY <2>1, <3>1
  <2>3. PICK f : f = [i \in 1..(m - 1) |-> IF i = 1 THEN ss[i] ELSE f[i - 1] \o ss[i]]
    BY <2>2
  <2> DEFINE g == [i \in 1..m |-> IF i = m THEN f[m - 1] \o ss[m] ELSE f[i]]
  <2>4. ASSUME NEW i \in 1..m
        PROVE  g[i] = IF i = 1 THEN ss[i] ELSE g[i - 1] \o ss[i]
    <3>1. CASE i = m
      <4>1. m \in 1..m /\ m - 1 \in 1..m /\ m - 1 # m /\ i # 1
        BY <1>3, <1>5, <2>1, <3>1
      <4>2. g[m] = f[m - 1] \o ss[m] /\ g[m - 1] = f[m - 1]
        BY <4>1
      <4> QED BY <3>1, <4>1, <4>2
    <3>2. CASE i # m
      <4>1. g[i] = f[i] /\ i \in 1..(m - 1)
        BY <1>3, <3>2
      <4>2. f[i] = IF i = 1 THEN ss[i] ELSE f[i - 1] \o ss[i]
        BY <2>3, <4>1
      <4>3. i # 1 => g[i - 1] = f[i - 1]
        BY <1>3, <4>1
      <4> QED BY <4>1, <4>2, <4>3
    <3> QED BY <3>1, <3>2
  <2>5. g = [i \in 1..m |-> IF i = 1 THEN ss[i] ELSE g[i - 1] \o ss[i]]
    <3>1. g = [i \in 1..m |-> g[i]]
      OBVIOUS
    <3> HIDE DEF g
    <3> QED BY <2>4, <3>1
  <2> QED
    <3> HIDE DEF g
    <3> QED BY <1>3, <2>5
<1> QED BY <1>4, <1>5

\* FlattenSeq() is computed by such a function.
LEMMA FlattenDef ==
  ASSUME NEW ss, Len(ss) \in Nat \ {0}
  PROVE  \E f : IsFlattening(f, ss) /\ FlattenSeq(ss) = f[Len(ss)]
<1> DEFINE fl == CHOOSE f : f = [i \in 1..Len(ss) |-> IF i = 1 THEN ss[i] ELSE f[i - 1] \o ss[i]]
<1>1. IsFlattening(fl, ss)
  BY FlatteningExists DEF IsFlattening
<1>2. FlattenSeq(ss) = fl[Len(ss)]
  BY DEF FlattenSeq
<1> HIDE DEF fl
<1> QED BY <1>1, <1>2

\* What such a function is at each place.
LEMMA FlatteningStep ==
  ASSUME NEW f, NEW ss, IsFlattening(f, ss), Len(ss) \in Nat
  PROVE  /\ Len(ss) > 0 => f[1] = ss[1]
         /\ \A i \in 2..Len(ss) : f[i] = f[i - 1] \o ss[i]
<1> DEFINE n == Len(ss)
           g == [i \in 1..n |-> IF i = 1 THEN ss[i] ELSE f[i - 1] \o ss[i]]
<1>1. f = g
  BY DEF IsFlattening
<1>2. n > 0 => g[1] = ss[1]
  OBVIOUS
<1>3. ASSUME NEW i \in 2..n PROVE g[i] = f[i - 1] \o ss[i]
  <2>1. i \in 1..n /\ i # 1
    OBVIOUS
  <2> QED BY <2>1
<1> HIDE DEF g
<1> QED BY <1>1, <1>2, <1>3

\* It is a sequence of cells at each place.
LEMMA FlatteningCells ==
  ASSUME NEW Cell, NEW ss \in Seq(Seq(Cell)), NEW f, IsFlattening(f, ss), NEW i \in 1..Len(ss)
  PROVE  f[i] \in Seq(Cell)
<1> DEFINE n == Len(ss)
           T == {k \in 1..n : f[k] \notin Seq(Cell)}
<1>1. n \in Nat /\ \A k \in 1..n : ss[k] \in Seq(Cell)
  OBVIOUS
<1>2. /\ n > 0 => f[1] = ss[1]
      /\ \A k \in 2..n : f[k] = f[k - 1] \o ss[k]
  BY <1>1, FlatteningStep
<1> HIDE DEF n
<1>3. SUFFICES ASSUME T # {} PROVE FALSE
  BY DEF n
<1>4. PICK m \in T : \A k \in T : m <= k
  <2>1. T \subseteq Nat
    BY <1>1
  <2> HIDE DEF T
  <2> QED BY <1>3, <2>1, LeastNat
<1>5. m \in 1..n /\ f[m] \notin Seq(Cell)
  OBVIOUS
<1>6. m # 1
  BY <1>1, <1>2, <1>5
<1>7. m \in 2..n /\ m - 1 \in 1..n /\ m - 1 < m
  BY <1>1, <1>5, <1>6
<1>8. f[m - 1] \in Seq(Cell)
  <2>1. m - 1 \notin T
    <3> HIDE DEF T
    <3> QED BY <1>4, <1>5, <1>7
  <2> QED BY <1>7, <2>1
<1>9. ss[m] \in Seq(Cell)
  BY <1>1, <1>5
<1>10. f[m] = f[m - 1] \o ss[m]
  BY <1>2, <1>7
<1>11. f[m - 1] \o ss[m] \in Seq(Cell)
  BY <1>8, <1>9
<1> QED BY <1>5, <1>10, <1>11

\* A sequence of sequences of cells flattens to a sequence of cells.
LEMMA FlattenCells ==
  ASSUME NEW Cell, NEW ss \in Seq(Seq(Cell))
  PROVE  FlattenSeq(ss) \in Seq(Cell)
<1>1. CASE Len(ss) = 0
  <2>1. ss = <<>>
    BY <1>1
  <2>2. FlattenSeq(ss) = ss
    BY <1>1 DEF FlattenSeq
  <2>3. <<>> \in Seq(Cell)
    OBVIOUS
  <2> QED BY <2>1, <2>2, <2>3
<1>2. CASE Len(ss) # 0
  <2>1. Len(ss) \in Nat \ {0} /\ Len(ss) \in 1..Len(ss)
    BY <1>2
  <2>2. PICK f : IsFlattening(f, ss) /\ FlattenSeq(ss) = f[Len(ss)]
    BY <2>1, FlattenDef
  <2> QED BY <2>1, <2>2, FlatteningCells
<1> QED BY <1>1, <1>2

\* What is appended to a sequence of sequences comes last.
LEMMA FlattenLast ==
  ASSUME NEW Cell, NEW ss \in Seq(Seq(Cell)), NEW tt \in Seq(Seq(Cell)),
         Len(tt) = Len(ss) + 1, \A i \in 1..Len(ss) : tt[i] = ss[i]
  PROVE  FlattenSeq(tt) = FlattenSeq(ss) \o tt[Len(tt)]
<1> DEFINE n == Len(ss)
<1>0. n \in Nat /\ Len(tt) = n + 1 /\ Len(tt) \in Nat \ {0} /\ tt[n + 1] \in Seq(Cell)
  OBVIOUS
<1>1. PICK g : IsFlattening(g, tt) /\ FlattenSeq(tt) = g[n + 1]
  BY <1>0, FlattenDef
<1>2. /\ g[1] = tt[1]
      /\ \A i \in 2..(n + 1) : g[i] = g[i - 1] \o tt[i]
  <2>1. /\ Len(tt) > 0 => g[1] = tt[1]
        /\ \A i \in 2..Len(tt) : g[i] = g[i - 1] \o tt[i]
    BY <1>0, <1>1, FlatteningStep, ZenonT(60)
  <2>2. Len(tt) > 0
    BY <1>0
  <2> QED BY <1>0, <2>1, <2>2, Zenon
<1>3. CASE n = 0
  <2>1. ss = <<>> /\ FlattenSeq(ss) = ss
    BY <1>3 DEF FlattenSeq
  <2> QED BY <1>0, <1>1, <1>2, <1>3, <2>1
<1>4. CASE n # 0
  <2>1. PICK f : IsFlattening(f, ss) /\ FlattenSeq(ss) = f[n]
    BY <1>0, <1>4, FlattenDef
  <2>2. /\ f[1] = ss[1]
        /\ \A i \in 2..n : f[i] = f[i - 1] \o ss[i]
    <3>1. /\ n > 0 => f[1] = ss[1]
          /\ \A i \in 2..n : f[i] = f[i - 1] \o ss[i]
      BY <1>0, <2>1, FlatteningStep, ZenonT(60)
    <3>2. n > 0
      BY <1>0, <1>4
    <3> QED BY <3>1, <3>2
  <2>3. g[n] = f[n]
    <3> DEFINE T == {i \in 1..n : g[i] # f[i]}
    <3>1. SUFFICES ASSUME T # {} PROVE FALSE
      <4>1. n \in 1..n
        BY <1>0, <1>4
      <4> QED BY <4>1
    <3>2. PICK m \in T : \A k \in T : m <= k
      <4>1. T \subseteq 1..n /\ 1..n \subseteq Nat
        BY <1>0
      <4> HIDE DEF T
      <4> QED BY <3>1, <4>1, LeastNat
    <3>3. m \in 1..n /\ g[m] # f[m]
      OBVIOUS
    <3>4. m # 1
      BY <1>2, <2>2, <3>3
    <3>5. m \in 2..n /\ m \in 2..(n + 1) /\ m - 1 \in 1..n /\ m - 1 < m
      BY <1>0, <3>3, <3>4
    <3>6. g[m - 1] = f[m - 1]
      <4>1. m - 1 \notin T
        <5> HIDE DEF T
        <5> QED BY <3>2, <3>3, <3>5
      <4> QED BY <3>5, <4>1
    <3>7. tt[m] = ss[m]
      BY <3>3
    <3> QED BY <1>2, <2>2, <3>3, <3>5, <3>6, <3>7
  <2>4. g[n + 1] = g[n] \o tt[n + 1]
    <3>1. n + 1 \in 2..(n + 1) /\ (n + 1) - 1 = n
      BY <1>0, <1>4
    <3> QED BY <1>2, <3>1
  <2> QED BY <1>0, <1>1, <2>1, <2>3, <2>4
<1> QED BY <1>3, <1>4

IsTail(ss, tt) == Len(tt) = Len(ss) + 1 /\ \A i \in 1..Len(ss) : tt[i + 1] = ss[i]

\* The first of a sequence of sequences comes first.
LEMMA FlattenFirst ==
  ASSUME NEW Cell, NEW ss \in Seq(Seq(Cell)), NEW tt \in Seq(Seq(Cell)),
         IsTail(ss, tt)
  PROVE  FlattenSeq(tt) = tt[1] \o FlattenSeq(ss)
<1> DEFINE n == Len(ss)
<1>0. /\ n \in Nat /\ Len(tt) = n + 1 /\ Len(tt) \in Nat \ {0} /\ tt[1] \in Seq(Cell)
      /\ \A i \in 1..n : ss[i] \in Seq(Cell) /\ tt[i + 1] = ss[i]
  BY DEF IsTail
<1>1. PICK g : IsFlattening(g, tt) /\ FlattenSeq(tt) = g[n + 1]
  BY <1>0, FlattenDef
<1>2. /\ g[1] = tt[1]
      /\ \A i \in 2..(n + 1) : g[i] = g[i - 1] \o tt[i]
  <2>1. /\ Len(tt) > 0 => g[1] = tt[1]
        /\ \A i \in 2..Len(tt) : g[i] = g[i - 1] \o tt[i]
    BY <1>0, <1>1, FlatteningStep, ZenonT(60)
  <2>2. Len(tt) > 0
    BY <1>0
  <2> QED BY <1>0, <2>1, <2>2, Zenon
<1>3. CASE n = 0
  <2>1. ss = <<>> /\ FlattenSeq(ss) = ss
    BY <1>3 DEF FlattenSeq
  <2> QED BY <1>0, <1>1, <1>2, <1>3, <2>1
<1>4. CASE n # 0
  <2>1. PICK f : IsFlattening(f, ss) /\ FlattenSeq(ss) = f[n]
    BY <1>0, <1>4, FlattenDef
  <2>2. /\ f[1] = ss[1]
        /\ \A i \in 2..n : f[i] = f[i - 1] \o ss[i]
    <3>1. /\ n > 0 => f[1] = ss[1]
          /\ \A i \in 2..n : f[i] = f[i - 1] \o ss[i]
      BY <1>0, <2>1, FlatteningStep, ZenonT(60)
    <3>2. n > 0
      BY <1>0, <1>4
    <3> QED BY <3>1, <3>2
  <2>3. g[n + 1] = tt[1] \o f[n]
    <3> DEFINE T == {i \in 1..n : g[i + 1] # tt[1] \o f[i]}
    <3>1. SUFFICES ASSUME T # {} PROVE FALSE
      <4>1. n \in 1..n
        BY <1>0, <1>4
      <4> QED BY <4>1
    <3>2. PICK m \in T : \A k \in T : m <= k
      <4>1. T \subseteq 1..n
        BY Zenon
      <4>2. 1..n \subseteq Nat
        BY <1>0
      <4> HIDE DEF T
      <4> QED BY <3>1, <4>1, <4>2, LeastNat
    <3>3. m \in 1..n /\ g[m + 1] # tt[1] \o f[m]
      OBVIOUS
    <3>4. g[m + 1] = g[m] \o ss[m]
      <4>1. m + 1 \in 2..(n + 1) /\ (m + 1) - 1 = m
        BY <1>0, <3>3
      <4>2. tt[m + 1] = ss[m]
        BY <1>0, <3>3
      <4> QED BY <1>2, <4>1, <4>2
    <3>5. m # 1
      BY <1>2, <2>2, <3>3, <3>4
    <3>6. m \in 2..n /\ m - 1 \in 1..n /\ m - 1 < m /\ (m - 1) + 1 = m
      BY <1>0, <3>3, <3>5
    <3>7. g[m] = tt[1] \o f[m - 1]
      <4>1. m - 1 \notin T
        <5> HIDE DEF T
        <5> QED BY <3>2, <3>3, <3>6
      <4> QED BY <3>6, <4>1
    <3>8. f[m] = f[m - 1] \o ss[m]
      BY <2>2, <3>6
    <3>9. f[m - 1] \in Seq(Cell) /\ ss[m] \in Seq(Cell) /\ tt[1] \in Seq(Cell)
      BY <1>0, <2>1, <3>3, <3>6, FlatteningCells
    <3>10. g[m + 1] = tt[1] \o f[m]
      <4> DEFINE p == tt[1]
                 q == f[m - 1]
                 r == ss[m]
      <4>1. p \in Seq(Cell) /\ q \in Seq(Cell) /\ r \in Seq(Cell)
        BY <3>9
      <4> HIDE DEF p, q, r, T, n
      <4>2. (p \o q) \o r = p \o (q \o r)
        BY <4>1
      <4> QED BY <3>4, <3>7, <3>8, <4>2 DEF p, q, r
    <3> QED BY <3>3, <3>10
  <2> QED BY <1>1, <2>1, <2>3
<1> QED BY <1>3, <1>4
-----------------------------------------------------------------------------
\* append() leaves readerIndex_ or moves the content to the front.
LEMMA AppendReader ==
  ASSUME NEW Cell, Zero \in Cell, NEW b \in Buffers(Cell), NEW data \in Seq(Cell)
  PROVE  append(b, data).readerIndex_ \in {b.readerIndex_, kCheapPrepend}
<1> DEFINE d == ensureWritableBytes(b, Len(data))
<1>1. d \in Buffers(Cell)
  <2>1. Len(data) \in Nat
    OBVIOUS
  <2> QED BY <2>1, EnsureWritableContent
<1>2. d.readerIndex_ \in {b.readerIndex_, kCheapPrepend}
  <2>1. b = [buffer_ |-> b.buffer_, readerIndex_ |-> b.readerIndex_,
             writerIndex_ |-> b.writerIndex_]
    BY BufferFields
  <2> QED BY <2>1 DEF ensureWritableBytes, makeSpace
<1> HIDE DEF d
<1>3. write(d, data).readerIndex_ = d.readerIndex_
  <2>1. d = [buffer_ |-> d.buffer_, readerIndex_ |-> d.readerIndex_,
             writerIndex_ |-> d.writerIndex_]
    BY <1>1, BufferFields
  <2> QED BY <2>1 DEF write
<1>4. append(b, data) = write(d, data)
  BY DEF append, d
<1> QED BY <1>2, <1>3, <1>4

\* So do readFd() and retrieve().
LEMMA ReadFdReader ==
  ASSUME NEW Cell, Zero \in Cell, NEW b \in Buffers(Cell), NEW data \in Seq(Cell)
  PROVE  readFd(b, data).readerIndex_ \in {b.readerIndex_, kCheapPrepend}
<1> DEFINE n == writableBytes(b)
<1>0. n \in Nat /\ b.writerIndex_ \in Nat /\ b.writerIndex_ + n = Len(b.buffer_)
  BY BufferFields DEF writableBytes
<1>1. ASSUME NEW s PROVE write(b, s).readerIndex_ = b.readerIndex_
  <2>1. b = [buffer_ |-> b.buffer_, readerIndex_ |-> b.readerIndex_,
             writerIndex_ |-> b.writerIndex_]
    BY BufferFields
  <2> QED BY <2>1 DEF write
<1>2. CASE Len(data) <= n
  <2>1. readFd(b, data) = write(b, data)
    BY <1>2 DEF readFd
  <2> QED BY <1>1, <2>1
<1>3. CASE ~(Len(data) <= n)
  <2> DEFINE front == SubSeq(data, 1, n)
             back == SubSeq(data, n + 1, Len(data))
             d == write(b, front)
  <2>1. front \in Seq(Cell) /\ Len(front) = n /\ back \in Seq(Cell)
    <3> HIDE DEF n
    <3> QED BY <1>0, <1>3, SplitAt
  <2>2. readFd(b, data) = append([[b EXCEPT !.buffer_ = copyTo(@, b.writerIndex_, front)]
                                    EXCEPT !.writerIndex_ = Len(b.buffer_)], back)
    BY <1>3 DEF readFd
  <2> HIDE DEF front, back, n
  <2>3. [[b EXCEPT !.buffer_ = copyTo(@, b.writerIndex_, front)]
           EXCEPT !.writerIndex_ = Len(b.buffer_)] = d
    BY <1>0, <2>1, BufferFields DEF write
  <2>4. d \in Buffers(Cell)
    <3>1. Len(front) <= writableBytes(b)
      BY <1>0, <2>1 DEF n
    <3> QED BY <2>1, <3>1, WriteContent
  <2>5. d.readerIndex_ = b.readerIndex_
    BY <1>1
  <2> HIDE DEF d
  <2>6. readFd(b, data) = append(d, back)
    BY <2>2, <2>3
  <2> QED BY <2>1, <2>4, <2>5, <2>6, AppendReader
<1> QED BY <1>2, <1>3

\* The cells that can be in a buffer or in transit.
WordCells == UNION {ToSet(Int32(v)) : v \in Nat}
SumCells == UNION {ToSet(checksum(tag_ \o p)) : p \in Payloads}
PayloadCells == UNION {ToSet(p) : p \in Payloads}
Cells == {Zero} \cup ToSet(tag_) \cup PayloadCells \cup WordCells \cup SumCells

\* A sequence over such cells.
LEMMA CellsOfSeq ==
  ASSUME NEW s, s \in Seq(ToSet(s)), ToSet(s) \subseteq Cells
  PROVE  s \in Seq(Cells)
  OBVIOUS

\* The parts of a frame are sequences of cells, and words take Word of them.
LEMMA FrameParts ==
  ASSUME NEW p \in Payloads, NEW v \in Nat
  PROVE  /\ Zero \in Cells /\ Word \in Nat \ {0}
         /\ p \in Seq(Cells) /\ Len(p) \in Nat
         /\ tag_ \in Seq(Cells) /\ Len(tag_) = Word
         /\ Int32(v) \in Seq(Cells) /\ Len(Int32(v)) = Word
         /\ checksum(tag_ \o p) \in Seq(Cells) /\ Len(checksum(tag_ \o p)) = Word
<1>0. Word \in Nat \ {0}
  BY WordAssumption
<1>1. /\ Zero \in Cells /\ ToSet(tag_) \subseteq Cells /\ ToSet(p) \subseteq Cells
      /\ ToSet(Int32(v)) \subseteq Cells /\ ToSet(checksum(tag_ \o p)) \subseteq Cells
  <2>1. ToSet(p) \subseteq PayloadCells
    BY Zenon DEF PayloadCells
  <2>2. ToSet(Int32(v)) \subseteq WordCells
    BY Zenon DEF WordCells
  <2>3. ToSet(checksum(tag_ \o p)) \subseteq SumCells
    <3>1. ToSet(checksum(tag_ \o p)) \in {ToSet(checksum(tag_ \o q)) : q \in Payloads}
      OBVIOUS
    <3> QED BY <3>1 DEF SumCells
  <2> QED BY <2>1, <2>2, <2>3, Zenon DEF Cells
<1>2. p \in Seq(Cells)
  BY <1>1, PayloadsAssumption, CellsOfSeq
<1>3. tag_ \in Seq(Cells) /\ Len(tag_) = Word
  <2>1. tag_ \in Seq(ToSet(tag_)) /\ Len(tag_) = Word
    BY <1>0 DEF tag_, ToSet
  <2> QED BY <1>1, <2>1, CellsOfSeq
<1>4. Int32(v) \in Seq(Cells) /\ Len(Int32(v)) = Word
  <2>1. Int32(v) \in Seq(ToSet(Int32(v))) /\ Len(Int32(v)) = Word
    BY <1>0 DEF Int32, ToSet
  <2> QED BY <1>1, <2>1, CellsOfSeq
<1>5. checksum(tag_ \o p) \in Seq(Cells) /\ Len(checksum(tag_ \o p)) = Word
  <2> DEFINE c == tag_ \o p
  <2> HIDE DEF c
  <2>1. checksum(c) \in Seq(ToSet(checksum(c))) /\ Len(checksum(c)) = Word
    BY <1>0 DEF checksum, ToSet
  <2> QED BY <1>1, <2>1, CellsOfSeq DEF c
<1> QED BY <1>0, <1>1, <1>2, <1>3, <1>4, <1>5
\* The content of a buffer has readableBytes() cells.
LEMMA ContentCells ==
  ASSUME NEW Cell, NEW b \in Buffers(Cell)
  PROVE  /\ Content(b) \in Seq(Cell)
         /\ readableBytes(b) = Len(Content(b)) /\ readableBytes(b) \in Nat
<1> DEFINE v == b.buffer_
           r == b.readerIndex_
           w == b.writerIndex_
<1>1. v \in Seq(Cell) /\ r \in Nat /\ w \in Nat /\ r <= w /\ w <= Len(v)
  BY BufferFields
<1>2. Content(b) = SubSeq(v, r + 1, w) /\ readableBytes(b) = w - r
  BY DEF Content, readableBytes
<1> HIDE DEF v, r, w
<1> QED BY <1>1, <1>2, SliceCells

\* Two sequences are equal if their cells are.
LEMMA EqualSeqs ==
  ASSUME NEW Cell, NEW s \in Seq(Cell), NEW t \in Seq(Cell), Len(s) = Len(t),
         \A i \in 1..Len(s) : s[i] = t[i]
  PROVE  s = t
  OBVIOUS

\* The cells of a concatenation.
LEMMA ConcatCells ==
  ASSUME NEW Cell, NEW s \in Seq(Cell), NEW t \in Seq(Cell)
  PROVE  /\ Len(s \o t) = Len(s) + Len(t)
         /\ \A i \in 1..Len(s) : (s \o t)[i] = s[i]
         /\ \A i \in 1..Len(t) : (s \o t)[Len(s) + i] = t[i]
  OBVIOUS

\* The two parts of a concatenation.
LEMMA ConcatSlices ==
  ASSUME NEW Cell, NEW s \in Seq(Cell), NEW t \in Seq(Cell)
  PROVE  /\ s \o t \in Seq(Cell) /\ Len(s \o t) = Len(s) + Len(t)
         /\ SubSeq(s \o t, 1, Len(s)) = s
         /\ SubSeq(s \o t, Len(s) + 1, Len(s) + Len(t)) = t
<1> DEFINE u == s \o t
<1>1. /\ u \in Seq(Cell) /\ Len(u) = Len(s) + Len(t) /\ Len(s) \in Nat /\ Len(t) \in Nat
      /\ \A i \in 1..Len(s) : u[i] = s[i]
      /\ \A i \in 1..Len(t) : u[Len(s) + i] = t[i]
  OBVIOUS
<1> HIDE DEF u
<1>2. SubSeq(u, 1, Len(s)) = s
  <2> DEFINE a == SubSeq(u, 1, Len(s))
  <2>1. a \in Seq(Cell) /\ Len(a) = Len(s) /\ \A i \in 1..Len(s) : a[i] = u[i]
    BY <1>1
  <2> HIDE DEF a
  <2>2. a = s
    BY <1>1, <2>1, EqualSeqs
  <2> QED BY <2>2 DEF a
<1>3. SubSeq(u, Len(s) + 1, Len(s) + Len(t)) = t
  <2> DEFINE n == Len(s)
             m == Len(s) + Len(t)
             a == SubSeq(u, n + 1, m)
  <2>0. n \in Nat /\ m \in Nat /\ n <= m /\ m <= Len(u) /\ m - n = Len(t)
    BY <1>1
  <2>1. a \in Seq(Cell) /\ Len(a) = m - n /\ \A i \in 1..(m - n) : a[i] = u[n + i]
    <3> HIDE DEF n, m
    <3> QED BY <1>1, <2>0, SliceCells
  <2>2. \A i \in 1..Len(t) : a[i] = t[i]
    <3> HIDE DEF a
    <3> QED BY <1>1, <2>0, <2>1
  <2> HIDE DEF a
  <2>3. a = t
    BY <2>0, <2>1, <2>2, EqualSeqs
  <2> QED BY <2>3 DEF a
<1> QED BY <1>1, <1>2, <1>3 DEF u

\* The same cells, cut in two places.
SameStream(c, w, f, r) == c \o w = f \o r

\* Two ways to cut the same sequence: the shorter first part is the beginning of
\* the longer one, and what is cut off the longer one comes before its rest.
LEMMA CutTwice ==
  ASSUME NEW Cell, NEW c \in Seq(Cell), NEW w \in Seq(Cell), NEW f \in Seq(Cell),
         NEW r \in Seq(Cell), SameStream(c, w, f, r), Len(f) <= Len(c)
  PROVE  SubSeq(c, 1, Len(f)) = f /\ SubSeq(c, Len(f) + 1, Len(c)) \o w = r
<1> DEFINE n == Len(f)
           k == Len(c)
           a == SubSeq(c, 1, n)
           d == SubSeq(c, n + 1, k)
<1>0. n \in Nat /\ k \in Nat /\ n <= k /\ Len(w) \in Nat /\ Len(r) \in Nat
  OBVIOUS
<1>1. /\ a \in Seq(Cell) /\ Len(a) = n /\ \A i \in 1..n : a[i] = c[i]
      /\ d \in Seq(Cell) /\ Len(d) = k - n /\ \A i \in 1..(k - n) : d[i] = c[n + i]
  <2>1. a \in Seq(Cell) /\ Len(a) = n /\ \A i \in 1..n : a[i] = c[i]
    BY <1>0
  <2> HIDE DEF n, k
  <2>2. d \in Seq(Cell) /\ Len(d) = k - n /\ \A i \in 1..(k - n) : d[i] = c[n + i]
    BY <1>0, SliceCells DEF k
  <2> QED BY <2>1, <2>2
<1> HIDE DEF a, d
<1>2. /\ k + Len(w) = n + Len(r)
      /\ \A i \in 1..k : (c \o w)[i] = c[i]
      /\ \A i \in 1..Len(w) : (c \o w)[k + i] = w[i]
      /\ \A i \in 1..n : (c \o w)[i] = f[i]
      /\ \A i \in 1..Len(r) : (c \o w)[n + i] = r[i]
  <2>1. /\ Len(c \o w) = k + Len(w)
        /\ \A i \in 1..k : (c \o w)[i] = c[i]
        /\ \A i \in 1..Len(w) : (c \o w)[k + i] = w[i]
    BY ConcatCells
  <2>2. /\ Len(f \o r) = n + Len(r)
        /\ \A i \in 1..n : (f \o r)[i] = f[i]
        /\ \A i \in 1..Len(r) : (f \o r)[n + i] = r[i]
    BY ConcatCells
  <2>3. c \o w = f \o r
    BY DEF SameStream
  <2> QED BY <2>1, <2>2, <2>3, Zenon
<1>3. a = f
  <2>1. \A i \in 1..n : a[i] = f[i]
    BY <1>0, <1>1, <1>2
  <2> QED BY <1>1, <2>1, EqualSeqs
<1>4. r = d \o w
  <2>1. Len(r) = Len(d) + Len(w)
    BY <1>0, <1>1, <1>2
  <2>2. ASSUME NEW i \in 1..Len(d) PROVE r[i] = d[i]
    <3>1. i \in 1..Len(r) /\ n + i \in 1..k /\ i \in 1..(k - n)
      BY <1>0, <1>1, <2>1
    <3> QED BY <1>1, <1>2, <3>1, Zenon
  <2>3. ASSUME NEW i \in 1..Len(w) PROVE r[Len(d) + i] = w[i]
    <3>1. Len(d) + i \in 1..Len(r) /\ n + (Len(d) + i) = k + i
      BY <1>0, <1>1, <2>1
    <3>2. (c \o w)[n + (Len(d) + i)] = r[Len(d) + i]
      BY <1>2, <3>1, Zenon
    <3> QED BY <1>2, <3>1, <3>2, Zenon
  <2> QED BY <1>1, <2>1, <2>2, <2>3, ConcatBuilt
<1> QED BY <1>3, <1>4 DEF a, d
-----------------------------------------------------------------------------
\* A frame: the length, the tag, the message and the checksum.
Body(p) == (tag_ \o p) \o checksum(tag_ \o p)
BodyLen(p) == Len(p) + 2 * Word
FrameOf(p) == Int32(BodyLen(p)) \o Body(p)

\* The sizes of a frame and of what it is made of.
LEMMA FrameSizes ==
  ASSUME NEW p \in Payloads
  PROVE  /\ Zero \in Cells /\ Word \in Nat \ {0} /\ p \in Seq(Cells) /\ Len(p) \in Nat
         /\ BodyLen(p) \in Nat /\ BodyLen(p) = Len(p) + Word + Word
         /\ BodyLen(p) <= 2 * kMaxMessageLen
         /\ tag_ \o p \in Seq(Cells) /\ Len(tag_ \o p) = Word + Len(p)
         /\ Body(p) \in Seq(Cells) /\ Len(Body(p)) = BodyLen(p)
         /\ FrameOf(p) \in Seq(Cells) /\ Len(FrameOf(p)) = Word + BodyLen(p)
<1>1. /\ Zero \in Cells /\ Word \in Nat \ {0} /\ p \in Seq(Cells) /\ Len(p) \in Nat
      /\ tag_ \in Seq(Cells) /\ Len(tag_) = Word
      /\ checksum(tag_ \o p) \in Seq(Cells) /\ Len(checksum(tag_ \o p)) = Word
  <2>1. 0 \in Nat
    OBVIOUS
  <2> QED BY <2>1, FrameParts, Zenon
<1>2. /\ BodyLen(p) \in Nat /\ BodyLen(p) = Len(p) + Word + Word
      /\ BodyLen(p) <= 2 * kMaxMessageLen
  BY <1>1, PayloadsAssumption DEF BodyLen
<1>3. tag_ \o p \in Seq(Cells) /\ Len(tag_ \o p) = Word + Len(p)
  <2>1. tag_ \in Seq(Cells) /\ Len(tag_) = Word /\ p \in Seq(Cells)
    BY <1>1
  <2> QED BY <2>1
<1>4. Body(p) \in Seq(Cells) /\ Len(Body(p)) = BodyLen(p)
  <2> DEFINE t == tag_ \o p
             c == checksum(tag_ \o p)
  <2>1. t \in Seq(Cells) /\ c \in Seq(Cells) /\ Len(t) = Word + Len(p) /\ Len(c) = Word
    BY <1>1, <1>3
  <2>2. Body(p) = t \o c
    BY DEF Body
  <2> HIDE DEF t, c
  <2>3. t \o c \in Seq(Cells) /\ Len(t \o c) = Len(t) + Len(c)
    BY <2>1
  <2> QED BY <1>1, <1>2, <2>1, <2>2, <2>3
<1>5. FrameOf(p) \in Seq(Cells) /\ Len(FrameOf(p)) = Word + BodyLen(p)
  <2>1. Int32(BodyLen(p)) \in Seq(Cells) /\ Len(Int32(BodyLen(p))) = Word
    BY <1>2, FrameParts
  <2> QED BY <1>4, <2>1, ConcatSlices DEF FrameOf
<1> QED BY <1>1, <1>2, <1>3, <1>4, <1>5

\* fillEmptyBuffer() builds a frame: the length, which it knows last, fits into the room
\* in front of the buffer.
LEMMA FrameContent ==
  ASSUME NEW p \in Payloads
  PROVE  Content(fillEmptyBuffer(p)) = FrameOf(p)
<1> DEFINE b1 == append(newBuffer, tag_)
           b2 == append(b1, p)
           c  == checksum(Content(b2))
           b3 == append(b2, c)
           h  == Int32(readableBytes(b3))
<1>0. /\ Zero \in Cells /\ Word \in Nat \ {0} /\ p \in Seq(Cells)
      /\ tag_ \in Seq(Cells) /\ checksum(tag_ \o p) \in Seq(Cells)
      /\ tag_ \o p \in Seq(Cells) /\ Len(Body(p)) = BodyLen(p) /\ BodyLen(p) \in Nat
  <2>1. 0 \in Nat
    OBVIOUS
  <2> QED BY <2>1, FrameParts, FrameSizes, Zenon
<1>1. /\ newBuffer \in Buffers(Cells) /\ Content(newBuffer) = <<>>
      /\ newBuffer.readerIndex_ = kCheapPrepend
  BY <1>0, NewBuffer DEF newBuffer
<1>2. /\ b1 \in Buffers(Cells) /\ Content(b1) = tag_ /\ b1.readerIndex_ = kCheapPrepend
  <2>1. b1 \in Buffers(Cells) /\ Content(b1) = <<>> \o tag_
    BY <1>0, <1>1, AppendContent
  <2>2. b1.readerIndex_ = kCheapPrepend
    BY <1>0, <1>1, AppendReader
  <2>3. <<>> \o tag_ = tag_
    BY <1>0
  <2> QED BY <2>1, <2>2, <2>3
<1> HIDE DEF b1
<1>3. b2 \in Buffers(Cells) /\ Content(b2) = tag_ \o p /\ b2.readerIndex_ = kCheapPrepend
  <2>1. b2 \in Buffers(Cells) /\ Content(b2) = Content(b1) \o p
    BY <1>0, <1>2, AppendContent
  <2>2. b2.readerIndex_ = kCheapPrepend
    BY <1>0, <1>2, AppendReader
  <2> QED BY <1>2, <2>1, <2>2
<1> HIDE DEF b2
<1>4. b3 \in Buffers(Cells) /\ Content(b3) = Body(p) /\ b3.readerIndex_ = kCheapPrepend
  <2>1. c \in Seq(Cells) /\ c = checksum(tag_ \o p)
    BY <1>0, <1>3
  <2> HIDE DEF c
  <2>2. b3 \in Buffers(Cells) /\ Content(b3) = Content(b2) \o c
    BY <1>0, <1>3, <2>1, AppendContent
  <2>3. b3.readerIndex_ = kCheapPrepend
    BY <1>0, <1>3, <2>1, AppendReader
  <2> QED BY <1>3, <2>1, <2>2, <2>3 DEF Body
<1>5. readableBytes(b3) = BodyLen(p) /\ prependableBytes(b3) = kCheapPrepend
  <2>1. readableBytes(b3) = Len(Content(b3))
    <3> HIDE DEF b3
    <3> QED BY <1>4, ContentCells
  <2> QED BY <1>0, <1>4, <2>1 DEF prependableBytes
<1>6. fillEmptyBuffer(p) = prepend(b3, h)
  BY DEF fillEmptyBuffer, b1, b2
<1> HIDE DEF b3, c
<1>7. h \in Seq(Cells) /\ Len(h) <= prependableBytes(b3) /\ h = Int32(BodyLen(p))
  BY <1>0, <1>5, FrameParts, WordAssumption
<1> HIDE DEF h
<1>8. Content(prepend(b3, h)) = h \o Content(b3)
  BY <1>4, <1>7, PrependContent
<1> QED BY <1>4, <1>6, <1>7, <1>8 DEF FrameOf

\* asInt32() reads the number that was written.
LEMMA Int32Read ==
  ASSUME NEW v \in 0..(2 * kMaxMessageLen)
  PROVE  asInt32(Int32(v)) = v
<1>1. ASSUME NEW u \in 0..(2 * kMaxMessageLen), Int32(v) = Int32(u) PROVE v = u
  <2>1. Int32(v)[1] = <<"int", v, 1>> /\ Int32(u)[1] = <<"int", u, 1>>
    BY WordAssumption DEF Int32
  <2> QED BY <1>1, <2>1
<1> QED BY <1>1, Zenon DEF asInt32

\* parse() accepts the body of a frame and finds the message in it.
LEMMA BodyParses ==
  ASSUME NEW p \in Payloads
  PROVE  parse(Body(p)) /\ Payload(Body(p)) = p
<1> DEFINE t == tag_ \o p
           c == checksum(tag_ \o p)
           s == t \o c
           n == BodyLen(p)
<1>1. /\ Word \in Nat /\ p \in Seq(Cells) /\ tag_ \in Seq(Cells) /\ c \in Seq(Cells)
      /\ Len(tag_) = Word /\ Len(c) = Word /\ Len(p) \in Nat
      /\ t \in Seq(Cells) /\ Len(t) = Word + Len(p)
      /\ n \in Nat /\ n = Len(p) + Word + Word
      /\ Body(p) = s /\ Len(s) = n
  <2>1. 0 \in Nat
    OBVIOUS
  <2>2. Word \in Nat
    BY FrameSizes
  <2>3. Body(p) = s
    BY DEF Body
  <2> QED BY <2>1, <2>2, <2>3, FrameParts, FrameSizes, Zenon
<1>2. SubSeq(t, 1, Word) = tag_ /\ SubSeq(t, Word + 1, Word + Len(p)) = p
  BY <1>1, ConcatSlices
<1>3. SubSeq(s, 1, Len(t)) = t /\ SubSeq(s, Len(t) + 1, Len(t) + Len(c)) = c
  <2> HIDE DEF t, c
  <2> QED BY <1>1, ConcatSlices, SMTT(60)
<1> HIDE DEF t, c, s, n
<1>4. n - kChecksumLen = Len(t) /\ (n - kChecksumLen) + 1 = Len(t) + 1 /\ Len(t) + Len(c) = n
  BY <1>1 DEF kChecksumLen
<1>5. validateChecksum(s)
  <2>1. SubSeq(s, Len(s) - kChecksumLen + 1, Len(s)) = c
    BY <1>1, <1>3, <1>4
  <2>2. SubSeq(s, 1, Len(s) - kChecksumLen) = t
    BY <1>1, <1>3, <1>4
  <2> QED BY <2>1, <2>2 DEF validateChecksum, c, t
<1>6. SubSeq(s, 1, Word) = tag_ /\ SubSeq(s, Word + 1, Len(t)) = p
  <2>1. s \in Seq(Cells) /\ Len(s) = Len(t) + Word /\ \A i \in 1..Len(t) : s[i] = t[i]
    <3>1. s \in Seq(Cells) /\ \A i \in 1..Len(t) : s[i] = t[i]
      BY <1>1, ConcatCells, ConcatSlices DEF s
    <3> QED BY <1>1, <3>1
  <2>2. SubSeq(s, 0 + 1, Word) = SubSeq(t, 0 + 1, Word)
    BY <1>1, <2>1, EqualSlices
  <2>3. SubSeq(s, Word + 1, Len(t)) = SubSeq(t, Word + 1, Len(t))
    BY <1>1, <2>1, EqualSlices
  <2> QED BY <1>1, <1>2, <2>2, <2>3
<1> QED BY <1>1, <1>4, <1>5, <1>6 DEF parse, Payload
-----------------------------------------------------------------------------
\* The frames of the messages of s behind the first k.
Frames(s, k) == [i \in 1..(Len(s) - k) |-> Content(fillEmptyBuffer(s[k + i]))]

\* They are frames.
LEMMA FramesType ==
  ASSUME NEW s \in Seq(Payloads), NEW k \in 0..Len(s)
  PROVE  /\ Frames(s, k) \in Seq(Seq(Cells)) /\ Len(Frames(s, k)) = Len(s) - k
         /\ \A i \in 1..(Len(s) - k) : /\ Frames(s, k)[i] = FrameOf(s[k + i])
                                       /\ s[k + i] \in Payloads
<1> DEFINE n == Len(s) - k
           F == [i \in 1..n |-> Content(fillEmptyBuffer(s[k + i]))]
<1>1. n \in Nat /\ \A i \in 1..n : s[k + i] \in Payloads
  OBVIOUS
<1>2. \A i \in 1..n : F[i] = FrameOf(s[k + i])
  <2> HIDE DEF n
  <2> QED BY <1>1, FrameContent
<1>3. \A i \in 1..n : F[i] \in Seq(Cells)
  <2> HIDE DEF F
  <2> QED BY <1>1, <1>2, FrameSizes
<1>4. F \in Seq(Seq(Cells)) /\ Len(F) = n
  <2>1. F = [i \in 1..n |-> F[i]]
    OBVIOUS
  <2> HIDE DEF F, n
  <2>2. F \in [1..n -> Seq(Cells)]
    BY <1>3, <2>1, Zenon
  <2> DEFINE Q == Seq(Cells)
  <2> HIDE DEF Q
  <2>3. F \in [1..n -> Q]
    BY <2>2 DEF Q
  <2>4. F \in Seq(Q) /\ Len(F) = n
    BY <1>1, <2>3
  <2> QED BY <2>4 DEF Q
<1>5. Frames(s, k) = F
  BY DEF Frames
<1> HIDE DEF F
<1> QED BY <1>1, <1>2, <1>4, <1>5

\* send() puts a frame behind the others.
LEMMA FramesSend ==
  ASSUME NEW s \in Seq(Payloads), NEW k \in 0..Len(s), NEW p \in Payloads
  PROVE  FlattenSeq(Frames(Append(s, p), k)) = FlattenSeq(Frames(s, k)) \o FrameOf(p)
<1> DEFINE t == Append(s, p)
           S == Frames(s, k)
           T == Frames(t, k)
           n == Len(s) - k
<1>1. /\ t \in Seq(Payloads) /\ k \in 0..Len(t) /\ Len(t) - k = n + 1 /\ n \in Nat
      /\ t[k + (n + 1)] = p /\ \A i \in 1..n : t[k + i] = s[k + i]
  OBVIOUS
<1> HIDE DEF t
<1>2. /\ S \in Seq(Seq(Cells)) /\ Len(S) = n
      /\ \A i \in 1..n : S[i] = FrameOf(s[k + i])
  BY FramesType, Zenon
<1>3. /\ T \in Seq(Seq(Cells)) /\ Len(T) = n + 1
      /\ \A i \in 1..(n + 1) : T[i] = FrameOf(t[k + i])
  <2>1. /\ T \in Seq(Seq(Cells)) /\ Len(T) = Len(t) - k
        /\ \A i \in 1..(Len(t) - k) : T[i] = FrameOf(t[k + i])
    BY <1>1, FramesType, Zenon
  <2> QED BY <1>1, <2>1, Zenon
<1> HIDE DEF S, T, n
<1>4. T[n + 1] = FrameOf(p)
  <2>1. n + 1 \in 1..(n + 1)
    BY <1>1
  <2> QED BY <1>1, <1>3, <2>1, Zenon
<1>5. \A i \in 1..n : T[i] = S[i]
  <2>1. \A i \in 1..n : i \in 1..(n + 1)
    BY <1>1
  <2> QED BY <1>1, <1>2, <1>3, <2>1, Zenon
<1>6. FlattenSeq(T) = FlattenSeq(S) \o T[Len(T)]
  BY <1>2, <1>3, <1>5, FlattenLast, Zenon
<1> QED BY <1>3, <1>4, <1>6 DEF S, T, t

\* The next frame is the one of the next message.
LEMMA FramesNext ==
  ASSUME NEW s \in Seq(Payloads), NEW k \in 0..Len(s), k < Len(s)
  PROVE  FlattenSeq(Frames(s, k)) = FrameOf(s[k + 1]) \o FlattenSeq(Frames(s, k + 1))
<1> DEFINE S == Frames(s, k + 1)
           T == Frames(s, k)
           n == Len(s) - (k + 1)
<1>1. k + 1 \in 0..Len(s) /\ n \in Nat /\ Len(s) - k = n + 1
  OBVIOUS
<1>2. /\ S \in Seq(Seq(Cells)) /\ Len(S) = n
      /\ \A i \in 1..n : S[i] = FrameOf(s[(k + 1) + i])
  BY <1>1, FramesType, Zenon
<1>3. /\ T \in Seq(Seq(Cells)) /\ Len(T) = n + 1
      /\ \A i \in 1..(n + 1) : T[i] = FrameOf(s[k + i])
  <2>1. /\ T \in Seq(Seq(Cells)) /\ Len(T) = Len(s) - k
        /\ \A i \in 1..(Len(s) - k) : T[i] = FrameOf(s[k + i])
    BY FramesType, Zenon
  <2> QED BY <1>1, <2>1, Zenon
<1> HIDE DEF S, T, n
<1>4. T[1] = FrameOf(s[k + 1])
  <2>1. 1 \in 1..(n + 1)
    BY <1>1
  <2> QED BY <1>3, <2>1, Zenon
<1>5. \A i \in 1..n : T[i + 1] = S[i]
  <2>1. \A i \in 1..n : i + 1 \in 1..(n + 1) /\ k + (i + 1) = (k + 1) + i
    BY <1>1
  <2> QED BY <1>2, <1>3, <2>1, Zenon
<1>6. IsTail(S, T)
  BY <1>2, <1>3, <1>5, Zenon DEF IsTail
<1>7. FlattenSeq(T) = T[1] \o FlattenSeq(S)
  BY <1>2, <1>3, <1>6, FlattenFirst, Zenon
<1> QED BY <1>4, <1>7 DEF S, T

\* Nothing follows the last message.
LEMMA FramesNone ==
  ASSUME NEW s \in Seq(Payloads)
  PROVE  FlattenSeq(Frames(s, Len(s))) = <<>>
<1> DEFINE F == Frames(s, Len(s))
<1>1. F \in Seq(Seq(Cells)) /\ Len(F) = 0
  <2>1. Len(s) \in 0..Len(s) /\ Len(s) - Len(s) = 0
    OBVIOUS
  <2> QED BY <2>1, FramesType, Zenon
<1> HIDE DEF F
<1>2. F = <<>>
  BY <1>1
<1>3. FlattenSeq(F) = F
  BY <1>1 DEF FlattenSeq
<1> QED BY <1>2, <1>3 DEF F

\* A prefix, place by place.
LEMMA PrefixPlaces ==
  ASSUME NEW S, NEW s \in Seq(S), NEW t \in Seq(S)
  PROVE  IsPrefix(s, t) <=> Len(s) <= Len(t) /\ \A i \in 1..Len(s) : s[i] = t[i]
<1>1. SubSeq(s, 1, Len(s)) = s
  OBVIOUS
<1>2. ASSUME Len(s) <= Len(t)
      PROVE  SubSeq(t, 1, Len(s)) = s <=> \A i \in 1..Len(s) : s[i] = t[i]
  <2> DEFINE a == SubSeq(t, 1, Len(s))
  <2>1. a \in Seq(S) /\ Len(a) = Len(s) /\ \A i \in 1..Len(s) : a[i] = t[i]
    BY <1>2
  <2> HIDE DEF a
  <2>2. a = s <=> \A i \in 1..Len(s) : s[i] = t[i]
    <3>1. ASSUME \A i \in 1..Len(s) : s[i] = t[i] PROVE a = s
      BY <2>1, <3>1, EqualSeqs
    <3> QED BY <2>1, <3>1, Zenon
  <2> QED BY <2>2 DEF a
<1> QED BY <1>1, <1>2, Zenon DEF IsPrefix
-----------------------------------------------------------------------------
\* The types of the variables, with the buffer's own invariant.
CodecTypes ==
  /\ sent \in Seq(Payloads) /\ received \in Seq(Payloads)
  /\ parsing \in BOOLEAN
  /\ inputBuffer_ \in Buffers(Cells) /\ kCheapPrepend <= inputBuffer_.readerIndex_
  /\ wire \in Seq(Cells)

\* What is proved of every reachable state.
CodecInv == CodecTypes /\ InputIsStream /\ NothingLeftBehind

\* What the stream is, by the messages that were not received.
LEMMA StreamIs ==
  ASSUME CodecTypes, InputIsStream
  PROVE  /\ Len(received) \in 0..Len(sent)
         /\ \A i \in 1..Len(received) : received[i] = sent[i]
         /\ Content(inputBuffer_) \o wire = FlattenSeq(Frames(sent, Len(received)))
         /\ Len(received) = Len(sent) => received = sent
<1>1. sent \in Seq(Payloads) /\ received \in Seq(Payloads)
  BY DEF CodecTypes
<1>2. Len(received) <= Len(sent) /\ \A i \in 1..Len(received) : received[i] = sent[i]
  BY <1>1, PrefixPlaces DEF InputIsStream
<1>3. Content(inputBuffer_) \o wire = FlattenSeq(Frames(sent, Len(received)))
  BY DEF InputIsStream, Frames
<1>4. Len(received) = Len(sent) => received = sent
  BY <1>1, <1>2, EqualSeqs
<1>5. Len(received) \in 0..Len(sent)
  BY <1>1, <1>2
<1> QED BY <1>2, <1>3, <1>4, <1>5

\* The stream once a message is waiting: it begins with that message's frame.
LEMMA NextFrame ==
  ASSUME CodecTypes, InputIsStream, Len(received) < Len(sent)
  PROVE  LET q == sent[Len(received) + 1]
             rest == FlattenSeq(Frames(sent, Len(received) + 1))
         IN  /\ q \in Payloads /\ rest \in Seq(Cells)
             /\ SameStream(Content(inputBuffer_), wire, FrameOf(q), rest)
             /\ SameStream(Content(inputBuffer_), wire, Int32(BodyLen(q)), Body(q) \o rest)
<1> DEFINE k == Len(received)
           q == sent[k + 1]
           rest == FlattenSeq(Frames(sent, k + 1))
           c == Content(inputBuffer_)
<1>1. /\ sent \in Seq(Payloads) /\ k \in 0..Len(sent) /\ k < Len(sent)
      /\ c \o wire = FlattenSeq(Frames(sent, k))
  BY StreamIs DEF CodecTypes
<1>2. q \in Payloads /\ k + 1 \in 0..Len(sent)
  <2> HIDE DEF k
  <2> QED BY <1>1
<1>3. rest \in Seq(Cells)
  <2> HIDE DEF k
  <2> QED BY <1>1, <1>2, FramesType, FlattenCells
<1>4. c \o wire = FrameOf(q) \o rest
  <2>1. FlattenSeq(Frames(sent, k)) = FrameOf(q) \o rest
    <3> HIDE DEF k
    <3> QED BY <1>1, FramesNext
  <2> QED BY <1>1, <2>1
<1> HIDE DEF q, rest, c
<1>5. FrameOf(q) \o rest = Int32(BodyLen(q)) \o (Body(q) \o rest)
  <2> DEFINE x == Int32(BodyLen(q))
             y == Body(q)
             z == rest
  <2>1. x \in Seq(Cells) /\ y \in Seq(Cells) /\ z \in Seq(Cells)
    BY <1>2, <1>3, FrameSizes, FrameParts
  <2>2. FrameOf(q) = x \o y
    BY DEF FrameOf
  <2> HIDE DEF x, y, z
  <2>3. (x \o y) \o z = x \o (y \o z)
    BY <2>1
  <2> QED BY <2>2, <2>3 DEF x, y, z
<1>6. SameStream(c, wire, FrameOf(q), rest)
  BY <1>4 DEF SameStream
<1>7. SameStream(c, wire, Int32(BodyLen(q)), Body(q) \o rest)
  BY <1>4, <1>5 DEF SameStream
<1> QED BY <1>2, <1>3, <1>6, <1>7 DEF q, rest, c

\* onMessage() reads that frame's length, if it is not too long.
LEMMA LengthRead ==
  ASSUME CodecTypes, InputIsStream, Len(received) < Len(sent),
         readableBytes(inputBuffer_) >= kMinMessageLen + kHeaderLen
  PROVE  LET n == BodyLen(sent[Len(received) + 1])
         IN  NextLen = IF n <= kMaxMessageLen THEN n ELSE Invalid
<1> DEFINE q == sent[Len(received) + 1]
           n == BodyLen(q)
           rest == FlattenSeq(Frames(sent, Len(received) + 1))
           c == Content(inputBuffer_)
<1>1. /\ q \in Payloads /\ rest \in Seq(Cells)
      /\ SameStream(c, wire, Int32(n), Body(q) \o rest)
  BY NextFrame
<1>2. c \in Seq(Cells) /\ wire \in Seq(Cells) /\ Len(c) = readableBytes(inputBuffer_)
  BY ContentCells DEF CodecTypes
<1> HIDE DEF c, q, rest
<1>3. /\ n \in Nat /\ Word \in Nat \ {0} /\ n >= Word /\ n <= 2 * kMaxMessageLen
      /\ Int32(n) \in Seq(Cells) /\ Len(Int32(n)) = Word /\ Body(q) \in Seq(Cells)
  <2>1. /\ n \in Nat /\ Word \in Nat \ {0} /\ n = Len(q) + Word + Word /\ Len(q) \in Nat
        /\ n <= 2 * kMaxMessageLen /\ Body(q) \in Seq(Cells)
    BY <1>1, FrameSizes, Zenon
  <2>2. Int32(n) \in Seq(Cells) /\ Len(Int32(n)) = Word
    BY <1>1, <2>1, FrameParts, Zenon
  <2>3. n >= Word
    <3> HIDE DEF n
    <3> QED BY <2>1
  <2> QED BY <2>1, <2>2, <2>3
<1> HIDE DEF n
<1>4. Body(q) \o rest \in Seq(Cells)
  <2> DEFINE x == Body(q)
  <2>1. x \in Seq(Cells)
    BY <1>3
  <2> HIDE DEF x
  <2>2. x \o rest \in Seq(Cells)
    BY <1>1, <2>1
  <2> QED BY <2>2 DEF x
<1>5. SubSeq(c, 1, Word) = Int32(n)
  <2>1. Len(Int32(n)) <= Len(c)
    BY <1>2, <1>3 DEF kMinMessageLen, kHeaderLen
  <2>2. SubSeq(c, 1, Len(Int32(n))) = Int32(n)
    BY <1>1, <1>2, <1>3, <1>4, <2>1, CutTwice, Zenon
  <2> QED BY <1>3, <2>2
<1>6. asInt32(SubSeq(Content(inputBuffer_), 1, kHeaderLen)) = n
  <2>1. n \in 0..(2 * kMaxMessageLen)
    BY <1>3, BoundsAssumption
  <2> QED BY <1>5, <2>1, Int32Read DEF c, kHeaderLen
<1>7. n \in kMinMessageLen..kMaxMessageLen <=> n <= kMaxMessageLen
  BY <1>3, BoundsAssumption DEF kMinMessageLen
<1>8. NextLen = IF n <= kMaxMessageLen THEN n ELSE Invalid
  BY <1>6, <1>7, Zenon DEF NextLen
<1> QED BY <1>8 DEF n, q

\* When that frame is complete, it is what onMessage() parses, and retrieve() leaves the
\* stream of the messages behind it.
LEMMA FrameRead ==
  ASSUME CodecTypes, InputIsStream, Len(received) < Len(sent),
         complete(BodyLen(sent[Len(received) + 1]))
  PROVE  LET n == BodyLen(sent[Len(received) + 1])
             c == Content(inputBuffer_)
         IN  /\ n \in Nat /\ Frame(n) = Body(sent[Len(received) + 1])
             /\ SubSeq(c, (kHeaderLen + n) + 1, Len(c)) \o wire
                  = FlattenSeq(Frames(sent, Len(received) + 1))
<1> DEFINE q == sent[Len(received) + 1]
           n == BodyLen(q)
           rest == FlattenSeq(Frames(sent, Len(received) + 1))
           c == Content(inputBuffer_)
           f == FrameOf(q)
           m == Word + n
<1>1. q \in Payloads /\ rest \in Seq(Cells) /\ SameStream(c, wire, f, rest)
  BY NextFrame
<1>2. c \in Seq(Cells) /\ wire \in Seq(Cells) /\ Len(c) = readableBytes(inputBuffer_)
  BY ContentCells DEF CodecTypes
<1> HIDE DEF c, q, rest
<1>3. /\ n \in Nat /\ Word \in Nat /\ f \in Seq(Cells) /\ Len(f) = m
      /\ Int32(n) \in Seq(Cells) /\ Len(Int32(n)) = Word
      /\ Body(q) \in Seq(Cells) /\ Len(Body(q)) = n
  <2>1. /\ n \in Nat /\ Word \in Nat \ {0} /\ f \in Seq(Cells) /\ Len(f) = m
        /\ Body(q) \in Seq(Cells) /\ Len(Body(q)) = n
    BY <1>1, FrameSizes, Zenon
  <2>2. Int32(n) \in Seq(Cells) /\ Len(Int32(n)) = Word
    BY <1>1, <2>1, FrameParts, Zenon
  <2> QED BY <2>1, <2>2
<1>4. Len(f) <= Len(c)
  BY <1>2, <1>3 DEF complete, kHeaderLen, n, q
<1>5. SubSeq(c, 1, Len(f)) = f /\ SubSeq(c, Len(f) + 1, Len(c)) \o wire = rest
  BY <1>1, <1>2, <1>3, <1>4, CutTwice, Zenon
<1>6. SubSeq(f, Word + 1, Word + n) = Body(q)
  <2> DEFINE x == Int32(n)
             y == Body(q)
  <2>1. x \in Seq(Cells) /\ y \in Seq(Cells) /\ Len(x) = Word /\ Len(y) = n /\ f = x \o y
    BY <1>3 DEF FrameOf
  <2> HIDE DEF x, y, f, n
  <2>2. SubSeq(x \o y, Len(x) + 1, Len(x) + Len(y)) = y
    BY <2>1, ConcatSlices, SMTT(60)
  <2> QED BY <2>1, <2>2 DEF y
<1> HIDE DEF f, n
<1>7. SubSeq(c, Word + 1, m) = SubSeq(f, Word + 1, m)
  <2>1. m \in Nat /\ Word <= m /\ m <= Len(f) /\ m <= Len(c)
    BY <1>2, <1>3, <1>4
  <2>2. \A i \in 1..Len(f) : c[i] = f[i]
    <3> DEFINE a == SubSeq(c, 1, Len(f))
    <3>1. \A i \in 1..Len(f) : a[i] = c[i]
      BY <1>2, <1>3, <1>4
    <3> QED BY <1>5, <3>1
  <2>3. \A i \in 1..(m - Word) : c[Word + i] = f[Word + i]
    <3>1. \A i \in 1..(m - Word) : Word + i \in 1..Len(f)
      BY <1>3, <2>1
    <3> QED BY <2>2, <3>1
  <2> HIDE DEF m
  <2>4. c \in Seq(Cells) /\ f \in Seq(Cells) /\ Word \in Nat /\ m - Word = m - Word
    BY <1>2, <1>3
  <2> QED BY <2>1, <2>3, <2>4, EqualSlices, SMTT(60)
<1>8. Frame(n) = Body(q)
  BY <1>6, <1>7 DEF Frame, kHeaderLen, c
<1>9. SubSeq(c, (kHeaderLen + n) + 1, Len(c)) \o wire = rest
  BY <1>3, <1>5 DEF kHeaderLen
<1> QED BY <1>3, <1>8, <1>9 DEF n, q, c, rest

\* A message that is dispatched is the next one that was sent.
LEMMA Dispatched ==
  ASSUME CodecTypes, InputIsStream, CanDispatch
  PROVE  /\ Len(received) < Len(sent)
         /\ NextLen = BodyLen(sent[Len(received) + 1])
         /\ complete(BodyLen(sent[Len(received) + 1]))
<1>1. readableBytes(inputBuffer_) >= kMinMessageLen + kHeaderLen
  BY DEF CanDispatch, NextLen
<1>2. Len(received) < Len(sent)
  <2>1. Len(received) \in 0..Len(sent) /\ sent \in Seq(Payloads)
    BY StreamIs DEF CodecTypes
  <2>2. SUFFICES ASSUME Len(received) = Len(sent) PROVE FALSE
    BY <2>1
  <2> DEFINE c == Content(inputBuffer_)
  <2>3. c \o wire = <<>>
    BY <2>1, <2>2, StreamIs, FramesNone
  <2>4. c \in Seq(Cells) /\ wire \in Seq(Cells) /\ Len(c) = readableBytes(inputBuffer_)
    BY ContentCells DEF CodecTypes
  <2> HIDE DEF c
  <2>5. Len(c) = 0
    <3>1. Len(c \o wire) = Len(c) + Len(wire) /\ Len(c) \in Nat /\ Len(wire) \in Nat
      BY <2>4
    <3>2. Len(c \o wire) = 0
      BY <2>3
    <3> QED BY <3>1, <3>2
  <2> QED BY <1>1, <2>4, <2>5, WordAssumption DEF kMinMessageLen, kHeaderLen
<1>3. NextLen = BodyLen(sent[Len(received) + 1])
  BY <1>1, <1>2, LengthRead, Zenon DEF CanDispatch
<1> QED BY <1>2, <1>3 DEF CanDispatch
-----------------------------------------------------------------------------
\* The initial state.
LEMMA CodecInit == Init => CodecInv
<1> SUFFICES ASSUME Init PROVE CodecInv
  OBVIOUS
<1>1. Zero \in Cells
  BY Zenon DEF Cells
<1>2. newBuffer \in Buffers(Cells) /\ Content(newBuffer) = <<>>
  BY <1>1, NewBuffer
<1>3. newBuffer.readerIndex_ = kCheapPrepend /\ kCheapPrepend \in Nat
  BY SizesAssumption DEF newBuffer
<1>4. /\ sent = <<>> /\ received = <<>> /\ wire = <<>> /\ inputBuffer_ = newBuffer
      /\ parsing = FALSE
  BY DEF Init
<1>5. CodecTypes
  <2>1. <<>> \in Seq(Payloads) /\ <<>> \in Seq(Cells)
    OBVIOUS
  <2>2. kCheapPrepend <= inputBuffer_.readerIndex_
    BY <1>3, <1>4
  <2> QED BY <1>2, <1>4, <2>1, <2>2, Zenon DEF CodecTypes
<1>6. InputIsStream
  <2>1. IsPrefix(received, sent)
    <3>1. received \in Seq(Payloads) /\ sent \in Seq(Payloads)
      BY <1>5 DEF CodecTypes
    <3>2. Len(received) <= Len(sent) /\ \A i \in 1..Len(received) : received[i] = sent[i]
      BY <1>4
    <3> QED BY <3>1, <3>2, PrefixPlaces, Zenon
  <2>2. Content(inputBuffer_) \o wire = <<>>
    BY <1>2, <1>4
  <2>3. FlattenSeq(Frames(sent, Len(received))) = <<>>
    BY <1>4, <1>5, FramesNone DEF CodecTypes
  <2> QED BY <2>1, <2>2, <2>3 DEF InputIsStream, Frames
<1>7. NothingLeftBehind
  BY <1>4 DEF NothingLeftBehind
<1> QED BY <1>5, <1>6, <1>7 DEF CodecInv

\* send() puts a frame at the end of the stream.
LEMMA SendKeeps ==
  ASSUME CodecInv, NEW p \in Payloads, send(p)
  PROVE  CodecInv'
<1>1. CodecTypes /\ InputIsStream
  BY DEF CodecInv
<1>2. /\ wire' = wire \o FrameOf(p) /\ sent' = Append(sent, p)
      /\ received' = received /\ inputBuffer_' = inputBuffer_ /\ parsing' = parsing
  BY FrameContent DEF send
<1>3. /\ sent \in Seq(Payloads) /\ received \in Seq(Payloads) /\ wire \in Seq(Cells)
      /\ inputBuffer_ \in Buffers(Cells) /\ kCheapPrepend <= inputBuffer_.readerIndex_
      /\ parsing \in BOOLEAN
  BY <1>1 DEF CodecTypes
<1> DEFINE f == FrameOf(p)
           c == Content(inputBuffer_)
           k == Len(received)
           t == Append(sent, p)
<1>4. f \in Seq(Cells) /\ Len(f) \in Nat \ {0} /\ c \in Seq(Cells)
  <2>1. f \in Seq(Cells) /\ Len(f) = Word + BodyLen(p) /\ Word \in Nat \ {0} /\ BodyLen(p) \in Nat
    BY FrameSizes
  <2> QED BY <1>3, <2>1, ContentCells
<1> HIDE DEF f, c
<1>5. wire \o f \in Seq(Cells) /\ Len(wire \o f) # 0
  BY <1>3, <1>4
<1>6. /\ t \in Seq(Payloads) /\ Len(t) = Len(sent) + 1 /\ Len(sent) \in Nat
      /\ \A i \in 1..Len(sent) : t[i] = sent[i]
  BY <1>3
<1> HIDE DEF t
<1>7. CodecTypes'
  BY <1>2, <1>3, <1>5, <1>6, Zenon DEF CodecTypes, f, t
<1>8. InputIsStream'
  <2>1. /\ k \in 0..Len(sent) /\ \A i \in 1..k : received[i] = sent[i]
        /\ c \o wire = FlattenSeq(Frames(sent, k))
    BY <1>1, StreamIs DEF c
  <2> HIDE DEF k
  <2>2. c \o (wire \o f) = FlattenSeq(Frames(t, k))
    <3>1. FlattenSeq(Frames(t, k)) = FlattenSeq(Frames(sent, k)) \o f
      BY <1>3, <2>1, FramesSend DEF t, f
    <3>2. (c \o wire) \o f = c \o (wire \o f)
      BY <1>3, <1>4
    <3> QED BY <2>1, <3>1, <3>2
  <2>3. IsPrefix(received, t)
    <3>1. Len(received) <= Len(t) /\ \A i \in 1..Len(received) : received[i] = t[i]
      BY <1>6, <2>1 DEF k
    <3> QED BY <1>3, <1>6, <3>1, PrefixPlaces, Zenon
  <2>4. /\ Content(inputBuffer_') = c /\ wire' = wire \o f /\ sent' = t /\ received' = received
        /\ Len(received') = k
    BY <1>2 DEF c, f, t, k
  <2>5. Content(inputBuffer_') \o wire' = FlattenSeq(Frames(sent', Len(received')))
    BY <2>2, <2>4
  <2> QED BY <2>3, <2>4, <2>5 DEF InputIsStream, Frames
<1>9. NothingLeftBehind'
  <2>1. wire' # <<>>
    <3>1. Len(wire') # 0
      BY <1>2, <1>5 DEF f
    <3> QED BY <3>1
  <2> QED BY <2>1 DEF NothingLeftBehind
<1> QED BY <1>7, <1>8, <1>9 DEF CodecInv

\* handleRead() moves the front of what is in transit to the end of the buffer.
LEMMA ReadKeeps ==
  ASSUME CodecInv, NEW n \in 1..Len(wire), handleRead(n)
  PROVE  CodecInv'
<1> DEFINE data == SubSeq(wire, 1, n)
           back == SubSeq(wire, n + 1, Len(wire))
           c == Content(inputBuffer_)
<1>1. CodecTypes /\ InputIsStream
  BY DEF CodecInv
<1>2. /\ inputBuffer_' = readFd(inputBuffer_, data) /\ wire' = back /\ parsing' = TRUE
      /\ sent' = sent /\ received' = received
  BY DEF handleRead
<1>3. /\ sent \in Seq(Payloads) /\ received \in Seq(Payloads) /\ wire \in Seq(Cells)
      /\ inputBuffer_ \in Buffers(Cells) /\ kCheapPrepend <= inputBuffer_.readerIndex_
  BY <1>1 DEF CodecTypes
<1>4. data \in Seq(Cells) /\ back \in Seq(Cells) /\ data \o back = wire
  <2>1. n \in Nat /\ n <= Len(wire) /\ Len(wire) \in Nat
    BY <1>3
  <2>2. CASE n = Len(wire)
    <3>1. data = wire /\ back = <<>>
      BY <1>3, <2>1, <2>2
    <3> HIDE DEF data, back
    <3> QED BY <1>3, <3>1
  <2>3. CASE n # Len(wire)
    BY <1>3, <2>1, <2>3, SplitAt
  <2> QED BY <2>2, <2>3
<1> HIDE DEF data, back
<1>5. Zero \in Cells
  BY Zenon DEF Cells
<1>6. inputBuffer_' \in Buffers(Cells) /\ Content(inputBuffer_') = c \o data
  BY <1>2, <1>3, <1>4, <1>5, ReadFdContent
<1>7. kCheapPrepend <= inputBuffer_'.readerIndex_
  <2>1. inputBuffer_'.readerIndex_ \in {inputBuffer_.readerIndex_, kCheapPrepend}
    BY <1>2, <1>3, <1>4, <1>5, ReadFdReader
  <2>2. kCheapPrepend <= kCheapPrepend
    BY SizesAssumption
  <2> QED BY <1>3, <2>1, <2>2, Zenon
<1>8. CodecTypes'
  <2>1. parsing' \in BOOLEAN
    BY <1>2
  <2> QED BY <1>2, <1>3, <1>4, <1>6, <1>7, <2>1, Zenon DEF CodecTypes
<1>9. InputIsStream'
  <2>1. c \in Seq(Cells)
    BY <1>3, ContentCells
  <2> HIDE DEF c
  <2>2. (c \o data) \o back = c \o (data \o back)
    <3>1. data \in Seq(Cells) /\ back \in Seq(Cells)
      BY <1>4
    <3> QED BY <2>1, <3>1
  <2>3. Content(inputBuffer_') \o wire' = c \o wire
    BY <1>2, <1>4, <1>6, <2>2
  <2>4. IsPrefix(received, sent) /\ c \o wire = FlattenSeq(Frames(sent, Len(received)))
    BY <1>1, StreamIs DEF InputIsStream, c
  <2>5. Content(inputBuffer_') \o wire' = FlattenSeq(Frames(sent', Len(received')))
    BY <1>2, <2>3, <2>4
  <2> QED BY <1>2, <2>4, <2>5 DEF InputIsStream, Frames
<1>10. NothingLeftBehind'
  BY <1>2 DEF NothingLeftBehind
<1> QED BY <1>8, <1>9, <1>10 DEF CodecInv
\* A turn of onMessage()'s loop: the message given to messageCallback_ is the next one,
\* and its frame is taken off the stream.
LEMMA DispatchKeeps ==
  ASSUME CodecInv, dispatch
  PROVE  CodecInv'
<1> DEFINE k == Len(received)
           q == sent[k + 1]
           n == BodyLen(q)
           c == Content(inputBuffer_)
<1>1. CodecTypes /\ InputIsStream /\ CanDispatch
  BY DEF CodecInv, dispatch
<1>2. k < Len(sent) /\ NextLen = n /\ complete(n)
  BY <1>1, Dispatched
<1>3. /\ n \in Nat /\ Frame(n) = Body(q)
      /\ SubSeq(c, (kHeaderLen + n) + 1, Len(c)) \o wire = FlattenSeq(Frames(sent, k + 1))
  BY <1>1, <1>2, FrameRead
<1>4. q \in Payloads
  BY <1>1, <1>2, NextFrame
<1>5. Payload(Frame(NextLen)) = q
  BY <1>2, <1>3, <1>4, BodyParses
<1>6. /\ received' = Append(received, q) /\ inputBuffer_' = retrieve(inputBuffer_, kHeaderLen + n)
      /\ sent' = sent /\ wire' = wire /\ parsing' = TRUE
  <2>1. parsing = TRUE
    BY <1>1 DEF dispatch, CodecTypes
  <2> QED BY <1>2, <1>5, <2>1 DEF dispatch
<1>7. /\ sent \in Seq(Payloads) /\ received \in Seq(Payloads) /\ wire \in Seq(Cells)
      /\ inputBuffer_ \in Buffers(Cells) /\ kCheapPrepend <= inputBuffer_.readerIndex_
  BY <1>1 DEF CodecTypes
<1>8. k \in 0..Len(sent) /\ \A i \in 1..k : received[i] = sent[i]
  BY <1>1, StreamIs
<1>9. kHeaderLen + n \in Nat /\ kHeaderLen + n <= readableBytes(inputBuffer_)
  <2> HIDE DEF n
  <2>1. readableBytes(inputBuffer_) \in Nat
    BY <1>7, ContentCells
  <2> QED BY <1>2, <1>3, <2>1, WordAssumption DEF complete, kHeaderLen
<1> HIDE DEF n, q, c, k
<1>10. /\ inputBuffer_' \in Buffers(Cells)
       /\ Content(inputBuffer_') = SubSeq(c, (kHeaderLen + n) + 1, Len(c))
  BY <1>6, <1>7, <1>9, RetrieveContent DEF c
<1>11. kCheapPrepend <= inputBuffer_'.readerIndex_
  <2> DEFINE b == inputBuffer_
             x == kHeaderLen + n
  <2>1. /\ b = [buffer_ |-> b.buffer_, readerIndex_ |-> b.readerIndex_,
               writerIndex_ |-> b.writerIndex_]
        /\ b.readerIndex_ \in Nat /\ kCheapPrepend \in Nat
    BY <1>7, BufferFields
  <2>2. inputBuffer_' = retrieve(b, x) /\ x \in Nat /\ kCheapPrepend <= b.readerIndex_
    BY <1>6, <1>7, <1>9
  <2> HIDE DEF b, x
  <2>3. retrieve(b, x).readerIndex_ \in {b.readerIndex_ + x, kCheapPrepend}
    BY <2>1 DEF retrieve
  <2> QED BY <2>1, <2>2, <2>3
<1>12. /\ Append(received, q) \in Seq(Payloads) /\ Len(Append(received, q)) = k + 1
       /\ \A i \in 1..(k + 1) : Append(received, q)[i] = sent[i]
  <2>1. k \in Nat /\ k = Len(received)
    BY <1>7 DEF k
  <2>2. q = sent[k + 1]
    BY DEF q, k
  <2> HIDE DEF q
  <2> QED BY <1>4, <1>7, <1>8, <2>1, <2>2
<1>13. CodecTypes'
  <2>1. TRUE \in BOOLEAN
    OBVIOUS
  <2> QED BY <1>6, <1>7, <1>10, <1>11, <1>12, <2>1, Zenon DEF CodecTypes
<1>14. InputIsStream'
  <2>1. IsPrefix(Append(received, q), sent)
    <3>1. k + 1 <= Len(sent)
      BY <1>2, <1>7, <1>8
    <3> QED BY <1>7, <1>12, <3>1, PrefixPlaces, Zenon
  <2>2. Content(inputBuffer_') \o wire' = FlattenSeq(Frames(sent', Len(received')))
    BY <1>3, <1>6, <1>10, <1>12, Zenon
  <2> QED BY <1>6, <2>1, <2>2 DEF InputIsStream, Frames
<1>15. NothingLeftBehind'
  BY <1>6 DEF NothingLeftBehind
<1> QED BY <1>13, <1>14, <1>15 DEF CodecInv

\* onMessage() returns: if everything has arrived, the next frame is complete, and only its
\* length can have ended the loop.
LEMMA LeaveKeeps ==
  ASSUME CodecInv, leave
  PROVE  CodecInv'
<1>1. CodecTypes /\ InputIsStream /\ ~CanDispatch
  BY DEF CodecInv, leave
<1>2. /\ parsing' = FALSE /\ sent' = sent /\ received' = received /\ wire' = wire
      /\ inputBuffer_' = inputBuffer_
  BY DEF leave
<1>3. CodecTypes'
  BY <1>1, <1>2, Zenon DEF CodecTypes
<1>4. InputIsStream'
  BY <1>1, <1>2, Zenon DEF InputIsStream
<1>5. ASSUME wire = <<>>, received # sent PROVE TooLong(sent[Len(received) + 1])
  <2> DEFINE q == sent[Len(received) + 1]
             n == BodyLen(q)
             rest == FlattenSeq(Frames(sent, Len(received) + 1))
             c == Content(inputBuffer_)
             f == FrameOf(q)
  <2>1. Len(received) < Len(sent)
    <3>1. sent \in Seq(Payloads)
      BY <1>1 DEF CodecTypes
    <3> QED BY <1>1, <1>5, <3>1, StreamIs
  <2>2. q \in Payloads /\ rest \in Seq(Cells) /\ c \o wire = f \o rest
    BY <1>1, <2>1, NextFrame DEF SameStream
  <2>3. c \in Seq(Cells) /\ Len(c) = readableBytes(inputBuffer_)
    BY <1>1, ContentCells DEF CodecTypes
  <2> HIDE DEF q, rest, c
  <2>4. /\ n \in Nat /\ Word \in Nat \ {0} /\ f \in Seq(Cells) /\ Len(f) = Word + n
        /\ n = Len(q) + Word + Word /\ Len(q) \in Nat
    BY <2>2, FrameSizes, Zenon
  <2> HIDE DEF f, n
  <2>5. Len(c) >= Word + n
    <3>1. Len(f \o rest) = Len(f) + Len(rest) /\ Len(rest) \in Nat
      <4>1. f \in Seq(Cells) /\ rest \in Seq(Cells)
        BY <2>2, <2>4
      <4> QED BY <4>1
    <3>2. c \o wire = c
      BY <1>5, <2>3
    <3>3. Len(c) = Len(f) + Len(rest)
      BY <2>2, <3>1, <3>2, Zenon
    <3> QED BY <2>4, <3>1, <3>3
  <2>6. complete(n) /\ readableBytes(inputBuffer_) >= kMinMessageLen + kHeaderLen
    BY <2>3, <2>4, <2>5 DEF complete, kMinMessageLen, kHeaderLen
  <2>7. Frame(n) = Body(q)
    BY <1>1, <2>1, <2>6, FrameRead, Zenon DEF n, q
  <2>8. parse(Frame(n))
    BY <2>2, <2>7, BodyParses
  <2>9. NextLen = IF n <= kMaxMessageLen THEN n ELSE Invalid
    BY <1>1, <2>1, <2>6, LengthRead, Zenon DEF n, q
  <2>10. ~(n <= kMaxMessageLen)
    <3>1. n # Invalid
      BY <2>4 DEF Invalid
    <3> QED BY <1>1, <2>6, <2>8, <2>9, <3>1 DEF CanDispatch
  <2>11. TooLong(q)
    BY <2>4, <2>10, BoundsAssumption DEF TooLong
  <2> QED BY <2>11 DEF q
<1>6. NothingLeftBehind'
  BY <1>2, <1>5, Zenon DEF NothingLeftBehind
<1> QED BY <1>3, <1>4, <1>6 DEF CodecInv

\* The invariant holds in every reachable state.
THEOREM CodecInvariant == Spec => []CodecInv
<1>1. CodecInv /\ [Next]_vars => CodecInv'
  <2> SUFFICES ASSUME CodecInv, [Next]_vars PROVE CodecInv'
    OBVIOUS
  <2>1. ASSUME NEW p \in Payloads, send(p) PROVE CodecInv'
    BY <2>1, SendKeeps
  <2>2. ASSUME NEW n \in 1..Len(wire), handleRead(n) PROVE CodecInv'
    BY <2>2, ReadKeeps
  <2>3. CASE dispatch
    BY <2>3, DispatchKeeps
  <2>4. CASE leave
    BY <2>4, LeaveKeeps
  <2>5. CASE UNCHANGED vars
    BY <2>5, Zenon DEF vars, CodecInv, CodecTypes, InputIsStream, NothingLeftBehind
  <2> QED BY <2>1, <2>2, <2>3, <2>4, <2>5, Zenon DEF Next
<1> QED BY CodecInit, <1>1, PTL DEF Spec

\* The variables keep their types, and the indices of the input buffer stay in order and in
\* bounds, whatever is read, moved, resized and retrieved.
THEOREM TypeCorrect == Spec => []TypeOK
<1>1. CodecInv => TypeOK
  <2> SUFFICES ASSUME CodecInv PROVE TypeOK
    OBVIOUS
  <2>1. CodecTypes
    BY DEF CodecInv
  <2> DEFINE b == inputBuffer_
  <2>2. b \in Buffers(Cells) /\ kCheapPrepend <= b.readerIndex_
    BY <2>1 DEF CodecTypes
  <2> HIDE DEF b
  <2>3. b.readerIndex_ \in kCheapPrepend..b.writerIndex_ /\ b.writerIndex_ <= Len(b.buffer_)
    BY <2>2, BufferFields
  <2> QED BY <2>1, <2>3, Zenon DEF CodecTypes, TypeOK, b
<1> QED BY CodecInvariant, <1>1, PTL

\* The receiver gets the messages that were sent, in their order, and what it has not
\* dispatched is, cell by cell, the frames of the others.
THEOREM MessagesAreAStream == Spec => []InputIsStream
<1>1. CodecInv => InputIsStream
  BY DEF CodecInv
<1> QED BY CodecInvariant, <1>1, PTL

\* onMessage() does not return with a message it could have dispatched.
THEOREM NothingIsLeftBehind == Spec => []NothingLeftBehind
<1>1. CodecInv => NothingLeftBehind
  BY DEF CodecInv
<1> QED BY CodecInvariant, <1>1, PTL
=============================================================================
