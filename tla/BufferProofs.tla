---------------------------- MODULE BufferProofs ----------------------------
(***************************************************************************)
(* What the operations of Buffer do to the content, for buffers of any     *)
(* size and cells of any kind: whether the vector is large enough, grows,  *)
(* or has its content moved, a reader sees only what was put in, in order. *)
(***************************************************************************)
EXTENDS Buffer, TLAPS

\* The buffers of the class: the indices are in order and inside the vector, which has the
\* room that the constructor leaves in front.
Buffers(Cell) ==
  {b \in [buffer_ : Seq(Cell), readerIndex_ : Nat, writerIndex_ : Nat] :
     /\ b.readerIndex_ <= b.writerIndex_ /\ b.writerIndex_ <= Len(b.buffer_)
     /\ kCheapPrepend <= Len(b.buffer_)}

\* The fields of a buffer.
LEMMA BufferFields ==
  ASSUME NEW Cell, NEW b \in Buffers(Cell)
  PROVE  /\ b.buffer_ \in Seq(Cell) /\ b.readerIndex_ \in Nat /\ b.writerIndex_ \in Nat
         /\ b.readerIndex_ <= b.writerIndex_ /\ b.writerIndex_ <= Len(b.buffer_)
         /\ kCheapPrepend \in Nat /\ kCheapPrepend <= Len(b.buffer_)
         /\ b = [buffer_ |-> b.buffer_, readerIndex_ |-> b.readerIndex_,
                 writerIndex_ |-> b.writerIndex_]
  BY SizesAssumption DEF Buffers

\* A buffer is made of a vector and two indices inside it.
LEMMA MakeBuffer ==
  ASSUME NEW Cell, NEW v \in Seq(Cell), NEW r \in Nat, NEW w \in Nat, r <= w, w <= Len(v),
         kCheapPrepend <= Len(v)
  PROVE  [buffer_ |-> v, readerIndex_ |-> r, writerIndex_ |-> w] \in Buffers(Cell)
  BY DEF Buffers

\* The constructor makes an empty buffer.
THEOREM NewBuffer ==
  ASSUME NEW Cell, Zero \in Cell
  PROVE  newBuffer \in Buffers(Cell) /\ Content(newBuffer) = <<>>
<1> DEFINE n == kCheapPrepend + kInitialSize
           v == [i \in 1..n |-> Zero]
<1>1. kCheapPrepend \in Nat /\ n \in Nat /\ kCheapPrepend <= n
  BY SizesAssumption
<1>2. v \in Seq(Cell) /\ Len(v) = n
  BY <1>1
<1>3. newBuffer = [buffer_ |-> v, readerIndex_ |-> kCheapPrepend, writerIndex_ |-> kCheapPrepend]
  BY DEF newBuffer
<1> HIDE DEF v, n
<1>4. newBuffer \in Buffers(Cell)
  BY <1>1, <1>2, <1>3, MakeBuffer
<1>5. Content(newBuffer) = SubSeq(v, kCheapPrepend + 1, kCheapPrepend)
  BY <1>3 DEF Content
<1>6. SubSeq(v, kCheapPrepend + 1, kCheapPrepend) = <<>>
  BY <1>1, <1>2
<1> QED
  BY <1>4, <1>5, <1>6

\* Two slices with the same cells are the same sequence.
LEMMA EqualSlices ==
  ASSUME NEW Cell, NEW v \in Seq(Cell), NEW u \in Seq(Cell),
         NEW r \in Nat, NEW w \in Nat, r <= w, w <= Len(v),
         NEW q \in Nat, NEW x \in Nat, q <= x, x <= Len(u),
         w - r = x - q, \A i \in 1..(w - r) : v[r + i] = u[q + i]
  PROVE  SubSeq(v, r + 1, w) = SubSeq(u, q + 1, x)
<1> DEFINE s == SubSeq(v, r + 1, w)
           t == SubSeq(u, q + 1, x)
<1>1. s \in Seq(Cell) /\ Len(s) = w - r /\ \A i \in 1..(w - r) : s[i] = v[r + i]
  OBVIOUS
<1>2. t \in Seq(Cell) /\ Len(t) = x - q /\ \A i \in 1..(x - q) : t[i] = u[q + i]
  OBVIOUS
<1> HIDE DEF s, t
<1>3. \A i \in 1..Len(s) : s[i] = t[i]
  BY <1>1, <1>2
<1>4. s = t
  BY <1>1, <1>2, <1>3
<1> QED
  BY <1>4 DEF s, t

\* The cells of a slice.
LEMMA SliceCells ==
  ASSUME NEW Cell, NEW v \in Seq(Cell), NEW r \in Nat, NEW w \in Nat, r <= w, w <= Len(v)
  PROVE  /\ SubSeq(v, r + 1, w) \in Seq(Cell)
         /\ Len(SubSeq(v, r + 1, w)) = w - r
         /\ \A i \in 1..(w - r) : SubSeq(v, r + 1, w)[i] = v[r + i]
  OBVIOUS

\* std::copy overwrites the cells from at on, and none before.
LEMMA CopyToCells ==
  ASSUME NEW Cell, NEW v \in Seq(Cell), NEW at \in Nat, NEW data \in Seq(Cell),
         at + Len(data) <= Len(v)
  PROVE  /\ copyTo(v, at, data) \in Seq(Cell)
         /\ Len(copyTo(v, at, data)) = Len(v)
         /\ \A i \in 1..Len(data) : copyTo(v, at, data)[at + i] = data[i]
         /\ \A i \in 1..at : copyTo(v, at, data)[i] = v[i]
<1> DEFINE c == copyTo(v, at, data)
<1>1. c = [i \in 1..Len(v) |->
             IF i \in (at + 1)..(at + Len(data)) THEN data[i - at] ELSE v[i]]
  BY DEF copyTo
<1>2. c \in [1..Len(v) -> Cell]
  BY <1>1
<1>3. ASSUME NEW i \in 1..Len(data) PROVE c[at + i] = data[i]
  <2>1. at + i \in 1..Len(v) /\ at + i \in (at + 1)..(at + Len(data)) /\ (at + i) - at = i
    OBVIOUS
  <2> QED
    BY <1>1, <2>1
<1>4. ASSUME NEW i \in 1..at PROVE c[i] = v[i]
  BY <1>1
<1> QED
  BY <1>2, <1>3, <1>4

\* A resized vector keeps its first cells.
LEMMA ResizeCells ==
  ASSUME NEW Cell, Zero \in Cell, NEW v \in Seq(Cell), NEW n \in Nat
  PROVE  /\ resize(v, n) \in Seq(Cell)
         /\ Len(resize(v, n)) = n
         /\ \A i \in 1..n : i <= Len(v) => resize(v, n)[i] = v[i]
<1>1. resize(v, n) = [i \in 1..n |-> IF i \in 1..Len(v) THEN v[i] ELSE Zero]
  BY DEF resize
<1>2. resize(v, n) \in [1..n -> Cell]
  BY <1>1
<1> QED
  BY <1>1, <1>2

\* A vector that grows keeps every slice it had.
LEMMA GrowSlice ==
  ASSUME NEW Cell, Zero \in Cell, NEW v \in Seq(Cell), NEW n \in Nat,
         NEW r \in Nat, NEW w \in Nat, r <= w, w <= Len(v), w <= n
  PROVE  SubSeq(resize(v, n), r + 1, w) = SubSeq(v, r + 1, w)
<1> DEFINE u == resize(v, n)
<1>1. u \in Seq(Cell) /\ Len(u) = n /\ \A i \in 1..n : i <= Len(v) => u[i] = v[i]
  BY ResizeCells
<1> HIDE DEF u
<1>2. \A i \in 1..(w - r) : u[r + i] = v[r + i]
  <2> TAKE i \in 1..(w - r)
  <2>1. r + i \in 1..n /\ r + i <= Len(v)
    OBVIOUS
  <2> QED
    BY <1>1, <2>1
<1>3. SubSeq(u, r + 1, w) = SubSeq(v, r + 1, w)
  BY <1>1, <1>2, EqualSlices
<1> QED
  BY <1>3 DEF u

\* A slice copied to the front of the vector is the same slice there.
LEMMA MoveSlice ==
  ASSUME NEW Cell, NEW v \in Seq(Cell), NEW k \in Nat, NEW r \in Nat, NEW w \in Nat,
         k <= r, r <= w, w <= Len(v), NEW x \in Nat, x = k + (w - r)
  PROVE  LET u == copyTo(v, k, SubSeq(v, r + 1, w))
         IN  /\ u \in Seq(Cell) /\ Len(u) = Len(v)
             /\ SubSeq(u, k + 1, x) = SubSeq(v, r + 1, w)
<1> DEFINE c == SubSeq(v, r + 1, w)
           u == copyTo(v, k, c)
<1>1. c \in Seq(Cell) /\ Len(c) = w - r /\ \A i \in 1..(w - r) : c[i] = v[r + i]
  BY SliceCells
<1> HIDE DEF c
<1>2. k + Len(c) <= Len(v)
  BY <1>1
<1>3. u \in Seq(Cell) /\ Len(u) = Len(v) /\ \A i \in 1..Len(c) : u[k + i] = c[i]
  BY <1>1, <1>2, CopyToCells, SMTT(60)
<1> HIDE DEF u
<1>4. \A i \in 1..(x - k) : u[k + i] = v[r + i]
  <2>1. x - k = w - r /\ Len(c) = w - r
    BY <1>1
  <2> QED
    BY <1>1, <1>3, <2>1
<1>5. k <= x /\ x <= Len(u) /\ x - k = w - r
  BY <1>3
<1>6. SubSeq(u, k + 1, x) = SubSeq(v, r + 1, w)
  <2> DEFINE t == SubSeq(u, k + 1, x)
  <2>1. t \in Seq(Cell) /\ Len(t) = x - k /\ \A i \in 1..(x - k) : t[i] = u[k + i]
    BY <1>3, <1>5, SliceCells
  <2> HIDE DEF t
  <2>2. Len(t) = Len(c) /\ \A i \in 1..Len(t) : t[i] = c[i]
    BY <1>1, <1>4, <1>5, <2>1
  <2>3. t = c
    BY <1>1, <2>1, <2>2
  <2> QED
    BY <2>3 DEF t, c
<1> QED
  BY <1>3, <1>6 DEF u, c

\* A sequence that begins with s and goes on with d is s \o d.
LEMMA ConcatBuilt ==
  ASSUME NEW Cell, NEW s \in Seq(Cell), NEW d \in Seq(Cell), NEW t \in Seq(Cell),
         Len(t) = Len(s) + Len(d), \A i \in 1..Len(s) : t[i] = s[i],
         \A i \in 1..Len(d) : t[Len(s) + i] = d[i]
  PROVE  t = s \o d
<1>1. /\ s \o d \in Seq(Cell) /\ Len(s \o d) = Len(s) + Len(d)
      /\ \A i \in 1..Len(s) : (s \o d)[i] = s[i]
      /\ \A i \in 1..Len(d) : (s \o d)[Len(s) + i] = d[i]
  OBVIOUS
<1>2. ASSUME NEW i \in 1..Len(t) PROVE t[i] = (s \o d)[i]
  <2>1. CASE i \in 1..Len(s)
    BY <1>1, <2>1
  <2>2. CASE i \notin 1..Len(s)
    <3> DEFINE j == i - Len(s)
    <3>1. j \in 1..Len(d) /\ i = Len(s) + j
      BY <2>2
    <3> HIDE DEF j
    <3> QED
      BY <1>1, <3>1
  <2> QED
    BY <2>1, <2>2
<1> QED
  BY <1>1, <1>2

\* Data copied right after a slice extends the slice.
LEMMA ExtendSlice ==
  ASSUME NEW Cell, NEW v \in Seq(Cell), NEW data \in Seq(Cell), NEW r \in Nat, NEW w \in Nat,
         r <= w, w + Len(data) <= Len(v)
  PROVE  SubSeq(copyTo(v, w, data), r + 1, w + Len(data)) = SubSeq(v, r + 1, w) \o data
<1> DEFINE u == copyTo(v, w, data)
           x == w + Len(data)
           s == SubSeq(v, r + 1, w)
           t == SubSeq(u, r + 1, x)
<1>0. x \in Nat /\ x = w + Len(data) /\ r <= x /\ x <= Len(v) /\ w <= Len(v) /\ Len(data) \in Nat
  OBVIOUS
<1>1. /\ u \in Seq(Cell) /\ Len(u) = Len(v)
      /\ \A i \in 1..Len(data) : u[w + i] = data[i]
      /\ \A i \in 1..w : u[i] = v[i]
  BY CopyToCells
<1> HIDE DEF u, x
<1>2. s \in Seq(Cell) /\ Len(s) = w - r /\ \A i \in 1..(w - r) : s[i] = v[r + i]
  BY <1>0, SliceCells
<1>3. t \in Seq(Cell) /\ Len(t) = x - r /\ \A i \in 1..(x - r) : t[i] = u[r + i]
  BY <1>0, <1>1, SliceCells
<1> HIDE DEF s, t
<1>4. \A i \in 1..Len(s) : t[i] = s[i]
  <2> SUFFICES ASSUME NEW i \in 1..(w - r) PROVE t[i] = s[i]
    BY <1>2
  <2>1. r + i \in 1..w /\ i \in 1..(x - r)
    BY <1>0
  <2> QED
    BY <1>1, <1>2, <1>3, <2>1
<1>5. \A i \in 1..Len(data) : t[Len(s) + i] = data[i]
  <2> TAKE i \in 1..Len(data)
  <2>1. Len(s) + i \in 1..(x - r) /\ r + (Len(s) + i) = w + i
    BY <1>0, <1>2
  <2> QED
    BY <1>1, <1>3, <2>1
<1>6. Len(t) = Len(s) + Len(data)
  BY <1>0, <1>2, <1>3
<1>7. t = s \o data
  BY <1>2, <1>3, <1>4, <1>5, <1>6, ConcatBuilt
<1> QED
  BY <1>7 DEF u, s, t, x

\* A sequence is its first n cells and the rest.
LEMMA SplitAt ==
  ASSUME NEW Cell, NEW s \in Seq(Cell), NEW n \in Nat, ~(Len(s) <= n)
  PROVE  LET front == SubSeq(s, 1, n)
             back == SubSeq(s, n + 1, Len(s))
         IN  front \in Seq(Cell) /\ Len(front) = n /\ back \in Seq(Cell) /\ front \o back = s
<1> DEFINE front == SubSeq(s, 1, n)
           back == SubSeq(s, n + 1, Len(s))
<1>0. Len(s) \in Nat /\ n <= Len(s)
  OBVIOUS
<1>1. front \in Seq(Cell) /\ Len(front) = n /\ \A i \in 1..n : front[i] = s[i]
  BY <1>0
<1>2. back \in Seq(Cell) /\ Len(back) = Len(s) - n /\ \A i \in 1..(Len(s) - n) : back[i] = s[n + i]
  BY <1>0, SliceCells
<1> HIDE DEF front, back
<1>3. /\ Len(s) = Len(front) + Len(back)
      /\ \A i \in 1..Len(front) : s[i] = front[i]
      /\ \A i \in 1..Len(back) : s[Len(front) + i] = back[i]
  BY <1>0, <1>1, <1>2
<1>4. s = front \o back
  BY <1>1, <1>2, <1>3, ConcatBuilt
<1> QED
  BY <1>1, <1>2, <1>4 DEF front, back

\* Concatenation is associative.
LEMMA ConcatAssoc ==
  ASSUME NEW Cell, NEW s \in Seq(Cell), NEW t \in Seq(Cell), NEW u \in Seq(Cell)
  PROVE  (s \o t) \o u = s \o (t \o u)
  OBVIOUS

\* retrieve() takes len cells off the front of the content.
THEOREM RetrieveContent ==
  ASSUME NEW Cell, NEW b \in Buffers(Cell), NEW len \in Nat, len <= readableBytes(b)
  PROVE  /\ retrieve(b, len) \in Buffers(Cell)
         /\ Content(retrieve(b, len)) = SubSeq(Content(b), len + 1, Len(Content(b)))
<1> DEFINE v == b.buffer_
           r == b.readerIndex_
           w == b.writerIndex_
<1>b. /\ v \in Seq(Cell) /\ r \in Nat /\ w \in Nat /\ r <= w /\ w <= Len(v)
      /\ kCheapPrepend \in Nat /\ kCheapPrepend <= Len(v)
      /\ b = [buffer_ |-> v, readerIndex_ |-> r, writerIndex_ |-> w]
  BY BufferFields
<1>k. len <= w - r
  BY DEF readableBytes
<1>c. Content(b) = SubSeq(v, r + 1, w)
  BY DEF Content
<1> HIDE DEF v, r, w
<1>1. SubSeq(Content(b), len + 1, Len(Content(b))) = SubSeq(v, r + len + 1, w)
  <2> DEFINE c == SubSeq(v, r + 1, w)
  <2>1. c \in Seq(Cell) /\ Len(c) = w - r /\ \A i \in 1..(w - r) : c[i] = v[r + i]
    BY <1>b
  <2> DEFINE n == Len(c)
             q == r + len
  <2>2. /\ c \in Seq(Cell) /\ n \in Nat /\ len <= n /\ n <= Len(c)
        /\ q \in Nat /\ q <= w /\ n - len = w - q
        /\ \A i \in 1..(n - len) : c[len + i] = v[q + i]
    <3> HIDE DEF c
    <3> QED
      BY <1>b, <1>k, <2>1
  <2> HIDE DEF c, n, q
  <2>3. SubSeq(c, len + 1, n) = SubSeq(v, q + 1, w)
    <3> DEFINE s == SubSeq(c, len + 1, n)
               t == SubSeq(v, q + 1, w)
    <3>1. s \in Seq(Cell) /\ Len(s) = n - len /\ \A i \in 1..(n - len) : s[i] = c[len + i]
      BY <2>2, SliceCells
    <3>2. t \in Seq(Cell) /\ Len(t) = w - q /\ \A i \in 1..(w - q) : t[i] = v[q + i]
      BY <1>b, <2>2, SliceCells, SMTT(60)
    <3> HIDE DEF s, t
    <3>3. Len(s) = Len(t) /\ \A i \in 1..Len(s) : s[i] = t[i]
      BY <2>2, <3>1, <3>2
    <3>4. s = t
      BY <3>1, <3>2, <3>3
    <3> QED
      BY <3>4 DEF s, t
  <2> QED
    BY <1>b, <1>c, <2>3 DEF c, n, q
<1>2. CASE len < w - r
  <2> DEFINE e == [buffer_ |-> v, readerIndex_ |-> r + len, writerIndex_ |-> w]
  <2>1. retrieve(b, len) = e
    BY <1>b, <1>2 DEF retrieve, readableBytes, v, r, w
  <2>2. e \in Buffers(Cell)
    <3>1. r + len \in Nat /\ r + len <= w
      BY <1>b, <1>k
    <3> QED
      BY <1>b, <3>1, MakeBuffer
  <2>3. Content(e) = SubSeq(v, r + len + 1, w)
    BY DEF Content
  <2> QED
    BY <1>1, <2>1, <2>2, <2>3
<1>3. CASE ~(len < w - r)
  <2> DEFINE e == [buffer_ |-> v, readerIndex_ |-> kCheapPrepend, writerIndex_ |-> kCheapPrepend]
  <2>1. retrieve(b, len) = e
    BY <1>b, <1>3 DEF retrieve, readableBytes, v, r, w
  <2>2. e \in Buffers(Cell)
    BY <1>b, <1>k, MakeBuffer
  <2>3. Content(e) = <<>>
    BY <1>b, <1>k DEF Content
  <2>4. SubSeq(v, r + len + 1, w) = <<>>
    BY <1>b, <1>k, <1>3
  <2> QED
    BY <1>1, <2>1, <2>2, <2>3, <2>4
<1> QED
  BY <1>2, <1>3

\* makeSpace()'s assert: content that is moved is moved forward, never onto itself.
THEOREM MakeSpaceAssert ==
  ASSUME NEW Cell, NEW b \in Buffers(Cell), NEW len \in Nat, writableBytes(b) < len,
         ~(writableBytes(b) + prependableBytes(b) < len + kCheapPrepend)
  PROVE  kCheapPrepend < b.readerIndex_
  BY BufferFields DEF writableBytes, prependableBytes

\* ensureWritableBytes() makes room without changing the content, whether the vector
\* grows or the content moves to the front.
THEOREM EnsureWritableContent ==
  ASSUME NEW Cell, Zero \in Cell, NEW b \in Buffers(Cell), NEW len \in Nat
  PROVE  /\ ensureWritableBytes(b, len) \in Buffers(Cell)
         /\ len <= writableBytes(ensureWritableBytes(b, len))
         /\ Content(ensureWritableBytes(b, len)) = Content(b)
<1> DEFINE v == b.buffer_
           r == b.readerIndex_
           w == b.writerIndex_
<1>b. /\ v \in Seq(Cell) /\ r \in Nat /\ w \in Nat /\ r <= w /\ w <= Len(v)
      /\ kCheapPrepend \in Nat /\ kCheapPrepend <= Len(v)
      /\ b = [buffer_ |-> v, readerIndex_ |-> r, writerIndex_ |-> w]
  BY BufferFields
<1>c. /\ Content(b) = SubSeq(v, r + 1, w) /\ writableBytes(b) = Len(v) - w
      /\ readableBytes(b) = w - r /\ prependableBytes(b) = r
  BY DEF Content, readableBytes, writableBytes, prependableBytes
<1> HIDE DEF v, r, w
<1>1. CASE ~(Len(v) - w < len)
  <2>1. ensureWritableBytes(b, len) = b
    BY <1>1, <1>c DEF ensureWritableBytes
  <2> QED
    BY <1>1, <1>b, <1>c, <2>1
<1>2. CASE Len(v) - w < len /\ (Len(v) - w) + r < len + kCheapPrepend
  <2> DEFINE u == resize(v, w + len)
             e == [buffer_ |-> u, readerIndex_ |-> r, writerIndex_ |-> w]
  <2>1. ensureWritableBytes(b, len) = e
    <3>1. ensureWritableBytes(b, len) = [b EXCEPT !.buffer_ = resize(@, b.writerIndex_ + len)]
      BY <1>2, <1>c DEF ensureWritableBytes, makeSpace
    <3> QED
      BY <1>b, <3>1 DEF w
  <2>2. w + len \in Nat /\ w <= w + len
    BY <1>b
  <2>3. u \in Seq(Cell) /\ Len(u) = w + len
    BY <1>b, <2>2, ResizeCells
  <2>4. SubSeq(u, r + 1, w) = SubSeq(v, r + 1, w)
    BY <1>b, <2>2, GrowSlice, SMTT(120)
  <2>5. Content(e) = SubSeq(u, r + 1, w) /\ writableBytes(e) = Len(u) - w
    BY DEF Content, writableBytes
  <2> HIDE DEF u
  <2>6. w <= Len(u) /\ len <= Len(u) - w /\ kCheapPrepend <= Len(u)
    BY <1>b, <1>2, <2>3
  <2>7. e \in Buffers(Cell)
    BY <1>b, <2>3, <2>6, MakeBuffer
  <2> HIDE DEF e
  <2> QED
    BY <1>c, <2>1, <2>4, <2>5, <2>6, <2>7
<1>3. CASE Len(v) - w < len /\ ~((Len(v) - w) + r < len + kCheapPrepend)
  <2> DEFINE c == SubSeq(v, r + 1, w)
             u == copyTo(v, kCheapPrepend, c)
             x == kCheapPrepend + (w - r)
             e == [buffer_ |-> u, readerIndex_ |-> kCheapPrepend, writerIndex_ |-> x]
  <2>1. ensureWritableBytes(b, len) = e
    <3>1. ensureWritableBytes(b, len) =
            [b EXCEPT !.buffer_ = copyTo(@, kCheapPrepend, Content(b)),
                      !.readerIndex_ = kCheapPrepend,
                      !.writerIndex_ = kCheapPrepend + readableBytes(b)]
      BY <1>3, <1>c DEF ensureWritableBytes, makeSpace
    <3> QED
      BY <1>b, <1>c, <3>1
  <2>2. /\ x \in Nat /\ x = kCheapPrepend + (w - r) /\ kCheapPrepend <= r
        /\ kCheapPrepend <= x /\ x <= Len(v) /\ len <= Len(v) - x
    BY <1>b, <1>3
  <2>4. Content(e) = SubSeq(u, kCheapPrepend + 1, x) /\ writableBytes(e) = Len(u) - x
    BY DEF Content, writableBytes
  <2> HIDE DEF x
  <2>3. u \in Seq(Cell) /\ Len(u) = Len(v) /\ SubSeq(u, kCheapPrepend + 1, x) = SubSeq(v, r + 1, w)
    BY <1>b, <2>2, MoveSlice
  <2> HIDE DEF u
  <2>5. e \in Buffers(Cell)
    BY <1>b, <2>2, <2>3, MakeBuffer
  <2> HIDE DEF e
  <2> QED
    BY <1>c, <2>1, <2>2, <2>3, <2>4, <2>5
<1> QED
  BY <1>1, <1>2, <1>3

\* Data written at beginWrite() and taken in by hasWritten() extends the content.
LEMMA WriteContent ==
  ASSUME NEW Cell, NEW d \in Buffers(Cell), NEW data \in Seq(Cell),
         Len(data) <= writableBytes(d)
  PROVE  write(d, data) \in Buffers(Cell) /\ Content(write(d, data)) = Content(d) \o data
<1> DEFINE v == d.buffer_
           r == d.readerIndex_
           w == d.writerIndex_
           u == copyTo(v, w, data)
           e == [buffer_ |-> u, readerIndex_ |-> r, writerIndex_ |-> w + Len(data)]
<1>1. /\ v \in Seq(Cell) /\ r \in Nat /\ w \in Nat /\ r <= w /\ w <= Len(v)
      /\ kCheapPrepend <= Len(v)
  BY BufferFields
<1>2. write(d, data) = e
  <2>1. d = [buffer_ |-> v, readerIndex_ |-> r, writerIndex_ |-> w]
    BY BufferFields
  <2>2. write(d, data) = [d EXCEPT !.buffer_ = u, !.writerIndex_ = w + Len(data)]
    BY DEF write
  <2> HIDE DEF u, v, r, w
  <2> QED
    BY <2>1, <2>2
<1>3. /\ Content(d) = SubSeq(v, r + 1, w) /\ Len(data) <= Len(v) - w
      /\ Content(e) = SubSeq(u, r + 1, w + Len(data))
  BY DEF Content, writableBytes
<1> HIDE DEF v, r, w
<1>4. w + Len(data) <= Len(v) /\ r <= w + Len(data) /\ w + Len(data) \in Nat
  BY <1>1, <1>3
<1>5. u \in Seq(Cell) /\ Len(u) = Len(v)
  BY <1>1, <1>4, CopyToCells
<1>6. SubSeq(u, r + 1, w + Len(data)) = SubSeq(v, r + 1, w) \o data
  BY <1>1, <1>4, ExtendSlice, ZenonT(60)
<1> HIDE DEF u
<1>7. e \in Buffers(Cell)
  BY <1>1, <1>4, <1>5, MakeBuffer
<1> HIDE DEF e
<1> QED
  BY <1>2, <1>3, <1>6, <1>7

\* append() puts the data after the content and changes nothing before it.
THEOREM AppendContent ==
  ASSUME NEW Cell, Zero \in Cell, NEW b \in Buffers(Cell), NEW data \in Seq(Cell)
  PROVE  /\ append(b, data) \in Buffers(Cell)
         /\ Content(append(b, data)) = Content(b) \o data
<1> DEFINE d == ensureWritableBytes(b, Len(data))
<1>1. d \in Buffers(Cell) /\ Len(data) <= writableBytes(d) /\ Content(d) = Content(b)
  <2>1. Len(data) \in Nat
    OBVIOUS
  <2> QED
    BY <2>1, EnsureWritableContent
<1>2. append(b, data) = write(d, data)
  BY DEF append
<1> HIDE DEF d
<1> QED
  BY <1>1, <1>2, WriteContent

\* readFd() appends what readv() read, the part that went to extrabuf included.
THEOREM ReadFdContent ==
  ASSUME NEW Cell, Zero \in Cell, NEW b \in Buffers(Cell), NEW data \in Seq(Cell)
  PROVE  /\ readFd(b, data) \in Buffers(Cell)
         /\ Content(readFd(b, data)) = Content(b) \o data
<1> DEFINE n == writableBytes(b)
<1>0. n \in Nat /\ b.writerIndex_ \in Nat /\ b.writerIndex_ + n = Len(b.buffer_)
  BY BufferFields DEF writableBytes
<1>1. CASE Len(data) <= n
  <2>1. readFd(b, data) = write(b, data)
    BY <1>1 DEF readFd
  <2> QED
    BY <1>1, <2>1, WriteContent
<1>2. CASE ~(Len(data) <= n)
  <2> DEFINE front == SubSeq(data, 1, n)
             back == SubSeq(data, n + 1, Len(data))
             d == write(b, front)
  <2>1. front \in Seq(Cell) /\ Len(front) = n /\ back \in Seq(Cell) /\ front \o back = data
    <3> HIDE DEF n
    <3> QED
      BY <1>0, <1>2, SplitAt
  <2>2. readFd(b, data) = append([[b EXCEPT !.buffer_ = copyTo(@, b.writerIndex_, front)]
                                    EXCEPT !.writerIndex_ = Len(b.buffer_)], back)
    BY <1>2 DEF readFd
  <2> HIDE DEF front, back, n
  <2>3. [[b EXCEPT !.buffer_ = copyTo(@, b.writerIndex_, front)]
           EXCEPT !.writerIndex_ = Len(b.buffer_)] = d
    BY <1>0, <2>1, BufferFields DEF write
  <2>4. d \in Buffers(Cell) /\ Content(d) = Content(b) \o front
    <3>1. Len(front) <= writableBytes(b)
      BY <1>0, <2>1 DEF n
    <3> QED
      BY <2>1, <3>1, WriteContent
  <2> HIDE DEF d
  <2>5. append(d, back) \in Buffers(Cell) /\ Content(append(d, back)) = Content(d) \o back
    BY <2>1, <2>4, AppendContent
  <2>6. (Content(b) \o front) \o back = Content(b) \o (front \o back)
    <3>1. Content(b) \in Seq(Cell)
      BY BufferFields, SliceCells DEF Content
    <3>2. front \in Seq(Cell) /\ back \in Seq(Cell)
      BY <2>1
    <3> QED
      BY <3>1, <3>2, ConcatAssoc, SMTT(60)
  <2>7. readFd(b, data) = append(d, back)
    BY <2>2, <2>3
  <2> QED
    BY <2>1, <2>4, <2>5, <2>6, <2>7
<1> QED
  BY <1>1, <1>2

\* Data copied right before a slice goes in front of it: the cells after the data stay.
LEMMA PrefixSlice ==
  ASSUME NEW Cell, NEW v \in Seq(Cell), NEW data \in Seq(Cell), NEW q \in Nat,
         NEW w \in Nat, q + Len(data) <= w, w <= Len(v)
  PROVE  SubSeq(copyTo(v, q, data), q + 1, w) = data \o SubSeq(v, q + Len(data) + 1, w)
<1> DEFINE u == copyTo(v, q, data)
           r == q + Len(data)
           s == SubSeq(v, r + 1, w)
           t == SubSeq(u, q + 1, w)
<1>0. /\ Len(data) \in Nat /\ q <= w /\ q + Len(data) <= Len(v)
      /\ r \in Nat /\ r = q + Len(data) /\ r <= w
  OBVIOUS
<1> HIDE DEF r
<1>1. u \in Seq(Cell) /\ Len(u) = Len(v) /\ \A i \in 1..Len(data) : u[q + i] = data[i]
  BY <1>0, CopyToCells
<1>2. \A i \in 1..(w - r) : u[r + i] = v[r + i]
  <2> TAKE i \in 1..(w - r)
  <2>1. r + i \in 1..Len(v) /\ r + i \notin (q + 1)..(q + Len(data))
    BY <1>0
  <2>2. u = [j \in 1..Len(v) |->
               IF j \in (q + 1)..(q + Len(data)) THEN data[j - q] ELSE v[j]]
    BY DEF copyTo
  <2> HIDE DEF u
  <2> QED
    BY <2>1, <2>2
<1> HIDE DEF u
<1>3. s \in Seq(Cell) /\ Len(s) = w - r /\ \A i \in 1..(w - r) : s[i] = v[r + i]
  BY <1>0, SliceCells
<1>4. t \in Seq(Cell) /\ Len(t) = w - q /\ \A i \in 1..(w - q) : t[i] = u[q + i]
  BY <1>0, <1>1, SliceCells
<1> HIDE DEF s, t
<1>5. \A i \in 1..Len(data) : t[i] = data[i]
  <2> TAKE i \in 1..Len(data)
  <2>1. i \in 1..(w - q)
    BY <1>0
  <2> QED
    BY <1>1, <1>4, <2>1
<1>6. \A i \in 1..Len(s) : t[Len(data) + i] = s[i]
  <2> SUFFICES ASSUME NEW i \in 1..(w - r) PROVE t[Len(data) + i] = s[i]
    BY <1>3
  <2>1. Len(data) + i \in 1..(w - q) /\ q + (Len(data) + i) = r + i
    BY <1>0
  <2> QED
    BY <1>2, <1>3, <1>4, <2>1
<1>7. Len(t) = Len(data) + Len(s)
  BY <1>0, <1>3, <1>4
<1>8. t = data \o s
  BY <1>3, <1>4, <1>5, <1>6, <1>7, ConcatBuilt
<1> QED
  BY <1>8 DEF u, s, t, r

\* prepend() of what its assert allows puts the data before the content and leaves the
\* content as it is: the header of a message can be written last.
THEOREM PrependContent ==
  ASSUME NEW Cell, NEW b \in Buffers(Cell), NEW data \in Seq(Cell),
         Len(data) <= prependableBytes(b)
  PROVE  prepend(b, data) \in Buffers(Cell) /\ Content(prepend(b, data)) = data \o Content(b)
<1> DEFINE v == b.buffer_
           r == b.readerIndex_
           w == b.writerIndex_
           q == r - Len(data)
           u == copyTo(v, q, data)
           e == [buffer_ |-> u, readerIndex_ |-> q, writerIndex_ |-> w]
<1>1. /\ v \in Seq(Cell) /\ r \in Nat /\ w \in Nat /\ r <= w /\ w <= Len(v)
      /\ kCheapPrepend <= Len(v)
  BY BufferFields
<1>2. prepend(b, data) = e
  <2>1. b = [buffer_ |-> v, readerIndex_ |-> r, writerIndex_ |-> w]
    BY BufferFields
  <2>2. prepend(b, data) = [b EXCEPT !.buffer_ = u, !.readerIndex_ = q]
    BY DEF prepend
  <2> HIDE DEF u, v, r, w, q
  <2> QED
    BY <2>1, <2>2
<1>3. Content(b) = SubSeq(v, r + 1, w) /\ Content(e) = SubSeq(u, q + 1, w)
  BY DEF Content
<1>4. Len(data) <= r
  BY DEF prependableBytes
<1> HIDE DEF v, r, w
<1>5. q \in Nat /\ r = q + Len(data) /\ q <= w /\ q + Len(data) <= Len(v)
  BY <1>1, <1>4
<1> HIDE DEF q
<1>6. u \in Seq(Cell) /\ Len(u) = Len(v)
  BY <1>1, <1>5, CopyToCells
<1>7. SubSeq(u, q + 1, w) = data \o SubSeq(v, r + 1, w)
  <2>1. SubSeq(u, q + 1, w) = data \o SubSeq(v, q + Len(data) + 1, w)
    <3>1. v \in Seq(Cell) /\ q \in Nat /\ w \in Nat /\ q + Len(data) <= w /\ w <= Len(v)
      BY <1>1, <1>5
    <3> QED
      BY <3>1, PrefixSlice, ZenonT(60)
  <2> HIDE DEF u
  <2> QED
    BY <1>5, <2>1
<1> HIDE DEF u
<1>8. e \in Buffers(Cell)
  BY <1>1, <1>5, <1>6, MakeBuffer
<1> HIDE DEF e
<1> QED
  BY <1>2, <1>3, <1>7, <1>8

\* unwrite() takes len cells off the end of the content.
THEOREM UnwriteContent ==
  ASSUME NEW Cell, NEW b \in Buffers(Cell), NEW len \in Nat, len <= readableBytes(b)
  PROVE  /\ unwrite(b, len) \in Buffers(Cell)
         /\ Content(unwrite(b, len)) = SubSeq(Content(b), 1, Len(Content(b)) - len)
<1> DEFINE v == b.buffer_
           r == b.readerIndex_
           w == b.writerIndex_
           x == w - len
           e == [buffer_ |-> v, readerIndex_ |-> r, writerIndex_ |-> x]
<1>1. /\ v \in Seq(Cell) /\ r \in Nat /\ w \in Nat /\ r <= w /\ w <= Len(v)
      /\ kCheapPrepend <= Len(v)
  BY BufferFields
<1>2. unwrite(b, len) = e
  <2>1. b = [buffer_ |-> v, readerIndex_ |-> r, writerIndex_ |-> w]
    BY BufferFields
  <2>2. unwrite(b, len) = [b EXCEPT !.writerIndex_ = x]
    BY DEF unwrite
  <2> HIDE DEF v, r, w, x
  <2> QED
    BY <2>1, <2>2
<1>3. /\ Content(b) = SubSeq(v, r + 1, w) /\ Content(e) = SubSeq(v, r + 1, x)
      /\ len <= w - r
  BY DEF Content, readableBytes
<1> HIDE DEF v, r, w
<1>4. x \in Nat /\ r <= x /\ x <= Len(v) /\ x = w - len
  BY <1>1, <1>3
<1> HIDE DEF x
<1>5. e \in Buffers(Cell)
  BY <1>1, <1>4, MakeBuffer
<1>6. SubSeq(v, r + 1, x) = SubSeq(SubSeq(v, r + 1, w), 1, (w - r) - len)
  <2> DEFINE c == SubSeq(v, r + 1, w)
             n == (w - r) - len
             s == SubSeq(v, r + 1, x)
             t == SubSeq(c, 1, n)
  <2>1. c \in Seq(Cell) /\ Len(c) = w - r /\ \A i \in 1..(w - r) : c[i] = v[r + i]
    BY <1>1, SliceCells
  <2>2. s \in Seq(Cell) /\ Len(s) = x - r /\ \A i \in 1..(x - r) : s[i] = v[r + i]
    BY <1>1, <1>4, SliceCells
  <2> HIDE DEF c, s
  <2>3. n \in Nat /\ 0 <= n /\ n <= Len(c) /\ n = x - r
    BY <1>1, <1>3, <1>4, <2>1
  <2> HIDE DEF n
  <2>4. t \in Seq(Cell) /\ Len(t) = n /\ \A i \in 1..n : t[i] = c[i]
    BY <2>1, <2>3
  <2> HIDE DEF t
  <2>5. Len(s) = Len(t) /\ \A i \in 1..Len(s) : s[i] = t[i]
    BY <1>1, <1>4, <2>1, <2>2, <2>3, <2>4
  <2>6. s = t
    BY <2>2, <2>4, <2>5
  <2> QED
    BY <2>6 DEF s, t, c, n
<1>7. Len(Content(b)) = w - r
  BY <1>1, <1>3
<1> QED
  BY <1>2, <1>3, <1>5, <1>6, <1>7
=============================================================================
