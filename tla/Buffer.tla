------------------------------- MODULE Buffer -------------------------------
(***************************************************************************)
(* network/Buffer: a vector with room in front of the content, used as the *)
(* input and output buffer of a connection and to build messages in.       *)
(*                                                                         *)
(* A buffer is a record with the fields of the class; indices count from 0 *)
(* as in the code, so cell i of the vector is buffer_[i + 1].              *)
(***************************************************************************)
EXTENDS Integers, Sequences

CONSTANTS kCheapPrepend, kInitialSize,
          ExtraSize   \* size of readFd()'s extrabuf

ASSUME SizesAssumption == {kCheapPrepend, kInitialSize, ExtraSize} \subseteq Nat

Zero == <<"zero">>   \* what new cells of the vector hold

newBuffer ==
  [buffer_ |-> [i \in 1..(kCheapPrepend + kInitialSize) |-> Zero],
   readerIndex_ |-> kCheapPrepend, writerIndex_ |-> kCheapPrepend]

readableBytes(b) == b.writerIndex_ - b.readerIndex_
writableBytes(b) == Len(b.buffer_) - b.writerIndex_
prependableBytes(b) == b.readerIndex_

\* The content: the readableBytes() cells at peek().
Content(b) == SubSeq(b.buffer_, b.readerIndex_ + 1, b.writerIndex_)

\* std::copy of data to index at, and std::vector::resize.
copyTo(v, at, data) ==
  [i \in DOMAIN v |-> IF i \in (at + 1)..(at + Len(data)) THEN data[i - at] ELSE v[i]]
resize(v, n) == [i \in 1..n |-> IF i \in DOMAIN v THEN v[i] ELSE Zero]

retrieve(b, len) ==
  IF len < readableBytes(b)
  THEN [b EXCEPT !.readerIndex_ = @ + len]
  ELSE [b EXCEPT !.readerIndex_ = kCheapPrepend, !.writerIndex_ = kCheapPrepend]

\* retrieveAsString(), and the readInt functions: what is returned, and the buffer left.
retrieveAsString(b, len) ==
  [result |-> SubSeq(Content(b), 1, len), buffer |-> retrieve(b, len)]

\* Faulty: the room in front is taken for free space.
makeSpaceTooLittle(b, len) ==
  IF writableBytes(b) + prependableBytes(b) < len
  THEN [b EXCEPT !.buffer_ = resize(@, b.writerIndex_ + len)]
  ELSE [b EXCEPT !.buffer_ = copyTo(@, kCheapPrepend, Content(b)),
                 !.readerIndex_ = kCheapPrepend,
                 !.writerIndex_ = kCheapPrepend + readableBytes(b)]

\* Faulty: the content is not moved with its indices.
makeSpaceUnmoved(b, len) ==
  IF writableBytes(b) + prependableBytes(b) < len + kCheapPrepend
  THEN [b EXCEPT !.buffer_ = resize(@, b.writerIndex_ + len)]
  ELSE [b EXCEPT !.readerIndex_ = kCheapPrepend,
                 !.writerIndex_ = kCheapPrepend + readableBytes(b)]

makeSpace(b, len) ==
  IF writableBytes(b) + prependableBytes(b) < len + kCheapPrepend
  THEN [b EXCEPT !.buffer_ = resize(@, b.writerIndex_ + len)]
  ELSE [b EXCEPT !.buffer_ = copyTo(@, kCheapPrepend, Content(b)),
                 !.readerIndex_ = kCheapPrepend,
                 !.writerIndex_ = kCheapPrepend + readableBytes(b)]

ensureWritableBytes(b, len) == IF writableBytes(b) < len THEN makeSpace(b, len) ELSE b

\* Data copied to beginWrite(), and hasWritten().
write(b, data) ==
  [b EXCEPT !.buffer_ = copyTo(@, b.writerIndex_, data), !.writerIndex_ = @ + Len(data)]

unwrite(b, len) == [b EXCEPT !.writerIndex_ = @ - len]

\* append(), of a string, of raw bytes or of the bytes of an integer.
append(b, data) == write(ensureWritableBytes(b, Len(data)), data)

prepend(b, data) ==
  [b EXCEPT !.buffer_ = copyTo(@, b.readerIndex_ - Len(data), data),
            !.readerIndex_ = @ - Len(data)]

\* The most readv() can read: extrabuf is offered unless the buffer has its size.
readLimit(b) ==
  IF writableBytes(b) < ExtraSize THEN writableBytes(b) + ExtraSize ELSE writableBytes(b)

\* readFd() after readv() has read data: what did not fit is appended.
readFd(b, data) ==
  LET w == writableBytes(b)
      direct == [b EXCEPT !.buffer_ = copyTo(@, b.writerIndex_, SubSeq(data, 1, w))]
  IN  IF Len(data) <= w
      THEN write(b, data)
      ELSE append([direct EXCEPT !.writerIndex_ = Len(b.buffer_)],
                  SubSeq(data, w + 1, Len(data)))
=============================================================================
