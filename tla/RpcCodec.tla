------------------------------ MODULE RpcCodec ------------------------------
(***************************************************************************)
(* proto_rpc/rpc_framework/RpcCodec over the input Buffer of a connection: *)
(* one side sends messages, TCP delivers their bytes in any pieces, and    *)
(* the other side's handleRead() and onMessage() find the messages again.  *)
(*                                                                         *)
(* A cell of a buffer stands for some bytes.  A 32-bit word takes Word     *)
(* cells, so that a word may arrive in pieces; a cell of a word is its     *)
(* kind, the word's value and the position in the word.                    *)
(***************************************************************************)
EXTENDS Buffer, SequencesExt

CONSTANTS Payloads,       \* serialized messages: sequences of cells
          Word,           \* cells of a 32-bit word
          kMaxMessageLen,
          MaxSends        \* bound: messages sent

ASSUME WordAssumption == Word \in Nat \ {0} /\ kCheapPrepend >= Word
ASSUME BoundsAssumption == {kMaxMessageLen, MaxSends} \subseteq Nat
\* send() does not look at kMaxMessageLen.
ASSUME PayloadsAssumption ==
  \A p \in Payloads : p \in Seq(ToSet(p)) /\ Len(p) + 2 * Word <= 2 * kMaxMessageLen

VARIABLES
  sent, received,   \* history: messages sent, and messages given to messageCallback_
  wire,             \* bytes in transit
  inputBuffer_,     \* of the receiving TcpConnection
  parsing           \* the loop thread is in onMessage()

vars == <<sent, received, wire, inputBuffer_, parsing>>

kHeaderLen == Word
kChecksumLen == Word
kMinMessageLen == Word

Init ==
  /\ sent = <<>> /\ received = <<>> /\ wire = <<>>
  /\ inputBuffer_ = newBuffer
  /\ parsing = FALSE

-----------------------------------------------------------------------------
\* hostToNetwork32() and networkToHost32(); words of a frame that is out of
\* step do not decode.
Int32(v) == [i \in 1..Word |-> <<"int", v, i>>]
Invalid == -1
asInt32(cells) == IF \E v \in 0..(2 * kMaxMessageLen) : cells = Int32(v)
                  THEN CHOOSE v \in 0..(2 * kMaxMessageLen) : cells = Int32(v)
                  ELSE Invalid

tag_ == [i \in 1..Word |-> <<"RPC0", 0, i>>]

\* adler32, taken to tell any two contents apart.
checksum(cells) == [i \in 1..Word |-> <<"sum", cells, i>>]

fillEmptyBuffer(payload) ==
  LET body == append(append(newBuffer, tag_), payload)
      sum  == append(body, checksum(Content(body)))
  IN  prepend(sum, Int32(readableBytes(sum)))

send(payload) ==
  /\ Len(sent) < MaxSends
  /\ wire' = wire \o Content(fillEmptyBuffer(payload))
  /\ sent' = Append(sent, payload)
  /\ UNCHANGED <<received, inputBuffer_, parsing>>

\* TcpConnection::handleRead() reads n cells and calls onMessage().
handleRead(n) ==
  /\ ~parsing
  /\ n <= Len(wire) /\ n <= readLimit(inputBuffer_)
  /\ inputBuffer_' = readFd(inputBuffer_, SubSeq(wire, 1, n))
  /\ wire' = SubSeq(wire, n + 1, Len(wire))
  /\ parsing' = TRUE
  /\ UNCHANGED <<sent, received>>

\* The frame of length len at peek(), behind its header.
Frame(len) == SubSeq(Content(inputBuffer_), kHeaderLen + 1, kHeaderLen + len)

validateChecksum(frame) ==
  SubSeq(frame, Len(frame) - kChecksumLen + 1, Len(frame))
    = checksum(SubSeq(frame, 1, Len(frame) - kChecksumLen))

parse(frame) ==
  /\ validateChecksum(frame)
  /\ SubSeq(frame, 1, Word) = tag_
Payload(frame) == SubSeq(frame, Word + 1, Len(frame) - kChecksumLen)

\* Faulty: a frame is complete only when more has arrived.
completeButLast(len) == readableBytes(inputBuffer_) > kHeaderLen + len

complete(len) == readableBytes(inputBuffer_) >= kHeaderLen + len

\* The length at peek(), or Invalid where the loop of onMessage() ends.
NextLen ==
  LET len == asInt32(SubSeq(Content(inputBuffer_), 1, kHeaderLen))
  IN  IF readableBytes(inputBuffer_) >= kMinMessageLen + kHeaderLen
         /\ len \in kMinMessageLen..kMaxMessageLen
      THEN len
      ELSE Invalid

CanDispatch == NextLen # Invalid /\ complete(NextLen) /\ parse(Frame(NextLen))

\* A turn of onMessage()'s loop: messageCallback_, then retrieve().
dispatch ==
  /\ parsing /\ CanDispatch
  /\ received' = Append(received, Payload(Frame(NextLen)))
  /\ inputBuffer_' = retrieve(inputBuffer_, kHeaderLen + NextLen)
  /\ UNCHANGED <<sent, wire, parsing>>

\* The loop ends: too little input, an invalid length, or a frame that does
\* not parse, which stays in the buffer.
leave ==
  /\ parsing /\ ~CanDispatch
  /\ parsing' = FALSE
  /\ UNCHANGED <<sent, received, wire, inputBuffer_>>

Next ==
  \/ \E p \in Payloads : send(p)
  \/ \E n \in 1..Len(wire) : handleRead(n)
  \/ dispatch \/ leave

Spec == Init /\ [][Next]_vars

-----------------------------------------------------------------------------
\* Besides the types: the indices of the buffer stay in order and in bounds.
TypeOK ==
  /\ sent \in Seq(Payloads) /\ received \in Seq(Payloads)
  /\ parsing \in BOOLEAN
  /\ inputBuffer_.readerIndex_ \in kCheapPrepend..inputBuffer_.writerIndex_
  /\ inputBuffer_.writerIndex_ <= Len(inputBuffer_.buffer_)

\* readFd(), makeSpace(), retrieve() and onMessage(): the messages received are the
\* first ones sent, in their order, and what is in the input buffer followed by
\* what is in transit is, cell by cell, the frames of the others; nothing is lost,
\* repeated or out of step, however the stream was cut and however the buffer was
\* moved and resized, and also once a message that is too long has arrived.
InputIsStream ==
  /\ IsPrefix(received, sent)
  /\ Content(inputBuffer_) \o wire
       = FlattenSeq([i \in 1..(Len(sent) - Len(received)) |->
                       Content(fillEmptyBuffer(sent[Len(received) + i]))])

TooLong(payload) == Len(payload) + 2 * Word > kMaxMessageLen

\* onMessage(): when all input has been read and handled no message is left in the
\* buffer: there may be no more input to call onMessage() again.  The exception is
\* a message longer than kMaxMessageLen, which send() does not refuse: it is never
\* received, nor is any message after it.
NothingLeftBehind ==
  ~parsing /\ wire = <<>> => received = sent \/ TooLong(sent[Len(received) + 1])
=============================================================================
