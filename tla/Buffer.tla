------------------------------- MODULE Buffer --------------------------------
(***************************************************************************)
(* The buffer of a TcpConnection (network/Buffer.h, Buffer.cc): one vector  *)
(* of bytes with two indices.  The bytes between readerIndex_ and           *)
(* writerIndex_ are the contents, CheapPrepend bytes before them are kept   *)
(* free for a header, and room is made by moving the contents back or by    *)
(* growing the vector.  Each method is an operator from buffers to buffers, *)
(* each call of a user an action; a buffer belongs to one IO thread.        *)
(***************************************************************************)
EXTENDS Naturals, Sequences

CONSTANTS CheapPrepend,   (* kCheapPrepend: 8                               *)
          InitialSize,    (* kInitialSize: 4096                             *)
          ExtraSize,      (* bytes of readFd's second vector: 2^20          *)
          Byte,           (* the bytes; 0 is what the vector is filled with *)
          MaxPiece,       (* bound: bytes of one call                       *)
          MaxSize         (* bound: bytes of the vector                     *)

ASSUME BufferAssumption ==
    /\ CheapPrepend \in Nat /\ InitialSize \in Nat /\ ExtraSize \in Nat
    /\ MaxPiece \in Nat /\ MaxSize \in Nat
    /\ 0 \in Byte

VARIABLES buffer,   (* mem, readerIndex_ and writerIndex_                   *)
          io,       (* the last call and its bytes                          *)
          header    (* bytes were prepended and the buffer was not empty    *)
                    (* since                                                *)

vars == <<buffer, io, header>>

Pieces == UNION {[1..n -> Byte] : n \in 0..MaxPiece}

Zeros(n) == [i \in 1..n |-> 0]

New == [mem    |-> Zeros(CheapPrepend + InitialSize),
        reader |-> CheapPrepend,
        writer |-> CheapPrepend]

ReadableBytes(b)    == b.writer - b.reader
WritableBytes(b)    == Len(b.mem) - b.writer
PrependableBytes(b) == b.reader

(* What peek() points to.                                                   *)
Content(b) == [i \in 1..ReadableBytes(b) |-> b.mem[b.reader + i]]

(* std::copy of data to mem + at.                                           *)
CopyTo(mem, at, data) ==
    [i \in 1..Len(mem) |-> IF at < i /\ i <= at + Len(data) THEN data[i - at] ELSE mem[i]]

Resize(mem, n) == [i \in 1..n |-> IF i <= Len(mem) THEN mem[i] ELSE 0]

(* Faulty variant: the room in front counts in full, header and all.        *)
FitsWithoutHeader(b, len) == WritableBytes(b) + PrependableBytes(b) >= len

(* The contents need not grow the vector, they can move.                    *)
Fits(b, len) == WritableBytes(b) + PrependableBytes(b) >= len + CheapPrepend

MoveToFront(b) == [mem    |-> CopyTo(b.mem, CheapPrepend, Content(b)),
                   reader |-> CheapPrepend,
                   writer |-> CheapPrepend + ReadableBytes(b)]

MakeSpace(b, len) ==
    IF Fits(b, len) THEN MoveToFront(b)
                    ELSE [b EXCEPT !.mem = Resize(b.mem, b.writer + len)]

EnsureWritableBytes(b, len) == IF WritableBytes(b) < len THEN MakeSpace(b, len) ELSE b

Written(b, data) == [mem    |-> CopyTo(b.mem, b.writer, data),
                     reader |-> b.reader,
                     writer |-> b.writer + Len(data)]

Appended(b, data) == Written(EnsureWritableBytes(b, Len(data)), data)

(* Faulty variant: the indices go to the front, as in a plain queue.        *)
RetrieveAllToFront(b) == [b EXCEPT !.reader = 0, !.writer = 0]

RetrieveAll(b) == [b EXCEPT !.reader = CheapPrepend, !.writer = CheapPrepend]

(* Faulty variant: everything up to the last byte counts as everything.     *)
RetrieveLazily(b, len) ==
    IF len + 1 < ReadableBytes(b) THEN [b EXCEPT !.reader = @ + len] ELSE RetrieveAll(b)

Retrieve(b, len) ==
    IF len < ReadableBytes(b) THEN [b EXCEPT !.reader = @ + len] ELSE RetrieveAll(b)

Unwritten(b, len) == [b EXCEPT !.writer = @ - len]

Prepended(b, data) == [mem    |-> CopyTo(b.mem, b.reader - Len(data), data),
                       reader |-> b.reader - Len(data),
                       writer |-> b.writer]

(* The scatter read of readFd has brought data: what the vector has room    *)
(* for is there already, the rest is in extrabuf and is appended.           *)
ReadInto(b, data) ==
    LET room == WritableBytes(b) IN
    IF Len(data) <= room THEN Written(b, data)
    ELSE Appended(Written(b, SubSeq(data, 1, room)), SubSeq(data, room + 1, Len(data)))

(* How much one read can bring: extrabuf is offered if the vector has less  *)
(* room than it.                                                            *)
Offered(b) ==
    WritableBytes(b) + (IF WritableBytes(b) < ExtraSize THEN ExtraSize ELSE 0)

------------------------------------------------------------------------------
(* The order of the picture at Buffer.h:18-24.                              *)
Valid(b) ==
    /\ b \in [mem : Seq(Byte), reader : Nat, writer : Nat]
    /\ b.reader <= b.writer /\ b.writer <= Len(b.mem)
    /\ CheapPrepend <= Len(b.mem)

TypeOK ==
    /\ Valid(buffer)
    /\ io \in [op : {"new", "put", "take", "unwrite", "prepend"}, data : Seq(Byte)]
    /\ header \in BOOLEAN

Init ==
    /\ buffer = New
    /\ io = [op |-> "new", data |-> <<>>]
    /\ header = FALSE

Call(op, data) == io' = [op |-> op, data |-> data]

(* Bound: the vector stays small.                                           *)
Small(b) == Len(b.mem) <= MaxSize

(* append: an answer that cannot be written at once.                        *)
DoAppend ==
    \E data \in Pieces :
        /\ Small(Appended(buffer, data))
        /\ buffer' = Appended(buffer, data)
        /\ Call("put", data)
        /\ UNCHANGED header

(* readFd: what a client has sent.                                          *)
DoReadFd ==
    \E data \in Pieces :
        /\ Len(data) <= Offered(buffer)
        /\ Small(ReadInto(buffer, data))
        /\ buffer' = ReadInto(buffer, data)
        /\ Call("put", data)
        /\ UNCHANGED header

(* retrieve and retrieveAsString: what the socket has taken, or the line    *)
(* that the session takes; the assertion bounds len.                        *)
DoRetrieve ==
    \E len \in 0..ReadableBytes(buffer) :
        /\ buffer' = Retrieve(buffer, len)
        /\ Call("take", SubSeq(Content(buffer), 1, len))
        /\ header' = (header /\ len < ReadableBytes(buffer))

DoUnwrite ==
    \E len \in 0..ReadableBytes(buffer) :
        /\ buffer' = Unwritten(buffer, len)
        /\ Call("unwrite", SubSeq(Content(buffer), ReadableBytes(buffer) - len + 1,
                                                   ReadableBytes(buffer)))
        /\ UNCHANGED header

DoPrepend ==
    \E data \in Pieces :
        /\ Len(data) <= PrependableBytes(buffer)
        /\ buffer' = Prepended(buffer, data)
        /\ Call("prepend", data)
        /\ header' = TRUE

Next == DoAppend \/ DoReadFd \/ DoRetrieve \/ DoUnwrite \/ DoPrepend

Spec == Init /\ [][Next]_vars

------------------------------------------------------------------------------
(* Whatever mixture of moves, growth and retreats happens inside, the       *)
(* contents change by the bytes of the call and nothing else                *)
(* (Buffer.h:53-118, 232-266, Buffer.cc:14-55).                             *)
Bytes == INSTANCE ByteQueue WITH content <- Content(buffer)
ImplementsByteQueue == Bytes!Spec

(* The assertions of Buffer.h:102, 258 and 264 for every length the next    *)
(* call may ask for: there is room afterwards, nothing is moved on top of   *)
(* itself, and the contents are what they were.                             *)
SpaceIsMade ==
    \A len \in 0..MaxPiece :
        LET b == EnsureWritableBytes(buffer, len) IN
        /\ WritableBytes(b) >= len
        /\ Content(b) = Content(buffer)
        /\ WritableBytes(buffer) < len /\ Fits(buffer, len) => CheapPrepend < buffer.reader

(* A header of CheapPrepend bytes can be prepended without copying unless   *)
(* there is one already (Buffer.h:27, 70-73, 253-263).                      *)
HeaderFits == ~header => PrependableBytes(buffer) >= CheapPrepend
==============================================================================
