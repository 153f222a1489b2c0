------------------------------ MODULE StreamOps ------------------------------
(***************************************************************************)
(* One stream and a program that calls every operation of StreamBuffer.c   *)
(* that changes it, in any order and with any arguments of bounded length. *)
(* The variable call records the last operation as the caller sees it.     *)
(*                                                                         *)
(* The program may move the positions past the reader and the writer       *)
(* (moveWritePos, moveReadPos, reset, clear) while a limit is set.  The    *)
(* limit then no longer describes the stream, it outlives the bytes that   *)
(* it counted, and nothing is claimed of what follows.                     *)
(***************************************************************************)
EXTENDS StreamBuffer

CONSTANTS
  Size,     \* bytes in the buffer
  Limits    \* the lengths the program passes to set*Limit

ASSUME SizeAssumption   == Size \in 1 .. MaxLen
ASSUME LimitsAssumption == Limits \subseteq (NoLimit .. Size)

VARIABLES stream, call

vars == <<stream, call>>

Lens == 0 .. Size + 1                       \* one more than ever fits
Vals == UNION {[1 .. n -> Byte] : n \in Lens}

\* The call as its caller sees it.
Call(op, res, len, val) == [op |-> op, res |-> res, len |-> len, val |-> val]

Init == /\ \E data \in [0 .. Size - 1 -> Byte] : stream = Stream_init(data, Size)
        /\ call = Call("init", "Stream_Ok", 0, <<>>)

-----------------------------------------------------------------------------
Returned(op, r, len, val) ==
  /\ stream' = r.s
  /\ call' = Call(op, r.res, len, IF r.res = "Stream_Ok" THEN val ELSE <<>>)

WriteBytes(val) ==
  Returned("put", Stream_writeBytes(stream, val), Len(val), val)

\* Its promise is that the bytes appear in the stream in reverse order.
WriteBytesReverse(val) ==
  Returned("put", Stream_writeBytesReverse(stream, val), Len(val), Reverse(val))

WriteNumber(val) ==
  /\ Len(val) > 0
  /\ Returned("put", writeNumber(stream, val), Len(val),
              IF stream.OrderFn THEN Reverse(val) ELSE val)

WritePadding(val, len) ==
  Returned("putAny", Stream_writePadding(stream, val, len), len, Repeat(val, len))

ReadBytes(len) ==
  LET r == Stream_readBytes(stream, len) IN Returned("take", r, len, r.val)

ReadBytesReverse(len) ==
  LET r == Stream_readBytesReverse(stream, len)
  IN  Returned("takeReverse", r, len, r.val)

ReadNumber(len) ==
  /\ len > 0
  /\ LET r == readNumber(stream, len)
     IN  Returned(IF stream.OrderFn THEN "takeReverse" ELSE "take", r, len, r.val)

MoveWritePos(steps) ==
  Returned("putAny", Stream_moveWritePos(stream, steps), steps, <<>>)

MoveReadPos(steps) ==
  Returned("drop", Stream_moveReadPos(stream, steps), steps, <<>>)

Reset ==
  Returned("clear", Done(Stream_reset(stream)), 0, <<>>)

ResetIO ==
  Returned("clear", Done(Stream_resetIO(stream)), 0, <<>>)

Clear ==
  Returned("clear", Done(Stream_clear(stream)), 0, <<>>)

SetWriteLimit(len) ==
  Returned("limit", Done(Stream_setWriteLimit(stream, len)), 0, <<>>)

SetReadLimit(len) ==
  Returned("limit", Done(Stream_setReadLimit(stream, len)), 0, <<>>)

SetByteOrder(foreign) ==
  Returned("limit", Done(Stream_setByteOrder(stream, foreign)), 0, <<>>)

Next ==
  \/ \E val \in Vals :
       WriteBytes(val) \/ WriteBytesReverse(val) \/ WriteNumber(val)
  \/ \E val \in Byte, len \in Lens : WritePadding(val, len)
  \/ \E len \in Lens : ReadBytes(len) \/ ReadBytesReverse(len) \/ ReadNumber(len)
  \/ \E steps \in Lens : MoveWritePos(steps) \/ MoveReadPos(steps)
  \/ Reset \/ ResetIO \/ Clear
  \/ \E len \in Limits : SetWriteLimit(len) \/ SetReadLimit(len)
  \/ \E foreign \in BOOLEAN : SetByteOrder(foreign)

Spec == Init /\ [][Next]_vars

-----------------------------------------------------------------------------
\* The struct keeps its types: in particular both positions stay inside the
\* buffer and no limit exceeds it, whatever is called in whatever order.
TypeOK == stream \in Stream(Size)

\* The flag and the two positions always describe between 0 and Size bytes,
\* whatever sequence of writes, reads, moves and resets led there: the flag
\* the writers set on a wrap and the readers clear on theirs never disagrees
\* with the order of the positions.
PositionsAgree == Consistent(stream)

\* Stream_spaceLimit returns the "space available for write bytes respect to
\* write limit" (StreamBuffer.c:545) and Stream_availableLimit the "available
\* bytes for read respect to read limit" (StreamBuffer.c:581): a limit never
\* promises a byte that is not there, at the call that sets it and after every
\* call that follows.
LimitsHold == LimitsWithin(stream)

Inv == TypeOK /\ PositionsAgree /\ LimitsHold

\* A call that changes what a limit counts and does not charge the limit.
MovesUncharged ==
  \/ Stream_isWriteLimited(stream) /\ \E steps \in Lens : MoveWritePos(steps)
  \/ /\ Stream_isReadLimited(stream)
     /\ (\E steps \in Lens : MoveReadPos(steps)) \/ Reset \/ ResetIO \/ Clear

\* Nothing but the move of a position under its own limit, or a reset or clear
\* under a read limit, makes a limit promise what is not there
\* (Stream_moveWritePos, moveReadPos, reset, resetIO, clear).
LimitsBreakOnlyByMoves == [][~ LimitsHold' /\ Inv => MovesUncharged]_vars

\* The stream is a bounded FIFO queue: every call does to the bytes in the ring
\* what the queue's action does to the sequence of bytes, delivers the oldest
\* ones, and is refused only for a lack of room, of bytes or of length.
Queue == INSTANCE ByteQueue WITH
  Capacity   <- Size,
  Unlimited  <- NoLimit,
  q          <- Contents(stream),
  writeLimit <- stream.WriteLimit,
  readLimit  <- stream.ReadLimit

ImplementsQueue == Queue!Spec
=============================================================================
