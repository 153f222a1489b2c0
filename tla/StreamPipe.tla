----------------------------- MODULE StreamPipe -----------------------------
(***************************************************************************)
(* Two streams of different sizes and the operations that carry bytes from *)
(* one ring straight into the other: Stream_writeStream, called on the     *)
(* stream that gets the bytes, and Stream_readStream, called on the one    *)
(* that gives them.  Either ring may wrap in the middle of a transfer, and *)
(* either side may be limited.  userCodes.c echoes its input this way.     *)
(***************************************************************************)
EXTENDS StreamBuffer

CONSTANTS
  InSize, OutSize,  \* bytes in the two buffers
  Limits            \* the lengths the program passes to set*Limit

ASSUME SizesAssumption  == InSize \in 1 .. MaxLen /\ OutSize \in 1 .. MaxLen
ASSUME LimitsAssumption ==
  Limits \subseteq (NoLimit .. IF InSize < OutSize THEN InSize ELSE OutSize)

VARIABLES in, out, call

vars == <<in, out, call>>

Call(op, res, len, val) == [op |-> op, res |-> res, len |-> len, val |-> val]

Init ==
  /\ in  = Stream_init([i \in 0 .. InSize - 1 |-> 0], InSize)
  /\ out = Stream_init([i \in 0 .. OutSize - 1 |-> 0], OutSize)
  /\ call = Call("init", "Stream_Ok", 0, <<>>)

-----------------------------------------------------------------------------
\* Bytes come in at one end (IStream_receiveBytes is this call on its ring) ...
WriteIn(val) ==
  LET r == Stream_writeBytes(in, val) IN
  /\ in' = r.s
  /\ call' = Call("write", r.res, Len(val), IF r.res = "Stream_Ok" THEN val ELSE <<>>)
  /\ UNCHANGED out

\* IStream_receiveByte stores the byte before moveWritePos looks for space: in a
\* full ring it lands on the oldest byte and the call is refused.
IStream_receiveByte(val) ==
  LET r == Stream_moveWritePos([in EXCEPT !.Data[in.WPos] = val], 1) IN
  /\ in' = r.s
  /\ call' = Call("receiveByte", r.res, 1, <<val>>)
  /\ UNCHANGED out

\* ... and leaves at the other.
ReadOut(len) ==
  LET r == Stream_readBytes(out, len) IN
  /\ out' = r.s
  /\ call' = Call("read", r.res, len, r.val)
  /\ UNCHANGED in

Transferred(r, len) ==
  /\ in' = r.in /\ out' = r.out
  /\ call' = Call("transfer", r.res, len, <<>>)

WriteStream(len) == Transferred(Stream_writeStream(out, in, len), len)
ReadStream(len)  == Transferred(Stream_readStream(in, out, len), len)

LimitWriting(len) ==
  /\ out' = Stream_setWriteLimit(out, len)
  /\ call' = Call("limit", "Stream_Ok", 0, <<>>)
  /\ UNCHANGED in

LimitReading(len) ==
  /\ in' = Stream_setReadLimit(in, len)
  /\ call' = Call("limit", "Stream_Ok", 0, <<>>)
  /\ UNCHANGED out

Next ==
  \/ \E val \in UNION {[1 .. n -> Byte] : n \in 1 .. InSize} : WriteIn(val)
  \/ \E val \in Byte : IStream_receiveByte(val)
  \/ \E len \in 1 .. OutSize : ReadOut(len)
  \/ \E len \in 0 .. InSize + 1 : WriteStream(len) \/ ReadStream(len)
  \/ \E len \in Limits : LimitWriting(len) \/ LimitReading(len)

Spec == Init /\ [][Next]_vars

-----------------------------------------------------------------------------
TypeOK == in \in Stream(InSize) /\ out \in Stream(OutSize)

\* Both rings keep their types and the shape that their positions and flag
\* describe, and their limits promise only what is there, whichever of the two
\* wrapped on the way.
BothSound == /\ TypeOK
             /\ Consistent(in) /\ Consistent(out)
             /\ LimitsWithin(in) /\ LimitsWithin(out)

\* The bytes under way from one end to the other, oldest first.
UnderWay == Contents(out) \o Contents(in)

\* The two rings are one pipe: a transfer neither loses, doubles nor reorders a
\* byte, what is written comes last and what is read came first.  The one call
\* that harms a byte is a receiveByte that is refused: it replaces the oldest one
\* of the full ring.
PipeStep ==
  CASE call'.op = "write" \/ (call'.op = "receiveByte" /\ call'.res = "Stream_Ok") ->
         UnderWay' = UnderWay \o call'.val
    [] call'.op = "receiveByte" /\ call'.res # "Stream_Ok" ->
         /\ Stream_isFull(in)
         /\ UnderWay' = Contents(out) \o call'.val \o Tail(Contents(in))
    [] call'.op = "read"  -> UnderWay = call'.val \o UnderWay'
    [] OTHER              -> UnderWay' = UnderWay

OnePipe == [][PipeStep]_vars

\* A transfer moves all the bytes it is asked for or none, pays for them with
\* the limits of both sides, and is refused only for want of bytes, space or
\* length.
TransferStep ==
  call'.op = "transfer" =>
    IF call'.res = "Stream_Ok"
    THEN /\ Stream_availableReal(out') = Stream_availableReal(out) + call'.len
         /\ Stream_isWriteLimited(out) =>
              Stream_space(out') = Stream_space(out) - call'.len
         /\ Stream_isReadLimited(in) =>
              Stream_available(in') = Stream_available(in) - call'.len
    ELSE /\ UNCHANGED <<in, out>>
         /\ \/ call'.len = 0
            \/ call'.len > Stream_space(out)
            \/ call'.len > Stream_available(in)

TransfersAreWhole == [][TransferStep]_vars
=============================================================================
