---------------------------- MODULE StreamBuffer ----------------------------
(***************************************************************************)
(* The ring buffer of Stream/StreamBuffer.c: the struct Stream as a record *)
(* and each function that works on it as an operator from the record       *)
(* before the call to the record after it.  An operation that can refuse   *)
(* returns a record with the result code in "res", the stream in "s" and,  *)
(* when it reads, the bytes it delivered in "val".                         *)
(*                                                                         *)
(* Every other module of the project works on streams through these        *)
(* operators.  The module declares no recursive operator, so that theorems *)
(* can be proved about its users.                                          *)
(***************************************************************************)
EXTENDS Integers, Sequences, SequencesExt

CONSTANTS
  MaxLen,   \* the greatest Stream_LenType (int16_t: 32767)
  Bytes     \* how many values a byte has (uint8_t: 256)

ASSUME MaxLenAssumption == MaxLen \in Nat \ {0}
ASSUME BytesAssumption  == Bytes \in Nat \ {0}

Byte    == 0 .. (Bytes - 1)
NoLimit == -1                         \* STREAM_NO_LIMIT

\* What is left of an int once it is stored in a Stream_LenType.
ToLen(x) == IF x > MaxLen THEN x - 2 * (MaxLen + 1) ELSE x

(***************************************************************************)
(* The struct.  Overflow is the number 0 or 1 because the code multiplies  *)
(* by it; the other one-bit fields are Booleans.                           *)
(***************************************************************************)
Stream(size) ==
  [ Data        : [0 .. size - 1 -> Byte],
    Size        : {size},
    WPos        : 0 .. size - 1,
    RPos        : 0 .. size - 1,
    WriteLimit  : NoLimit .. size,
    ReadLimit   : NoLimit .. size,
    Overflow    : 0 .. 1,
    OrderFn     : BOOLEAN,
    InReceive   : BOOLEAN,
    InTransmit  : BOOLEAN,
    WriteLocked : BOOLEAN,
    ReadLocked  : BOOLEAN ]

Stream_init(data, size) ==
  [ Data        |-> data,    Size       |-> size,
    WPos        |-> 0,       RPos       |-> 0,
    WriteLimit  |-> NoLimit, ReadLimit  |-> NoLimit,
    Overflow    |-> 0,       OrderFn    |-> FALSE,
    InReceive   |-> FALSE,   InTransmit |-> FALSE,
    WriteLocked |-> FALSE,   ReadLocked |-> FALSE ]

-----------------------------------------------------------------------------
(* How full the stream is. *)

Stream_availableReal(s) == s.Size * s.Overflow + s.WPos - s.RPos
Stream_spaceReal(s)     == s.Size * (1 - s.Overflow) + s.RPos - s.WPos
Stream_isEmpty(s)       == s.RPos = s.WPos /\ s.Overflow = 0
Stream_isFull(s)        == s.RPos = s.WPos /\ s.Overflow = 1

Stream_directAvailable(s) ==
  IF s.Overflow = 1 THEN s.Size - s.RPos ELSE s.WPos - s.RPos

Stream_directSpace(s) ==
  IF s.Overflow = 1 THEN s.RPos - s.WPos ELSE s.Size - s.WPos

\* The bytes a stream holds, oldest first: what its owner means by it.
Contents(s) ==
  [i \in 1 .. Stream_availableReal(s) |-> s.Data[(s.RPos + i - 1) % s.Size]]

Stream_isWriteLimited(s) == s.WriteLimit >= 0
Stream_isReadLimited(s)  == s.ReadLimit >= 0

Stream_spaceLimit(s) ==
  IF Stream_isWriteLimited(s) THEN s.WriteLimit ELSE Stream_spaceReal(s)
Stream_availableLimit(s) ==
  IF Stream_isReadLimited(s) THEN s.ReadLimit ELSE Stream_availableReal(s)

\* Both limits are compiled in, so the two macros are the limited versions.
Stream_space(s)     == Stream_spaceLimit(s)
Stream_available(s) == Stream_availableLimit(s)

Stream_setWriteLimit(s, len) ==
  [s EXCEPT !.WriteLimit =
     IF Stream_spaceReal(s) < len THEN Stream_spaceReal(s) ELSE len]

Stream_setReadLimit(s, len) ==
  [s EXCEPT !.ReadLimit =
     IF Stream_availableReal(s) < len THEN Stream_availableReal(s) ELSE len]

\* A platform of one byte order: OrderFn says that the stream has the other.
Stream_setByteOrder(s, foreign) == [s EXCEPT !.OrderFn = foreign]

\* A stream in one of the shapes the ring can have: Overflow is set exactly
\* while the writer has wrapped and the reader has not.
Consistent(s) == IF s.Overflow = 1 THEN s.WPos <= s.RPos ELSE s.RPos <= s.WPos

\* The limits promise no byte that is not there.
LimitsWithin(s) == /\ Stream_space(s) <= Stream_spaceReal(s)
                   /\ Stream_available(s) <= Stream_availableReal(s)

-----------------------------------------------------------------------------
(* Results. *)

Done(s)             == [res |-> "Stream_Ok", s |-> s]
Refuse(code, s)     == [res |-> code, s |-> s]
Deliver(s, val)     == [res |-> "Stream_Ok", s |-> s, val |-> val]
ReadRefuse(code, s) == [res |-> code, s |-> s, val |-> <<>>]

-----------------------------------------------------------------------------
(* Moving the positions without touching the bytes. *)

Stream_reset(s) == [s EXCEPT !.RPos = 0, !.WPos = 0, !.Overflow = 0]

Stream_resetIO(s) ==
  [s EXCEPT !.RPos = 0, !.WPos = 0, !.Overflow = 0,
            !.InReceive = FALSE, !.InTransmit = FALSE]

Stream_clear(s) ==
  [Stream_reset(s) EXCEPT !.Data = [i \in 0 .. s.Size - 1 |-> 0]]

\* Mutants: plausible bugs, each the code of the definition that follows it but
\* for one slip.  The name of a mutant ends in Mutant.
moveWriteToEndMutant(s, steps) ==
  LET pos == ToLen(s.WPos + steps)
  IN  IF Stream_space(s) < steps
      THEN Refuse("Stream_NoSpace", s)
      ELSE Done(IF pos > s.Size
                THEN [s EXCEPT !.WPos = pos % s.Size, !.Overflow = 1]
                ELSE [s EXCEPT !.WPos = pos])

\* The sum is stored in a Stream_LenType before it is compared with Size.
Stream_moveWritePos(s, steps) ==
  LET pos == ToLen(s.WPos + steps)
  IN  IF Stream_space(s) < steps
      THEN Refuse("Stream_NoSpace", s)
      ELSE Done(IF pos >= s.Size
                THEN [s EXCEPT !.WPos = pos % s.Size, !.Overflow = 1]
                ELSE [s EXCEPT !.WPos = pos])

Stream_moveReadPos(s, steps) ==
  LET pos == ToLen(s.RPos + steps)
  IN  IF Stream_available(s) < steps
      THEN Refuse("Stream_NoAvailable", s)
      ELSE Done(IF pos >= s.Size
                THEN [s EXCEPT !.RPos = pos % s.Size, !.Overflow = 0]
                ELSE [s EXCEPT !.RPos = pos])

\* Leave exactly len bytes of space after WPos.
Stream_flipWrite(s, len) ==
  LET pos == ToLen(s.WPos + len)
  IN  IF pos >= s.Size
      THEN [s EXCEPT !.RPos = pos % s.Size, !.Overflow = 0]
      ELSE [s EXCEPT !.RPos = pos, !.Overflow = 1]

\* Leave exactly len bytes to read after RPos.
Stream_flipRead(s, len) ==
  LET pos == ToLen(s.RPos + len)
  IN  IF pos >= s.Size
      THEN [s EXCEPT !.WPos = pos % s.Size, !.Overflow = 1]
      ELSE [s EXCEPT !.WPos = pos, !.Overflow = 0]

-----------------------------------------------------------------------------
(* Locks: a copy of the struct over the same bytes, through which a part of *)
(* the space, or of the bytes, is used before the stream itself moves.      *)

lockWriteNeverFullMutant(s, lock) ==
  IF s.WPos <= lock.WPos THEN lock.WPos - s.WPos ELSE s.Size - s.WPos + lock.WPos

\* How far the lock has moved ahead of the stream: the positions alone cannot
\* tell a lock that went all the way round from one that did not move.
Stream_lockWriteLen(s, lock) ==
  CASE s.WPos < lock.WPos -> lock.WPos - s.WPos
    [] s.WPos > lock.WPos -> s.Size - s.WPos + lock.WPos
    [] OTHER -> IF s.RPos = lock.RPos /\ s.Overflow = 0 /\ lock.Overflow = 1
                THEN s.Size ELSE 0

Stream_lockReadLen(s, lock) ==
  CASE s.RPos < lock.RPos -> lock.RPos - s.RPos
    [] s.RPos > lock.RPos -> s.Size - s.RPos + lock.RPos
    [] OTHER -> IF s.WPos = lock.WPos /\ s.Overflow = 1 /\ lock.Overflow = 0
                THEN s.Size ELSE 0

Stream_unlockWrite(s, lock) ==
  IF s.WriteLocked
  THEN [Stream_moveWritePos(s, Stream_lockWriteLen(s, lock)).s
          EXCEPT !.WriteLocked = FALSE]
  ELSE s

Stream_unlockRead(s, lock) ==
  IF s.ReadLocked
  THEN [Stream_moveReadPos(s, Stream_lockReadLen(s, lock)).s
          EXCEPT !.ReadLocked = FALSE]
  ELSE s

-----------------------------------------------------------------------------
(* Writing. *)

\* memcpy of the bytes src to the addresses from at on.
memCopy(data, at, src) ==
  [i \in DOMAIN data |->
     IF i \in at .. at + Len(src) - 1 THEN src[i - at + 1] ELSE data[i]]

\* memset of n bytes.
Repeat(val, n) == [i \in 1 .. n |-> val]

writeUnchargedMutant(s, len) == s

chargeWriteLimit(s, len) ==
  IF Stream_isWriteLimited(s) THEN [s EXCEPT !.WriteLimit = @ - len] ELSE s

\* Store "first" up to the end of the buffer and "rest" from its start ...
storeWrapped(s, first, rest) ==
  [s EXCEPT !.Data = memCopy(memCopy(s.Data, s.WPos, first), 0, rest),
            !.WPos = Len(rest), !.Overflow = 1]

\* ... or everything in one piece.
storeDirect(s, val) ==
  [s EXCEPT !.Data = memCopy(s.Data, s.WPos, val), !.WPos = @ + Len(val)]

\* The checks, the limit and the split that all four writers share.
write(s, len, first, rest, whole) ==
  CASE len = 0               -> Refuse("Stream_ZeroLen", s)
    [] len > 0 /\ Stream_space(s) < len
                             -> Refuse("Stream_NoSpace", s)
    [] OTHER                 ->
         LET c == chargeWriteLimit(s, len)
         IN  Done(IF s.WPos + len >= s.Size
                  THEN storeWrapped(c, first, rest)
                  ELSE storeDirect(c, whole))

Stream_writeBytes(s, val) ==
  LET tmpLen == s.Size - s.WPos
  IN  write(s, Len(val), SubSeq(val, 1, tmpLen),
            SubSeq(val, tmpLen + 1, Len(val)), val)

reverseInPlaceMutant(s, val) ==
  LET tmpLen == s.Size - s.WPos
  IN  write(s, Len(val), Reverse(SubSeq(val, 1, tmpLen)),
            Reverse(SubSeq(val, tmpLen + 1, Len(val))), Reverse(val))

\* The last bytes of val go to the end of the buffer, the first ones after
\* the wrap, each piece reversed.
Stream_writeBytesReverse(s, val) ==
  LET len == Len(val) - (s.Size - s.WPos)
  IN  write(s, Len(val), Reverse(SubSeq(val, len + 1, Len(val))),
            Reverse(SubSeq(val, 1, len)), Reverse(val))

\* "val += tmpLen" moves a pointer in the other writers; here val is the
\* padding byte itself.
Stream_writePadding(s, val, len) ==
  LET tmpLen == s.Size - s.WPos
  IN  write(s, len, Repeat(val, tmpLen),
            Repeat((val + tmpLen) % Bytes, len - tmpLen), Repeat(val, len))

\* writeUInt16 ... writeDouble: the bytes of a number, in the stream's order.
writeNumber(s, val) ==
  IF s.OrderFn THEN Stream_writeBytesReverse(s, val)
               ELSE Stream_writeBytes(s, val)

-----------------------------------------------------------------------------
(* Reading. *)

\* The n bytes of data from address at on.
slice(data, at, n) == [i \in 1 .. n |-> data[at + i - 1]]

readUnchargedMutant(s, len) == s

chargeReadLimit(s, len) ==
  IF Stream_isReadLimited(s) THEN [s EXCEPT !.ReadLimit = @ - len] ELSE s

readable(s, len) == len > 0 /\ len <= Stream_available(s)
readError(s, len) == IF len = 0 THEN "Stream_ZeroLen" ELSE "Stream_NoAvailable"

keepOverflowMutant(s, len) ==
  IF s.RPos + len >= s.Size
  THEN [chargeReadLimit(s, len) EXCEPT !.RPos = s.RPos + len - s.Size]
  ELSE [chargeReadLimit(s, len) EXCEPT !.RPos = s.RPos + len]

\* The positions after len bytes have been taken.
takeRead(s, len) ==
  IF s.RPos + len >= s.Size
  THEN [chargeReadLimit(s, len) EXCEPT !.RPos = s.RPos + len - s.Size,
                                       !.Overflow = 0]
  ELSE [chargeReadLimit(s, len) EXCEPT !.RPos = s.RPos + len]

Stream_readBytes(s, len) ==
  LET tmpLen == s.Size - s.RPos
      val    == IF s.RPos + len >= s.Size
                THEN slice(s.Data, s.RPos, tmpLen) \o
                     slice(s.Data, 0, len - tmpLen)
                ELSE slice(s.Data, s.RPos, len)
  IN  IF readable(s, len) THEN Deliver(takeRead(s, len), val)
                          ELSE ReadRefuse(readError(s, len), s)

\* The first piece goes, reversed, to the end of the caller's array.
Stream_readBytesReverse(s, len) ==
  LET tmpLen == s.Size - s.RPos
      val    == IF s.RPos + len >= s.Size
                THEN Reverse(slice(s.Data, 0, len - tmpLen)) \o
                     Reverse(slice(s.Data, s.RPos, tmpLen))
                ELSE Reverse(slice(s.Data, s.RPos, len))
  IN  IF readable(s, len) THEN Deliver(takeRead(s, len), val)
                          ELSE ReadRefuse(readError(s, len), s)

\* readUInt16 ... readDouble: a refused read returns STREAM_READ_DEFAULT_VALUE
\* and its result code is dropped.
readNumber(s, len) ==
  LET r == IF s.OrderFn THEN Stream_readBytesReverse(s, len)
                        ELSE Stream_readBytes(s, len)
  IN  IF r.res = "Stream_Ok" THEN r ELSE [r EXCEPT !.val = Repeat(0, len)]

-----------------------------------------------------------------------------
(* Two streams. *)

transferAgainMutant(out, in, len) ==
  LET tmpLen == out.Size - out.WPos
      c      == chargeWriteLimit(out, len)
      r      == Stream_readBytes(in, len)
      whole  == len > 0 /\ len <= Stream_space(out) /\ len <= Stream_available(in)
  IN  CASE ~ whole -> [res |-> "Stream_NoSpace", out |-> out, in |-> in]
        [] whole /\ out.WPos + len >= out.Size ->
             [res |-> "Stream_Ok", in |-> r.s,
              out |-> storeWrapped(c, Stream_readBytes(in, tmpLen).val,
                                   Stream_readBytes(in, len - tmpLen).val)]
        [] OTHER -> [res |-> "Stream_Ok", in |-> r.s, out |-> storeDirect(c, r.val)]

transferUncheckedMutant(out, in, len) ==
  LET c == chargeWriteLimit(out, len)
      r == Stream_readBytes(in, len)
  IN  IF len > 0 /\ len <= Stream_space(out) /\ out.WPos + len < out.Size
      THEN [res |-> "Stream_Ok", in |-> r.s, out |-> storeDirect(c, r.val)]
      ELSE [res |-> "Stream_NoSpace", out |-> out, in |-> in]

\* Bytes go straight from the ring of "in" to the ring of "out", at most two
\* pieces on the side of "out", each read with Stream_readBytes.
Stream_writeStream(out, in, len) ==
  LET tmpLen == out.Size - out.WPos
      c      == chargeWriteLimit(out, len)
      r1     == Stream_readBytes(in, tmpLen)
      r2     == Stream_readBytes(r1.s, len - tmpLen)
      r      == Stream_readBytes(in, len)
  IN  CASE len = 0 ->
             [res |-> "Stream_ZeroLen", out |-> out, in |-> in]
        [] len > 0 /\ Stream_space(out) < len ->
             [res |-> "Stream_NoSpace", out |-> out, in |-> in]
        [] len > 0 /\ Stream_space(out) >= len /\ Stream_available(in) < len ->
             [res |-> "Stream_NoAvailable", out |-> out, in |-> in]
        [] OTHER ->
             IF out.WPos + len >= out.Size
             THEN [res |-> "Stream_Ok", in |-> r2.s,
                   out |-> storeWrapped(c, r1.val, r2.val)]
             ELSE [res |-> "Stream_Ok", in |-> r.s,
                   out |-> storeDirect(c, r.val)]

\* The other way round: at most two pieces on the side of "in", each written
\* with Stream_writeBytes, whose result is not looked at.
Stream_readStream(in, out, len) ==
  LET tmpLen == in.Size - in.RPos
      w1 == Stream_writeBytes(out, slice(in.Data, in.RPos, tmpLen))
      w2 == Stream_writeBytes(w1.s, slice(in.Data, 0, len - tmpLen))
      w  == Stream_writeBytes(out, slice(in.Data, in.RPos, len))
  IN  CASE len = 0 ->
             [res |-> "Stream_ZeroLen", out |-> out, in |-> in]
        [] len > 0 /\ Stream_available(in) < len ->
             [res |-> "Stream_NoAvailable", out |-> out, in |-> in]
        [] len > 0 /\ Stream_available(in) >= len /\ Stream_space(out) < len ->
             [res |-> "Stream_NoSpace", out |-> out, in |-> in]
        [] OTHER ->
             [res |-> "Stream_Ok", in |-> takeRead(in, len),
              out |-> IF in.RPos + len >= in.Size THEN w2.s ELSE w.s]
=============================================================================
