--------------------------- MODULE TransferProofs ---------------------------
(***************************************************************************)
(* Theorems about the two ways in which bytes leave a ring without a       *)
(* request to a device, for buffers of any sizes.                          *)
(*                                                                         *)
(* StreamPipe: both rings stay sound, and together they are one pipe, in   *)
(* which a transfer moves the oldest bytes, all that it is asked for or    *)
(* none.  Each transfer does what one read and one write of the same bytes *)
(* do, wherever either ring wraps.                                         *)
(*                                                                         *)
(* OutputBlocking: a byte leaves the stream only when the transmit         *)
(* function has had it, and no call hands over more than it is asked for.  *)
(* A turn of transmitBytes sends a piece but moves the stream on by one    *)
(* byte, so that what is in the ring is always the rest of what was there  *)
(* when the call began, and what has left it was first in some piece.      *)
(***************************************************************************)
EXTENDS StreamPipe, OutputBlocking, StreamLemmas

-----------------------------------------------------------------------------
(* IStream_receiveByte. *)

\* One byte stored where the writer stands is laid there.
LEMMA LaidOne ==
  ASSUME NEW size \in 1 .. MaxLen, NEW d \in [0 .. size - 1 -> Byte],
         NEW w \in 0 .. size - 1, NEW val \in Byte
  PROVE  /\ [d EXCEPT ![w] = val] = memCopy(d, w, <<val>>)
         /\ Laid(d, memCopy(d, w, <<val>>), w, <<val>>, size)
<1> DEFINE e == memCopy(d, w, <<val>>)
<1>0. /\ size \in Nat \ {0} /\ w \in Nat /\ <<val>> \in Seq(Byte)
      /\ Len(<<val>>) = 1 /\ <<val>>[1] = val
  BY MaxLenAssumption
<1>1. Ahead(w, 1, size) = w
  BY <1>0 DEF Ahead
<1>2. ASSUME NEW j \in 0 .. size - 1
      PROVE  /\ j = w => e[j] = val
             /\ j # w => e[j] = d[j]
  <2>1. /\ j < w => e[j] = d[j]
        /\ j >= w + 1 => e[j] = d[j]
        /\ j >= w /\ j < w + 1 => e[j] = <<val>>[j - w + 1]
    BY <1>0, CopyIs
  <2> HIDE DEF e
  <2>2. j = w => j - w + 1 = 1 /\ j >= w /\ j < w + 1
    BY <1>0
  <2>3. j # w => j < w \/ j >= w + 1
    BY <1>0
  <2> QED
    BY <1>0, <2>1, <2>2, <2>3
<1>3. e \in [0 .. size - 1 -> Byte]
  BY <1>0, CopyType
<1> HIDE DEF e
<1>4. [d EXCEPT ![w] = val] = e
  BY <1>2, <1>3
<1>5. \A i \in 1 .. 1 : e[Ahead(w, i, size)] = <<val>>[i]
  BY <1>0, <1>1, <1>2
<1>6. \A j \in 0 .. size - 1 :
        (\A i \in 1 .. 1 : j # Ahead(w, i, size)) => e[j] = d[j]
  BY <1>1, <1>2
<1> QED
  BY <1>0, <1>4, <1>5, <1>6 DEF e, Laid

\* In a full ring the byte lands on the oldest one.
LEMMA OldestReplaced ==
  ASSUME NEW size \in 1 .. MaxLen, NEW s, Sound(s, size), NEW t, Sound(t, size),
         t.RPos = s.RPos, s.WPos = s.RPos, Stream_availableReal(s) = size,
         Stream_availableReal(t) = size, NEW val \in Byte,
         Laid(s.Data, t.Data, s.WPos, <<val>>, size)
  PROVE  Contents(t) = <<val>> \o Tail(Contents(s))
<1> DEFINE c == Contents(s)
           e == Contents(t)
           u == <<val>> \o Tail(c)
<1>0. size \in Nat \ {0} /\ s.RPos \in 0 .. size - 1
  BY Types, MaxLenAssumption DEF Sound
<1>1. /\ c \in Seq(Byte) /\ Len(c) = size
      /\ e \in Seq(Byte) /\ Len(e) = size
      /\ \A i \in 1 .. size : c[i] = s.Data[Ahead(s.RPos, i, size)]
      /\ \A i \in 1 .. size : e[i] = t.Data[Ahead(s.RPos, i, size)]
  BY ContentsAre
<1>2. \A i \in 1 .. size : Ahead(s.RPos, i, size) \in 0 .. size - 1
  BY <1>0, AheadIs
<1>3. Ahead(s.RPos, 1, size) = s.RPos
  BY <1>0 DEF Ahead
<1>4. /\ t.Data[s.RPos] = val
      /\ \A j \in 0 .. size - 1 : j # s.RPos => t.Data[j] = s.Data[j]
  <2>1. Len(<<val>>) = 1 /\ <<val>>[1] = val
    OBVIOUS
  <2>2. \A i \in 1 .. 1 : i = 1
    OBVIOUS
  <2>3. 1 \in 1 .. 1
    OBVIOUS
  <2> QED
    BY <1>3, <2>1, <2>2, <2>3 DEF Laid
<1> HIDE DEF c, e
<1>5. e[1] = val
  BY <1>0, <1>1, <1>3, <1>4
<1>6. ASSUME NEW i \in 2 .. size
      PROVE  e[i] = c[i]
  <2>1. i \in 1 .. size /\ 1 \in 1 .. size /\ i # 1
    BY <1>0
  <2>2. Ahead(s.RPos, i, size) # s.RPos
    BY <1>0, <1>3, <2>1, AheadDiffers
  <2> QED
    BY <1>1, <1>2, <1>4, <2>1, <2>2
<1>7. Tail(c) \in Seq(Byte) /\ Len(Tail(c)) = size - 1
      /\ \A i \in 1 .. size - 1 : Tail(c)[i] = c[i + 1]
  <2>1. c # <<>>
    BY <1>0, <1>1
  <2> QED
    BY <1>0, <1>1, <2>1
<1>8. /\ u \in Seq(Byte) /\ Len(u) = size /\ u[1] = val
      /\ \A i \in 2 .. size : u[i] = Tail(c)[i - 1]
  <2>1. PICK v \in Seq(Byte) : v = Tail(c)
    BY <1>7
  <2>2. Len(v) = size - 1
    BY <1>7, <2>1
  <2>3. /\ <<val>> \o v \in Seq(Byte) /\ Len(<<val>> \o v) = 1 + Len(v)
        /\ (<<val>> \o v)[1] = val
        /\ \A i \in 2 .. 1 + Len(v) : (<<val>> \o v)[i] = v[i - 1]
    OBVIOUS
  <2> QED
    BY <1>0, <2>1, <2>2, <2>3
<1> HIDE DEF u
<1>9. \A i \in 1 .. size : e[i] = u[i]
  <2>1. ASSUME NEW i \in 2 .. size PROVE e[i] = u[i]
    <3>1. i - 1 \in 1 .. size - 1 /\ (i - 1) + 1 = i
      BY <1>0
    <3>2. Tail(c)[i - 1] = c[i]
      BY <1>7, <3>1
    <3> QED
      BY <1>6, <1>8, <3>2
  <2>2. \A i \in 1 .. size : i = 1 \/ i \in 2 .. size
    BY <1>0
  <2> QED
    BY <1>5, <1>8, <2>1, <2>2
<1>10. e = u
  BY <1>1, <1>8, <1>9, SeqEqual
<1> QED
  BY <1>10 DEF c, e, u

\* Stream_moveWritePos by one byte.
LEMMA OneFurther ==
  ASSUME NEW size \in 1 .. MaxLen, NEW s, Sound(s, size), s.WriteLimit = NoLimit,
         ~ (Stream_space(s) < 1), NEW r, r = Stream_moveWritePos(s, 1)
  PROVE  /\ r.res = "Stream_Ok" /\ Sound(r.s, size)
         /\ r.s.Data = s.Data /\ r.s.RPos = s.RPos /\ r.s.WriteLimit = NoLimit
         /\ Stream_availableReal(r.s) = Stream_availableReal(s) + 1
<1>1. PICK n \in Nat : n = 1
  OBVIOUS
<1>2. PICK t : t = Stream_moveWritePos(s, n).s
  OBVIOUS
<1>3. ~ (Stream_space(s) < n) /\ s.WPos + n <= MaxLen /\ ~ Stream_isWriteLimited(s)
  <2>1. s.WPos \in 0 .. size - 1
    BY Types DEF Sound
  <2> QED
    BY <1>1, <2>1, MaxLenAssumption DEF Stream_isWriteLimited, NoLimit
<1>4. /\ Stream_moveWritePos(s, n).res = "Stream_Ok"
      /\ t \in Stream(size) /\ t.Data = s.Data /\ t.RPos = s.RPos
      /\ t.WriteLimit = s.WriteLimit
      /\ s.WPos + n >= size => t.WPos = s.WPos + n - size /\ t.Overflow = 1
      /\ s.WPos + n < size => t.WPos = s.WPos + n /\ t.Overflow = s.Overflow
  BY <1>2, <1>3, MoveWriteFields
<1>5. Sound(t, size)
  BY <1>2, <1>3, MoveWriteSound
<1>6. Stream_availableReal(t) = Stream_availableReal(s) + n
  BY <1>3, <1>4, WriterMoves
<1>7. r.s = t
  BY <1>1, <1>2
<1> QED
  BY <1>1, <1>4, <1>5, <1>6, <1>7

\* The byte is stored before anything is asked.
WithByte(s, val) == [s EXCEPT !.Data[s.WPos] = val]

LEMMA ByteStored ==
  ASSUME NEW size \in 1 .. MaxLen, NEW s, Sound(s, size), s.WriteLimit = NoLimit,
         NEW val \in Byte, NEW d, d = WithByte(s, val)
  PROVE  /\ Sound(d, size) /\ d.RPos = s.RPos /\ d.WPos = s.WPos
         /\ d.WriteLimit = NoLimit
         /\ Stream_availableReal(d) = Stream_availableReal(s)
         /\ Laid(s.Data, d.Data, s.WPos, <<val>>, size)
<1> DEFINE w == s.WPos
           q == memCopy(s.Data, w, <<val>>)
<1>0. /\ size \in Nat \ {0} /\ MaxLen \in Nat /\ size <= MaxLen
      /\ s \in Stream(size) /\ w \in 0 .. size - 1 /\ s.RPos \in 0 .. size - 1
      /\ s.Overflow \in 0 .. 1
      /\ s.Data \in [0 .. size - 1 -> Byte] /\ <<val>> \in Seq(Byte)
      /\ Len(<<val>>) = 1
  BY Types, MaxLenAssumption DEF Sound
<1>1. Laid(s.Data, q, w, <<val>>, size) /\ [s.Data EXCEPT ![w] = val] = q
  <2>1. q = memCopy(s.Data, w, <<val>>)
    OBVIOUS
  <2> HIDE DEF w, q
  <2>2. PICK e \in [0 .. size - 1 -> Byte] : e = s.Data
    BY <1>0
  <2>3. /\ [e EXCEPT ![w] = val] = memCopy(e, w, <<val>>)
        /\ Laid(e, memCopy(e, w, <<val>>), w, <<val>>, size)
    BY <1>0, LaidOne
  <2> QED
    BY <2>1, <2>2, <2>3, Zenon
<1>2. d \in Stream(size) /\ SameRing(s, d) /\ d.Data = q
  <2>1. q \in [0 .. size - 1 -> Byte]
    <3>1. w \in Nat
      BY <1>0
    <3> QED
      BY <1>0, <3>1, CopyType
  <2>2. d = [s EXCEPT !.Data = q]
    BY <1>1 DEF WithByte
  <2> HIDE DEF q, w
  <2> QED
    BY <1>0, <2>1, <2>2 DEF Stream, SameRing
<1>3. /\ Sound(d, size) /\ Stream_availableReal(d) = Stream_availableReal(s)
  BY <1>2, RingIsSame
<1> QED
  BY <1>1, <1>2, <1>3 DEF SameRing

\* A byte that is received comes behind the others, or is refused by a full ring
\* and takes the place of the oldest one.
LEMMA ByteReceived ==
  ASSUME NEW size \in 1 .. MaxLen, NEW s, Sound(s, size), NEW val \in Byte,
         NEW d, Sound(d, size), d.RPos = s.RPos, d.WPos = s.WPos,
         d.WriteLimit = NoLimit, Stream_availableReal(d) = Stream_availableReal(s),
         Laid(s.Data, d.Data, s.WPos, <<val>>, size),
         NEW r, r = Stream_moveWritePos(d, 1)
  PROVE  /\ Sound(r.s, size) /\ r.s.WriteLimit = NoLimit
         /\ \/ r.res = "Stream_Ok" /\ Contents(r.s) = Contents(s) \o <<val>>
            \/ /\ r.res # "Stream_Ok" /\ Stream_isFull(s)
               /\ Contents(r.s) = <<val>> \o Tail(Contents(s))
<1> DEFINE w == s.WPos
<1>0. /\ size \in Nat \ {0} /\ s \in Stream(size)
      /\ w \in 0 .. size - 1 /\ s.RPos \in 0 .. size - 1 /\ s.Overflow \in 0 .. 1
      /\ <<val>> \in Seq(Byte) /\ Len(<<val>>) = 1
  BY Types, MaxLenAssumption DEF Sound
<1>1. ~ Stream_isWriteLimited(d) /\ Stream_space(d) = Stream_spaceReal(d)
  BY DEF Stream_isWriteLimited, Stream_space, Stream_spaceLimit, NoLimit
<1>2. Stream_spaceReal(d) = size - Stream_availableReal(s)
      /\ Stream_availableReal(s) \in 0 .. size
  BY WriterIsBehind
<1>3. CASE Stream_space(d) < 1
  <2>1. r.res = "Stream_NoSpace" /\ r.s = d
    BY <1>3 DEF Stream_moveWritePos, Refuse
  <2>2. Stream_availableReal(s) = size
    BY <1>0, <1>1, <1>2, <1>3
  <2>3. Stream_isFull(s)
    <3>1. /\ s.Overflow = 1 => size = size + w - s.RPos
          /\ s.Overflow = 0 => size = w - s.RPos
      BY <1>0, <2>2, Filled
    <3> QED
      BY <1>0, <3>1 DEF Stream_isFull
  <2>4. Contents(d) = <<val>> \o Tail(Contents(s))
    <3>1. s.WPos = s.RPos /\ Stream_availableReal(d) = size
      BY <2>2, <2>3 DEF Stream_isFull
    <3> QED
      BY <2>2, <3>1, OldestReplaced
  <2> QED
    BY <2>1, <2>3, <2>4
<1>4. CASE ~ (Stream_space(d) < 1)
  <2>2. /\ r.res = "Stream_Ok" /\ Sound(r.s, size)
        /\ r.s.Data = d.Data /\ r.s.RPos = d.RPos /\ r.s.WriteLimit = NoLimit
        /\ Stream_availableReal(r.s) = Stream_availableReal(d) + 1
    BY <1>4, OneFurther
  <2>5. Contents(r.s) = Contents(s) \o <<val>>
    <3>1. Laid(s.Data, r.s.Data, s.WPos, <<val>>, size)
      BY <2>2
    <3>2. Stream_availableReal(r.s) = Stream_availableReal(s) + Len(<<val>>)
      BY <1>0, <2>2
    <3>3. r.s.RPos = s.RPos
      BY <2>2
    <3>4. PICK put : put = <<val>>
      OBVIOUS
    <3>5. /\ put \in Seq(Byte) /\ Laid(s.Data, r.s.Data, s.WPos, put, size)
          /\ Stream_availableReal(r.s) = Stream_availableReal(s) + Len(put)
      BY <1>0, <3>1, <3>2, <3>4
    <3>6. Contents(r.s) = Contents(s) \o put
      BY <1>0, <2>2, <3>3, <3>5, Appends
    <3> QED
      BY <3>4, <3>6
  <2> QED
    BY <2>2, <2>5
<1> QED
  BY <1>3, <1>4
-----------------------------------------------------------------------------
(* The steps. *)

\* The inductive invariant: both rings are sound, and nothing limits what is
\* written into the first.
PipeIInv ==
  /\ Sound(in, InSize) /\ Sound(out, OutSize)
  /\ in.WriteLimit = NoLimit

LEMMA PipeInit == Init => PipeIInv
<1> SUFFICES ASSUME Init PROVE PipeIInv
  OBVIOUS
<1>1. 0 \in Byte
  BY BytesAssumption DEF Byte
<1>2. /\ [i \in 0 .. InSize - 1 |-> 0] \in [0 .. InSize - 1 -> Byte]
      /\ [i \in 0 .. OutSize - 1 |-> 0] \in [0 .. OutSize - 1 -> Byte]
  BY <1>1
<1>3. Sound(in, InSize) /\ Sound(out, OutSize)
  BY <1>2, InitSound, SizesAssumption DEF Init
<1> QED
  BY <1>3 DEF PipeIInv, Init, Stream_init

\* What the streams hold, as sequences.
LEMMA PipeContents ==
  ASSUME PipeIInv
  PROVE  /\ InSize \in 1 .. MaxLen /\ OutSize \in 1 .. MaxLen
         /\ Contents(in) \in Seq(Byte) /\ Contents(out) \in Seq(Byte)
         /\ Len(Contents(in)) = Stream_availableReal(in)
         /\ Len(Contents(out)) = Stream_availableReal(out)
  BY SizesAssumption, ContentsAre DEF PipeIInv

\* Three pieces, put together in either order.
LEMMA ThreePieces ==
  ASSUME NEW a \in Seq(Byte), NEW b \in Seq(Byte), NEW c \in Seq(Byte)
  PROVE  (a \o b) \o c = a \o (b \o c)
  BY ConcatAssociative

LEMMA WriteInStep ==
  ASSUME PipeIInv, NEW n \in 1 .. InSize, NEW val \in [1 .. n -> Byte], WriteIn(val)
  PROVE  PipeIInv' /\ PipeStep /\ TransferStep
<1>1. val \in Seq(Byte) /\ InSize \in 1 .. MaxLen /\ Sound(in, InSize)
  BY SizesAssumption DEF PipeIInv
<1> DEFINE r == Stream_writeBytes(in, val)
<1>2. Sound(r.s, InSize) /\ Puts(in, r, Len(val), val, InSize)
  BY <1>1, WriteBytesSound, WriteBytesPuts
<1> HIDE DEF r
<1>3. /\ in' = r.s /\ out' = out
      /\ call'.op = "write" /\ call'.res = r.res
      /\ call'.val = IF r.res = "Stream_Ok" THEN val ELSE <<>>
  BY DEF WriteIn, Call, r
<1>4. /\ in'.WriteLimit = NoLimit
      /\ Contents(in') = Contents(in) \o call'.val /\ call'.val \in Seq(Byte)
  <2>1. CASE r.res = "Stream_Ok"
    BY <1>1, <1>2, <1>3, <2>1 DEF Puts, PipeIInv, Spent
  <2>2. CASE r.res # "Stream_Ok"
    <3>1. r.s = in /\ call'.val = <<>>
      BY <1>2, <1>3, <2>2 DEF Puts
    <3>2. Contents(in) \o <<>> = Contents(in) /\ <<>> \in Seq(Byte)
      BY PipeContents
    <3> QED
      BY <1>3, <3>1, <3>2 DEF PipeIInv
  <2> QED
    BY <2>1, <2>2
<1>5. UnderWay' = UnderWay \o call'.val
  <2>1. (Contents(out) \o Contents(in)) \o call'.val
          = Contents(out) \o (Contents(in) \o call'.val)
    BY <1>4, PipeContents, ThreePieces
  <2> QED
    BY <1>3, <1>4, <2>1 DEF UnderWay
<1> QED
  BY <1>2, <1>3, <1>4, <1>5 DEF PipeIInv, PipeStep, TransferStep

LEMMA ReceiveByteStep ==
  ASSUME PipeIInv, NEW val \in Byte, IStream_receiveByte(val)
  PROVE  PipeIInv' /\ PipeStep /\ TransferStep
<1>1. InSize \in 1 .. MaxLen /\ Sound(in, InSize) /\ in.WriteLimit = NoLimit
  BY SizesAssumption DEF PipeIInv
<1> DEFINE d == WithByte(in, val)
           r == Stream_moveWritePos(d, 1)
           c == Contents(in)
<1>2. /\ in' = r.s /\ out' = out
      /\ call'.op = "receiveByte" /\ call'.res = r.res /\ call'.val = <<val>>
  BY DEF IStream_receiveByte, Call, WithByte
<1>3. /\ Sound(d, InSize) /\ d.RPos = in.RPos /\ d.WPos = in.WPos
      /\ d.WriteLimit = NoLimit
      /\ Stream_availableReal(d) = Stream_availableReal(in)
      /\ Laid(in.Data, d.Data, in.WPos, <<val>>, InSize)
  BY <1>1, ByteStored
<1> HIDE DEF d
<1>4. /\ Sound(r.s, InSize) /\ r.s.WriteLimit = NoLimit
      /\ \/ r.res = "Stream_Ok" /\ Contents(r.s) = Contents(in) \o <<val>>
         \/ /\ r.res # "Stream_Ok" /\ Stream_isFull(in)
            /\ Contents(r.s) = <<val>> \o Tail(Contents(in))
  BY <1>1, <1>3, ByteReceived
<1> HIDE DEF r
<1>5. c \in Seq(Byte) /\ Contents(out) \in Seq(Byte) /\ <<val>> \in Seq(Byte)
  BY PipeContents
<1>6. CASE r.res = "Stream_Ok"
  <2>1. (Contents(out) \o c) \o <<val>> = Contents(out) \o (c \o <<val>>)
    BY <1>5, ThreePieces
  <2>2. UnderWay' = UnderWay \o call'.val
    BY <1>2, <1>4, <1>6, <2>1 DEF UnderWay
  <2> QED
    BY <1>2, <1>4, <1>6, <2>2 DEF PipeIInv, PipeStep, TransferStep
<1>7. CASE r.res # "Stream_Ok"
  <2>1. c # <<>>
    <3>1. Stream_isFull(in)
      BY <1>4, <1>7
    <3>2. Stream_availableReal(in) = InSize
      BY <1>1, <3>1, Filled, Types, MaxLenAssumption DEF Sound, Stream_isFull
    <3> QED
      BY <1>1, <3>2, PipeContents, MaxLenAssumption
  <2>2. Tail(c) \in Seq(Byte)
    BY <1>5, <2>1
  <2>3. (Contents(out) \o <<val>>) \o Tail(c) = Contents(out) \o (<<val>> \o Tail(c))
    BY <1>5, <2>2, ThreePieces
  <2>4. UnderWay' = Contents(out) \o call'.val \o Tail(Contents(in)) /\ Stream_isFull(in)
    BY <1>2, <1>4, <1>7, <2>3 DEF UnderWay
  <2> QED
    BY <1>2, <1>4, <1>7, <2>4 DEF PipeIInv, PipeStep, TransferStep
<1> QED
  BY <1>6, <1>7

LEMMA ReadOutStep ==
  ASSUME PipeIInv, NEW count \in 1 .. OutSize, ReadOut(count)
  PROVE  PipeIInv' /\ PipeStep /\ TransferStep
<1>1. count \in Nat /\ OutSize \in 1 .. MaxLen /\ Sound(out, OutSize)
  BY SizesAssumption DEF PipeIInv
<1> DEFINE r == Stream_readBytes(out, count)
           c == Contents(out)
<1>2. Sound(r.s, OutSize) /\ Takes(out, r, count, r.val)
  BY <1>1, ReadSound, ReadBytesTakes
<1>3. r.res # "Stream_Ok" => r.val = <<>>
  BY DEF Stream_readBytes, ReadRefuse, Deliver
<1> HIDE DEF r
<1>4. /\ out' = r.s /\ in' = in
      /\ call'.op = "read" /\ call'.val = r.val
  BY DEF ReadOut, Call, r
<1>5. /\ r.val \in Seq(Byte) /\ Contents(out') \in Seq(Byte)
      /\ c = r.val \o Contents(out')
  <2>1. c \in Seq(Byte)
    BY PipeContents
  <2>2. CASE r.res = "Stream_Ok"
    <3>1. /\ r.val = SubSeq(c, 1, count) /\ Contents(out') = SubSeq(c, count + 1, Len(c))
          /\ count \in 0 .. Len(c)
      BY <1>1, <1>2, <1>4, <2>1, <2>2 DEF Takes
    <3> HIDE DEF c
    <3>2. SubSeq(c, 1, count) \o SubSeq(c, count + 1, Len(c)) = c
      BY <2>1, <3>1, SubSplits
    <3>3. SubSeq(c, 1, count) \in Seq(Byte) /\ SubSeq(c, count + 1, Len(c)) \in Seq(Byte)
      BY <2>1, <3>1
    <3> QED
      BY <3>1, <3>2, <3>3
  <2>3. CASE r.res # "Stream_Ok"
    <3>1. r.s = out /\ r.val = <<>>
      BY <1>2, <1>3, <2>3 DEF Takes
    <3>2. <<>> \o c = c
      BY <2>1
    <3> QED
      BY <1>4, <2>1, <3>1, <3>2
  <2> QED
    BY <2>2, <2>3
<1>6. UnderWay = call'.val \o UnderWay'
  <2>1. (r.val \o Contents(out')) \o Contents(in) = r.val \o (Contents(out') \o Contents(in))
    BY <1>5, PipeContents, ThreePieces
  <2> QED
    BY <1>4, <1>5, <2>1 DEF UnderWay
<1> QED
  BY <1>2, <1>4, <1>6 DEF PipeIInv, PipeStep, TransferStep
\* A transfer by either function.
LEMMA TransferredStep ==
  ASSUME PipeIInv, NEW count \in Nat, NEW r, Transferred(r, count),
         Transfers(in, out, r, count, InSize, OutSize)
  PROVE  PipeIInv' /\ PipeStep /\ TransferStep
<1>1. /\ in' = r.in /\ out' = r.out
      /\ call'.op = "transfer" /\ call'.res = r.res /\ call'.len = count
  BY DEF Transferred, Call
<1>2. /\ Contents(in) \in Seq(Byte) /\ Contents(out) \in Seq(Byte)
      /\ Len(Contents(in)) = Stream_availableReal(in)
      /\ Len(Contents(out)) = Stream_availableReal(out)
      /\ Sound(in, InSize) /\ Sound(out, OutSize) /\ in.WriteLimit = NoLimit
      /\ InSize \in 1 .. MaxLen /\ OutSize \in 1 .. MaxLen
  BY PipeContents DEF PipeIInv
<1> DEFINE c   == Contents(in)
           put == SubSeq(c, 1, count)
<1>3. CASE r.res = "Stream_Ok"
  <2>1. /\ ReadOff(in, in', count, InSize) /\ PutOn(out, out', put, OutSize)
        /\ count <= Stream_available(in)
    BY <1>1, <1>3 DEF Transfers
  <2>2. put \in Seq(Byte) /\ Len(put) = count
    <3>1. PICK p : p = SubSeq(Contents(in), 1, count)
      OBVIOUS
    <3>2. p \in Seq(Byte) /\ Len(p) = count
      BY <1>2, <2>1, <3>1, OldestAre
    <3> QED
      BY <3>1, <3>2
  <2>3. PipeIInv'
    BY <1>2, <2>1 DEF ReadOff, PutOn, PipeIInv
  <2>4. UnderWay' = UnderWay
    <3>1. /\ Contents(out') = Contents(out) \o put
          /\ Contents(in') = SubSeq(c, count + 1, Len(c)) /\ count <= Len(c)
      BY <2>1 DEF ReadOff, PutOn
    <3> HIDE DEF c
    <3>2. /\ SubSeq(c, 1, count) \o SubSeq(c, count + 1, Len(c)) = c
          /\ SubSeq(c, count + 1, Len(c)) \in Seq(Byte)
      <4>1. c \in Seq(Byte) /\ count \in 0 .. Len(c)
        BY <1>2, <3>1 DEF c
      <4>2. SubSeq(c, 1, count) \o SubSeq(c, count + 1, Len(c)) = c
        BY <4>1, SubSplits
      <4>3. SubSeq(c, count + 1, Len(c)) \in Seq(Byte)
        BY <4>1
      <4> QED
        BY <4>2, <4>3
    <3>3. (Contents(out) \o put) \o SubSeq(c, count + 1, Len(c))
            = Contents(out) \o (put \o SubSeq(c, count + 1, Len(c)))
      <4> HIDE DEF put
      <4> QED
        BY <1>2, <2>2, <3>2, ThreePieces
    <3> QED
      BY <3>1, <3>2, <3>3 DEF UnderWay, c
  <2>5. Stream_availableReal(out') = Stream_availableReal(out) + count
    <3>1. Len(Contents(out')) = Stream_availableReal(out')
      BY <1>2, <2>1, ContentsAre DEF PutOn
    <3> HIDE DEF put
    <3>2. Len(Contents(out) \o put) = Len(Contents(out)) + Len(put)
      BY <1>2, <2>2
    <3> QED
      BY <1>2, <2>1, <2>2, <3>1, <3>2 DEF PutOn
  <2>6. /\ Stream_space(out') = Stream_space(out) - count
        /\ Stream_available(in') = Stream_available(in) - count
    BY <2>1, <2>2 DEF ReadOff, PutOn
  <2> HIDE DEF put, c
  <2> QED
    BY <1>1, <1>3, <2>3, <2>4, <2>5, <2>6 DEF PipeStep, TransferStep
<1>4. CASE r.res # "Stream_Ok"
  <2>1. /\ in' = in /\ out' = out
        /\ count = 0 \/ count > Stream_space(out) \/ count > Stream_available(in)
    BY <1>1, <1>4 DEF Transfers
  <2>2. PipeIInv' /\ UnderWay' = UnderWay
    BY <2>1 DEF PipeIInv, UnderWay
  <2> QED
    BY <1>1, <1>4, <2>1, <2>2 DEF PipeStep, TransferStep
<1> QED
  BY <1>3, <1>4

LEMMA WriteStreamStep ==
  ASSUME PipeIInv, NEW count \in 0 .. InSize + 1, WriteStream(count)
  PROVE  PipeIInv' /\ PipeStep /\ TransferStep
<1>1. /\ Sound(in, InSize) /\ Sound(out, OutSize) /\ count \in Nat
      /\ InSize \in 1 .. MaxLen /\ OutSize \in 1 .. MaxLen
  BY SizesAssumption DEF PipeIInv
<1>2. PICK r : r = Stream_writeStream(out, in, count)
  OBVIOUS
<1>3. Transferred(r, count)
  BY <1>2 DEF WriteStream
<1>4. Transfers(in, out, r, count, InSize, OutSize)
  BY <1>1, <1>2, WriteStreamTransfers
<1> QED
  BY <1>1, <1>3, <1>4, TransferredStep

LEMMA ReadStreamStep ==
  ASSUME PipeIInv, NEW count \in 0 .. InSize + 1, ReadStream(count)
  PROVE  PipeIInv' /\ PipeStep /\ TransferStep
<1>1. /\ Sound(in, InSize) /\ Sound(out, OutSize) /\ count \in Nat
      /\ InSize \in 1 .. MaxLen /\ OutSize \in 1 .. MaxLen
  BY SizesAssumption DEF PipeIInv
<1>2. PICK r : r = Stream_readStream(in, out, count)
  OBVIOUS
<1>3. Transferred(r, count)
  BY <1>2 DEF ReadStream
<1>4. Transfers(in, out, r, count, InSize, OutSize)
  BY <1>1, <1>2, ReadStreamTransfers
<1> QED
  BY <1>1, <1>3, <1>4, TransferredStep

\* Setting a limit moves nothing.
LEMMA LimitMoves ==
  ASSUME NEW size \in 1 .. MaxLen, NEW s, Sound(s, size), NEW count \in NoLimit .. size,
         NEW t, \/ t = Stream_setReadLimit(s, count) /\ t.WriteLimit = s.WriteLimit
                \/ t = Stream_setWriteLimit(s, count)
  PROVE  Sound(t, size) /\ Contents(t) = Contents(s)
<1>1. Sound(t, size)
  BY LimitSound
<1>2. /\ t.Data = s.Data /\ t.WPos = s.WPos /\ t.RPos = s.RPos
      /\ t.Overflow = s.Overflow
  <2>1. s \in Stream(size)
    BY DEF Sound
  <2> QED
    BY <2>1 DEF Stream, Stream_setReadLimit, Stream_setWriteLimit
<1> QED
  BY <1>1, <1>2, SameContents

LEMMA LimitStep ==
  ASSUME PipeIInv, NEW count \in Limits, LimitWriting(count) \/ LimitReading(count)
  PROVE  PipeIInv' /\ PipeStep /\ TransferStep
<1>1. /\ Sound(in, InSize) /\ Sound(out, OutSize) /\ in.WriteLimit = NoLimit
      /\ InSize \in 1 .. MaxLen /\ OutSize \in 1 .. MaxLen
      /\ count \in NoLimit .. InSize /\ count \in NoLimit .. OutSize
  BY SizesAssumption, LimitsAssumption DEF PipeIInv, NoLimit
<1>2. call'.op = "limit"
  BY DEF LimitWriting, LimitReading, Call
<1>3. CASE LimitWriting(count)
  <2>1. Sound(out', OutSize) /\ Contents(out') = Contents(out) /\ in' = in
    <3>1. out' = Stream_setWriteLimit(out, count) /\ in' = in
      BY <1>3 DEF LimitWriting
    <3> QED
      BY <1>1, <3>1, LimitMoves
  <2> QED
    BY <1>1, <1>2, <2>1 DEF PipeIInv, UnderWay, PipeStep, TransferStep
<1>4. CASE LimitReading(count)
  <2>1. /\ Sound(in', InSize) /\ Contents(in') = Contents(in) /\ out' = out
        /\ in'.WriteLimit = NoLimit
    <3>1. in' = Stream_setReadLimit(in, count) /\ out' = out
      BY <1>4 DEF LimitReading
    <3>2. in'.WriteLimit = in.WriteLimit
      <4>1. in \in Stream(InSize)
        BY <1>1 DEF Sound
      <4> QED
        BY <3>1, <4>1 DEF Stream, Stream_setReadLimit
    <3> QED
      BY <1>1, <3>1, <3>2, LimitMoves
  <2> QED
    BY <1>1, <1>2, <2>1 DEF PipeIInv, UnderWay, PipeStep, TransferStep
<1> QED
  BY <1>3, <1>4

LEMMA PipeNext ==
  ASSUME PipeIInv, Next
  PROVE  PipeIInv' /\ PipeStep /\ TransferStep
<1>1. CASE \E val \in UNION {[1 .. n -> Byte] : n \in 1 .. InSize} : WriteIn(val)
  <2>1. PICK n \in 1 .. InSize : \E val \in [1 .. n -> Byte] : WriteIn(val)
    BY <1>1
  <2>2. PICK val \in [1 .. n -> Byte] : WriteIn(val)
    BY <2>1
  <2> QED
    BY <2>2, WriteInStep
<1>2. CASE \E val \in Byte : IStream_receiveByte(val)
  BY <1>2, ReceiveByteStep
<1>3. CASE \E count \in 1 .. OutSize : ReadOut(count)
  BY <1>3, ReadOutStep
<1>4. CASE \E count \in 0 .. InSize + 1 : WriteStream(count) \/ ReadStream(count)
  BY <1>4, WriteStreamStep, ReadStreamStep
<1>5. CASE \E count \in Limits : LimitWriting(count) \/ LimitReading(count)
  BY <1>5, LimitStep
<1> QED
  BY <1>1, <1>2, <1>3, <1>4, <1>5 DEF Next

LEMMA PipeInvariant == Spec => []PipeIInv
<1>1. PipeIInv /\ UNCHANGED vars => PipeIInv'
  BY DEF PipeIInv, vars
<1> QED
  BY <1>1, PipeInit, PipeNext, PTL DEF Spec

-----------------------------------------------------------------------------
(* The theorems. *)

\* Whichever ring wraps during a transfer, and whatever the limits, both streams
\* keep the shape that their positions and flag describe, and their limits promise
\* only what is there.
THEOREM PipeIsSound == Spec => []BothSound
<1>1. PipeIInv => BothSound
  BY DEF PipeIInv, BothSound, TypeOK, Sound
<1> QED
  BY <1>1, PipeInvariant, PTL

\* The two rings are one pipe: no call loses, doubles or reorders a byte, but for
\* the receiveByte that a full ring refuses, which replaces the oldest byte.
THEOREM RingsAreOnePipe == Spec => OnePipe
<1>1. PipeIInv /\ [Next]_vars => [PipeStep]_vars
  BY PipeNext
<1> QED
  BY <1>1, PipeInvariant, PTL DEF Spec, OnePipe

\* Stream_writeStream and Stream_readStream move all the bytes they are asked for,
\* and charge both limits for them, or change nothing; they refuse only for want of
\* length, bytes or space.
THEOREM TransferIsWhole == Spec => TransfersAreWhole
<1>1. PipeIInv /\ [Next]_vars => [TransferStep]_vars
  BY PipeNext
<1> QED
  BY <1>1, PipeInvariant, PTL DEF Spec, TransfersAreWhole

-----------------------------------------------------------------------------
(* OStream used without callbacks (OutputBlocking). *)

\* The bytes held are the last of those there were before.
Held(b, c) ==
  /\ Len(c) <= Len(b)
  /\ \A i \in 1 .. Len(c) : c[i] = b[Len(b) - Len(c) + i]

\* Between two turns of the loop.
Turn == inside => /\ op = "transmitBytes"
                  /\ Held(before, Contents(buf))
                  /\ Len(sent) + len <= Len(asked)

OTyped ==
  /\ next \in Byte /\ len \in Nat
  /\ before \in Seq(Byte) /\ asked \in Seq(Byte) /\ sent \in Seq(Byte)

\* The inductive invariant.
OIInv ==
  /\ Sound(buf, Size) /\ NoLimits(buf)
  /\ OTyped /\ Turn
  /\ RemovedWereSent /\ SentAsAsked

-----------------------------------------------------------------------------
(* The ring. *)

\* What is known of the ring.
LEMMA Ring ==
  ASSUME OIInv
  PROVE  /\ Size \in 1 .. MaxLen /\ Size \in Nat /\ Sound(buf, Size) /\ NoLimits(buf)
         /\ Contents(buf) \in Seq(Byte)
         /\ Stream_availableReal(buf) = Len(Contents(buf))
         /\ Stream_available(buf) = Len(Contents(buf))
         /\ Len(Contents(buf)) \in 0 .. Size
         /\ Stream_directAvailable(buf) \in 0 .. Len(Contents(buf))
         /\ Stream_directAvailable(buf) = 0 => Len(Contents(buf)) = 0
<1>1. /\ Size \in 1 .. MaxLen /\ Size \in Nat /\ Sound(buf, Size) /\ NoLimits(buf)
  BY SizeAssumption, MaxLenAssumption DEF OIInv
<1>2. /\ Contents(buf) \in Seq(Byte)
      /\ Len(Contents(buf)) = Stream_availableReal(buf)
  BY <1>1, ContentsAre
<1>3. Stream_availableReal(buf) \in 0 .. Size
  BY <1>1, WriterIsBehind
<1>4. Stream_available(buf) = Stream_availableReal(buf)
  BY <1>1, NoLimitCounts
<1>5. /\ Stream_directAvailable(buf) \in 0 .. Stream_availableReal(buf)
      /\ Stream_directAvailable(buf) = 0 => Stream_availableReal(buf) = 0
  BY <1>1, DirectAvailableIs
<1> QED
  BY <1>1, <1>2, <1>3, <1>4, <1>5

\* A piece that the transmit function is given are the oldest bytes.
LEMMA PieceIsOldest ==
  ASSUME OIInv, NEW n \in Nat, n <= Stream_directAvailable(buf),
         NEW p, p = slice(buf.Data, buf.RPos, n)
  PROVE  /\ p \in Seq(Byte) /\ Len(p) = n
         /\ \A i \in 1 .. n : p[i] = Contents(buf)[i]
<1> DEFINE c == Contents(buf)
           d == Stream_directAvailable(buf)
           r == buf.RPos
<1>1. /\ Size \in 1 .. MaxLen /\ Size \in Nat \ {0} /\ Sound(buf, Size)
      /\ d \in 0 .. Len(c) /\ Len(c) \in 0 .. Size
      /\ Len(c) = Stream_availableReal(buf)
  BY Ring
<1>2. /\ buf.Data \in [0 .. Size - 1 -> Byte] /\ r \in 0 .. Size - 1
  BY <1>1, Types DEF Sound
<1>3. r + d <= Size
  BY <1>1, DirectAvailableIs
<1>4. \A i \in 1 .. Len(c) : c[i] = buf.Data[Ahead(r, i, Size)]
  BY <1>1, ContentsAre
<1>5. n <= d
  OBVIOUS
<1> HIDE DEF c, d, r
<1>6. r + n <= Size
  BY <1>1, <1>2, <1>3, <1>5
<1>7. /\ p \in Seq(Byte) /\ Len(p) = n
      /\ \A i \in 1 .. n : p[i] = buf.Data[r + i - 1]
  <2>1. p = slice(buf.Data, r, n)
    BY DEF r
  <2>2. PICK data : data = buf.Data
    OBVIOUS
  <2>3. /\ data \in [0 .. Size - 1 -> Byte]
        /\ r \in 0 .. Size - 1 /\ n \in Nat /\ r + n <= Size /\ Size \in Nat \ {0}
    BY <1>1, <1>2, <1>6, <2>2
  <2> DEFINE u == slice(data, r, n)
  <2>4. /\ u \in Seq(Byte) /\ Len(u) = n
        /\ \A i \in 1 .. n : u[i] = data[r + i - 1]
    BY <2>3, SliceIs
  <2>5. p = u
    BY <2>1, <2>2
  <2> HIDE DEF u
  <2> QED
    BY <2>2, <2>4, <2>5
<1>8. ASSUME NEW i \in 1 .. n
      PROVE  p[i] = c[i]
  <2>1. i \in 1 .. Len(c) /\ r + i - 1 < Size
    BY <1>1, <1>2, <1>5, <1>6
  <2>2. Ahead(r, i, Size) = r + i - 1
    BY <2>1 DEF Ahead
  <2> QED
    BY <1>4, <1>7, <2>1, <2>2
<1> QED
  BY <1>7, <1>8 DEF c

\* The stream moves on by one byte.
LEMMA OneLeaves ==
  ASSUME OIInv, Stream_directAvailable(buf) > 0,
         NEW t, t = Stream_moveReadPos(buf, 1).s
  PROVE  /\ Sound(t, Size) /\ NoLimits(t)
         /\ Contents(t) \in Seq(Byte)
         /\ Stream_availableReal(t) = Len(Contents(t))
         /\ Len(Contents(t)) = Len(Contents(buf)) - 1
         /\ \A i \in 1 .. Len(Contents(t)) : Contents(t)[i] = Contents(buf)[i + 1]
<1> DEFINE c == Contents(buf)
           b == Contents(t)
<1>1. /\ Size \in 1 .. MaxLen /\ Size \in Nat \ {0} /\ Sound(buf, Size)
      /\ NoLimits(buf) /\ c \in Seq(Byte)
      /\ Len(c) = Stream_availableReal(buf) /\ Len(c) \in 0 .. Size
      /\ Stream_directAvailable(buf) \in 0 .. Len(c)
  BY Ring
<1>2. buf.RPos \in 0 .. Size - 1
  BY <1>1, Types DEF Sound
<1>3. PICK n \in Nat : n = 1
  OBVIOUS
<1>4. n <= Stream_availableReal(buf) /\ buf.RPos + n <= Size
  BY <1>1, <1>2, <1>3
<1>5. t = Stream_moveReadPos(buf, n).s
  BY <1>3
<1>6. /\ Sound(t, Size) /\ NoLimits(t) /\ t.Data = buf.Data
      /\ Stream_availableReal(t) = Stream_availableReal(buf) - n
      /\ Further(buf.RPos, n, t.RPos, Size)
  BY <1>1, <1>4, <1>5, ReaderMovesOver
<1>7. b = SubSeq(c, n + 1, Len(c))
  BY <1>1, <1>6, Drops
<1>8. b \in Seq(Byte) /\ Len(b) = Stream_availableReal(t)
  BY <1>1, <1>6, ContentsAre
<1> HIDE DEF b, c
<1>9. b = SubSeq(c, 2, Len(c)) /\ Len(b) = Len(c) - 1
  BY <1>1, <1>3, <1>6, <1>7, <1>8
<1>10. \A i \in 1 .. Len(b) : b[i] = c[i + 1]
  BY <1>1, <1>9
<1> QED
  BY <1>6, <1>8, <1>9, <1>10 DEF b, c

-----------------------------------------------------------------------------
(* The steps. *)

LEMMA OutputStarts == OutputInit => OIInv
<1> SUFFICES ASSUME OutputInit PROVE OIInv
  OBVIOUS
<1>1. 0 \in Byte
  BY BytesAssumption DEF Byte
<1>2. [i \in 0 .. Size - 1 |-> 0] \in [0 .. Size - 1 -> Byte]
  BY <1>1
<1>3. Sound(buf, Size)
  BY <1>2, InitSound, SizeAssumption DEF OutputInit
<1>4. NoLimits(buf)
  BY DEF OutputInit, Stream_init, NoLimits
<1>5. OTyped /\ Turn /\ SentAsAsked
  BY <1>1 DEF OutputInit, OTyped, Turn, SentAsAsked, NeverMoreThanAsked, ByteSentOnce
<1>6. RemovedWereSent
  <2>1. Stream_availableReal(buf) \in 0 .. Size
    BY <1>3, SizeAssumption, WriterIsBehind
  <2>2. Len(before) = 0
    BY DEF OutputInit
  <2>3. 1 .. Len(before) - Stream_availableReal(buf) = {}
    BY <2>1, <2>2, SizeAssumption, MaxLenAssumption
  <2> QED
    BY <2>3 DEF RemovedWereSent
<1> QED
  BY <1>3, <1>4, <1>5, <1>6 DEF OIInv

\* The first n of the bytes in the ring.
LEMMA Asked ==
  ASSUME OIInv, NEW n \in 0 .. Len(Contents(buf))
  PROVE  /\ SubSeq(Contents(buf), 1, n) \in Seq(Byte)
         /\ Len(SubSeq(Contents(buf), 1, n)) = n
         /\ \A i \in 1 .. n : SubSeq(Contents(buf), 1, n)[i] = Contents(buf)[i]
<1> DEFINE c == Contents(buf)
<1>1. c \in Seq(Byte)
  BY Ring
<1> HIDE DEF c
<1>2. n \in 0 .. Len(c)
  BY DEF c
<1>3. /\ SubSeq(c, 1, n) \in Seq(Byte) /\ Len(SubSeq(c, 1, n)) = n
      /\ \A i \in 1 .. n : SubSeq(c, 1, n)[i] = c[i]
  <2>1. CASE n = 0
    BY <1>1, <1>2, <2>1
  <2>2. CASE n > 0
    BY <1>1, <1>2, <2>2
  <2> QED
    BY <1>2, <2>1, <2>2
<1> QED
  BY <1>3 DEF c

\* A call that has sent nothing and removed nothing yet, or ever.
LEMMA NothingYet ==
  ASSUME OIInv, buf' = buf, before' = Contents(buf), sent' = <<>>,
         asked' \in Seq(Byte), op' # "transmitByte"
  PROVE  /\ Sound(buf, Size)' /\ NoLimits(buf)'
         /\ Held(before, Contents(buf))'
         /\ RemovedWereSent' /\ SentAsAsked'
<1>1. /\ Contents(buf) \in Seq(Byte) /\ Len(Contents(buf)) \in Nat
      /\ Stream_availableReal(buf) = Len(Contents(buf))
  BY Ring
<1>2. Held(before, Contents(buf))'
  BY <1>1 DEF Held
<1>3. 1 .. Len(before') - Stream_availableReal(buf') = {}
  BY <1>1
<1>4. RemovedWereSent'
  BY <1>3 DEF RemovedWereSent
<1>5. SentAsAsked'
  BY DEF SentAsAsked, NeverMoreThanAsked, ByteSentOnce
<1> QED
  BY <1>2, <1>4, <1>5 DEF OIInv
LEMMA WriteStep ==
  ASSUME OIInv, NEW n \in 1 .. Size, Write(n)
  PROVE  OIInv'
<1> DEFINE val == [i \in 1 .. n |-> (next + i - 1) % Bytes]
           r == Stream_writeBytes(buf, val)
<1>1. /\ ~ inside /\ inside' = inside /\ len' = len
      /\ op' = "write" /\ before' = Contents(buf)
      /\ asked' = SubSeq(Contents(buf), 1, 0) /\ sent' = <<>>
      /\ next' = (next + n) % Bytes
  BY DEF Write, Begin
<1>2. buf' = r.s
  BY DEF Write
<1>3. val \in Seq(Byte)
  <2>1. n \in Nat /\ next \in Nat /\ Bytes \in Nat \ {0}
    BY SizeAssumption, MaxLenAssumption, BytesAssumption DEF OIInv, OTyped, Byte
  <2>2. ASSUME NEW i \in 1 .. n
        PROVE  (next + i - 1) % Bytes \in Byte
    <3>1. next + i - 1 \in Nat
      BY <2>1
    <3> HIDE DEF val
    <3> QED
      BY <2>1, <3>1 DEF Byte
  <2> QED
    BY <2>1, <2>2
<1> HIDE DEF val
<1>4. Sound(r.s, Size) /\ Puts(buf, r, Len(val), val, Size)
  BY <1>3, Ring, WriteBytesSound, WriteBytesPuts
<1>5. NoLimits(r.s)
  BY <1>4, Ring DEF Puts, Spent, NoLimits
<1>6. next' \in Byte
  <2>1. next + n \in Nat /\ Bytes \in Nat \ {0}
    BY SizeAssumption, MaxLenAssumption, BytesAssumption DEF OIInv, OTyped, Byte
  <2> QED
    BY <1>1, <2>1 DEF Byte
<1>7. asked' \in Seq(Byte) /\ before' \in Seq(Byte) /\ sent' \in Seq(Byte)
  <2>1. 0 \in 0 .. Len(Contents(buf))
    BY Ring
  <2> QED
    BY <1>1, <2>1, Ring, Asked
<1>8. SentAsAsked' /\ RemovedWereSent' /\ Turn'
  BY <1>1, <1>7 DEF SentAsAsked, NeverMoreThanAsked, ByteSentOnce, RemovedWereSent, Turn
<1>9. OTyped'
  BY <1>1, <1>6, <1>7 DEF OTyped, OIInv
<1> QED
  BY <1>2, <1>4, <1>5, <1>8, <1>9 DEF OIInv

LEMMA TransmitByteStep ==
  ASSUME OIInv, OStream_transmitByte
  PROVE  OIInv'
<1> DEFINE c == Contents(buf)
           d == Stream_directAvailable(buf)
           m == Min2(1, d)
<1>1. /\ ~ inside /\ inside' = inside /\ len' = len /\ next' = next
      /\ op' = "transmitByte" /\ before' = c /\ asked' = SubSeq(c, 1, m)
  BY DEF OStream_transmitByte, Begin
<1>2. /\ c \in Seq(Byte) /\ d \in 0 .. Len(c) /\ Len(c) \in Nat
      /\ d = 0 => Len(c) = 0
      /\ Stream_availableReal(buf) = Len(c)
  BY Ring
<1>3. /\ m \in 0 .. Len(c)
      /\ d > 0 => m = 1
      /\ ~ (d > 0) => m = 0
  BY <1>2 DEF Min2
<1>4. /\ asked' \in Seq(Byte) /\ Len(asked') = m
      /\ \A i \in 1 .. m : asked'[i] = c[i]
  BY <1>1, <1>3, Asked
<1>5. OTyped' <=> sent' \in Seq(Byte)
  BY <1>1, <1>2, <1>4 DEF OTyped, OIInv
<1>6. Turn'
  BY <1>1 DEF Turn
<1>7. CASE ~ (d > 0)
  <2>1. sent' = <<>> /\ buf' = buf
    BY <1>7 DEF OStream_transmitByte
  <2>2. c = <<>> /\ m = 0
    BY <1>2, <1>3, <1>7
  <2>3. sent' = asked' /\ before' = sent' \o Contents(buf')
    <3>1. asked' = <<>>
      BY <1>4, <2>2
    <3>2. <<>> = <<>> \o <<>>
      OBVIOUS
    <3> QED
      BY <1>1, <2>1, <2>2, <3>1, <3>2
  <2>4. SentAsAsked'
    BY <1>4, <2>3 DEF SentAsAsked, NeverMoreThanAsked, ByteSentOnce
  <2>5. 1 .. Len(before') - Stream_availableReal(buf') = {}
    BY <1>1, <1>2, <2>1
  <2>6. RemovedWereSent'
    BY <2>5 DEF RemovedWereSent
  <2>7. Sound(buf, Size)' /\ NoLimits(buf)'
    BY <2>1 DEF OIInv
  <2>8. OTyped'
    BY <1>5, <2>1
  <2> QED
    BY <1>6, <2>4, <2>6, <2>7, <2>8 DEF OIInv
<1>8. CASE d > 0
  <2>1. /\ sent' = slice(buf.Data, buf.RPos, 1)
        /\ buf' = Stream_moveReadPos(buf, 1).s
    BY <1>8 DEF OStream_transmitByte
  <2> DEFINE b == Contents(buf')
  <2>2. /\ Sound(buf', Size) /\ NoLimits(buf')
        /\ b \in Seq(Byte) /\ Stream_availableReal(buf') = Len(b)
        /\ Len(b) = Len(c) - 1
        /\ \A i \in 1 .. Len(b) : b[i] = c[i + 1]
    BY <1>8, <2>1, OneLeaves
  <2>3. PICK n \in Nat : n = 1
    OBVIOUS
  <2>4. sent' = slice(buf.Data, buf.RPos, n) /\ n <= d
    BY <1>2, <1>8, <2>1, <2>3
  <2>5. /\ sent' \in Seq(Byte) /\ Len(sent') = n
        /\ \A i \in 1 .. n : sent'[i] = c[i]
    BY <2>4, PieceIsOldest
  <2> HIDE DEF b, c, d, m
  <2>6. Len(sent') = 1 /\ sent'[1] = c[1] /\ m = 1 /\ Len(asked') = 1 /\ asked'[1] = c[1]
    BY <1>3, <1>4, <1>8, <2>3, <2>5
  <2>7. sent' = asked'
    <3>1. \A i \in 1 .. Len(sent') : sent'[i] = asked'[i]
      BY <2>6
    <3> QED
      BY <1>4, <2>5, <2>6, <3>1, SeqEqual
  <2>8. before' = sent' \o b
    <3> DEFINE e == sent' \o b
    <3>e. e = sent' \o b
      OBVIOUS
    <3> HIDE DEF e
    <3>0. /\ e \in Seq(Byte) /\ Len(e) = Len(sent') + Len(b)
          /\ \A i \in 1 .. Len(sent') : e[i] = sent'[i]
          /\ \A i \in 1 .. Len(b) : e[Len(sent') + i] = b[i]
      <4>1. PICK w : w = sent'
        OBVIOUS
      <4>2. w \in Seq(Byte) /\ b \in Seq(Byte) /\ e = w \o b
        BY <2>2, <2>5, <3>e, <4>1
      <4>3. /\ e \in Seq(Byte) /\ Len(e) = Len(w) + Len(b)
            /\ \A i \in 1 .. Len(w) : e[i] = w[i]
            /\ \A i \in 1 .. Len(b) : e[Len(w) + i] = b[i]
        BY <4>2, Joined
      <4> QED
        BY <4>1, <4>3
    <3>1. e \in Seq(Byte) /\ Len(e) = Len(c)
      BY <1>2, <2>2, <2>6, <3>0
    <3>2. ASSUME NEW i \in 1 .. Len(c) PROVE e[i] = c[i]
      <4>1. CASE i = 1
        <5>1. 1 \in 1 .. Len(sent')
          BY <2>6
        <5> QED
          BY <2>6, <3>0, <4>1, <5>1
      <4>2. CASE i # 1
        <5>1. i - 1 \in 1 .. Len(b) /\ i \in 2 .. Len(b) + 1
          BY <1>2, <2>2, <4>2
        <5>2. e[i] = b[i - 1]
          <6>1. e[Len(sent') + (i - 1)] = b[i - 1]
            BY <3>0, <5>1
          <6>2. Len(sent') + (i - 1) = i
            BY <2>6, <5>1
          <6> QED
            BY <6>1, <6>2
        <5>3. b[i - 1] = c[i]
          BY <2>2, <5>1
        <5> QED
          BY <5>2, <5>3
      <4> QED
        BY <4>1, <4>2
    <3>3. e = c
      BY <1>2, <3>1, <3>2, SeqEqual
    <3> QED
      BY <1>1, <3>3 DEF e
  <2>9. SentAsAsked'
    BY <1>4, <2>6, <2>7, <2>8 DEF SentAsAsked, NeverMoreThanAsked, ByteSentOnce, b
  <2>10. RemovedWereSent'
    <3>1. ASSUME NEW i \in 1 .. Len(before') - Stream_availableReal(buf')
          PROVE  \E j \in DOMAIN sent' : sent'[j] = before'[i]
      <4>1. i = 1 /\ before'[1] = c[1]
        BY <1>1, <1>2, <2>2
      <4>2. 1 \in DOMAIN sent'
        BY <2>5, <2>6
      <4> QED
        BY <2>6, <4>1, <4>2
    <3> QED
      BY <3>1 DEF RemovedWereSent
  <2>11. OTyped'
    BY <1>5, <2>5
  <2> QED
    BY <1>6, <2>2, <2>9, <2>10, <2>11 DEF OIInv
<1> QED
  BY <1>7, <1>8

LEMMA TransmitBytesStep ==
  ASSUME OIInv, NEW n \in 0 .. Size + 1, OStream_transmitBytes(n)
  PROVE  OIInv'
<1>1. /\ len' = Min2(n, Stream_available(buf)) /\ inside' = TRUE
      /\ op' = "transmitBytes" /\ before' = Contents(buf)
      /\ asked' = SubSeq(Contents(buf), 1, len')
      /\ sent' = <<>> /\ buf' = buf /\ next' = next
  BY DEF OStream_transmitBytes, Begin
<1>2. len' \in 0 .. Len(Contents(buf)) /\ len' \in Nat
  BY <1>1, Ring DEF Min2
<1>3. asked' \in Seq(Byte) /\ Len(asked') = len'
  BY <1>1, <1>2, Asked
<1>4. /\ Sound(buf, Size)' /\ NoLimits(buf)'
      /\ Held(before, Contents(buf))'
      /\ RemovedWereSent' /\ SentAsAsked'
  BY <1>1, <1>3, NothingYet
<1>5. Turn'
  BY <1>1, <1>2, <1>3, <1>4 DEF Turn
<1>6. OTyped'
  BY <1>1, <1>2, <1>3, Ring DEF OTyped, OIInv
<1> QED
  BY <1>4, <1>5, <1>6 DEF OIInv

LEMMA FlushBlockingStep ==
  ASSUME OIInv, OStream_flushBlocking
  PROVE  OIInv'
<1>1. /\ ~ inside /\ inside' = inside /\ len' = len
      /\ op' = "flushBlocking" /\ before' = Contents(buf)
      /\ asked' = SubSeq(Contents(buf), 1, Stream_available(buf))
      /\ sent' = <<>> /\ buf' = buf /\ next' = next
  BY DEF OStream_flushBlocking, Begin
<1>2. asked' \in Seq(Byte)
  <2>1. Stream_available(buf) \in 0 .. Len(Contents(buf))
    BY Ring
  <2> QED
    BY <1>1, <2>1, Asked
<1>3. Sound(buf, Size)' /\ NoLimits(buf)' /\ RemovedWereSent' /\ SentAsAsked'
  BY <1>1, <1>2, NothingYet
<1>4. OTyped' /\ Turn'
  BY <1>1, <1>2, Ring DEF OTyped, OIInv, Turn
<1> QED
  BY <1>3, <1>4 DEF OIInv

\* The byte that a turn removes is the first of the piece that it sends.
LEMMA TransmitPieceStep ==
  ASSUME OIInv, TransmitPiece
  PROVE  OIInv'
<1> DEFINE c == Contents(buf)
           b == Contents(buf')
           d == Stream_directAvailable(buf)
           m == Min2(d, len)
           p == slice(buf.Data, buf.RPos, m)
<1>1. /\ inside /\ inside' = inside /\ op' = op /\ next' = next
      /\ before' = before /\ asked' = asked
      /\ len > 0 /\ d > 0
      /\ sent' = sent \o p /\ len' = len - m
      /\ buf' = Stream_moveReadPos(buf, 1).s
  BY DEF TransmitPiece
<1>2. /\ op = "transmitBytes" /\ Held(before, c) /\ Len(sent) + len <= Len(asked)
      /\ len \in Nat /\ next \in Byte /\ RemovedWereSent
      /\ before \in Seq(Byte) /\ asked \in Seq(Byte) /\ sent \in Seq(Byte)
  BY <1>1 DEF OIInv, Turn, OTyped
<1>3. /\ c \in Seq(Byte) /\ d \in 0 .. Len(c) /\ Len(c) \in Nat
      /\ Stream_availableReal(buf) = Len(c)
  BY Ring
<1>4. m \in Nat /\ m > 0 /\ m <= d /\ m <= len
  BY <1>1, <1>2, <1>3 DEF Min2
<1>5. /\ Sound(buf', Size) /\ NoLimits(buf')
      /\ b \in Seq(Byte) /\ Stream_availableReal(buf') = Len(b)
      /\ Len(b) = Len(c) - 1
      /\ \A i \in 1 .. Len(b) : b[i] = c[i + 1]
  BY <1>1, OneLeaves
<1> HIDE DEF m
<1>6. /\ p \in Seq(Byte) /\ Len(p) = m
      /\ \A i \in 1 .. m : p[i] = c[i]
  BY <1>4, PieceIsOldest
<1> HIDE DEF p, d, c, b
<1>7. /\ sent' \in Seq(Byte) /\ Len(sent') = Len(sent) + m
      /\ \A j \in 1 .. Len(sent) : sent'[j] = sent[j]
      /\ sent'[Len(sent) + 1] = c[1]
  <2>1. p[1] = c[1] /\ 1 \in 1 .. Len(p)
    BY <1>4, <1>6
  <2>2. /\ sent' \in Seq(Byte) /\ Len(sent') = Len(sent) + Len(p)
        /\ \A j \in 1 .. Len(sent) : sent'[j] = sent[j]
        /\ \A j \in 1 .. Len(p) : sent'[Len(sent) + j] = p[j]
    BY <1>1, <1>2, <1>6, Joined
  <2>3. sent'[Len(sent) + 1] = p[1]
    BY <2>1, <2>2
  <2> QED
    BY <1>6, <2>1, <2>2, <2>3
<1>8. Held(before, b)
  <2>1. /\ Len(c) <= Len(before)
        /\ \A i \in 1 .. Len(c) : c[i] = before[Len(before) - Len(c) + i]
    BY <1>2 DEF Held
  <2>2. Len(before) \in Nat /\ Len(b) \in Nat
    BY <1>2, <1>5
  <2>3. ASSUME NEW i \in 1 .. Len(b)
        PROVE  b[i] = before[Len(before) - Len(b) + i]
    <3>1. i + 1 \in 1 .. Len(c) /\ b[i] = c[i + 1]
      BY <1>3, <1>5, <2>2
    <3>2. Len(before) - Len(c) + (i + 1) = Len(before) - Len(b) + i
      BY <1>3, <1>5, <2>2
    <3>3. c[i + 1] = before[Len(before) - Len(c) + (i + 1)]
      BY <2>1, <3>1
    <3> QED
      BY <3>1, <3>2, <3>3
  <2>4. Len(b) <= Len(before)
    BY <1>3, <1>5, <2>1, <2>2
  <2> QED
    BY <2>3, <2>4 DEF Held
<1>9. Len(sent') + len' <= Len(asked') /\ len' \in Nat
  <2>1. Len(sent) \in Nat /\ Len(asked) \in Nat
    BY <1>2
  <2> QED
    BY <1>1, <1>2, <1>4, <1>7, <2>1
<1>10. Turn'
  BY <1>1, <1>2, <1>8, <1>9 DEF Turn, b
<1>11. OTyped'
  BY <1>1, <1>2, <1>7, <1>9 DEF OTyped
<1>12. SentAsAsked'
  <2>1. Len(sent') <= Len(asked')
    <3>1. Len(sent') \in Nat /\ Len(asked') \in Nat
      BY <1>1, <1>2, <1>7
    <3> QED
      BY <1>9, <3>1
  <2>2. op' # "transmitByte"
    BY <1>1, <1>2
  <2> QED
    BY <2>1, <2>2 DEF SentAsAsked, NeverMoreThanAsked, ByteSentOnce
<1>13. RemovedWereSent'
  <2>1. /\ Len(c) <= Len(before) /\ Len(before) \in Nat
        /\ \A i \in 1 .. Len(c) : c[i] = before[Len(before) - Len(c) + i]
    BY <1>2 DEF Held
  <2>2. \A i \in 1 .. Len(before) - Len(c) : \E j \in DOMAIN sent : sent[j] = before[i]
    BY <1>2, <1>3 DEF RemovedWereSent
  <2>3. DOMAIN sent = 1 .. Len(sent) /\ DOMAIN sent' = 1 .. Len(sent') /\ Len(sent) \in Nat
    BY <1>2, <1>7
  <2>4. ASSUME NEW i \in 1 .. Len(before) - Len(b)
        PROVE  \E j \in DOMAIN sent' : sent'[j] = before[i]
    <3>1. CASE i \in 1 .. Len(before) - Len(c)
      <4>1. PICK j \in 1 .. Len(sent) : sent[j] = before[i]
        BY <2>2, <2>3, <3>1
      <4>2. sent'[j] = before[i] /\ j \in 1 .. Len(sent')
        BY <1>4, <1>7, <2>3, <4>1
      <4> QED
        BY <2>3, <4>2
    <3>2. CASE i \notin 1 .. Len(before) - Len(c)
      <4>1. i = Len(before) - Len(c) + 1 /\ 1 \in 1 .. Len(c)
        <5>1. Len(b) = Len(c) - 1 /\ Len(b) \in Nat /\ Len(c) \in Nat
          BY <1>3, <1>5
        <5>2. i \in Nat /\ 1 <= i /\ i <= Len(before) - Len(b)
          BY <2>1, <5>1
        <5>3. ~ (i <= Len(before) - Len(c))
          BY <3>2, <5>2, <2>1, <5>1
        <5>4. i = Len(before) - Len(c) + 1
          <6> DEFINE x == Len(before)
                     y == Len(c)
                     z == Len(b)
          <6>1. /\ x \in Nat /\ y \in Nat /\ z \in Nat /\ i \in Nat
                /\ z = y - 1 /\ i <= x - z /\ ~ (i <= x - y)
            BY <2>1, <5>1, <5>2, <5>3
          <6> HIDE DEF x, y, z
          <6>2. i = x - y + 1
            BY <6>1
          <6> QED
            BY <6>2 DEF x, y
        <5>5. 1 \in 1 .. Len(c)
          BY <5>1
        <5> QED
          BY <5>4, <5>5
      <4>2. c[1] = before[i]
        BY <2>1, <4>1
      <4>3. Len(sent) + 1 \in 1 .. Len(sent')
        BY <1>4, <1>7, <2>3
      <4> QED
        BY <1>7, <2>3, <4>2, <4>3
    <3> QED
      BY <3>1, <3>2
  <2> QED
    BY <1>1, <1>5, <2>4 DEF RemovedWereSent
<1> QED
  BY <1>5, <1>10, <1>11, <1>12, <1>13 DEF OIInv

LEMMA OutputStep ==
  ASSUME OIInv, [OutputNext]_outputVars
  PROVE  OIInv'
<1>1. CASE \E n \in 1 .. Size : Write(n)
  BY <1>1, WriteStep
<1>2. CASE OStream_transmitByte
  BY <1>2, TransmitByteStep
<1>3. CASE \E n \in 0 .. Size + 1 : OStream_transmitBytes(n)
  BY <1>3, TransmitBytesStep
<1>4. CASE TransmitPiece
  BY <1>4, TransmitPieceStep
<1>5. CASE TransmitReturn
  BY <1>5 DEF TransmitReturn, OIInv, OTyped, Turn, RemovedWereSent, SentAsAsked,
              NeverMoreThanAsked, ByteSentOnce
<1>6. CASE OStream_flushBlocking
  BY <1>6, FlushBlockingStep
<1>7. CASE UNCHANGED outputVars
  BY <1>7 DEF outputVars, OIInv, OTyped, Turn, RemovedWereSent, SentAsAsked,
              NeverMoreThanAsked, ByteSentOnce
<1> QED
  BY <1>1, <1>2, <1>3, <1>4, <1>5, <1>6, <1>7 DEF OutputNext

LEMMA OutputInvariant == OutputSpec => []OIInv
  BY OutputStarts, OutputStep, PTL DEF OutputSpec

-----------------------------------------------------------------------------
(* The theorems. *)

\* Whatever is written and sent, and wherever the ring wraps: a byte that has left
\* the stream during a call has been given to the transmit function by that call.
THEOREM NoByteIsLost == OutputSpec => []RemovedWereSent
<1>1. OIInv => RemovedWereSent
  BY DEF OIInv
<1> QED
  BY <1>1, OutputInvariant, PTL

\* No call gives the transmit function more bytes than it is asked for or than
\* there are, although transmitBytes sends some of them twice; and transmitByte
\* sends the oldest byte once and removes it.
THEOREM NoCallSendsMore == OutputSpec => []SentAsAsked
<1>1. OIInv => SentAsAsked
  BY DEF OIInv
<1> QED
  BY <1>1, OutputInvariant, PTL
=============================================================================
