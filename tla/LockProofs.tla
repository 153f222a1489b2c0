----------------------------- MODULE LockProofs -----------------------------
(***************************************************************************)
(* Theorems about StreamLock, for a buffer of any size: the length of a    *)
(* lock is what was done through it, no writer gets at the bytes that a    *)
(* reader has locked nor a lock at the bytes of the stream, and the users  *)
(* of the stream see a queue.                                              *)
(*                                                                         *)
(* A lock is a stream of its own over the same buffer.  The writer's holds *)
(* the slots behind the stream's writer: so many that it has written, and  *)
(* so many that are left.  The reader's holds the slots from the stream's  *)
(* reader on.  The other side only makes more room around them.            *)
(***************************************************************************)
EXTENDS StreamLock, StreamLemmas

\* A lock has at least one byte.  One of no bytes on an empty stream, or on a full
\* one, looks as if it had been used up: its length is that of the buffer.
SomeLength == 0 \notin LockLens

\* The writer's lock l on the stream s, with put written through it: its slots
\* follow the bytes of the stream, and put stands in the first of them.
HoldsSpace(s, l, put) ==
  /\ Sound(l, Size) /\ NoLimits(l) /\ l.Data = s.Data
  /\ Further(s.WPos, Len(put), l.WPos, Size)
  /\ Len(put) + Stream_spaceReal(l) \in 1 .. Size - Stream_availableReal(s)
  /\ \A i \in 1 .. Len(put) : s.Data[Ahead(s.WPos, i, Size)] = put[i]

\* The reader's lock l on the stream s, with got read through it: got are the
\* oldest bytes of the stream, and the bytes of the lock are the next ones.
HoldsBytes(s, l, got) ==
  /\ Sound(l, Size) /\ NoLimits(l) /\ l.Data = s.Data
  /\ Further(s.RPos, Len(got), l.RPos, Size)
  /\ Len(got) + Stream_availableReal(l) \in 1 .. Stream_availableReal(s)
  /\ \A i \in 1 .. Len(got) : s.Data[Ahead(s.RPos, i, Size)] = got[i]

\* The inductive invariant.
LockIInv ==
  /\ Sound(stream, Size) /\ NoLimits(stream)
  /\ written \in Seq(Byte) /\ taken \in Seq(Byte)
  /\ stream.WriteLocked => HoldsSpace(stream, wlock, written)
  /\ stream.ReadLocked => HoldsBytes(stream, rlock, taken)

-----------------------------------------------------------------------------
(* The slots of the ring. *)

\* The position after two moves.
LEMMA FurtherAdds ==
  ASSUME NEW size \in Nat \ {0}, NEW p \in 0 .. size - 1, NEW q \in 0 .. size - 1,
         NEW r \in 0 .. size - 1, NEW n \in Nat, NEW m \in Nat, n + m <= size,
         Further(p, n, q, size), Further(q, m, r, size)
  PROVE  Further(p, n + m, r, size)
  BY DEF Further

\* A stream whose bytes are the same ones in the same slots.
LEMMA ContentsKept ==
  ASSUME NEW size \in 1 .. MaxLen, NEW s, Sound(s, size), NEW t, Sound(t, size),
         t.RPos = s.RPos, Stream_availableReal(t) = Stream_availableReal(s),
         \A i \in 1 .. Stream_availableReal(s) :
           t.Data[Ahead(s.RPos, i, size)] = s.Data[Ahead(s.RPos, i, size)]
  PROVE  Contents(t) = Contents(s)
<1> DEFINE a == Contents(s)
           b == Contents(t)
           n == Stream_availableReal(s)
<1>1. /\ a \in Seq(Byte) /\ Len(a) = n
      /\ \A i \in 1 .. n : a[i] = s.Data[Ahead(s.RPos, i, size)]
  BY ContentsAre
<1>2. /\ b \in Seq(Byte) /\ Len(b) = n
      /\ \A i \in 1 .. n : b[i] = t.Data[Ahead(s.RPos, i, size)]
  BY ContentsAre
<1>3. \A i \in 1 .. n : t.Data[Ahead(s.RPos, i, size)] = s.Data[Ahead(s.RPos, i, size)]
  OBVIOUS
<1> HIDE DEF a, b, n
<1>4. ASSUME NEW i \in 1 .. n PROVE b[i] = a[i]
  BY <1>1, <1>2, <1>3
<1>5. b = a
  BY <1>1, <1>2, <1>4, SeqEqual
<1> QED
  BY <1>5 DEF a, b

\* What is laid c slots behind the reader changes none of the c before.
LEMMA LaidBehind ==
  ASSUME NEW size \in Nat \ {0}, NEW r \in 0 .. size - 1, NEW v \in 0 .. size - 1,
         NEW c \in 0 .. size, Further(r, c, v, size),
         NEW put \in Seq(Byte), c + Len(put) <= size,
         NEW d, NEW e, Laid(d, e, v, put, size),
         NEW i \in 1 .. c
  PROVE  e[Ahead(r, i, size)] = d[Ahead(r, i, size)]
<1>1. Len(put) \in Nat
  OBVIOUS
<1>2. ASSUME NEW j \in 1 .. Len(put)
      PROVE  Ahead(r, i, size) # Ahead(v, j, size)
  <2>1. /\ j \in 1 .. size /\ c + j \in 1 .. size /\ i \in 1 .. size
        /\ i # c + j /\ c + j <= size
    BY <1>1
  <2>2. Ahead(v, j, size) = Ahead(r, c + j, size)
    BY <2>1, AheadAdds
  <2>3. Ahead(r, i, size) # Ahead(r, c + j, size)
    BY <2>1, AheadDiffers
  <2> QED
    BY <2>2, <2>3
<1>3. Ahead(r, i, size) \in 0 .. size - 1
  <2>1. i \in 1 .. size
    OBVIOUS
  <2> QED
    BY <2>1, AheadIs
<1> QED
  BY <1>2, <1>3 DEF Laid

\* A write, when it is accepted, slot by slot.
LEMMA WriteLays ==
  ASSUME NEW size \in 1 .. MaxLen, NEW s, Sound(s, size), NoLimits(s),
         NEW val \in Seq(Byte), NEW r, r = Stream_writeBytes(s, val),
         r.res = "Stream_Ok"
  PROVE  /\ Sound(r.s, size) /\ NoLimits(r.s)
         /\ r.s.RPos = s.RPos /\ Aside(r.s) = Aside(s)
         /\ Len(val) > 0 /\ Stream_availableReal(s) + Len(val) <= size
         /\ Stream_availableReal(r.s) = Stream_availableReal(s) + Len(val)
         /\ Contents(r.s) = Contents(s) \o val
         /\ Further(s.WPos, Len(val), r.s.WPos, size)
         /\ Laid(s.Data, r.s.Data, s.WPos, val, size)
<1> DEFINE t == r.s
           n == Stream_availableReal(s)
           m == Len(val)
<1>1. /\ Sound(t, size) /\ NoLimits(t) /\ t.RPos = s.RPos /\ Aside(t) = Aside(s)
      /\ Contents(t) = Contents(s) \o val
      /\ Stream_availableReal(t) = n + m
  BY WriteBytesIs
<1>2. m > 0 /\ n + m <= size
  <2>1. Puts(s, r, m, val, size)
    BY WriteBytesPuts
  <2> QED
    BY <2>1 DEF Puts
<1> DEFINE tmpLen == s.Size - s.WPos
           first  == SubSeq(val, 1, tmpLen)
           rest   == SubSeq(val, tmpLen + 1, Len(val))
<1>3. /\ tmpLen \in 1 .. size /\ tmpLen = size - s.WPos
      /\ s.WPos \in 0 .. size - 1 /\ s.Data \in [0 .. size - 1 -> Byte]
      /\ t.WPos \in 0 .. size - 1 /\ size \in Nat \ {0} /\ m \in Nat
      /\ n \in 0 .. size
  BY <1>1, Types, WriterIsBehind, MaxLenAssumption DEF Sound
<1>4. m <= size
  <2> HIDE DEF n, m
  <2> QED
    BY <1>2, <1>3
<1>5. r = write(s, m, first, rest, val)
  BY DEF Stream_writeBytes
<1>6. m \in Nat \ {0} /\ ~ (Stream_space(s) < m)
  <2>1. Stream_space(s) = Stream_spaceReal(s) /\ Stream_spaceReal(s) = size - n
    BY NoLimitCounts, WriterIsBehind
  <2> HIDE DEF n, m
  <2> QED
    BY <1>2, <1>3, <2>1
<1>7. CASE s.WPos + m >= size
  <2>1. tmpLen \in 0 .. m /\ m \in 1 .. size /\ tmpLen + 1 \in 1 .. m + 1
    BY <1>2, <1>3, <1>4, <1>7
  <2> HIDE DEF tmpLen
  <2>2. /\ first \in Seq(Byte) /\ Len(first) = tmpLen
        /\ rest \in Seq(Byte) /\ Len(rest) = m - tmpLen
    BY <2>1, SubType
  <2>3. first \o rest = val
    BY <2>1, SubSplits
  <2> HIDE DEF first, rest
  <2>4. Len(first) = size - s.WPos /\ Len(rest) = s.WPos + m - size
    <3> HIDE DEF m
    <3> QED
      BY <1>3, <2>2
  <2>5. Laid(s.Data, memCopy(memCopy(s.Data, s.WPos, first), 0, rest),
             s.WPos, first \o rest, size)
    BY <1>3, <2>1, <2>2, <2>4, StoredAhead
  <2>6. /\ t.WPos = s.WPos + m - size
        /\ t.Data = memCopy(memCopy(s.Data, s.WPos, first), 0, rest)
    <3>1. s.WPos + m >= size => /\ first \in Seq(Byte)
                                /\ rest \in Seq(Byte) /\ Len(rest) = s.WPos + m - size
      BY <2>2, <2>4
    <3> QED
      BY <1>5, <1>6, <1>7, <3>1, Stored
  <2>7. Laid(s.Data, t.Data, s.WPos, val, size)
    BY <2>3, <2>5, <2>6
  <2>8. Further(s.WPos, m, t.WPos, size)
    BY <1>7, <2>6 DEF Further
  <2> QED
    BY <1>1, <1>2, <2>7, <2>8
<1>8. CASE s.WPos + m < size
  <2>1. Laid(s.Data, memCopy(s.Data, s.WPos, val), s.WPos, val, size)
    BY <1>3, <1>8, StoredInOne
  <2> HIDE DEF first, rest
  <2>2. t.WPos = s.WPos + m /\ t.Data = memCopy(s.Data, s.WPos, val)
    <3>1. ~ (s.WPos + m >= size)
      BY <1>3, <1>8
    <3> QED
      BY <1>5, <1>6, <1>8, <3>1, Stored
  <2>3. Further(s.WPos, m, t.WPos, size)
    BY <1>8, <2>2 DEF Further
  <2> QED
    BY <1>1, <1>2, <2>1, <2>2, <2>3
<1>9. s.WPos + m >= size \/ s.WPos + m < size
  BY <1>3
<1> QED
  BY <1>7, <1>8, <1>9

\* A read, when it is accepted, slot by slot.
LEMMA ReadMoves ==
  ASSUME NEW size \in 1 .. MaxLen, NEW s, Sound(s, size), NoLimits(s),
         NEW len \in Nat, NEW r, r = Stream_readBytes(s, len), r.res = "Stream_Ok"
  PROVE  /\ Sound(r.s, size) /\ NoLimits(r.s)
         /\ r.s.Data = s.Data /\ r.s.WPos = s.WPos /\ Aside(r.s) = Aside(s)
         /\ len > 0 /\ len <= Stream_availableReal(s)
         /\ Stream_availableReal(r.s) = Stream_availableReal(s) - len
         /\ Further(s.RPos, len, r.s.RPos, size)
         /\ r.val = SubSeq(Contents(s), 1, len)
         /\ Contents(r.s) = SubSeq(Contents(s), len + 1, Len(Contents(s)))
         /\ r.val \in Seq(Byte) /\ Len(r.val) = len
         /\ \A i \in 1 .. len : r.val[i] = s.Data[Ahead(s.RPos, i, size)]
<1> DEFINE c == Contents(s)
           n == Stream_availableReal(s)
<1>1. /\ Sound(r.s, size) /\ NoLimits(r.s)
      /\ r.s.Data = s.Data /\ r.s.WPos = s.WPos /\ Aside(r.s) = Aside(s)
      /\ Stream_availableReal(r.s) = n - Len(r.val)
      /\ Further(s.RPos, Len(r.val), r.s.RPos, size)
  BY ReadMovesOver
<1>2. Takes(s, r, len, r.val)
  BY ReadBytesTakes
<1>3. /\ len > 0 /\ len <= Len(c)
      /\ r.val = SubSeq(c, 1, len)
      /\ Contents(r.s) = SubSeq(c, len + 1, Len(c))
  BY <1>2 DEF Takes
<1>4. /\ c \in Seq(Byte) /\ Len(c) = n
      /\ \A i \in 1 .. n : c[i] = s.Data[Ahead(s.RPos, i, size)]
  BY ContentsAre
<1> HIDE DEF c, n
<1>5. /\ r.val \in Seq(Byte) /\ Len(r.val) = len
      /\ \A i \in 1 .. len : r.val[i] = c[i]
  BY <1>3, <1>4
<1>6. \A i \in 1 .. len : r.val[i] = s.Data[Ahead(s.RPos, i, size)]
  <2>1. \A i \in 1 .. len : i \in 1 .. n
    BY <1>3, <1>4
  <2> QED
    BY <1>4, <1>5, <2>1
<1> QED
  BY <1>1, <1>3, <1>4, <1>5, <1>6 DEF c, n
-----------------------------------------------------------------------------
(* The writer's lock. *)

\* Stream_flipWrite, field by field.
LEMMA FlipWriteFields ==
  ASSUME NEW size \in 1 .. MaxLen, HalfRange(size), NEW s, Sound(s, size),
         NEW len \in 0 .. size, NEW t, t = Stream_flipWrite(s, len)
  PROVE  /\ t \in Stream(size)
         /\ t.Data = s.Data /\ t.WPos = s.WPos /\ Aside(t) = Aside(s)
         /\ t.WriteLimit = s.WriteLimit /\ t.ReadLimit = s.ReadLimit
         /\ s.WPos + len >= size => t.RPos = s.WPos + len - size /\ t.Overflow = 0
         /\ s.WPos + len < size => t.RPos = s.WPos + len /\ t.Overflow = 1
<1> DEFINE pos == s.WPos + len
           z == pos - size
<1>1. s \in Stream(size) /\ s.Size = size /\ s.WPos \in 0 .. size - 1
  BY Types DEF Sound
<1>2. /\ pos \in 0 .. 2 * size - 1 /\ size \in Nat \ {0} /\ pos <= MaxLen
      /\ MaxLen \in Nat
  BY <1>1, MaxLenAssumption DEF HalfRange
<1>3. ToLen(pos) = pos
  BY <1>2 DEF ToLen
<1>4. CASE pos >= size
  <2>1. pos % size = z
    <3> HIDE DEF pos
    <3> QED
      BY <1>2, <1>4
  <2>2. z \in 0 .. size - 1
    BY <1>2, <1>4
  <2>3. t = [s EXCEPT !.RPos = z, !.Overflow = 0]
    BY <1>1, <1>3, <1>4, <2>1 DEF Stream_flipWrite
  <2>4. z = s.WPos + len - size
    BY <1>1
  <2>5. ~ (s.WPos + len < size)
    BY <1>2, <1>4
  <2> HIDE DEF z
  <2>6. /\ t \in Stream(size)
        /\ t.Data = s.Data /\ t.WPos = s.WPos /\ Aside(t) = Aside(s)
        /\ t.WriteLimit = s.WriteLimit /\ t.ReadLimit = s.ReadLimit
        /\ t.RPos = z /\ t.Overflow = 0
    BY <1>1, <2>2, <2>3, Flags DEF Stream, Aside
  <2> QED
    BY <2>4, <2>5, <2>6
<1>5. CASE pos < size
  <2>1. ~ (s.WPos + len >= size)
    BY <1>2, <1>5
  <2>2. pos \in 0 .. size - 1
    BY <1>2, <1>5
  <2>3. t = [s EXCEPT !.RPos = pos, !.Overflow = 1]
    BY <1>1, <1>3, <2>1 DEF Stream_flipWrite
  <2>4. /\ t \in Stream(size)
        /\ t.Data = s.Data /\ t.WPos = s.WPos /\ Aside(t) = Aside(s)
        /\ t.WriteLimit = s.WriteLimit /\ t.ReadLimit = s.ReadLimit
        /\ t.RPos = pos /\ t.Overflow = 1
    <3> HIDE DEF pos
    <3> QED
      BY <1>1, <2>2, <2>3, Flags DEF Stream, Aside
  <2> QED
    BY <2>1, <2>4
<1> QED
  BY <1>2, <1>4, <1>5

\* A new lock has len bytes of space, and nothing written.
LEMMA FlipWriteHolds ==
  ASSUME HalfRange(Size), NEW s, Sound(s, Size), NoLimits(s),
         NEW len \in 1 .. Size, len <= Stream_spaceReal(s),
         NEW t, t = Stream_flipWrite(s, len)
  PROVE  HoldsSpace(s, t, <<>>)
<1> USE SizeAssumption
<1>1. /\ Size \in 1 .. MaxLen /\ Size \in Nat /\ s.WPos \in 0 .. Size - 1
      /\ len \in 0 .. Size
  BY Types, MaxLenAssumption DEF Sound
<1>2. /\ t \in Stream(Size)
      /\ t.Data = s.Data /\ t.WPos = s.WPos
      /\ t.WriteLimit = s.WriteLimit /\ t.ReadLimit = s.ReadLimit
      /\ s.WPos + len >= Size => t.RPos = s.WPos + len - Size /\ t.Overflow = 0
      /\ s.WPos + len < Size => t.RPos = s.WPos + len /\ t.Overflow = 1
  BY <1>1, FlipWriteFields
<1>3. NoLimits(t)
  BY <1>2 DEF NoLimits
<1>4. /\ t.RPos \in 0 .. Size - 1 /\ t.WPos \in 0 .. Size - 1
      /\ t.Overflow = 1 => Stream_spaceReal(t) = t.RPos - t.WPos
      /\ t.Overflow = 0 => Stream_spaceReal(t) = Size + t.RPos - t.WPos
  BY <1>1, <1>2, Types, Filled
<1>5. Stream_spaceReal(t) = len
  <2>1. CASE s.WPos + len >= Size
    BY <1>1, <1>2, <1>4, <2>1
  <2>2. CASE s.WPos + len < Size
    BY <1>1, <1>2, <1>4, <2>2
  <2> QED
    BY <1>1, <2>1, <2>2
<1>6. Sound(t, Size)
  <2>1. t.WriteLimit = -1 /\ t.ReadLimit = -1
    BY <1>3 DEF NoLimits, NoLimit
  <2>2. Wrapped(t, Size) \/ Straight(t, Size)
    <3>1. CASE s.WPos + len >= Size
      BY <1>1, <1>2, <1>4, <2>1, <3>1 DEF Straight
    <3>2. CASE s.WPos + len < Size
      BY <1>1, <1>2, <1>4, <2>1, <3>2 DEF Wrapped
    <3> QED
      BY <1>1, <3>1, <3>2
  <2> QED
    BY <1>1, <1>2, <2>2, Shapes
<1>7. Further(s.WPos, 0, t.WPos, Size)
  BY <1>1, <1>2 DEF Further
<1>8. /\ Stream_spaceReal(s) = Size - Stream_availableReal(s)
      /\ Stream_availableReal(s) \in 0 .. Size
  BY <1>1, WriterIsBehind
<1>9. 0 + Stream_spaceReal(t) \in 1 .. Size - Stream_availableReal(s)
  BY <1>1, <1>5, <1>8
<1> QED
  BY <1>2, <1>3, <1>6, <1>7, <1>9 DEF HoldsSpace

\* The reader makes the stream shorter and moves no byte: the writer's lock sees
\* nothing of it.
LEMMA HoldsSpaceStill ==
  ASSUME NEW s, Sound(s, Size), NEW t, Sound(t, Size), NEW l, NEW put,
         HoldsSpace(s, l, put),
         t.Data = s.Data, t.WPos = s.WPos,
         Stream_availableReal(t) <= Stream_availableReal(s)
  PROVE  HoldsSpace(t, l, put)
<1> USE SizeAssumption, MaxLenAssumption
<1>1. /\ Stream_availableReal(s) \in 0 .. Size /\ Stream_availableReal(t) \in 0 .. Size
      /\ Size \in Nat
  BY WriterIsBehind
<1>2. Len(put) + Stream_spaceReal(l) \in 1 .. Size - Stream_availableReal(t)
  BY <1>1 DEF HoldsSpace
<1> QED
  BY <1>2 DEF HoldsSpace

\* Where the slots of a lock are: behind the bytes of the stream.
LEMMA SpaceIsBehind ==
  ASSUME NEW s, Sound(s, Size), NEW l, NEW put \in Seq(Byte), HoldsSpace(s, l, put)
  PROVE  /\ Size \in 1 .. MaxLen /\ Size \in Nat \ {0}
         /\ s.RPos \in 0 .. Size - 1 /\ s.WPos \in 0 .. Size - 1
         /\ l.WPos \in 0 .. Size - 1 /\ Len(put) \in Nat
         /\ Stream_availableReal(s) \in 0 .. Size
         /\ Stream_spaceReal(l) \in 0 .. Size
         /\ Stream_spaceReal(l) = Size - Stream_availableReal(l)
         /\ Len(put) + Stream_spaceReal(l) + Stream_availableReal(s) <= Size
         /\ Stream_availableReal(s) + Len(put) \in 0 .. Size
         /\ Further(s.RPos, Stream_availableReal(s), s.WPos, Size)
         /\ Further(s.WPos, Len(put), l.WPos, Size)
         /\ Further(s.RPos, Stream_availableReal(s) + Len(put), l.WPos, Size)
<1> DEFINE n == Stream_availableReal(s)
           k == Len(put)
           m == Stream_spaceReal(l)
<1>1. /\ Size \in 1 .. MaxLen /\ Size \in Nat \ {0}
      /\ s.RPos \in 0 .. Size - 1 /\ s.WPos \in 0 .. Size - 1
      /\ l.WPos \in 0 .. Size - 1 /\ k \in Nat
  BY SizeAssumption, MaxLenAssumption, Types DEF Sound, HoldsSpace
<1>2. /\ n \in 0 .. Size /\ Further(s.RPos, n, s.WPos, Size)
  BY <1>1, WriterIsBehind
<1>3. m = Size - Stream_availableReal(l) /\ Stream_availableReal(l) \in 0 .. Size
  BY <1>1, WriterIsBehind DEF HoldsSpace
<1>4. Further(s.WPos, k, l.WPos, Size) /\ k + m \in 1 .. Size - n
  BY DEF HoldsSpace
<1> HIDE DEF n, k, m
<1>5. m \in 0 .. Size /\ k + m + n <= Size /\ n + k \in 0 .. Size /\ n \in Nat
  BY <1>1, <1>2, <1>3, <1>4
<1>6. Further(s.RPos, n + k, l.WPos, Size)
  BY <1>1, <1>2, <1>4, <1>5, FurtherAdds
<1> QED
  BY <1>1, <1>2, <1>3, <1>4, <1>5, <1>6 DEF n, k, m
\* The bytes are shared: a change of them moves no position.
LEMMA OverIs ==
  ASSUME NEW s, Sound(s, Size), NEW d \in [0 .. Size - 1 -> Byte],
         NEW t, t = Over(s, d)
  PROVE  /\ Sound(t, Size) /\ SameRing(s, t) /\ Aside(t) = Aside(s) /\ t.Data = d
         /\ Stream_availableReal(t) = Stream_availableReal(s)
         /\ Stream_spaceReal(t) = Stream_spaceReal(s)
         /\ NoLimits(s) => NoLimits(t)
<1>1. s \in Stream(Size)
  BY DEF Sound
<1>2. t \in Stream(Size) /\ SameRing(s, t) /\ Aside(t) = Aside(s) /\ t.Data = d
  BY <1>1 DEF Over, Stream, SameRing, Aside
<1>3. /\ Sound(t, Size) /\ Stream_availableReal(t) = Stream_availableReal(s)
      /\ NoLimits(s) => NoLimits(t)
  BY <1>2, RingIsSame, SizeAssumption
<1>4. Stream_spaceReal(t) = Stream_spaceReal(s)
  BY <1>3, WriterIsBehind, SizeAssumption
<1> QED
  BY <1>2, <1>3, <1>4

\* A write through the lock is laid behind what was written before, and the stream
\* holds what it held.
LEMMA WriteThroughLock ==
  ASSUME NEW s, Sound(s, Size), NoLimits(s),
         NEW l, NEW put \in Seq(Byte), HoldsSpace(s, l, put),
         NEW val \in Seq(Byte), NEW r, r = Stream_writeBytes(l, val),
         r.res = "Stream_Ok", NEW t, t = Over(s, r.s.Data)
  PROVE  /\ Sound(t, Size) /\ NoLimits(t) /\ SameRing(s, t) /\ Aside(t) = Aside(s)
         /\ Stream_availableReal(t) = Stream_availableReal(s)
         /\ \A i \in 1 .. Stream_availableReal(s) :
              t.Data[Ahead(s.RPos, i, Size)] = s.Data[Ahead(s.RPos, i, Size)]
         /\ put \o val \in Seq(Byte)
         /\ HoldsSpace(t, r.s, put \o val)
<1> DEFINE n == Stream_availableReal(s)
           k == Len(put)
           j == Len(val)
           m == Stream_spaceReal(l)
           u == put \o val
           d == s.Data
           e == r.s.Data
           w == s.WPos
           v == l.WPos
<1>1. /\ Size \in 1 .. MaxLen /\ Size \in Nat \ {0}
      /\ s.RPos \in 0 .. Size - 1 /\ w \in 0 .. Size - 1 /\ v \in 0 .. Size - 1
      /\ k \in Nat /\ n \in 0 .. Size /\ m \in 0 .. Size
      /\ m = Size - Stream_availableReal(l)
      /\ k + m + n <= Size /\ n + k \in 0 .. Size
      /\ Further(w, k, v, Size) /\ Further(s.RPos, n + k, v, Size)
  BY SpaceIsBehind
<1>2. /\ Sound(l, Size) /\ NoLimits(l) /\ l.Data = d
      /\ k + m \in 1 .. Size - n
      /\ \A i \in 1 .. k : d[Ahead(w, i, Size)] = put[i]
  BY DEF HoldsSpace
<1>3. /\ Sound(r.s, Size) /\ NoLimits(r.s)
      /\ j > 0 /\ Stream_availableReal(l) + j <= Size
      /\ Stream_availableReal(r.s) = Stream_availableReal(l) + j
      /\ Further(v, j, r.s.WPos, Size)
      /\ Laid(d, e, v, val, Size)
  BY <1>1, <1>2, WriteLays
<1>4. /\ e \in [0 .. Size - 1 -> Byte] /\ r.s.WPos \in 0 .. Size - 1
      /\ Stream_spaceReal(r.s) = Size - Stream_availableReal(r.s)
      /\ Stream_availableReal(l) \in 0 .. Size
  BY <1>1, <1>2, <1>3, Types, WriterIsBehind DEF Sound
<1>5. /\ Sound(t, Size) /\ SameRing(s, t) /\ Aside(t) = Aside(s) /\ t.Data = e
      /\ Stream_availableReal(t) = n /\ NoLimits(t)
  BY <1>4, OverIs
<1>6. /\ u \in Seq(Byte) /\ Len(u) = k + j
      /\ \A i \in 1 .. k : u[i] = put[i]
      /\ \A i \in 1 .. j : u[k + i] = val[i]
  BY TwoPieces
<1> DEFINE y == Stream_availableReal(l)
           z == Stream_availableReal(r.s)
<1>7. /\ Size \in Nat /\ k \in Nat /\ j \in Nat /\ n \in Nat /\ m \in Nat /\ y \in Nat
       /\ m = Size - y /\ k + m + n <= Size /\ y + j <= Size /\ z = y + j
  BY <1>1, <1>3, <1>4
<1> HIDE DEF n, m, u, d, e, w, v, y, z
<1>8. /\ j <= m /\ k + j \in 0 .. Size /\ n + k + j <= Size /\ k \in 0 .. Size
      /\ Stream_spaceReal(r.s) = m - j
  <2>1. Stream_spaceReal(r.s) = Size - z
    BY <1>4 DEF z
  <2> HIDE DEF k, j
  <2> QED
    BY <1>7, <2>1
<1>9. \A i \in 1 .. n : e[Ahead(s.RPos, i, Size)] = d[Ahead(s.RPos, i, Size)]
  <2> SUFFICES ASSUME NEW i \in 1 .. n
               PROVE  e[Ahead(s.RPos, i, Size)] = d[Ahead(s.RPos, i, Size)]
    OBVIOUS
  <2> DEFINE c == n + k
  <2>1. i \in 1 .. c /\ c \in 0 .. Size /\ c + j <= Size
    <3> HIDE DEF k, j
    <3> QED
      BY <1>1, <1>8
  <2>2. Further(s.RPos, c, v, Size)
    BY <1>1
  <2> HIDE DEF c
  <2> QED
    BY <1>1, <1>3, <2>1, <2>2, LaidBehind
<1>10. ASSUME NEW i \in 1 .. k + j
      PROVE  e[Ahead(w, i, Size)] = u[i]
  <2>1. CASE i \in 1 .. k
    <3>1. e[Ahead(w, i, Size)] = d[Ahead(w, i, Size)]
      <4>1. /\ Size \in Nat \ {0} /\ w \in 0 .. Size - 1 /\ v \in 0 .. Size - 1
            /\ k \in 0 .. Size /\ Further(w, k, v, Size)
            /\ k + j <= Size /\ Laid(d, e, v, val, Size)
        BY <1>1, <1>3, <1>8
      <4> HIDE DEF k
      <4> QED
        BY <2>1, <4>1, LaidBehind
    <3> QED
      BY <1>2, <1>6, <2>1, <3>1
  <2>2. CASE i \in k + 1 .. k + j
    <3> DEFINE h == i - k
    <3>1. h \in 1 .. j /\ h \in 1 .. Size /\ k + h <= Size /\ k + h = i
      <4> HIDE DEF k, j
      <4> QED
        BY <1>8, <1>7, <2>2
    <3> HIDE DEF h
    <3>2. Ahead(v, h, Size) = Ahead(w, k + h, Size)
      <4>1. /\ Size \in Nat \ {0} /\ w \in 0 .. Size - 1 /\ v \in 0 .. Size - 1
            /\ k \in 0 .. Size /\ Further(w, k, v, Size)
        BY <1>1, <1>8
      <4> HIDE DEF k
      <4> QED
        BY <3>1, <4>1, AheadAdds
    <3>3. e[Ahead(v, h, Size)] = val[h]
      BY <1>3, <3>1 DEF Laid
    <3>4. u[k + h] = val[h]
      BY <1>6, <3>1
    <3> QED
      BY <3>1, <3>2, <3>3, <3>4
  <2>3. i \in 1 .. k \/ i \in k + 1 .. k + j
    <3> HIDE DEF k, j
    <3> QED
      BY <1>7
  <2> QED
    BY <2>1, <2>2, <2>3
<1>11. Further(w, k + j, r.s.WPos, Size)
  <2>1. k + j <= Size
    BY <1>8
  <2> HIDE DEF k, j
  <2> QED
    BY <1>1, <1>3, <1>4, <1>7, <2>1, FurtherAdds
<1>12. k + j + (m - j) = k + m
  <2> HIDE DEF k, j
  <2> QED
    BY <1>7
<1>13. HoldsSpace(t, r.s, u)
  <2>1. t.WPos = w
    BY <1>5 DEF SameRing, w
  <2>2. Further(t.WPos, Len(u), r.s.WPos, Size)
    BY <1>6, <1>11, <2>1
  <2>3. Len(u) + Stream_spaceReal(r.s) \in 1 .. Size - Stream_availableReal(t)
    BY <1>2, <1>5, <1>6, <1>8, <1>12
  <2>4. \A i \in 1 .. Len(u) : t.Data[Ahead(t.WPos, i, Size)] = u[i]
    BY <1>5, <1>6, <1>10, <2>1
  <2>5. r.s.Data = t.Data
    BY <1>5 DEF e
  <2> QED
    BY <1>3, <2>2, <2>3, <2>4, <2>5 DEF HoldsSpace
<1> QED
  BY <1>5, <1>6, <1>9, <1>13 DEF n, d, u, e

\* The writer makes the stream longer, and leaves the bytes that it holds: the
\* reader's lock sees nothing of it.
LEMMA HoldsBytesStill ==
  ASSUME NEW s, Sound(s, Size), NEW t, Sound(t, Size),
         NEW l, NEW got \in Seq(Byte), HoldsBytes(s, l, got),
         t.RPos = s.RPos,
         Stream_availableReal(t) >= Stream_availableReal(s),
         \A i \in 1 .. Stream_availableReal(s) :
           t.Data[Ahead(s.RPos, i, Size)] = s.Data[Ahead(s.RPos, i, Size)]
  PROVE  HoldsBytes(t, Over(l, t.Data), got)
<1> DEFINE n == Stream_availableReal(s)
           a == Stream_availableReal(t)
           m == Stream_availableReal(l)
           k == Len(got)
           x == Over(l, t.Data)
<1>1. /\ Size \in 1 .. MaxLen /\ Size \in Nat
      /\ n \in 0 .. Size /\ a \in 0 .. Size
      /\ t.Data \in [0 .. Size - 1 -> Byte]
  BY SizeAssumption, MaxLenAssumption, WriterIsBehind, Types DEF Sound
<1>2. /\ Sound(l, Size) /\ NoLimits(l)
      /\ Further(s.RPos, k, l.RPos, Size)
      /\ k + m \in 1 .. n
      /\ \A i \in 1 .. k : s.Data[Ahead(s.RPos, i, Size)] = got[i]
  BY DEF HoldsBytes
<1>3. m \in 0 .. Size /\ k \in Nat
  BY <1>1, <1>2, WriterIsBehind
<1>4. /\ Sound(x, Size) /\ NoLimits(x) /\ SameRing(l, x) /\ x.Data = t.Data
      /\ Stream_availableReal(x) = m
  BY <1>1, <1>2, OverIs
<1> HIDE DEF x
<1>5. k + m \in 1 .. a /\ (\A i \in 1 .. k : i \in 1 .. n)
  <2>1. a >= n
    OBVIOUS
  <2> HIDE DEF n, a, m, k
  <2> QED
    BY <1>1, <1>2, <1>3, <2>1
<1>6. \A i \in 1 .. k : t.Data[Ahead(t.RPos, i, Size)] = got[i]
  BY <1>2, <1>5
<1>7. Further(t.RPos, k, x.RPos, Size)
  BY <1>2, <1>4 DEF SameRing
<1>8. HoldsBytes(t, x, got)
  BY <1>4, <1>5, <1>6, <1>7 DEF HoldsBytes
<1> QED
  BY <1>8 DEF x
\* The length of the lock: how much was written through it.
LEMMA LockWriteLenIs ==
  ASSUME NEW s, Sound(s, Size), NEW l, NEW put \in Seq(Byte), HoldsSpace(s, l, put)
  PROVE  Stream_lockWriteLen(s, l) = Len(put)
<1> DEFINE n == Stream_availableReal(s)
           k == Len(put)
           m == Stream_spaceReal(l)
           w == s.WPos
           v == l.WPos
           p == s.RPos
           q == l.RPos
<1>1. /\ Size \in Nat \ {0} /\ n \in 0 .. Size /\ k \in Nat /\ m \in 0 .. Size
      /\ w \in 0 .. Size - 1 /\ v \in 0 .. Size - 1
      /\ k + m + n <= Size
      /\ Further(w, k, v, Size)
  BY SpaceIsBehind
<1>2. k + m \in 1 .. Size - n
  BY DEF HoldsSpace
<1>3. /\ s \in Stream(Size) /\ l \in Stream(Size)
      /\ Wrapped(s, Size) \/ Straight(s, Size)
      /\ Wrapped(l, Size) \/ Straight(l, Size)
      /\ Size \in 1 .. MaxLen
  BY Shapes, SizeAssumption DEF Sound, HoldsSpace
<1>4. /\ s.Size = Size /\ p \in 0 .. Size - 1 /\ q \in 0 .. Size - 1
      /\ \/ s.Overflow = 1 /\ n = Size + w - p /\ w <= p
         \/ s.Overflow = 0 /\ n = w - p /\ p <= w
      /\ \/ l.Overflow = 1 /\ m = q - v /\ v <= q
         \/ l.Overflow = 0 /\ m = Size + q - v /\ q <= v
  BY <1>3, Types, Filled DEF Wrapped, Straight
<1>5. Stream_lockWriteLen(s, l) =
        CASE w < v -> v - w
          [] w > v -> Size - w + v
          [] OTHER -> IF p = q /\ s.Overflow = 0 /\ l.Overflow = 1 THEN Size ELSE 0
  BY <1>4 DEF Stream_lockWriteLen
<1> HIDE DEF n, k, m, w, v, p, q
<1>6. CASE w < v
  <2>1. v - w = k /\ ~ (w > v)
    BY <1>1, <1>2, <1>6 DEF Further
  <2> QED
    BY <1>5, <1>6, <2>1 DEF k
<1>7. CASE w > v
  <2>1. Size - w + v = k /\ ~ (w < v)
    BY <1>1, <1>2, <1>7 DEF Further
  <2> QED
    BY <1>5, <1>7, <2>1 DEF k
<1>8. CASE w = v
  <2>1. ~ (w < v) /\ ~ (w > v)
    BY <1>1, <1>8
  <2>2. k = 0 \/ k = Size
    BY <1>1, <1>8 DEF Further
  <2>3. CASE k = 0
    <3>1. ~ (p = q /\ s.Overflow = 0 /\ l.Overflow = 1)
      BY <1>1, <1>2, <1>4, <1>8, <2>3
    <3> QED
      BY <1>5, <2>1, <2>3, <3>1 DEF k
  <2>4. CASE k = Size
    <3>1. p = q /\ s.Overflow = 0 /\ l.Overflow = 1
      <4>1. n = 0 /\ m = 0
        BY <1>1, <2>4
      <4> QED
        BY <1>1, <1>4, <1>8, <4>1
    <3> QED
      BY <1>5, <2>1, <2>4, <3>1 DEF k
  <2> QED
    BY <2>2, <2>3, <2>4
<1>9. w < v \/ w > v \/ w = v
  BY <1>1
<1> QED
  BY <1>6, <1>7, <1>8, <1>9

\* The flags of the locks have no part in the ring.
LEMMA LockSet ==
  ASSUME NEW s, Sound(s, Size), NEW b \in BOOLEAN,
         NEW t, \/ t = [s EXCEPT !.WriteLocked = b]
                \/ t = [s EXCEPT !.ReadLocked = b]
  PROVE  /\ Sound(t, Size) /\ SameRing(s, t) /\ t.Data = s.Data
         /\ Stream_availableReal(t) = Stream_availableReal(s)
         /\ NoLimits(s) => NoLimits(t)
         /\ Contents(t) = Contents(s)
<1> USE SizeAssumption
<1>1. s \in Stream(Size)
  BY DEF Sound
<1>2. t \in Stream(Size) /\ SameRing(s, t) /\ t.Data = s.Data
  BY <1>1 DEF Stream, SameRing
<1>3. /\ Sound(t, Size) /\ Stream_availableReal(t) = Stream_availableReal(s)
      /\ NoLimits(s) => NoLimits(t)
  BY <1>2, RingIsSame
<1> QED
  BY <1>2, <1>3, SameContents DEF SameRing

\* Each flag is set alone.
LEMMA LockFlags ==
  ASSUME NEW s, Sound(s, Size), NEW b \in BOOLEAN
  PROVE  /\ [s EXCEPT !.WriteLocked = b].WriteLocked = b
         /\ [s EXCEPT !.WriteLocked = b].ReadLocked = s.ReadLocked
         /\ [s EXCEPT !.ReadLocked = b].ReadLocked = b
         /\ [s EXCEPT !.ReadLocked = b].WriteLocked = s.WriteLocked
         /\ s.WriteLocked \in BOOLEAN /\ s.ReadLocked \in BOOLEAN
  BY DEF Sound, Stream

\* The unlock puts all that was written through the lock behind the bytes of the
\* stream.
LEMMA UnlockWriteIs ==
  ASSUME HalfRange(Size), NEW s, Sound(s, Size), NoLimits(s),
         NEW l, NEW put \in Seq(Byte), HoldsSpace(s, l, put), s.WriteLocked,
         NEW t, t = Stream_unlockWrite(s, l)
  PROVE  /\ Sound(t, Size) /\ NoLimits(t) /\ t.Data = s.Data /\ t.RPos = s.RPos
         /\ t.WriteLocked = FALSE /\ t.ReadLocked = s.ReadLocked
         /\ Stream_availableReal(t) = Stream_availableReal(s) + Len(put)
         /\ Contents(t) = Contents(s) \o put
<1> DEFINE n == Stream_availableReal(s)
           k == Len(put)
           r == Stream_moveWritePos(s, k)
           x == r.s
<1> USE SizeAssumption
<1>1. /\ Size \in Nat \ {0} /\ n \in 0 .. Size /\ k \in Nat
      /\ Stream_spaceReal(l) \in 0 .. Size
      /\ k + Stream_spaceReal(l) + n <= Size
      /\ s.WPos \in 0 .. Size - 1
  BY SpaceIsBehind
<1>2. t = [x EXCEPT !.WriteLocked = FALSE]
  BY LockWriteLenIs DEF Stream_unlockWrite
<1>3. Stream_space(s) = Size - n /\ ~ Stream_isWriteLimited(s)
  BY NoLimitCounts, WriterIsBehind
<1>4. ~ (Stream_space(s) < k)
  <2> HIDE DEF n, k
  <2> QED
    BY <1>1, <1>3
<1>5. /\ x \in Stream(Size)
      /\ x.Data = s.Data /\ x.RPos = s.RPos /\ Aside(x) = Aside(s)
      /\ x.WriteLimit = s.WriteLimit /\ x.ReadLimit = s.ReadLimit
      /\ s.WPos + k >= Size => x.WPos = s.WPos + k - Size /\ x.Overflow = 1
      /\ s.WPos + k < Size => x.WPos = s.WPos + k /\ x.Overflow = s.Overflow
  <2> HIDE DEF k
  <2> QED
    BY <1>1, <1>4, MoveWriteFields
<1>6. Sound(x, Size)
  <2> HIDE DEF k
  <2> QED
    BY <1>1, <1>3, MoveWriteSound
<1>7. Stream_availableReal(x) = n + k
  <2> HIDE DEF k, x
  <2> QED
    BY <1>1, <1>4, <1>5, WriterMoves
<1> HIDE DEF x
<1>8. Laid(s.Data, x.Data, s.WPos, put, Size)
  BY <1>5 DEF Laid, HoldsSpace
<1>9. Contents(x) = Contents(s) \o put
  BY <1>5, <1>6, <1>7, <1>8, Appends
<1>10. /\ Sound(t, Size) /\ SameRing(x, t) /\ t.Data = x.Data
       /\ Stream_availableReal(t) = n + k
       /\ NoLimits(x) => NoLimits(t)
       /\ Contents(t) = Contents(x)
  BY <1>2, <1>6, <1>7, LockSet
<1>11. NoLimits(t)
  BY <1>5, <1>10 DEF NoLimits
<1>12. t.WriteLocked = FALSE /\ t.ReadLocked = x.ReadLocked
  BY <1>2, <1>6, LockFlags
<1>13. x.ReadLocked = s.ReadLocked
  BY <1>5 DEF Aside
<1> QED
  BY <1>5, <1>9, <1>10, <1>11, <1>12, <1>13 DEF SameRing
-----------------------------------------------------------------------------
(* The reader's lock. *)

\* Stream_flipRead, field by field.
LEMMA FlipReadFields ==
  ASSUME NEW size \in 1 .. MaxLen, HalfRange(size), NEW s, Sound(s, size),
         NEW len \in 0 .. size, NEW t, t = Stream_flipRead(s, len)
  PROVE  /\ t \in Stream(size)
         /\ t.Data = s.Data /\ t.RPos = s.RPos
         /\ t.WriteLimit = s.WriteLimit /\ t.ReadLimit = s.ReadLimit
         /\ s.RPos + len >= size => t.WPos = s.RPos + len - size /\ t.Overflow = 1
         /\ s.RPos + len < size => t.WPos = s.RPos + len /\ t.Overflow = 0
<1> DEFINE pos == s.RPos + len
           z == pos - size
<1>1. s \in Stream(size) /\ s.Size = size /\ s.RPos \in 0 .. size - 1
  BY Types DEF Sound
<1>2. /\ pos \in 0 .. 2 * size - 1 /\ size \in Nat \ {0} /\ pos <= MaxLen
      /\ MaxLen \in Nat
  BY <1>1, MaxLenAssumption DEF HalfRange
<1> HIDE DEF pos
<1>3. ToLen(pos) = pos
  BY <1>2 DEF ToLen
<1> USE DEF pos
<1>4. CASE pos >= size
  <2>1. pos % size = z
    <3> HIDE DEF pos
    <3> QED
      BY <1>2, <1>4
  <2>2. z \in 0 .. size - 1
    BY <1>2, <1>4
  <2>3. t = [s EXCEPT !.WPos = z, !.Overflow = 1]
    BY <1>1, <1>3, <1>4, <2>1 DEF Stream_flipRead
  <2>4. z = s.RPos + len - size
    BY <1>1
  <2>5. ~ (s.RPos + len < size)
    BY <1>2, <1>4
  <2> HIDE DEF z
  <2>6. /\ t \in Stream(size)
        /\ t.Data = s.Data /\ t.RPos = s.RPos
        /\ t.WriteLimit = s.WriteLimit /\ t.ReadLimit = s.ReadLimit
        /\ t.WPos = z /\ t.Overflow = 1
    BY <1>1, <2>2, <2>3, Flags DEF Stream
  <2> QED
    BY <2>4, <2>5, <2>6
<1>5. CASE pos < size
  <2>1. ~ (s.RPos + len >= size)
    BY <1>2, <1>5
  <2>2. pos \in 0 .. size - 1
    BY <1>2, <1>5
  <2>3. t = [s EXCEPT !.WPos = pos, !.Overflow = 0]
    BY <1>1, <1>3, <2>1 DEF Stream_flipRead
  <2>4. /\ t \in Stream(size)
        /\ t.Data = s.Data /\ t.RPos = s.RPos
        /\ t.WriteLimit = s.WriteLimit /\ t.ReadLimit = s.ReadLimit
        /\ t.WPos = pos /\ t.Overflow = 0
    <3> HIDE DEF pos
    <3> QED
      BY <1>1, <2>2, <2>3, Flags DEF Stream
  <2> QED
    BY <2>1, <2>4
<1> QED
  BY <1>2, <1>4, <1>5

\* A new lock has the len oldest bytes of the stream, and nothing read.
LEMMA FlipReadHolds ==
  ASSUME HalfRange(Size), NEW s, Sound(s, Size), NoLimits(s),
         NEW len \in 1 .. Size, len <= Stream_availableReal(s),
         NEW t, t = Stream_flipRead(s, len)
  PROVE  HoldsBytes(s, t, <<>>)
<1> USE SizeAssumption
<1>1. /\ Size \in 1 .. MaxLen /\ Size \in Nat /\ s.RPos \in 0 .. Size - 1
      /\ len \in 0 .. Size
  BY Types, MaxLenAssumption DEF Sound
<1>2. /\ t \in Stream(Size)
      /\ t.Data = s.Data /\ t.RPos = s.RPos
      /\ t.WriteLimit = s.WriteLimit /\ t.ReadLimit = s.ReadLimit
      /\ s.RPos + len >= Size => t.WPos = s.RPos + len - Size /\ t.Overflow = 1
      /\ s.RPos + len < Size => t.WPos = s.RPos + len /\ t.Overflow = 0
  BY <1>1, FlipReadFields
<1>3. NoLimits(t)
  BY <1>2 DEF NoLimits
<1>4. /\ t.RPos \in 0 .. Size - 1 /\ t.WPos \in 0 .. Size - 1
      /\ t.Overflow = 1 => Stream_availableReal(t) = Size + t.WPos - t.RPos
      /\ t.Overflow = 0 => Stream_availableReal(t) = t.WPos - t.RPos
  BY <1>1, <1>2, Types, Filled
<1>5. Stream_availableReal(t) = len
  <2>1. CASE s.RPos + len >= Size
    BY <1>1, <1>2, <1>4, <2>1
  <2>2. CASE s.RPos + len < Size
    BY <1>1, <1>2, <1>4, <2>2
  <2> QED
    BY <1>1, <2>1, <2>2
<1>6. Sound(t, Size)
  <2>1. t.WriteLimit = -1 /\ t.ReadLimit = -1
    BY <1>3 DEF NoLimits, NoLimit
  <2>2. Wrapped(t, Size) \/ Straight(t, Size)
    <3>1. CASE s.RPos + len >= Size
      BY <1>1, <1>2, <1>4, <2>1, <3>1 DEF Wrapped
    <3>2. CASE s.RPos + len < Size
      BY <1>1, <1>2, <1>4, <2>1, <3>2 DEF Straight
    <3> QED
      BY <1>1, <3>1, <3>2
  <2> QED
    BY <1>1, <1>2, <2>2, Shapes
<1>7. Further(s.RPos, 0, t.RPos, Size)
  BY <1>1, <1>2 DEF Further
<1>8. 0 + Stream_availableReal(t) \in 1 .. Stream_availableReal(s)
  <2>1. Stream_availableReal(s) \in 0 .. Size
    BY WriterIsBehind
  <2> QED
    BY <1>1, <1>5, <2>1
<1> QED
  BY <1>2, <1>3, <1>6, <1>7, <1>8 DEF HoldsBytes

\* Where the bytes of a lock are: behind those read through it.
LEMMA BytesAreNext ==
  ASSUME NEW s, Sound(s, Size), NEW l, NEW got \in Seq(Byte), HoldsBytes(s, l, got)
  PROVE  /\ Size \in 1 .. MaxLen /\ Size \in Nat \ {0}
         /\ s.RPos \in 0 .. Size - 1 /\ s.WPos \in 0 .. Size - 1
         /\ l.RPos \in 0 .. Size - 1 /\ l.WPos \in 0 .. Size - 1
         /\ Len(got) \in 0 .. Size
         /\ Stream_availableReal(s) \in 0 .. Size
         /\ Stream_availableReal(l) \in 0 .. Size
         /\ Len(got) + Stream_availableReal(l) \in 1 .. Stream_availableReal(s)
         /\ Len(got) + Stream_availableReal(l) <= Size
         /\ Further(s.RPos, Len(got), l.RPos, Size)
         /\ Further(l.RPos, Stream_availableReal(l), l.WPos, Size)
<1> DEFINE n == Stream_availableReal(s)
           k == Len(got)
           m == Stream_availableReal(l)
<1>1. /\ Size \in 1 .. MaxLen /\ Size \in Nat \ {0}
      /\ s.RPos \in 0 .. Size - 1 /\ s.WPos \in 0 .. Size - 1
      /\ l.RPos \in 0 .. Size - 1 /\ l.WPos \in 0 .. Size - 1 /\ k \in Nat
  BY SizeAssumption, MaxLenAssumption, Types DEF Sound, HoldsBytes
<1>2. /\ n \in 0 .. Size /\ m \in 0 .. Size /\ Further(l.RPos, m, l.WPos, Size)
  BY <1>1, WriterIsBehind DEF HoldsBytes
<1>3. Further(s.RPos, k, l.RPos, Size) /\ k + m \in 1 .. n
  BY DEF HoldsBytes
<1> HIDE DEF n, k, m
<1>4. k \in 0 .. Size /\ k + m <= Size
  BY <1>1, <1>2, <1>3
<1> QED
  BY <1>1, <1>2, <1>3, <1>4 DEF n, k, m

\* What was read and what is left to read are the oldest bytes of the stream.
LEMMA BytesAreOldest ==
  ASSUME NEW s, Sound(s, Size), NEW l, NEW got \in Seq(Byte), HoldsBytes(s, l, got)
  PROVE  /\ Len(got) <= Len(Contents(s))
         /\ got = SubSeq(Contents(s), 1, Len(got))
         /\ IsPrefix(got \o Contents(l), Contents(s))
<1> DEFINE n == Stream_availableReal(s)
           k == Len(got)
           m == Stream_availableReal(l)
           c == Contents(s)
           b == Contents(l)
           u == got \o b
           p == s.RPos
           d == s.Data
<1>1. /\ Size \in 1 .. MaxLen /\ Size \in Nat \ {0}
      /\ p \in 0 .. Size - 1 /\ l.RPos \in 0 .. Size - 1
      /\ n \in 0 .. Size /\ m \in 0 .. Size /\ k \in 0 .. Size
      /\ k + m \in 1 .. n /\ k + m <= Size
      /\ Further(p, k, l.RPos, Size)
  BY BytesAreNext
<1>2. /\ Sound(l, Size) /\ l.Data = d
      /\ \A i \in 1 .. k : d[Ahead(p, i, Size)] = got[i]
  BY DEF HoldsBytes
<1>3. /\ c \in Seq(Byte) /\ Len(c) = n
      /\ \A i \in 1 .. n : c[i] = d[Ahead(p, i, Size)]
  BY <1>1, ContentsAre
<1>4. /\ b \in Seq(Byte) /\ Len(b) = m
      /\ \A i \in 1 .. m : b[i] = d[Ahead(l.RPos, i, Size)]
  BY <1>1, <1>2, ContentsAre
<1> HIDE DEF b
<1>5. /\ u \in Seq(Byte) /\ Len(u) = k + m
      /\ \A i \in 1 .. k : u[i] = got[i]
      /\ \A i \in 1 .. m : u[k + i] = b[i]
  <2>1. /\ u \in Seq(Byte) /\ Len(u) = Len(got) + Len(b)
        /\ \A i \in 1 .. Len(got) : u[i] = got[i]
        /\ \A i \in 1 .. Len(b) : u[Len(got) + i] = b[i]
    BY <1>4, TwoPieces
  <2> HIDE DEF u, m
  <2> QED
    BY <1>4, <2>1
<1>6. k + m >= 1 /\ k + m <= n /\ k <= n /\ k \in Nat /\ m \in Nat /\ n \in Nat
  <2> HIDE DEF n, k, m
  <2> QED
    BY <1>1
<1> HIDE DEF n, m, c, u, p, d
<1>7. ASSUME NEW i \in 1 .. k + m
      PROVE  u[i] = c[i]
  <2>1. CASE i \in 1 .. k
    <3>1. i \in 1 .. n
      <4> HIDE DEF k
      <4> QED
        BY <1>6, <2>1
    <3> QED
      BY <1>2, <1>3, <1>5, <2>1, <3>1
  <2>2. CASE i \in k + 1 .. k + m
    <3> DEFINE h == i - k
    <3>1. h \in 1 .. m /\ h \in 1 .. Size /\ k + h <= Size /\ k + h = i /\ i \in 1 .. n
      <4> HIDE DEF k
      <4> QED
        BY <1>1, <1>6, <2>2
    <3> HIDE DEF h
    <3>2. Ahead(l.RPos, h, Size) = Ahead(p, k + h, Size)
      BY <1>1, <3>1, AheadAdds
    <3>3. u[k + h] = b[h] /\ b[h] = d[Ahead(l.RPos, h, Size)]
      BY <1>4, <1>5, <3>1
    <3>4. c[i] = d[Ahead(p, i, Size)]
      BY <1>3, <3>1
    <3> QED
      BY <3>1, <3>2, <3>3, <3>4
  <2>3. i \in 1 .. k \/ i \in k + 1 .. k + m
    <3> HIDE DEF k
    <3> QED
      BY <1>6
  <2> QED
    BY <2>1, <2>2, <2>3
<1>8. IsPrefix(u, c)
  <2>1. \A i \in 1 .. Len(u) : u[i] = c[i]
    BY <1>5, <1>7
  <2>2. Len(u) <= Len(c)
    BY <1>3, <1>5, <1>6
  <2> DEFINE x == SubSeq(c, 1, Len(u))
  <2>3. /\ x \in Seq(Byte) /\ Len(x) = Len(u)
        /\ \A i \in 1 .. Len(u) : x[i] = c[i]
    BY <1>3, <1>5, <2>2
  <2>4. u = x
    <3> HIDE DEF x
    <3> QED
      BY <1>5, <2>1, <2>3, SeqEqual
  <2> QED
    BY <2>2, <2>4 DEF IsPrefix
<1>9. got = SubSeq(c, 1, k)
  <2> DEFINE x == SubSeq(c, 1, k)
  <2>1. /\ x \in Seq(Byte) /\ Len(x) = k
        /\ \A i \in 1 .. k : x[i] = c[i]
    BY <1>3, <1>6
  <2>2. \A i \in 1 .. k : got[i] = c[i]
    <3>1. \A i \in 1 .. k : i \in 1 .. k + m
      <4> HIDE DEF k
      <4> QED
        BY <1>6
    <3> QED
      BY <1>5, <1>7, <3>1
  <2> HIDE DEF x
  <2>3. got = x
    BY <2>1, <2>2, SeqEqual
  <2> QED
    BY <2>3 DEF x
<1> QED
  BY <1>3, <1>8, <1>9, <1>6 DEF c, u, b

\* A read through the lock takes the next of its bytes.
LEMMA ReadThroughLock ==
  ASSUME NEW s, Sound(s, Size), NEW l, NEW got \in Seq(Byte), HoldsBytes(s, l, got),
         NEW len \in Nat, NEW r, r = Stream_readBytes(l, len), r.res = "Stream_Ok"
  PROVE  /\ got \o r.val \in Seq(Byte)
         /\ HoldsBytes(s, r.s, got \o r.val)
<1> DEFINE n == Stream_availableReal(s)
           k == Len(got)
           m == Stream_availableReal(l)
           v == r.val
           u == got \o v
           d == s.Data
           p == s.RPos
<1>1. /\ Size \in 1 .. MaxLen /\ Size \in Nat \ {0}
      /\ p \in 0 .. Size - 1 /\ l.RPos \in 0 .. Size - 1
      /\ n \in 0 .. Size /\ m \in 0 .. Size /\ k \in 0 .. Size
      /\ k + m \in 1 .. n /\ k + m <= Size
      /\ Further(p, k, l.RPos, Size)
  BY BytesAreNext
<1>2. /\ Sound(l, Size) /\ NoLimits(l) /\ l.Data = d
      /\ \A i \in 1 .. k : d[Ahead(p, i, Size)] = got[i]
  BY DEF HoldsBytes
<1>3. /\ Sound(r.s, Size) /\ NoLimits(r.s) /\ r.s.Data = d
      /\ len > 0 /\ len <= m
      /\ Stream_availableReal(r.s) = m - len
      /\ Further(l.RPos, len, r.s.RPos, Size)
      /\ v \in Seq(Byte) /\ Len(v) = len
      /\ \A i \in 1 .. len : v[i] = d[Ahead(l.RPos, i, Size)]
  BY <1>1, <1>2, ReadMoves
<1>4. r.s.RPos \in 0 .. Size - 1
  BY <1>1, <1>3, Types DEF Sound
<1>5. /\ u \in Seq(Byte) /\ Len(u) = k + len
      /\ \A i \in 1 .. k : u[i] = got[i]
      /\ \A i \in 1 .. len : u[k + i] = v[i]
  <2>1. /\ u \in Seq(Byte) /\ Len(u) = Len(got) + Len(v)
        /\ \A i \in 1 .. Len(got) : u[i] = got[i]
        /\ \A i \in 1 .. Len(v) : u[Len(got) + i] = v[i]
    BY <1>3, TwoPieces
  <2> HIDE DEF u, v
  <2> QED
    BY <1>3, <2>1
<1> HIDE DEF n, m, v, u, d, p
<1>6. /\ k + len <= Size /\ k \in Nat /\ len \in Nat
      /\ k + len + (m - len) = k + m
      /\ len \in 1 .. m
  <2> HIDE DEF k
  <2> QED
    BY <1>1, <1>3
<1>7. Further(p, k + len, r.s.RPos, Size)
  <2> HIDE DEF k
  <2> QED
    BY <1>1, <1>3, <1>4, <1>6, FurtherAdds
<1>8. ASSUME NEW i \in 1 .. k + len
      PROVE  d[Ahead(p, i, Size)] = u[i]
  <2>1. CASE i \in 1 .. k
    BY <1>2, <1>5, <2>1
  <2>2. CASE i \in k + 1 .. k + len
    <3> DEFINE h == i - k
    <3>1. h \in 1 .. len /\ h \in 1 .. Size /\ k + h <= Size /\ k + h = i
      <4> HIDE DEF k
      <4> QED
        BY <1>1, <1>6, <2>2
    <3> HIDE DEF h
    <3>2. Ahead(l.RPos, h, Size) = Ahead(p, k + h, Size)
      BY <1>1, <3>1, AheadAdds
    <3>3. u[k + h] = v[h] /\ v[h] = d[Ahead(l.RPos, h, Size)]
      BY <1>3, <1>5, <3>1
    <3> QED
      BY <3>1, <3>2, <3>3
  <2>3. i \in 1 .. k \/ i \in k + 1 .. k + len
    <3> HIDE DEF k
    <3> QED
      BY <1>6
  <2> QED
    BY <2>1, <2>2, <2>3
<1>9. HoldsBytes(s, r.s, u)
  <2>1. Further(s.RPos, Len(u), r.s.RPos, Size)
    BY <1>5, <1>7 DEF p
  <2>2. Len(u) + Stream_availableReal(r.s) \in 1 .. Stream_availableReal(s)
    BY <1>1, <1>3, <1>5, <1>6 DEF n
  <2>3. \A i \in 1 .. Len(u) : s.Data[Ahead(s.RPos, i, Size)] = u[i]
    BY <1>5, <1>8 DEF d, p
  <2>4. r.s.Data = s.Data
    BY <1>3 DEF d
  <2> QED
    BY <1>3, <2>1, <2>2, <2>3, <2>4 DEF HoldsBytes
<1> QED
  BY <1>5, <1>9 DEF u, v

\* The length of the lock: how much was read through it.
LEMMA LockReadLenIs ==
  ASSUME NEW s, Sound(s, Size), NEW l, NEW got \in Seq(Byte), HoldsBytes(s, l, got)
  PROVE  Stream_lockReadLen(s, l) = Len(got)
<1> DEFINE n == Stream_availableReal(s)
           k == Len(got)
           m == Stream_availableReal(l)
           w == s.WPos
           v == l.WPos
           p == s.RPos
           q == l.RPos
<1>1. /\ Size \in Nat \ {0} /\ n \in 0 .. Size /\ k \in 0 .. Size /\ m \in 0 .. Size
      /\ w \in 0 .. Size - 1 /\ v \in 0 .. Size - 1
      /\ p \in 0 .. Size - 1 /\ q \in 0 .. Size - 1
      /\ k + m \in 1 .. n
      /\ Further(p, k, q, Size)
  BY BytesAreNext
<1>2. /\ s \in Stream(Size) /\ l \in Stream(Size)
      /\ Wrapped(s, Size) \/ Straight(s, Size)
      /\ Wrapped(l, Size) \/ Straight(l, Size)
      /\ Size \in 1 .. MaxLen
  BY Shapes, SizeAssumption DEF Sound, HoldsBytes
<1>3. /\ s.Size = Size
      /\ \/ s.Overflow = 1 /\ n = Size + w - p /\ w <= p
         \/ s.Overflow = 0 /\ n = w - p /\ p <= w
      /\ \/ l.Overflow = 1 /\ m = Size + v - q /\ v <= q
         \/ l.Overflow = 0 /\ m = v - q /\ q <= v
  BY <1>2, Types, Filled DEF Wrapped, Straight
<1>4. Stream_lockReadLen(s, l) =
        CASE p < q -> q - p
          [] p > q -> Size - p + q
          [] OTHER -> IF w = v /\ s.Overflow = 1 /\ l.Overflow = 0 THEN Size ELSE 0
  BY <1>3 DEF Stream_lockReadLen
<1> HIDE DEF n, k, m, w, v, p, q
<1>5. CASE p < q
  <2>1. q - p = k /\ ~ (p > q)
    BY <1>1, <1>5 DEF Further
  <2> QED
    BY <1>4, <1>5, <2>1 DEF k
<1>6. CASE p > q
  <2>1. Size - p + q = k /\ ~ (p < q)
    BY <1>1, <1>6 DEF Further
  <2> QED
    BY <1>4, <1>6, <2>1 DEF k
<1>7. CASE p = q
  <2>1. ~ (p < q) /\ ~ (p > q)
    BY <1>1, <1>7
  <2>2. k = 0 \/ k = Size
    BY <1>1, <1>7 DEF Further
  <2>3. CASE k = 0
    <3>1. ~ (w = v /\ s.Overflow = 1 /\ l.Overflow = 0)
      BY <1>1, <1>3, <1>7, <2>3
    <3> QED
      BY <1>4, <2>1, <2>3, <3>1 DEF k
  <2>4. CASE k = Size
    <3>1. w = v /\ s.Overflow = 1 /\ l.Overflow = 0
      <4>1. n = Size /\ m = 0
        BY <1>1, <2>4
      <4> QED
        BY <1>1, <1>3, <1>7, <4>1
    <3> QED
      BY <1>4, <2>1, <2>4, <3>1 DEF k
  <2> QED
    BY <2>2, <2>3, <2>4
<1>8. p < q \/ p > q \/ p = q
  BY <1>1
<1> QED
  BY <1>5, <1>6, <1>7, <1>8

\* The unlock takes all that was read through the lock from the stream.
LEMMA UnlockReadIs ==
  ASSUME HalfRange(Size), NEW s, Sound(s, Size), NoLimits(s),
         NEW l, NEW got \in Seq(Byte), HoldsBytes(s, l, got), s.ReadLocked,
         NEW t, t = Stream_unlockRead(s, l)
  PROVE  /\ Sound(t, Size) /\ NoLimits(t) /\ t.Data = s.Data /\ t.WPos = s.WPos
         /\ t.ReadLocked = FALSE /\ t.WriteLocked = s.WriteLocked
         /\ Stream_availableReal(t) = Stream_availableReal(s) - Len(got)
         /\ Contents(t) = SubSeq(Contents(s), Len(got) + 1, Len(Contents(s)))
<1> DEFINE n == Stream_availableReal(s)
           k == Len(got)
           r == Stream_moveReadPos(s, k)
           x == r.s
<1> USE SizeAssumption
<1>1. /\ Size \in Nat \ {0} /\ n \in 0 .. Size /\ k \in 0 .. Size
      /\ Stream_availableReal(l) \in 0 .. Size
      /\ k + Stream_availableReal(l) \in 1 .. n
      /\ s.RPos \in 0 .. Size - 1
  BY BytesAreNext
<1>2. t = [x EXCEPT !.ReadLocked = FALSE]
  BY LockReadLenIs DEF Stream_unlockRead
<1>3. Stream_available(s) = n /\ ~ Stream_isReadLimited(s)
  BY NoLimitCounts
<1>4. k <= n /\ k \in Nat /\ ~ (Stream_available(s) < k)
  <2> HIDE DEF n, k
  <2> QED
    BY <1>1, <1>3
<1>5. /\ x \in Stream(Size)
      /\ x.Data = s.Data /\ x.WPos = s.WPos /\ Aside(x) = Aside(s)
      /\ x.WriteLimit = s.WriteLimit /\ x.ReadLimit = s.ReadLimit
      /\ s.RPos + k >= Size => x.RPos = s.RPos + k - Size /\ x.Overflow = 0
      /\ s.RPos + k < Size => x.RPos = s.RPos + k /\ x.Overflow = s.Overflow
  <2> HIDE DEF k
  <2> QED
    BY <1>4, MoveReadFields
<1>6. Sound(x, Size)
  <2> HIDE DEF k
  <2> QED
    BY <1>3, <1>4, MoveReadSound
<1>7. /\ Stream_availableReal(x) = n - k
      /\ Further(s.RPos, k, x.RPos, Size)
  <2> HIDE DEF k, x
  <2> QED
    BY <1>4, <1>5, ReaderMoves
<1> HIDE DEF x
<1>8. Contents(x) = SubSeq(Contents(s), k + 1, Len(Contents(s)))
  <2> HIDE DEF k
  <2> QED
    BY <1>4, <1>5, <1>6, <1>7, Drops
<1>9. /\ Sound(t, Size) /\ SameRing(x, t) /\ t.Data = x.Data
      /\ Stream_availableReal(t) = n - k
      /\ NoLimits(x) => NoLimits(t)
      /\ Contents(t) = Contents(x)
  BY <1>2, <1>6, <1>7, LockSet
<1>10. NoLimits(t)
  BY <1>5, <1>9 DEF NoLimits
<1>11. t.ReadLocked = FALSE /\ t.WriteLocked = x.WriteLocked
  BY <1>2, <1>6, LockFlags
<1>12. x.WriteLocked = s.WriteLocked
  BY <1>5 DEF Aside
<1> QED
  BY <1>5, <1>8, <1>9, <1>10, <1>11, <1>12 DEF SameRing
-----------------------------------------------------------------------------
(* The steps. *)

\* What the users of the stream can see of a step.
Unseen == Contents(stream') = Contents(stream) /\ call' = call

SeenPut(val) ==
  /\ val \in Seq(Byte) /\ Len(val) > 0
  /\ Stream_availableReal(stream) + Len(val) <= Size
  /\ Contents(stream') = Contents(stream) \o val
  /\ call' = Call("put", Len(val), val)

SeenTake(len) ==
  /\ len \in Nat /\ len > 0 /\ len <= Stream_availableReal(stream)
  /\ Contents(stream') = SubSeq(Contents(stream), len + 1, Len(Contents(stream)))
  /\ call' = Call("take", len, SubSeq(Contents(stream), 1, len))

Seen == Unseen \/ (\E val : SeenPut(val)) \/ (\E len : SeenTake(len))

\* The same where no byte is stored: the writer only moves on, or a flag is set.
LEMMA HoldsBytesOn ==
  ASSUME NEW s, Sound(s, Size), NEW t, Sound(t, Size),
         NEW l, NEW got, HoldsBytes(s, l, got),
         t.Data = s.Data, t.RPos = s.RPos,
         Stream_availableReal(t) >= Stream_availableReal(s)
  PROVE  HoldsBytes(t, l, got)
<1> DEFINE n == Len(got) + Stream_availableReal(l)
           a == Stream_availableReal(s)
           b == Stream_availableReal(t)
<1>1. a \in 0 .. Size /\ b \in 0 .. Size /\ Size \in Nat /\ b >= a
  BY WriterIsBehind, SizeAssumption, MaxLenAssumption
<1>2. n \in 1 .. a
  BY DEF HoldsBytes
<1> HIDE DEF n, a, b
<1>3. n \in 1 .. b
  BY <1>1, <1>2
<1> QED
  BY <1>3 DEF HoldsBytes, n, b

\* Stream_lockWrite and Stream_lockRead, of at least one byte.
LEMMA LockSteps ==
  ASSUME HalfRange(Size), SomeLength, LockIInv, NEW len \in LockLens,
         Stream_lockWrite(len) \/ Stream_lockRead(len)
  PROVE  LockIInv' /\ Unseen
<1> USE SizeAssumption
<1>1. len \in 1 .. Size /\ len \in Int
  BY LockLensAssumption, MaxLenAssumption DEF SomeLength
<1>2. /\ Sound(stream, Size) /\ NoLimits(stream)
      /\ Stream_space(stream) = Stream_spaceReal(stream)
      /\ Stream_available(stream) = Stream_availableReal(stream)
      /\ Stream_availableReal(stream) \in 0 .. Size
      /\ Stream_spaceReal(stream) = Size - Stream_availableReal(stream)
      /\ Size \in Nat
  BY NoLimitCounts, WriterIsBehind, MaxLenAssumption DEF LockIInv
<1>3. CASE Stream_lockWrite(len)
  <2>1. /\ Stream_space(stream) >= len
        /\ wlock' = Stream_flipWrite(stream, len)
        /\ stream' = [stream EXCEPT !.WriteLocked = TRUE]
        /\ written' = <<>> /\ UNCHANGED <<rlock, taken, call>>
    BY <1>3 DEF Stream_lockWrite
  <2>2. len <= Stream_spaceReal(stream)
    BY <1>1, <1>2, <2>1
  <2>3. /\ Sound(stream', Size) /\ SameRing(stream, stream') /\ stream'.Data = stream.Data
        /\ Stream_availableReal(stream') = Stream_availableReal(stream)
        /\ NoLimits(stream') /\ Contents(stream') = Contents(stream)
        /\ stream'.ReadLocked = stream.ReadLocked
    BY <1>2, <2>1, LockSet, LockFlags
  <2>4. HoldsSpace(stream, wlock', <<>>)
    BY <1>1, <1>2, <2>1, <2>2, FlipWriteHolds
  <2>5. HoldsSpace(stream', wlock', <<>>)
    BY <1>2, <2>3, <2>4, HoldsSpaceStill DEF SameRing
  <2>6. stream.ReadLocked => HoldsBytes(stream', rlock, taken)
    BY <1>2, <2>3, HoldsBytesOn DEF SameRing, LockIInv
  <2> QED
    BY <2>1, <2>3, <2>5, <2>6 DEF LockIInv, Unseen
<1>4. CASE Stream_lockRead(len)
  <2>1. /\ Stream_available(stream) >= len
        /\ rlock' = Stream_flipRead(stream, len)
        /\ stream' = [stream EXCEPT !.ReadLocked = TRUE]
        /\ taken' = <<>> /\ UNCHANGED <<wlock, written, call>>
    BY <1>4 DEF Stream_lockRead
  <2>2. len <= Stream_availableReal(stream)
    BY <1>1, <1>2, <2>1
  <2>3. /\ Sound(stream', Size) /\ SameRing(stream, stream') /\ stream'.Data = stream.Data
        /\ Stream_availableReal(stream') = Stream_availableReal(stream)
        /\ NoLimits(stream') /\ Contents(stream') = Contents(stream)
        /\ stream'.WriteLocked = stream.WriteLocked
    BY <1>2, <2>1, LockSet, LockFlags
  <2>4. HoldsBytes(stream, rlock', <<>>)
    BY <1>1, <1>2, <2>1, <2>2, FlipReadHolds
  <2>5. HoldsBytes(stream', rlock', <<>>)
    BY <1>2, <2>3, <2>4, HoldsBytesOn DEF SameRing
  <2>6. stream.WriteLocked => HoldsSpace(stream', wlock, written)
    BY <1>2, <2>3, HoldsSpaceStill DEF SameRing, LockIInv
  <2> QED
    BY <2>1, <2>3, <2>5, <2>6 DEF LockIInv, Unseen
<1> QED
  BY <1>3, <1>4

\* Stream_writeBytes with the lock: nobody sees it yet.
LEMMA WriteInLockStep ==
  ASSUME LockIInv, NEW val \in Seq(Byte), WriteInLock(val)
  PROVE  LockIInv' /\ Unseen
<1> USE SizeAssumption
<1> DEFINE r == Stream_writeBytes(wlock, val)
<1>1. /\ Sound(stream, Size) /\ NoLimits(stream)
      /\ written \in Seq(Byte) /\ taken \in Seq(Byte)
      /\ HoldsSpace(stream, wlock, written)
      /\ stream.ReadLocked => HoldsBytes(stream, rlock, taken)
  BY DEF LockIInv, WriteInLock
<1>2. /\ stream.WriteLocked
      /\ r.res = "Stream_Ok" /\ wlock' = r.s
      /\ stream' = Over(stream, r.s.Data)
      /\ rlock' = IF stream.ReadLocked THEN Over(rlock, r.s.Data) ELSE rlock
      /\ written' = written \o val
      /\ UNCHANGED <<taken, call>>
  BY DEF WriteInLock
<1> HIDE DEF r
<1>3. /\ Sound(stream', Size) /\ NoLimits(stream') /\ SameRing(stream, stream')
      /\ Aside(stream') = Aside(stream)
      /\ Stream_availableReal(stream') = Stream_availableReal(stream)
      /\ \A i \in 1 .. Stream_availableReal(stream) :
           stream'.Data[Ahead(stream.RPos, i, Size)] = stream.Data[Ahead(stream.RPos, i, Size)]
      /\ written' \in Seq(Byte)
      /\ HoldsSpace(stream', wlock', written')
  <2> USE DEF r
  <2>1. PICK q : q = r
    OBVIOUS
  <2>2. PICK t : t = Over(stream, q.s.Data)
    OBVIOUS
  <2> HIDE DEF r
  <2> QED
    BY <1>1, <1>2, <2>1, <2>2, WriteThroughLock DEF r
<1>4. stream'.RPos = stream.RPos /\ stream'.ReadLocked = stream.ReadLocked
  BY <1>3 DEF SameRing, Aside
<1>5. Contents(stream') = Contents(stream)
  BY <1>1, <1>3, <1>4, ContentsKept
<1>6. stream'.Data = r.s.Data
  BY <1>1, <1>2 DEF Over, Sound, Stream
<1>7. Stream_availableReal(stream') >= Stream_availableReal(stream)
  <2>1. Stream_availableReal(stream) \in 0 .. Size /\ Size \in Nat
    BY <1>1, WriterIsBehind, MaxLenAssumption
  <2> QED
    BY <1>3, <2>1
<1>8. stream.ReadLocked => HoldsBytes(stream', rlock', taken)
  <2>1. ASSUME stream.ReadLocked
        PROVE  HoldsBytes(stream', Over(rlock, stream'.Data), taken)
    BY <1>1, <1>3, <1>4, <1>7, <2>1, HoldsBytesStill
  <2> QED
    BY <1>2, <1>6, <2>1
<1> QED
  BY <1>1, <1>2, <1>3, <1>4, <1>5, <1>8 DEF LockIInv, Unseen

\* Stream_writeBytes with a stream that is not locked for writing.
LEMMA WriteStep ==
  ASSUME LockIInv, NEW val \in Seq(Byte), Write(val)
  PROVE  LockIInv' /\ SeenPut(val)
<1> USE SizeAssumption
<1> DEFINE r == Stream_writeBytes(stream, val)
           n == Stream_availableReal(stream)
<1>1. /\ Sound(stream, Size) /\ NoLimits(stream)
      /\ written \in Seq(Byte) /\ taken \in Seq(Byte)
      /\ stream.ReadLocked => HoldsBytes(stream, rlock, taken)
  BY DEF LockIInv
<1>2. /\ ~ stream.WriteLocked
      /\ r.res = "Stream_Ok" /\ stream' = r.s
      /\ rlock' = IF stream.ReadLocked THEN Over(rlock, stream'.Data) ELSE rlock
      /\ call' = Call("put", Len(val), val)
      /\ UNCHANGED <<wlock, written, taken>>
  BY DEF Write
<1>3. /\ Sound(stream', Size) /\ NoLimits(stream')
      /\ stream'.RPos = stream.RPos /\ Aside(stream') = Aside(stream)
      /\ Len(val) > 0 /\ n + Len(val) <= Size
      /\ Stream_availableReal(stream') = n + Len(val)
      /\ Contents(stream') = Contents(stream) \o val
      /\ Laid(stream.Data, stream'.Data, stream.WPos, val, Size)
  BY <1>1, <1>2, WriteLays
<1>4. stream'.ReadLocked = stream.ReadLocked /\ stream'.WriteLocked = stream.WriteLocked
  BY <1>3 DEF Aside
<1>5. /\ n \in 0 .. Size /\ Size \in Nat \ {0} /\ Len(val) \in Nat
      /\ stream.RPos \in 0 .. Size - 1 /\ stream.WPos \in 0 .. Size - 1
      /\ Further(stream.RPos, n, stream.WPos, Size)
  BY <1>1, WriterIsBehind, Types, MaxLenAssumption DEF Sound
<1>6. \A i \in 1 .. n :
        stream'.Data[Ahead(stream.RPos, i, Size)] = stream.Data[Ahead(stream.RPos, i, Size)]
  <2> HIDE DEF n
  <2> QED
    BY <1>3, <1>5, LaidBehind
<1>7. Stream_availableReal(stream') >= n
  <2> HIDE DEF n
  <2> QED
    BY <1>3, <1>5
<1>8. stream.ReadLocked => HoldsBytes(stream', rlock', taken)
  <2>1. ASSUME stream.ReadLocked
        PROVE  HoldsBytes(stream', Over(rlock, stream'.Data), taken)
    BY <1>1, <1>3, <1>6, <1>7, <2>1, HoldsBytesStill
  <2> QED
    BY <1>2, <2>1
<1> QED
  BY <1>1, <1>2, <1>3, <1>4, <1>8 DEF LockIInv, SeenPut

\* Stream_unlockWrite: all that was written through the lock is seen at once.
LEMMA UnlockWriteStep ==
  ASSUME HalfRange(Size), LockIInv, UnlockWrite
  PROVE  LockIInv' /\ Seen
<1> USE SizeAssumption
<1>1. /\ Sound(stream, Size) /\ NoLimits(stream)
      /\ written \in Seq(Byte) /\ taken \in Seq(Byte)
      /\ HoldsSpace(stream, wlock, written)
      /\ stream.ReadLocked => HoldsBytes(stream, rlock, taken)
  BY DEF LockIInv, UnlockWrite
<1>2. /\ stream' = Stream_unlockWrite(stream, wlock)
      /\ call' = IF written = <<>> THEN call ELSE Call("put", Len(written), written)
      /\ written' = <<>> /\ UNCHANGED <<rlock, taken>>
  BY DEF UnlockWrite
<1>3. /\ Sound(stream', Size) /\ NoLimits(stream')
      /\ stream'.Data = stream.Data /\ stream'.RPos = stream.RPos
      /\ stream'.WriteLocked = FALSE /\ stream'.ReadLocked = stream.ReadLocked
      /\ Stream_availableReal(stream') = Stream_availableReal(stream) + Len(written)
      /\ Contents(stream') = Contents(stream) \o written
  <2>1. stream' = Stream_unlockWrite(stream, wlock)
    BY <1>2
  <2>2. /\ Sound(stream, Size) /\ NoLimits(stream) /\ stream.WriteLocked
        /\ written \in Seq(Byte) /\ HoldsSpace(stream, wlock, written)
    BY <1>1 DEF UnlockWrite
  <2>3. PICK t : t = stream'
    OBVIOUS
  <2>4. t = Stream_unlockWrite(stream, wlock)
    BY <2>1, <2>3
  <2>5. /\ Sound(t, Size) /\ NoLimits(t)
        /\ t.Data = stream.Data /\ t.RPos = stream.RPos
        /\ t.WriteLocked = FALSE /\ t.ReadLocked = stream.ReadLocked
        /\ Stream_availableReal(t) = Stream_availableReal(stream) + Len(written)
        /\ Contents(t) = Contents(stream) \o written
    BY <2>2, <2>4, UnlockWriteIs, ZenonT(30)
  <2> QED
    BY <2>3, <2>5
<1>4. /\ Stream_availableReal(stream) \in 0 .. Size /\ Len(written) \in Nat
      /\ Stream_availableReal(stream') \in 0 .. Size /\ Size \in Nat
      /\ Contents(stream) \in Seq(Byte)
  BY <1>1, <1>3, WriterIsBehind, ContentsAre, MaxLenAssumption
<1>5. Stream_availableReal(stream') >= Stream_availableReal(stream)
  BY <1>3, <1>4
<1>6. stream.ReadLocked => HoldsBytes(stream', rlock, taken)
  BY <1>1, <1>3, <1>5, HoldsBytesOn
<1>7. LockIInv'
  BY <1>1, <1>2, <1>3, <1>6 DEF LockIInv
<1>8. CASE written = <<>>
  <2>1. Contents(stream) \o <<>> = Contents(stream)
    BY <1>4
  <2> QED
    BY <1>2, <1>3, <1>7, <1>8, <2>1 DEF Seen, Unseen
<1>9. CASE written # <<>>
  <2>1. Len(written) > 0
    BY <1>1, <1>9
  <2>2. Stream_availableReal(stream) + Len(written) <= Size
    BY <1>3, <1>4
  <2>3. SeenPut(written)
    BY <1>1, <1>2, <1>3, <1>9, <2>1, <2>2 DEF SeenPut
  <2> QED
    BY <1>7, <2>3 DEF Seen
<1> QED
  BY <1>8, <1>9

\* Stream_unlockWriteIgnore and Stream_unlockReadIgnore.
LEMMA IgnoreSteps ==
  ASSUME LockIInv, Stream_unlockWriteIgnore \/ Stream_unlockReadIgnore
  PROVE  LockIInv' /\ Unseen
<1> USE SizeAssumption
<1>1. /\ Sound(stream, Size) /\ NoLimits(stream)
      /\ written \in Seq(Byte) /\ taken \in Seq(Byte)
      /\ stream.WriteLocked => HoldsSpace(stream, wlock, written)
      /\ stream.ReadLocked => HoldsBytes(stream, rlock, taken)
      /\ Stream_availableReal(stream) \in 0 .. Size /\ Size \in Nat
  BY WriterIsBehind, MaxLenAssumption DEF LockIInv
<1>2. CASE Stream_unlockWriteIgnore
  <2>1. /\ stream' = [stream EXCEPT !.WriteLocked = FALSE]
        /\ written' = <<>> /\ UNCHANGED <<rlock, taken, call>>
    BY <1>2 DEF Stream_unlockWriteIgnore
  <2>2. /\ Sound(stream', Size) /\ SameRing(stream, stream') /\ stream'.Data = stream.Data
        /\ Stream_availableReal(stream') = Stream_availableReal(stream)
        /\ NoLimits(stream') /\ Contents(stream') = Contents(stream)
        /\ stream'.ReadLocked = stream.ReadLocked /\ stream'.WriteLocked = FALSE
    BY <1>1, <2>1, LockSet, LockFlags
  <2>3. stream.ReadLocked => HoldsBytes(stream', rlock, taken)
    BY <1>1, <2>2, HoldsBytesOn DEF SameRing
  <2> QED
    BY <1>1, <2>1, <2>2, <2>3 DEF LockIInv, Unseen
<1>3. CASE Stream_unlockReadIgnore
  <2>1. /\ stream' = [stream EXCEPT !.ReadLocked = FALSE]
        /\ taken' = <<>> /\ UNCHANGED <<wlock, written, call>>
    BY <1>3 DEF Stream_unlockReadIgnore
  <2>2. /\ Sound(stream', Size) /\ SameRing(stream, stream') /\ stream'.Data = stream.Data
        /\ Stream_availableReal(stream') = Stream_availableReal(stream)
        /\ NoLimits(stream') /\ Contents(stream') = Contents(stream)
        /\ stream'.WriteLocked = stream.WriteLocked /\ stream'.ReadLocked = FALSE
    BY <1>1, <2>1, LockSet, LockFlags
  <2>3. stream.WriteLocked => HoldsSpace(stream', wlock, written)
    BY <1>1, <2>2, HoldsSpaceStill DEF SameRing
  <2> QED
    BY <1>1, <2>1, <2>2, <2>3 DEF LockIInv, Unseen
<1> QED
  BY <1>2, <1>3

\* Stream_readBytes with the lock: nobody sees it yet.
LEMMA ReadInLockStep ==
  ASSUME LockIInv, NEW len \in Nat, ReadInLock(len)
  PROVE  LockIInv' /\ Unseen
<1> DEFINE r == Stream_readBytes(rlock, len)
<1>1. /\ Sound(stream, Size) /\ NoLimits(stream)
      /\ written \in Seq(Byte) /\ taken \in Seq(Byte)
      /\ HoldsBytes(stream, rlock, taken)
      /\ stream.WriteLocked => HoldsSpace(stream, wlock, written)
  BY DEF LockIInv, ReadInLock
<1>2. /\ r.res = "Stream_Ok" /\ rlock' = r.s /\ taken' = taken \o r.val
      /\ UNCHANGED <<stream, wlock, written, call>>
  BY DEF ReadInLock
<1>3. PICK q : q = r
  OBVIOUS
<1>4. taken' \in Seq(Byte) /\ HoldsBytes(stream, rlock', taken')
  <2>1. q = Stream_readBytes(rlock, len) /\ q.res = "Stream_Ok"
    BY <1>2, <1>3
  <2>2. taken \o q.val \in Seq(Byte) /\ HoldsBytes(stream, q.s, taken \o q.val)
    BY <1>1, <2>1, ReadThroughLock
  <2> HIDE DEF r
  <2> QED
    BY <1>2, <1>3, <2>2
<1> QED
  BY <1>1, <1>2, <1>4 DEF LockIInv, Unseen

\* Stream_readBytes with a stream that is not locked for reading.
LEMMA ReadStep ==
  ASSUME LockIInv, NEW len \in Nat, Read(len)
  PROVE  LockIInv' /\ SeenTake(len)
<1> USE SizeAssumption
<1> DEFINE r == Stream_readBytes(stream, len)
           n == Stream_availableReal(stream)
<1>1. /\ Sound(stream, Size) /\ NoLimits(stream)
      /\ written \in Seq(Byte) /\ taken \in Seq(Byte)
      /\ stream.WriteLocked => HoldsSpace(stream, wlock, written)
      /\ n \in 0 .. Size /\ Size \in Nat
  BY WriterIsBehind, MaxLenAssumption DEF LockIInv
<1>2. /\ ~ stream.ReadLocked
      /\ r.res = "Stream_Ok" /\ stream' = r.s
      /\ call' = Call("take", len, r.val)
      /\ UNCHANGED <<wlock, written, taken>>
  BY DEF Read
<1>3. /\ Sound(stream', Size) /\ NoLimits(stream')
      /\ stream'.Data = stream.Data /\ stream'.WPos = stream.WPos
      /\ Aside(stream') = Aside(stream)
      /\ len > 0 /\ len <= n
      /\ Stream_availableReal(stream') = n - len
      /\ r.val = SubSeq(Contents(stream), 1, len)
      /\ Contents(stream') = SubSeq(Contents(stream), len + 1, Len(Contents(stream)))
  <2>1. PICK q : q = r
    OBVIOUS
  <2>2. q = Stream_readBytes(stream, len) /\ q.res = "Stream_Ok" /\ stream' = q.s
    BY <1>2, <2>1
  <2>3. Sound(stream, Size) /\ NoLimits(stream)
    BY <1>1
  <2> HIDE DEF r
  <2>4. /\ Sound(q.s, Size) /\ NoLimits(q.s)
        /\ q.s.Data = stream.Data /\ q.s.WPos = stream.WPos
        /\ Aside(q.s) = Aside(stream)
        /\ len > 0 /\ len <= n
        /\ Stream_availableReal(q.s) = n - len
        /\ q.val = SubSeq(Contents(stream), 1, len)
        /\ Contents(q.s) = SubSeq(Contents(stream), len + 1, Len(Contents(stream)))
    BY <2>2, <2>3, ReadMoves
  <2> QED
    BY <2>1, <2>2, <2>4
<1>4. stream'.ReadLocked = stream.ReadLocked /\ stream'.WriteLocked = stream.WriteLocked
  BY <1>3 DEF Aside
<1>5. Stream_availableReal(stream') <= n
  <2> HIDE DEF n
  <2> QED
    BY <1>1, <1>3
<1>6. stream.WriteLocked => HoldsSpace(stream', wlock, written)
  BY <1>1, <1>3, <1>5, HoldsSpaceStill
<1> QED
  BY <1>1, <1>2, <1>3, <1>4, <1>6 DEF LockIInv, SeenTake

\* Stream_unlockRead: all that was read through the lock is taken at once.
LEMMA UnlockReadStep ==
  ASSUME HalfRange(Size), LockIInv, UnlockRead
  PROVE  LockIInv' /\ Seen
<1> USE SizeAssumption
<1>1. /\ Sound(stream, Size) /\ NoLimits(stream)
      /\ written \in Seq(Byte) /\ taken \in Seq(Byte)
      /\ HoldsBytes(stream, rlock, taken)
      /\ stream.WriteLocked => HoldsSpace(stream, wlock, written)
  BY DEF LockIInv, UnlockRead
<1>2. /\ stream' = Stream_unlockRead(stream, rlock)
      /\ call' = IF taken = <<>> THEN call ELSE Call("take", Len(taken), taken)
      /\ taken' = <<>> /\ UNCHANGED <<wlock, written>>
  BY DEF UnlockRead
<1>3. /\ Sound(stream', Size) /\ NoLimits(stream')
      /\ stream'.Data = stream.Data /\ stream'.WPos = stream.WPos
      /\ stream'.ReadLocked = FALSE /\ stream'.WriteLocked = stream.WriteLocked
      /\ Stream_availableReal(stream') = Stream_availableReal(stream) - Len(taken)
      /\ Contents(stream') = SubSeq(Contents(stream), Len(taken) + 1, Len(Contents(stream)))
  <2>1. stream' = Stream_unlockRead(stream, rlock)
    BY <1>2
  <2>2. /\ Sound(stream, Size) /\ NoLimits(stream) /\ stream.ReadLocked
        /\ taken \in Seq(Byte) /\ HoldsBytes(stream, rlock, taken)
    BY <1>1 DEF UnlockRead
  <2>3. PICK t : t = stream'
    OBVIOUS
  <2>4. t = Stream_unlockRead(stream, rlock)
    BY <2>1, <2>3
  <2>5. /\ Sound(t, Size) /\ NoLimits(t)
        /\ t.Data = stream.Data /\ t.WPos = stream.WPos
        /\ t.ReadLocked = FALSE /\ t.WriteLocked = stream.WriteLocked
        /\ Stream_availableReal(t) = Stream_availableReal(stream) - Len(taken)
        /\ Contents(t) = SubSeq(Contents(stream), Len(taken) + 1, Len(Contents(stream)))
    BY <2>2, <2>4, UnlockReadIs, ZenonT(30)
  <2> QED
    BY <2>3, <2>5
<1>4. /\ Stream_availableReal(stream) \in 0 .. Size /\ Len(taken) \in Nat /\ Size \in Nat
      /\ Contents(stream) \in Seq(Byte)
      /\ Len(Contents(stream)) = Stream_availableReal(stream)
  BY <1>1, WriterIsBehind, ContentsAre, MaxLenAssumption
<1>5. Stream_availableReal(stream') <= Stream_availableReal(stream)
  BY <1>3, <1>4
<1>6. stream.WriteLocked => HoldsSpace(stream', wlock, written)
  BY <1>1, <1>3, <1>5, HoldsSpaceStill
<1>7. LockIInv'
  BY <1>1, <1>2, <1>3, <1>6 DEF LockIInv
<1>8. CASE taken = <<>>
  <2>1. SubSeq(Contents(stream), Len(taken) + 1, Len(Contents(stream))) = Contents(stream)
    BY <1>4, <1>8
  <2> QED
    BY <1>2, <1>3, <1>7, <1>8, <2>1 DEF Seen, Unseen
<1>9. CASE taken # <<>>
  <2>1. Len(taken) > 0
    BY <1>1, <1>9
  <2>2. /\ Len(taken) <= Stream_availableReal(stream)
        /\ taken = SubSeq(Contents(stream), 1, Len(taken))
    BY <1>1, <1>4, BytesAreOldest
  <2>3. call' = Call("take", Len(taken), SubSeq(Contents(stream), 1, Len(taken)))
    BY <1>2, <1>9, <2>2
  <2>4. SeenTake(Len(taken))
    BY <1>3, <1>4, <2>1, <2>2, <2>3 DEF SeenTake
  <2> QED
    BY <1>7, <2>4 DEF Seen
<1> QED
  BY <1>8, <1>9
-----------------------------------------------------------------------------
(* The invariant. *)

LEMMA LockInit == Init => LockIInv
<1> SUFFICES ASSUME Init PROVE LockIInv
  OBVIOUS
<1>1. PICK data \in [0 .. Size - 1 -> Byte] : stream = Stream_init(data, Size)
  BY DEF Init
<1>2. Sound(stream, Size)
  BY <1>1, InitSound, SizeAssumption
<1>3. /\ NoLimits(stream) /\ ~ stream.WriteLocked /\ ~ stream.ReadLocked
  BY <1>1 DEF Stream_init, NoLimits
<1> QED
  BY <1>2, <1>3 DEF Init, LockIInv

\* The arguments of the calls.
LEMMA Arguments == Vals \subseteq Seq(Byte) /\ (1 .. Size) \subseteq Nat
<1>1. Size \in Nat
  BY SizeAssumption, MaxLenAssumption
<1>2. ASSUME NEW val \in Vals PROVE val \in Seq(Byte)
  <2>1. PICK n \in 1 .. Size : val \in [1 .. n -> Byte]
    BY DEF Vals
  <2> QED
    BY <1>1, <2>1
<1> QED
  BY <1>1, <1>2

\* Every step keeps the invariant, and what can be seen of it is a step of a queue.
LEMMA LockNext ==
  ASSUME HalfRange(Size), SomeLength, LockIInv, Next
  PROVE  LockIInv' /\ Seen
<1>1. CASE \E len \in LockLens : Stream_lockWrite(len) \/ Stream_lockRead(len)
  BY <1>1, LockSteps DEF Seen
<1>2. CASE \E val \in Vals : WriteInLock(val) \/ Write(val)
  <2>1. PICK val \in Vals : WriteInLock(val) \/ Write(val)
    BY <1>2
  <2>2. val \in Seq(Byte)
    BY Arguments
  <2> QED
    BY <2>1, <2>2, WriteInLockStep, WriteStep DEF Seen
<1>3. CASE \E len \in 1 .. Size : ReadInLock(len) \/ Read(len)
  <2>1. PICK len \in 1 .. Size : ReadInLock(len) \/ Read(len)
    BY <1>3
  <2>2. len \in Nat
    BY Arguments
  <2> QED
    BY <2>1, <2>2, ReadInLockStep, ReadStep DEF Seen
<1>4. CASE UnlockWrite \/ UnlockRead
  BY <1>4, UnlockWriteStep, UnlockReadStep
<1>5. CASE Stream_unlockWriteIgnore \/ Stream_unlockReadIgnore
  BY <1>5, IgnoreSteps DEF Seen
<1> QED
  BY <1>1, <1>2, <1>3, <1>4, <1>5 DEF Next

LEMMA LockInvariant ==
  ASSUME HalfRange(Size), SomeLength
  PROVE  Spec => []LockIInv
<1>1. LockIInv /\ [Next]_vars => LockIInv'
  <2> SUFFICES ASSUME LockIInv, [Next]_vars PROVE LockIInv'
    OBVIOUS
  <2>1. CASE Next
    BY <2>1, LockNext
  <2>2. CASE UNCHANGED vars
    BY <2>2 DEF vars, LockIInv
  <2> QED
    BY <2>1, <2>2
<1> QED
  BY LockInit, <1>1, PTL DEF Spec

\* "return number of byte write in lock" and "return number of bytes that read"
\* (StreamBuffer.c:2077 and 2136), for a buffer of any size up to half the range of
\* Stream_LenType and locks of at least one byte: the unlocks move the stream by
\* what was done through the lock, though the positions alone cannot tell a lock
\* that went all the way round from one that did not move.
THEOREM LockLensAlwaysRight ==
  ASSUME HalfRange(Size), SomeLength
  PROVE  Spec => []LockLensAreDone
<1>1. LockIInv => LockLensAreDone
  BY LockWriteLenIs, LockReadLenIs
  DEF LockIInv, LockLensAreDone, LockWriteLenIsWritten, LockReadLenIsTaken
<1> QED
  BY <1>1, LockInvariant, PTL

\* Likewise no writer, with a lock or without, gets at the bytes that the reader has
\* locked, and the space of the writer's lock holds no byte of the stream
\* (Stream_lockWrite, Stream_lockRead and the calls through the locks).
THEOREM LocksAreApart ==
  ASSUME HalfRange(Size), SomeLength
  PROVE  Spec => []LocksKeepTheirPlace
<1>1. LockIInv => LocksKeepTheirPlace
  <2> SUFFICES ASSUME LockIInv PROVE LocksKeepTheirPlace
    OBVIOUS
  <2>1. TypeOK
    BY DEF LockIInv, TypeOK, Sound, HoldsSpace, HoldsBytes
  <2>2. LockedSpaceIsFree
    <3> SUFFICES ASSUME stream.WriteLocked
                 PROVE  Stream_spaceReal(wlock) + Len(written)
                          + Stream_availableReal(stream) <= Size
      BY DEF LockedSpaceIsFree
    <3> DEFINE m == Stream_spaceReal(wlock)
               k == Len(written)
               n == Stream_availableReal(stream)
    <3>1. m \in 0 .. Size /\ k \in Nat /\ n \in 0 .. Size /\ k + m + n <= Size
      BY SpaceIsBehind DEF LockIInv
    <3> HIDE DEF m, k, n
    <3>2. m + k + n <= Size
      BY <3>1
    <3> QED
      BY <3>2 DEF m, k, n
  <2>3. LockedBytesAreOldest
    BY BytesAreOldest DEF LockIInv, LockedBytesAreOldest
  <2> QED
    BY <2>1, <2>2, <2>3 DEF LocksKeepTheirPlace
<1> QED
  BY <1>1, LockInvariant, PTL

-----------------------------------------------------------------------------
(* The refinement. *)

\* What the queue calls space and available, when nothing is limited.
LEMMA QueueMeasures ==
  ASSUME LockIInv
  PROVE  /\ Queue!space = Size - Stream_availableReal(stream)
         /\ Queue!available = Stream_availableReal(stream)
         /\ Len(Contents(stream)) = Stream_availableReal(stream)
         /\ Stream_availableReal(stream) \in 0 .. Size /\ Size \in Nat
         /\ stream.WriteLimit = NoLimit /\ stream.ReadLimit = NoLimit
         /\ \A n : Queue!spend(NoLimit, n) = NoLimit
<1>1. /\ Len(Contents(stream)) = Stream_availableReal(stream)
      /\ Stream_availableReal(stream) \in 0 .. Size /\ Size \in Nat
      /\ stream.WriteLimit = NoLimit /\ stream.ReadLimit = NoLimit
  BY ContentsAre, WriterIsBehind, SizeAssumption, MaxLenAssumption
  DEF LockIInv, NoLimits
<1> QED
  BY <1>1 DEF Queue!space, Queue!available, Queue!spend

\* Every step is a step of the queue, or leaves it alone.
LEMMA SeenIsQueued ==
  ASSUME LockIInv, LockIInv', Seen
  PROVE  [Queue!Next]_(Queue!qvars)
<1> DEFINE n == Stream_availableReal(stream)
           c == Contents(stream)
<1>1. /\ Queue!space = Size - n /\ Queue!available = n /\ Len(c) = n
      /\ n \in 0 .. Size /\ Size \in Nat
      /\ stream.WriteLimit = NoLimit /\ stream.ReadLimit = NoLimit
      /\ \A m : Queue!spend(NoLimit, m) = NoLimit
  BY QueueMeasures
<1>2. stream'.WriteLimit = NoLimit /\ stream'.ReadLimit = NoLimit
  BY DEF LockIInv, NoLimits
<1>3. CASE Unseen
  BY <1>1, <1>2, <1>3 DEF Unseen, Queue!qvars
<1>4. ASSUME NEW val, SeenPut(val) PROVE Queue!Put
  <2>1. /\ Len(val) > 0 /\ n + Len(val) <= Size /\ val \in Seq(Byte)
        /\ Contents(stream)' = c \o val
        /\ call'.op = "put" /\ call'.res = "Stream_Ok"
        /\ call'.len = Len(val) /\ call'.val = val
    BY <1>4 DEF SeenPut, Call
  <2> DEFINE m == Len(val)
  <2>2. m \in Nat
    BY <2>1
  <2> HIDE DEF n, m
  <2>3. m \in 1 .. Size - n /\ n + m <= Size
    BY <1>1, <2>1, <2>2 DEF m
  <2> QED
    BY <1>1, <1>2, <2>1, <2>3 DEF Queue!Put, Queue!accepted, m
<1>5. ASSUME NEW len, SeenTake(len) PROVE Queue!Take
  <2>1. /\ len \in Nat /\ len > 0 /\ len <= n
        /\ Contents(stream)' = SubSeq(c, len + 1, Len(c))
        /\ call'.op = "take" /\ call'.res = "Stream_Ok"
        /\ call'.len = len /\ call'.val = SubSeq(c, 1, len)
    BY <1>5 DEF SeenTake, Call
  <2>2. len \in 1 .. Queue!available /\ len <= Len(c)
    BY <1>1, <2>1
  <2> QED
    BY <1>1, <1>2, <2>1, <2>2 DEF Queue!Take, Queue!accepted
<1> QED
  BY <1>3, <1>4, <1>5 DEF Seen, Queue!Next

\* A new stream is an empty queue.
LEMMA InitQueue == Init => Queue!Init
<1> SUFFICES ASSUME Init PROVE Queue!Init
  OBVIOUS
<1>1. PICK data \in [0 .. Size - 1 -> Byte] : stream = Stream_init(data, Size)
  BY DEF Init
<1>2. Sound(stream, Size)
  BY <1>1, InitSound, SizeAssumption
<1>3. /\ stream.WriteLimit = NoLimit /\ stream.ReadLimit = NoLimit
      /\ stream.WPos = 0 /\ stream.RPos = 0 /\ stream.Overflow = 0
  BY <1>1 DEF Stream_init
<1>4. Stream_availableReal(stream) = 0
  BY <1>2, <1>3, Filled, SizeAssumption DEF Sound
<1>5. Contents(stream) = <<>>
  BY <1>2, <1>4, ContentsAre, EmptySeq, SizeAssumption
<1> QED
  BY <1>3, <1>5 DEF Queue!Init, Init, Call

\* For every size of the buffer up to half the range of Stream_LenType, every range
\* of bytes and locks of at least one byte, a stream that is used through locks is
\* the bounded queue of ByteQueue: the bytes of a lock are queued, or taken, all at
\* once when it is unlocked (Stream_unlockWrite, Stream_unlockRead) and not at all
\* when the changes are ignored, whatever the other side does meanwhile.
THEOREM LocksAreAtomic ==
  ASSUME HalfRange(Size), SomeLength
  PROVE  Spec => ImplementsQueue
<1>1. LockIInv /\ LockIInv' /\ [Next]_vars => [Queue!Next]_(Queue!qvars)
  <2> SUFFICES ASSUME LockIInv, LockIInv', [Next]_vars
               PROVE  [Queue!Next]_(Queue!qvars)
    OBVIOUS
  <2>1. CASE Next
    BY <2>1, LockNext, SeenIsQueued
  <2>2. CASE UNCHANGED vars
    BY <2>2 DEF vars, Queue!qvars
  <2> QED
    BY <2>1, <2>2
<1> QED
  BY InitQueue, <1>1, LockInvariant, PTL DEF Spec, ImplementsQueue, Queue!Spec
=============================================================================
