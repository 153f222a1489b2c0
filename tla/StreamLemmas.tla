---------------------------- MODULE StreamLemmas ----------------------------
(***************************************************************************)
(* Lemmas about the operators of StreamBuffer, for a buffer of any size:   *)
(* that every operation leaves a stream sound, and what it does to the     *)
(* bytes in the ring.  The theorems about the modules that use a stream    *)
(* rest on these.                                                          *)
(***************************************************************************)
EXTENDS StreamBuffer, SequenceTheorems, TLAPS

\* What every operation preserves of a stream of size bytes.
Sound(s, size) == s \in Stream(size) /\ Consistent(s) /\ LimitsWithin(s)

\* The fields that have no part in the shape of the ring.
Aside(s) == <<s.OrderFn, s.InReceive, s.InTransmit, s.WriteLocked, s.ReadLocked>>

\* The sums of a position and a length fit a Stream_LenType.  The moves store
\* the sum before they wrap it, so that in a longer buffer a position can
\* become negative.
HalfRange(size) == 2 * size - 1 <= MaxLen

\* The two shapes of a sound stream, without the product by the flag.
Wrapped(s, size) ==
  /\ s.Overflow = 1 /\ s.WPos <= s.RPos
  /\ s.WriteLimit <= s.RPos - s.WPos
  /\ s.ReadLimit <= size + s.WPos - s.RPos

Straight(s, size) ==
  /\ s.Overflow = 0 /\ s.RPos <= s.WPos
  /\ s.WriteLimit <= size + s.RPos - s.WPos
  /\ s.ReadLimit <= s.WPos - s.RPos

\* The fields of a stream and their types.
LEMMA Types ==
  ASSUME NEW size \in 1 .. MaxLen, NEW s \in Stream(size)
  PROVE  /\ s.Size = size
         /\ s.Data \in [0 .. size - 1 -> Byte]
         /\ s.WPos \in 0 .. size - 1
         /\ s.RPos \in 0 .. size - 1
         /\ s.Overflow \in 0 .. 1
         /\ s.WriteLimit \in -1 .. size
         /\ s.ReadLimit \in -1 .. size
  BY DEF Stream, NoLimit

\* The values of the flag.
LEMMA Flags == 0 \in 0 .. 1 /\ 1 \in 0 .. 1
  OBVIOUS

\* What availableReal and spaceReal return, by the flag.
LEMMA Filled ==
  ASSUME NEW size \in 1 .. MaxLen, NEW s \in Stream(size)
  PROVE  /\ s.Overflow = 1 => /\ Stream_spaceReal(s) = s.RPos - s.WPos
                              /\ Stream_availableReal(s) = size + s.WPos - s.RPos
         /\ s.Overflow = 0 => /\ Stream_spaceReal(s) = size + s.RPos - s.WPos
                              /\ Stream_availableReal(s) = s.WPos - s.RPos
  BY MaxLenAssumption
  DEF Stream, Stream_spaceReal, Stream_availableReal

\* A stream is sound when it has one of the two shapes.
LEMMA Shapes ==
  ASSUME NEW size \in 1 .. MaxLen, NEW s \in Stream(size)
  PROVE  Sound(s, size) <=> Wrapped(s, size) \/ Straight(s, size)
  BY Filled, MaxLenAssumption
  DEF Sound, Stream, Consistent, LimitsWithin, Stream_space, Stream_available,
      Stream_spaceLimit, Stream_availableLimit, Stream_isReadLimited,
      Stream_isWriteLimited, NoLimit, Wrapped, Straight

-----------------------------------------------------------------------------
(* Advancing a position. *)

\* The writer advances by n bytes of space, over the end of the buffer or not;
\* its limit, when there is one, shrinks by as many.
LEMMA WriterAdvanced ==
  ASSUME NEW size \in 1 .. MaxLen, NEW s \in Stream(size),
         Sound(s, size), NEW n \in Nat,
         s.Overflow = 1 => n <= s.RPos - s.WPos,
         s.Overflow = 0 => n <= size + s.RPos - s.WPos,
         NEW t \in Stream(size), t.RPos = s.RPos, t.ReadLimit = s.ReadLimit,
         s.WriteLimit >= 0 => t.WriteLimit = s.WriteLimit - n,
         s.WriteLimit < 0 => t.WriteLimit = s.WriteLimit,
         \/ s.WPos + n >= size /\ t.WPos = s.WPos + n - size /\ t.Overflow = 1
         \/ s.WPos + n < size /\ t.WPos = s.WPos + n /\ t.Overflow = s.Overflow
  PROVE  Sound(t, size)
<1> USE MaxLenAssumption
<1>0. /\ size \in Nat /\ s.WPos \in 0 .. size - 1 /\ s.RPos \in 0 .. size - 1
      /\ s.Overflow \in 0 .. 1 /\ s.WriteLimit \in Int /\ s.ReadLimit \in Int
      /\ t.WriteLimit \in Int /\ t.ReadLimit \in Int
  BY Types
<1>1. Wrapped(s, size) \/ Straight(s, size)
  BY Shapes
<1>2. CASE s.WPos + n >= size
  <2>1. Wrapped(t, size)
    BY <1>0, <1>1, <1>2 DEF Wrapped, Straight
  <2> QED
    BY <2>1, Shapes
<1>3. CASE s.WPos + n < size
  <2>1. Wrapped(s, size) => Wrapped(t, size)
    BY <1>0, <1>3 DEF Wrapped
  <2>2. Straight(s, size) => Straight(t, size)
    BY <1>0, <1>3 DEF Straight
  <2> QED
    BY <1>1, <2>1, <2>2, Shapes
<1> QED
  BY <1>0, <1>2, <1>3

\* The reader advances by n bytes that are there.
LEMMA ReaderAdvanced ==
  ASSUME NEW size \in 1 .. MaxLen, NEW s \in Stream(size),
         Sound(s, size), NEW n \in Nat,
         s.Overflow = 1 => n <= size + s.WPos - s.RPos,
         s.Overflow = 0 => n <= s.WPos - s.RPos,
         NEW t \in Stream(size), t.WPos = s.WPos, t.WriteLimit = s.WriteLimit,
         s.ReadLimit >= 0 => t.ReadLimit = s.ReadLimit - n,
         s.ReadLimit < 0 => t.ReadLimit = s.ReadLimit,
         \/ s.RPos + n >= size /\ t.RPos = s.RPos + n - size /\ t.Overflow = 0
         \/ s.RPos + n < size /\ t.RPos = s.RPos + n /\ t.Overflow = s.Overflow
  PROVE  Sound(t, size)
<1> USE MaxLenAssumption
<1>0. /\ size \in Nat /\ s.WPos \in 0 .. size - 1 /\ s.RPos \in 0 .. size - 1
      /\ s.Overflow \in 0 .. 1 /\ s.WriteLimit \in Int /\ s.ReadLimit \in Int
      /\ t.WriteLimit \in Int /\ t.ReadLimit \in Int
  BY Types
<1>1. Wrapped(s, size) \/ Straight(s, size)
  BY Shapes
<1>2. CASE s.RPos + n >= size
  <2>1. Straight(t, size)
    BY <1>0, <1>1, <1>2 DEF Wrapped, Straight
  <2> QED
    BY <2>1, Shapes
<1>3. CASE s.RPos + n < size
  <2>1. Wrapped(s, size) => Wrapped(t, size)
    BY <1>0, <1>3 DEF Wrapped
  <2>2. Straight(s, size) => Straight(t, size)
    BY <1>0, <1>3 DEF Straight
  <2> QED
    BY <1>1, <2>1, <2>2, Shapes
<1> QED
  BY <1>0, <1>2, <1>3

\* A length that the limited count allows is a length that is really there.
LEMMA SpaceIsReal ==
  ASSUME NEW size \in 1 .. MaxLen, NEW s \in Stream(size),
         Sound(s, size), NEW n \in Nat, ~ (Stream_space(s) < n)
  PROVE  /\ s.Overflow = 1 => n <= s.RPos - s.WPos
         /\ s.Overflow = 0 => n <= size + s.RPos - s.WPos
         /\ s.WriteLimit >= 0 => n <= s.WriteLimit
         /\ s.WPos + n < 2 * size
<1> USE MaxLenAssumption
<1>1. Wrapped(s, size) \/ Straight(s, size)
  BY Shapes
<1>2. CASE s.WriteLimit >= 0
  <2>1. n <= s.WriteLimit
    BY <1>2, Types DEF Stream_space, Stream_spaceLimit, Stream_isWriteLimited
  <2> QED
    BY <1>1, <2>1, Types DEF Wrapped, Straight
<1>3. CASE ~ (s.WriteLimit >= 0)
  <2>1. ~ (Stream_spaceReal(s) < n)
    BY <1>3 DEF Stream_space, Stream_spaceLimit, Stream_isWriteLimited
  <2> QED
    BY <1>1, <1>3, <2>1, Types, Filled DEF Wrapped, Straight
<1> QED
  BY <1>2, <1>3

\* The same of what may be read.
LEMMA AvailableIsReal ==
  ASSUME NEW size \in 1 .. MaxLen, NEW s \in Stream(size),
         Sound(s, size), NEW n \in Nat,
         ~ (Stream_available(s) < n)
  PROVE  /\ s.Overflow = 1 => n <= size + s.WPos - s.RPos
         /\ s.Overflow = 0 => n <= s.WPos - s.RPos
         /\ s.ReadLimit >= 0 => n <= s.ReadLimit
         /\ s.RPos + n < 2 * size
<1> USE MaxLenAssumption
<1>1. Wrapped(s, size) \/ Straight(s, size)
  BY Shapes
<1>2. CASE s.ReadLimit >= 0
  <2>1. n <= s.ReadLimit
    BY <1>2, Types DEF Stream_available, Stream_availableLimit, Stream_isReadLimited
  <2> QED
    BY <1>1, <2>1, Types DEF Wrapped, Straight
<1>3. CASE ~ (s.ReadLimit >= 0)
  <2>1. ~ (Stream_availableReal(s) < n)
    BY <1>3 DEF Stream_available, Stream_availableLimit, Stream_isReadLimited
  <2> QED
    BY <1>1, <1>3, <2>1, Types, Filled DEF Wrapped, Straight
<1> QED
  BY <1>2, <1>3

-----------------------------------------------------------------------------
(* The operations. *)

\* Stream_moveWritePos when it is accepted, field by field; that the sum fits is
\* needed here.
LEMMA MoveWriteFields ==
  ASSUME NEW size \in 1 .. MaxLen, NEW s, Sound(s, size),
         NEW n \in Nat, HalfRange(size) \/ s.WPos + n <= MaxLen, ~ (Stream_space(s) < n),
         NEW t, t = Stream_moveWritePos(s, n).s
  PROVE  /\ Stream_moveWritePos(s, n).res = "Stream_Ok"
         /\ t \in Stream(size)
         /\ t.Data = s.Data /\ t.RPos = s.RPos /\ Aside(t) = Aside(s)
         /\ t.WriteLimit = s.WriteLimit /\ t.ReadLimit = s.ReadLimit
         /\ s.WPos + n >= size => t.WPos = s.WPos + n - size /\ t.Overflow = 1
         /\ s.WPos + n < size => t.WPos = s.WPos + n /\ t.Overflow = s.Overflow
<1> DEFINE pos == s.WPos + n
<1> USE MaxLenAssumption
<1>0. s \in Stream(size)
  BY DEF Sound
<1>1. pos < 2 * size
  BY <1>0, SpaceIsReal
<1>2. pos \in Nat /\ size \in Nat \ {0}
  BY <1>0, Types
<1>3. ToLen(pos) = pos
  BY <1>1, <1>2 DEF ToLen, HalfRange
<1>4. Stream_moveWritePos(s, n).res = "Stream_Ok"
  BY DEF Stream_moveWritePos, Done
<1>5. CASE pos >= size
  <2> DEFINE w == pos - size
  <2>1. pos % size = w
    <3> HIDE DEF pos
    <3> QED
      BY <1>1, <1>2, <1>5
  <2>2. w \in 0 .. size - 1
    BY <1>1, <1>2, <1>5
  <2>3. t = [s EXCEPT !.WPos = w, !.Overflow = 1]
    BY <1>0, <1>3, <1>5, <2>1, Types DEF Stream_moveWritePos, Done
  <2>4. /\ t \in Stream(size)
        /\ t.Data = s.Data /\ t.WPos = w /\ t.RPos = s.RPos /\ t.Overflow = 1
        /\ t.WriteLimit = s.WriteLimit /\ t.ReadLimit = s.ReadLimit
        /\ Aside(t) = Aside(s)
    <3> HIDE DEF w
    <3> QED
      BY <1>0, <2>2, <2>3, Flags DEF Stream, Aside
  <2>5. ~ (pos < size)
    BY <1>2, <1>5
  <2>6. t.WPos = s.WPos + n - size
    <3>1. w = s.WPos + n - size
      BY <1>0, Types
    <3> HIDE DEF w
    <3> QED
      BY <2>4, <3>1
  <2> HIDE DEF pos, w
  <2>7. ~ (s.WPos + n < size)
    BY <2>5 DEF pos
  <2> QED
    BY <1>4, <2>4, <2>6, <2>7
<1>6. CASE pos < size
  <2>1. t = [s EXCEPT !.WPos = pos]
    BY <1>0, <1>2, <1>3, <1>6, Types DEF Stream_moveWritePos, Done
  <2>2. pos \in 0 .. size - 1
    BY <1>2, <1>6
  <2>3. /\ t \in Stream(size)
        /\ t.Data = s.Data /\ t.WPos = pos /\ t.RPos = s.RPos /\ t.Overflow = s.Overflow
        /\ t.WriteLimit = s.WriteLimit /\ t.ReadLimit = s.ReadLimit
        /\ Aside(t) = Aside(s)
    <3> HIDE DEF pos
    <3> QED
      BY <1>0, <2>1, <2>2 DEF Stream, Aside
  <2>4. ~ (pos >= size)
    BY <1>2, <1>6
  <2> QED
    BY <1>4, <2>3, <2>4
<1> QED
  BY <1>2, <1>5, <1>6

\* Stream_moveWritePos, accepted or refused.
LEMMA MoveWriteSound ==
  ASSUME NEW size \in 1 .. MaxLen, NEW s, Sound(s, size),
         ~ Stream_isWriteLimited(s),
         NEW n \in Nat, HalfRange(size) \/ s.WPos + n <= MaxLen
  PROVE  Sound(Stream_moveWritePos(s, n).s, size)
<1> DEFINE t == Stream_moveWritePos(s, n).s
<1> USE MaxLenAssumption
<1>0. s \in Stream(size)
  BY DEF Sound
<1>1. CASE Stream_space(s) < n
  BY <1>1 DEF Stream_moveWritePos, Refuse
<1>2. CASE ~ (Stream_space(s) < n)
  <2>1. /\ s.Overflow = 1 => n <= s.RPos - s.WPos
        /\ s.Overflow = 0 => n <= size + s.RPos - s.WPos
    BY <1>0, <1>2, SpaceIsReal
  <2>2. /\ t \in Stream(size)
        /\ t.RPos = s.RPos
        /\ t.WriteLimit = s.WriteLimit /\ t.ReadLimit = s.ReadLimit
        /\ s.WPos + n >= size => t.WPos = s.WPos + n - size /\ t.Overflow = 1
        /\ s.WPos + n < size => t.WPos = s.WPos + n /\ t.Overflow = s.Overflow
    BY <1>2, MoveWriteFields
  <2> HIDE DEF t
  <2>3. \/ s.WPos + n >= size /\ t.WPos = s.WPos + n - size /\ t.Overflow = 1
        \/ s.WPos + n < size /\ t.WPos = s.WPos + n /\ t.Overflow = s.Overflow
    BY <1>0, <2>2, Types
  <2>4. ~ (s.WriteLimit >= 0)
    BY DEF Stream_isWriteLimited
  <2>5. Sound(t, size)
    BY <1>0, <2>1, <2>2, <2>3, <2>4, WriterAdvanced
  <2> QED
    BY <2>5 DEF t
<1> QED
  BY <1>1, <1>2

\* A limit is not charged by the move; flag and positions agree all the same.
LEMMA MoveWriteAgrees ==
  ASSUME NEW size \in 1 .. MaxLen, NEW s, Sound(s, size), HalfRange(size), NEW n \in Nat
  PROVE  /\ Stream_moveWritePos(s, n).s \in Stream(size)
         /\ Consistent(Stream_moveWritePos(s, n).s)
<1> DEFINE t == Stream_moveWritePos(s, n).s
<1> USE MaxLenAssumption
<1>0. s \in Stream(size) /\ Consistent(s)
  BY DEF Sound
<1>1. CASE Stream_space(s) < n
  BY <1>0, <1>1 DEF Stream_moveWritePos, Refuse
<1>2. CASE ~ (Stream_space(s) < n)
  <2>1. /\ s.Overflow = 1 => n <= s.RPos - s.WPos
        /\ s.Overflow = 0 => n <= size + s.RPos - s.WPos
    BY <1>0, <1>2, SpaceIsReal
  <2>2. /\ t \in Stream(size)
        /\ t.RPos = s.RPos
        /\ s.WPos + n >= size => t.WPos = s.WPos + n - size /\ t.Overflow = 1
        /\ s.WPos + n < size => t.WPos = s.WPos + n /\ t.Overflow = s.Overflow
    BY <1>2, MoveWriteFields
  <2> HIDE DEF t
  <2>3. Consistent(t)
    BY <1>0, <2>1, <2>2, Types DEF Consistent
  <2> QED
    BY <2>2, <2>3 DEF t
<1> QED
  BY <1>1, <1>2

\* Stream_moveReadPos when it is accepted, field by field; that the sum fits is
\* needed here.
LEMMA MoveReadFields ==
  ASSUME NEW size \in 1 .. MaxLen, NEW s, Sound(s, size),
         NEW n \in Nat, HalfRange(size) \/ s.RPos + n <= MaxLen, ~ (Stream_available(s) < n),
         NEW t, t = Stream_moveReadPos(s, n).s
  PROVE  /\ Stream_moveReadPos(s, n).res = "Stream_Ok"
         /\ t \in Stream(size)
         /\ t.Data = s.Data /\ t.WPos = s.WPos /\ Aside(t) = Aside(s)
         /\ t.WriteLimit = s.WriteLimit /\ t.ReadLimit = s.ReadLimit
         /\ s.RPos + n >= size => t.RPos = s.RPos + n - size /\ t.Overflow = 0
         /\ s.RPos + n < size => t.RPos = s.RPos + n /\ t.Overflow = s.Overflow
<1> DEFINE pos == s.RPos + n
<1> USE MaxLenAssumption
<1>0. s \in Stream(size)
  BY DEF Sound
<1>1. pos < 2 * size
  BY <1>0, AvailableIsReal
<1>2. pos \in Nat /\ size \in Nat \ {0}
  BY <1>0, Types
<1>3. ToLen(pos) = pos
  BY <1>1, <1>2 DEF ToLen, HalfRange
<1>4. Stream_moveReadPos(s, n).res = "Stream_Ok"
  BY DEF Stream_moveReadPos, Done
<1>5. CASE pos >= size
  <2> DEFINE w == pos - size
  <2>1. pos % size = w
    <3> HIDE DEF pos
    <3> QED
      BY <1>1, <1>2, <1>5
  <2>2. w \in 0 .. size - 1
    BY <1>1, <1>2, <1>5
  <2>3. t = [s EXCEPT !.RPos = w, !.Overflow = 0]
    BY <1>0, <1>3, <1>5, <2>1, Types DEF Stream_moveReadPos, Done
  <2>4. /\ t \in Stream(size)
        /\ t.Data = s.Data /\ t.RPos = w /\ t.WPos = s.WPos /\ t.Overflow = 0
        /\ t.WriteLimit = s.WriteLimit /\ t.ReadLimit = s.ReadLimit
        /\ Aside(t) = Aside(s)
    <3> HIDE DEF w
    <3> QED
      BY <1>0, <2>2, <2>3, Flags DEF Stream, Aside
  <2>5. ~ (pos < size)
    BY <1>2, <1>5
  <2>6. t.RPos = s.RPos + n - size
    <3>1. w = s.RPos + n - size
      BY <1>0, Types
    <3> HIDE DEF w
    <3> QED
      BY <2>4, <3>1
  <2> HIDE DEF pos, w
  <2>7. ~ (s.RPos + n < size)
    BY <2>5 DEF pos
  <2> QED
    BY <1>4, <2>4, <2>6, <2>7
<1>6. CASE pos < size
  <2>1. t = [s EXCEPT !.RPos = pos]
    BY <1>0, <1>2, <1>3, <1>6, Types DEF Stream_moveReadPos, Done
  <2>2. pos \in 0 .. size - 1
    BY <1>2, <1>6
  <2>3. /\ t \in Stream(size)
        /\ t.Data = s.Data /\ t.RPos = pos /\ t.WPos = s.WPos /\ t.Overflow = s.Overflow
        /\ t.WriteLimit = s.WriteLimit /\ t.ReadLimit = s.ReadLimit
        /\ Aside(t) = Aside(s)
    <3> HIDE DEF pos
    <3> QED
      BY <1>0, <2>1, <2>2 DEF Stream, Aside
  <2>4. ~ (pos >= size)
    BY <1>2, <1>6
  <2> QED
    BY <1>4, <2>3, <2>4
<1> QED
  BY <1>2, <1>5, <1>6

\* Stream_moveReadPos, accepted or refused.
LEMMA MoveReadSound ==
  ASSUME NEW size \in 1 .. MaxLen, NEW s, Sound(s, size),
         ~ Stream_isReadLimited(s),
         NEW n \in Nat, HalfRange(size) \/ s.RPos + n <= MaxLen
  PROVE  Sound(Stream_moveReadPos(s, n).s, size)
<1> DEFINE t == Stream_moveReadPos(s, n).s
<1> USE MaxLenAssumption
<1>0. s \in Stream(size)
  BY DEF Sound
<1>1. CASE Stream_available(s) < n
  BY <1>1 DEF Stream_moveReadPos, Refuse
<1>2. CASE ~ (Stream_available(s) < n)
  <2>1. /\ s.Overflow = 1 => n <= size + s.WPos - s.RPos
        /\ s.Overflow = 0 => n <= s.WPos - s.RPos
    BY <1>0, <1>2, AvailableIsReal
  <2>2. /\ t \in Stream(size)
        /\ t.WPos = s.WPos
        /\ t.WriteLimit = s.WriteLimit /\ t.ReadLimit = s.ReadLimit
        /\ s.RPos + n >= size => t.RPos = s.RPos + n - size /\ t.Overflow = 0
        /\ s.RPos + n < size => t.RPos = s.RPos + n /\ t.Overflow = s.Overflow
    BY <1>2, MoveReadFields
  <2> HIDE DEF t
  <2>3. \/ s.RPos + n >= size /\ t.RPos = s.RPos + n - size /\ t.Overflow = 0
        \/ s.RPos + n < size /\ t.RPos = s.RPos + n /\ t.Overflow = s.Overflow
    BY <1>0, <2>2, Types
  <2>4. ~ (s.ReadLimit >= 0)
    BY DEF Stream_isReadLimited
  <2>5. Sound(t, size)
    BY <1>0, <2>1, <2>2, <2>3, <2>4, ReaderAdvanced
  <2> QED
    BY <2>5 DEF t
<1> QED
  BY <1>1, <1>2

\* The same of the reader.
LEMMA MoveReadAgrees ==
  ASSUME NEW size \in 1 .. MaxLen, NEW s, Sound(s, size), HalfRange(size), NEW n \in Nat
  PROVE  /\ Stream_moveReadPos(s, n).s \in Stream(size)
         /\ Consistent(Stream_moveReadPos(s, n).s)
<1> DEFINE t == Stream_moveReadPos(s, n).s
<1> USE MaxLenAssumption
<1>0. s \in Stream(size) /\ Consistent(s)
  BY DEF Sound
<1>1. CASE Stream_available(s) < n
  BY <1>0, <1>1 DEF Stream_moveReadPos, Refuse
<1>2. CASE ~ (Stream_available(s) < n)
  <2>1. /\ s.Overflow = 1 => n <= size + s.WPos - s.RPos
        /\ s.Overflow = 0 => n <= s.WPos - s.RPos
    BY <1>0, <1>2, AvailableIsReal
  <2>2. /\ t \in Stream(size)
        /\ t.WPos = s.WPos
        /\ s.RPos + n >= size => t.RPos = s.RPos + n - size /\ t.Overflow = 0
        /\ s.RPos + n < size => t.RPos = s.RPos + n /\ t.Overflow = s.Overflow
    BY <1>2, MoveReadFields
  <2> HIDE DEF t
  <2>3. Consistent(t)
    BY <1>0, <2>1, <2>2, Types DEF Consistent
  <2> QED
    BY <2>2, <2>3 DEF t
<1> QED
  BY <1>1, <1>2

\* memcpy keeps the buffer a buffer of bytes.
LEMMA CopyType ==
  ASSUME NEW size \in 1 .. MaxLen, NEW d \in [0 .. size - 1 -> Byte],
         NEW at \in Nat, NEW src \in Seq(Byte)
  PROVE  memCopy(d, at, src) \in [0 .. size - 1 -> Byte]
<1> SUFFICES ASSUME NEW i \in 0 .. size - 1, i \in at .. at + Len(src) - 1
             PROVE  src[i - at + 1] \in Byte
  BY DEF memCopy
<1>1. i - at + 1 \in 1 .. Len(src)
  BY MaxLenAssumption
<1> QED
  BY <1>1

\* A write that is accepted, field by field: first goes up to the end of the
\* buffer, rest after the wrap, and together they are as long as what is written.
LEMMA Stored ==
  ASSUME NEW size \in 1 .. MaxLen, NEW s, Sound(s, size),
         NEW len \in Nat \ {0}, ~ (Stream_space(s) < len),
         NEW first, NEW rest, NEW whole,
         whole \in Seq(Byte), Len(whole) = len,
         s.WPos + len >= size =>
           /\ first \in Seq(Byte)
           /\ rest \in Seq(Byte) /\ Len(rest) = s.WPos + len - size,
         NEW t, t = write(s, len, first, rest, whole).s
  PROVE  /\ write(s, len, first, rest, whole).res = "Stream_Ok"
         /\ t \in Stream(size)
         /\ t.RPos = s.RPos /\ t.ReadLimit = s.ReadLimit /\ Aside(t) = Aside(s)
         /\ s.WriteLimit >= 0 => t.WriteLimit = s.WriteLimit - len
         /\ s.WriteLimit < 0 => t.WriteLimit = s.WriteLimit
         /\ s.WPos + len >= size =>
              /\ t.WPos = s.WPos + len - size /\ t.Overflow = 1
              /\ t.Data = memCopy(memCopy(s.Data, s.WPos, first), 0, rest)
         /\ s.WPos + len < size =>
              /\ t.WPos = s.WPos + len /\ t.Overflow = s.Overflow
              /\ t.Data = memCopy(s.Data, s.WPos, whole)
<1> DEFINE c == chargeWriteLimit(s, len)
<1> USE MaxLenAssumption
<1>0. s \in Stream(size)
  BY DEF Sound
<1>1. /\ s.WriteLimit >= 0 => len <= s.WriteLimit
      /\ s.WPos + len < 2 * size
  BY <1>0, SpaceIsReal
<1>2. /\ t = IF s.WPos + len >= size THEN storeWrapped(c, first, rest)
                                     ELSE storeDirect(c, whole)
      /\ write(s, len, first, rest, whole).res = "Stream_Ok"
  BY <1>0, Types DEF write, Done
<1>3. /\ c \in Stream(size)
      /\ c.Data = s.Data /\ c.WPos = s.WPos /\ c.RPos = s.RPos
      /\ c.Overflow = s.Overflow /\ c.ReadLimit = s.ReadLimit
      /\ Aside(c) = Aside(s)
      /\ s.WriteLimit >= 0 => c.WriteLimit = s.WriteLimit - len
      /\ s.WriteLimit < 0 => c.WriteLimit = s.WriteLimit
  <2>1. CASE s.WriteLimit >= 0
    <3> DEFINE l == s.WriteLimit - len
    <3>1. l \in -1 .. size /\ c = [s EXCEPT !.WriteLimit = l]
      BY <1>0, <1>1, <2>1, Types DEF chargeWriteLimit, Stream_isWriteLimited
    <3>2. /\ c \in Stream(size) /\ c.WriteLimit = l
          /\ c.Data = s.Data /\ c.WPos = s.WPos /\ c.RPos = s.RPos
          /\ c.Overflow = s.Overflow /\ c.ReadLimit = s.ReadLimit
          /\ Aside(c) = Aside(s)
      <4> HIDE DEF c, l
      <4> QED
        BY <1>0, <3>1 DEF Stream, NoLimit, Aside
    <3> QED
      BY <1>0, <2>1, <3>2, Types
  <2>2. CASE ~ (s.WriteLimit >= 0)
    <3>1. c = s
      BY <2>2 DEF chargeWriteLimit, Stream_isWriteLimited
    <3> QED
      BY <1>0, <2>2, <3>1, Types
  <2> QED
    BY <2>1, <2>2
<1> HIDE DEF c
<1>4. CASE s.WPos + len >= size
  <2> DEFINE d == memCopy(memCopy(c.Data, c.WPos, first), 0, rest)
             w == Len(rest)
  <2>1. d \in [0 .. size - 1 -> Byte]
    <3>1. c.Data \in [0 .. size - 1 -> Byte] /\ c.WPos \in Nat /\ 0 \in Nat
      BY <1>3, Types
    <3>2. memCopy(c.Data, c.WPos, first) \in [0 .. size - 1 -> Byte]
      BY <1>4, <3>1, CopyType
    <3> QED
      BY <1>4, <3>1, <3>2, CopyType
  <2>2. w = s.WPos + len - size /\ w \in 0 .. size - 1
    BY <1>0, <1>1, <1>4, Types
  <2>3. t = [c EXCEPT !.Data = d, !.WPos = w, !.Overflow = 1]
    BY <1>2, <1>4 DEF storeWrapped
  <2>4. /\ t \in Stream(size)
        /\ t.Data = d /\ t.WPos = w /\ t.RPos = c.RPos /\ t.Overflow = 1
        /\ t.WriteLimit = c.WriteLimit /\ t.ReadLimit = c.ReadLimit
        /\ Aside(t) = Aside(c)
    <3> HIDE DEF d, w
    <3> QED
      BY <1>3, <2>1, <2>2, <2>3, Flags DEF Stream, Aside
  <2> HIDE DEF w
  <2>5. ~ (s.WPos + len < size)
    BY <1>0, <1>4, Types
  <2> QED
    BY <1>2, <1>3, <1>4, <2>2, <2>4, <2>5
<1>5. CASE ~ (s.WPos + len >= size)
  <2> DEFINE d == memCopy(c.Data, c.WPos, whole)
             w == s.WPos + len
  <2>1. d \in [0 .. size - 1 -> Byte]
    <3>1. c.Data \in [0 .. size - 1 -> Byte] /\ c.WPos \in Nat
      BY <1>3, Types
    <3> QED
      BY <3>1, CopyType
  <2>2. w \in 0 .. size - 1
    BY <1>0, <1>5, Types
  <2>3. t = [c EXCEPT !.Data = d, !.WPos = w]
    BY <1>2, <1>3, <1>5 DEF storeDirect
  <2>4. /\ t \in Stream(size)
        /\ t.Data = d /\ t.WPos = w /\ t.RPos = c.RPos /\ t.Overflow = c.Overflow
        /\ t.WriteLimit = c.WriteLimit /\ t.ReadLimit = c.ReadLimit
        /\ Aside(t) = Aside(c)
    <3> HIDE DEF d, w
    <3> QED
      BY <1>3, <2>1, <2>2, <2>3 DEF Stream, Aside
  <2> HIDE DEF w
  <2> QED
    BY <1>2, <1>3, <1>5, <2>4 DEF w
<1> QED
  BY <1>4, <1>5

\* All four writers, accepted or refused.
LEMMA WriteSound ==
  ASSUME NEW size \in 1 .. MaxLen, NEW s, Sound(s, size),
         NEW len \in Nat, NEW first, NEW rest, NEW whole,
         whole \in Seq(Byte), Len(whole) = len,
         s.WPos + len >= size =>
           /\ first \in Seq(Byte)
           /\ rest \in Seq(Byte) /\ Len(rest) = s.WPos + len - size
  PROVE  Sound(write(s, len, first, rest, whole).s, size)
<1> DEFINE t == write(s, len, first, rest, whole).s
<1> USE MaxLenAssumption
<1>0. s \in Stream(size)
  BY DEF Sound
<1>1. CASE len = 0
  BY <1>1 DEF write, Refuse
<1>2. CASE len > 0 /\ Stream_space(s) < len
  BY <1>2 DEF write, Refuse
<1>3. CASE len > 0 /\ ~ (Stream_space(s) < len)
  <2>1. /\ s.Overflow = 1 => len <= s.RPos - s.WPos
        /\ s.Overflow = 0 => len <= size + s.RPos - s.WPos
    BY <1>0, <1>3, SpaceIsReal
  <2>2. /\ t \in Stream(size)
        /\ t.RPos = s.RPos /\ t.ReadLimit = s.ReadLimit
        /\ s.WriteLimit >= 0 => t.WriteLimit = s.WriteLimit - len
        /\ s.WriteLimit < 0 => t.WriteLimit = s.WriteLimit
        /\ s.WPos + len >= size => t.WPos = s.WPos + len - size /\ t.Overflow = 1
        /\ s.WPos + len < size => t.WPos = s.WPos + len /\ t.Overflow = s.Overflow
    BY <1>3, Stored
  <2>3. \/ s.WPos + len >= size /\ t.WPos = s.WPos + len - size /\ t.Overflow = 1
        \/ s.WPos + len < size /\ t.WPos = s.WPos + len /\ t.Overflow = s.Overflow
    <3> HIDE DEF t
    <3> QED
      BY <1>0, <2>2, Types
  <2>4. Sound(t, size)
    <3> HIDE DEF t
    <3> QED
      BY <1>0, <2>1, <2>2, <2>3, WriterAdvanced
  <2> QED
    BY <2>4
<1>4. Stream_space(s) \in Int
  BY <1>0, Types, Filled DEF Stream_space, Stream_spaceLimit
<1> QED
  BY <1>1, <1>2, <1>3

\* Reversing bytes gives as many bytes.
LEMMA ReverseType ==
  ASSUME NEW v \in Seq(Byte)
  PROVE  Reverse(v) \in Seq(Byte) /\ Len(Reverse(v)) = Len(v)
  BY DEF Reverse

\* So does repeating one.
LEMMA RepeatType ==
  ASSUME NEW b \in Byte, NEW n \in Nat
  PROVE  Repeat(b, n) \in Seq(Byte) /\ Len(Repeat(b, n)) = n
  BY DEF Repeat

\* A piece of some bytes, and its length.
LEMMA SubType ==
  ASSUME NEW v \in Seq(Byte), NEW m \in 1 .. Len(v) + 1, NEW n \in 0 .. Len(v)
  PROVE  SubSeq(v, m, n) \in Seq(Byte)
         /\ Len(SubSeq(v, m, n)) = IF m <= n THEN n - m + 1 ELSE 0
  OBVIOUS

\* Stream_writeBytes: the two pieces are as long as they should be.
LEMMA WriteBytesSound ==
  ASSUME NEW size \in 1 .. MaxLen, NEW s, Sound(s, size),
         NEW val \in Seq(Byte)
  PROVE  Sound(Stream_writeBytes(s, val).s, size)
<1> DEFINE tmpLen == s.Size - s.WPos
           first  == SubSeq(val, 1, tmpLen)
           rest   == SubSeq(val, tmpLen + 1, Len(val))
<1> USE MaxLenAssumption
<1>0. s \in Stream(size)
  BY DEF Sound
<1>1. tmpLen \in 1 .. size /\ tmpLen = size - s.WPos /\ s.WPos \in Nat
  BY <1>0, Types
<1>2. ASSUME s.WPos + Len(val) >= size
      PROVE  /\ first \in Seq(Byte)
             /\ rest \in Seq(Byte) /\ Len(rest) = s.WPos + Len(val) - size
  <2>1. tmpLen <= Len(val)
    BY <1>1, <1>2
  <2> HIDE DEF tmpLen
  <2>2. first \in Seq(Byte)
    BY <1>1, <2>1, SubType
  <2>3. rest \in Seq(Byte) /\ Len(rest) = Len(val) - tmpLen
    BY <1>1, <2>1, SubType
  <2> QED
    BY <1>1, <2>2, <2>3
<1>3. Sound(write(s, Len(val), first, rest, val).s, size)
  <2> HIDE DEF first, rest
  <2> QED
    BY <1>2, WriteSound
<1> QED
  BY <1>3 DEF Stream_writeBytes

\* Stream_writeBytesReverse, with the pieces cut from the other end.
LEMMA WriteBytesReverseSound ==
  ASSUME NEW size \in 1 .. MaxLen, NEW s, Sound(s, size),
         NEW val \in Seq(Byte)
  PROVE  Sound(Stream_writeBytesReverse(s, val).s, size)
<1> DEFINE len   == Len(val) - (s.Size - s.WPos)
           first == Reverse(SubSeq(val, len + 1, Len(val)))
           rest  == Reverse(SubSeq(val, 1, len))
           whole == Reverse(val)
<1> USE MaxLenAssumption
<1>0. s \in Stream(size)
  BY DEF Sound
<1>1. len = Len(val) + s.WPos - size /\ s.WPos \in 0 .. size - 1
  BY <1>0, Types
<1>2. ASSUME s.WPos + Len(val) >= size
      PROVE  /\ first \in Seq(Byte)
             /\ rest \in Seq(Byte) /\ Len(rest) = s.WPos + Len(val) - size
  <2>1. len \in 0 .. Len(val)
    BY <1>1, <1>2
  <2> HIDE DEF len
  <2>2. first \in Seq(Byte)
    <3>1. len + 1 \in 1 .. Len(val) + 1 /\ Len(val) \in 0 .. Len(val)
      BY <2>1
    <3>2. SubSeq(val, len + 1, Len(val)) \in Seq(Byte)
      BY <3>1, SubType
    <3> QED
      BY <3>2, ReverseType
  <2>3. SubSeq(val, 1, len) \in Seq(Byte) /\ Len(SubSeq(val, 1, len)) = len
    BY <2>1, SubType
  <2>4. rest \in Seq(Byte) /\ Len(rest) = len
    BY <2>3, ReverseType
  <2> QED
    BY <1>1, <2>2, <2>4
<1>3. whole \in Seq(Byte) /\ Len(whole) = Len(val) /\ Len(val) \in Nat
  BY ReverseType
<1>4. Sound(write(s, Len(val), first, rest, whole).s, size)
  <2> HIDE DEF first, rest, whole
  <2> QED
    BY <1>2, <1>3, WriteSound
<1> QED
  BY <1>4 DEF Stream_writeBytesReverse

\* Stream_writePadding: whatever the bytes are, there are as many as asked.
LEMMA WritePaddingSound ==
  ASSUME NEW size \in 1 .. MaxLen, NEW s, Sound(s, size),
         NEW val \in Byte, NEW n \in Nat
  PROVE  Sound(Stream_writePadding(s, val, n).s, size)
<1> DEFINE tmpLen == s.Size - s.WPos
           next   == (val + tmpLen) % Bytes
           first  == Repeat(val, tmpLen)
           rest   == Repeat(next, n - tmpLen)
           whole  == Repeat(val, n)
<1> USE MaxLenAssumption, BytesAssumption
<1>0. s \in Stream(size)
  BY DEF Sound
<1>1. tmpLen \in 1 .. size /\ tmpLen = size - s.WPos /\ s.WPos \in Nat
  BY <1>0, Types
<1>2. next \in Byte
  <2> HIDE DEF tmpLen
  <2> QED
    BY <1>1 DEF Byte
<1>3. ASSUME s.WPos + n >= size
      PROVE  /\ first \in Seq(Byte)
             /\ rest \in Seq(Byte) /\ Len(rest) = s.WPos + n - size
  <2>1. tmpLen \in Nat /\ n - tmpLen \in Nat /\ n - tmpLen = s.WPos + n - size
    BY <1>1, <1>3
  <2> HIDE DEF tmpLen, next
  <2>2. first \in Seq(Byte)
    BY <2>1, RepeatType
  <2>3. rest \in Seq(Byte) /\ Len(rest) = n - tmpLen
    BY <1>2, <2>1, RepeatType
  <2> QED
    BY <2>1, <2>2, <2>3
<1>4. whole \in Seq(Byte) /\ Len(whole) = n
  BY RepeatType
<1>5. Sound(write(s, n, first, rest, whole).s, size)
  <2> HIDE DEF first, rest, whole
  <2> QED
    BY <1>3, <1>4, WriteSound
<1> QED
  BY <1>5 DEF Stream_writePadding

\* The typed writers, in either byte order.
LEMMA WriteNumberSound ==
  ASSUME NEW size \in 1 .. MaxLen, NEW s, Sound(s, size),
         NEW val \in Seq(Byte)
  PROVE  Sound(writeNumber(s, val).s, size)
  BY WriteBytesSound, WriteBytesReverseSound DEF writeNumber

\* A read that is delivered, field by field.
LEMMA Taken ==
  ASSUME NEW size \in 1 .. MaxLen, NEW s, Sound(s, size),
         NEW len \in Nat, readable(s, len), NEW t, t = takeRead(s, len)
  PROVE  /\ ~ (Stream_available(s) < len)
         /\ t \in Stream(size)
         /\ t.Data = s.Data /\ t.WPos = s.WPos /\ t.WriteLimit = s.WriteLimit
         /\ Aside(t) = Aside(s)
         /\ s.ReadLimit >= 0 => t.ReadLimit = s.ReadLimit - len
         /\ s.ReadLimit < 0 => t.ReadLimit = s.ReadLimit
         /\ s.RPos + len >= size => t.RPos = s.RPos + len - size /\ t.Overflow = 0
         /\ s.RPos + len < size => t.RPos = s.RPos + len /\ t.Overflow = s.Overflow
<1> DEFINE c == chargeReadLimit(s, len)
<1> USE MaxLenAssumption
<1>0. s \in Stream(size)
  BY DEF Sound
<1>1. Stream_available(s) \in Int
  BY <1>0, Types, Filled DEF Stream_available, Stream_availableLimit
<1>2. ~ (Stream_available(s) < len)
  BY <1>1 DEF readable
<1>3. /\ s.ReadLimit >= 0 => len <= s.ReadLimit
      /\ s.RPos + len < 2 * size
  BY <1>0, <1>2, AvailableIsReal
<1>4. /\ c \in Stream(size)
      /\ c.Data = s.Data /\ c.WPos = s.WPos /\ c.RPos = s.RPos
      /\ c.Overflow = s.Overflow /\ c.WriteLimit = s.WriteLimit
      /\ Aside(c) = Aside(s)
      /\ s.ReadLimit >= 0 => c.ReadLimit = s.ReadLimit - len
      /\ s.ReadLimit < 0 => c.ReadLimit = s.ReadLimit
  <2>1. CASE s.ReadLimit >= 0
    <3> DEFINE l == s.ReadLimit - len
    <3>1. l \in -1 .. size /\ c = [s EXCEPT !.ReadLimit = l]
      BY <1>0, <1>3, <2>1, Types DEF chargeReadLimit, Stream_isReadLimited
    <3>2. /\ c \in Stream(size) /\ c.ReadLimit = l
          /\ c.Data = s.Data /\ c.WPos = s.WPos /\ c.RPos = s.RPos
          /\ c.Overflow = s.Overflow /\ c.WriteLimit = s.WriteLimit
          /\ Aside(c) = Aside(s)
      <4> HIDE DEF c, l
      <4> QED
        BY <1>0, <3>1 DEF Stream, NoLimit, Aside
    <3> QED
      BY <1>0, <2>1, <3>2, Types
  <2>2. CASE ~ (s.ReadLimit >= 0)
    <3>1. c = s
      BY <2>2 DEF chargeReadLimit, Stream_isReadLimited
    <3> QED
      BY <1>0, <2>2, <3>1, Types
  <2> QED
    BY <2>1, <2>2
<1>5. t = IF s.RPos + len >= size
          THEN [c EXCEPT !.RPos = s.RPos + len - size, !.Overflow = 0]
          ELSE [c EXCEPT !.RPos = s.RPos + len]
  BY <1>0, Types DEF takeRead
<1> HIDE DEF c
<1>6. CASE s.RPos + len >= size
  <2> DEFINE r == s.RPos + len - size
  <2>1. r \in 0 .. size - 1
    BY <1>0, <1>3, <1>6, Types
  <2>2. t = [c EXCEPT !.RPos = r, !.Overflow = 0]
    BY <1>5, <1>6
  <2>3. /\ t \in Stream(size)
        /\ t.Data = c.Data /\ t.WPos = c.WPos /\ t.RPos = r /\ t.Overflow = 0
        /\ t.WriteLimit = c.WriteLimit /\ t.ReadLimit = c.ReadLimit
        /\ Aside(t) = Aside(c)
    <3> HIDE DEF r
    <3> QED
      BY <1>4, <2>1, <2>2, Flags DEF Stream, Aside
  <2>4. ~ (s.RPos + len < size)
    BY <1>0, <1>6, Types
  <2> QED
    BY <1>2, <1>4, <2>3, <2>4
<1>7. CASE ~ (s.RPos + len >= size)
  <2> DEFINE r == s.RPos + len
  <2>1. r \in 0 .. size - 1
    BY <1>0, <1>7, Types
  <2>2. t = [c EXCEPT !.RPos = r]
    BY <1>5, <1>7
  <2>3. /\ t \in Stream(size)
        /\ t.Data = c.Data /\ t.WPos = c.WPos /\ t.RPos = r
        /\ t.Overflow = c.Overflow
        /\ t.WriteLimit = c.WriteLimit /\ t.ReadLimit = c.ReadLimit
        /\ Aside(t) = Aside(c)
    <3> HIDE DEF r
    <3> QED
      BY <1>4, <2>1, <2>2 DEF Stream, Aside
  <2> QED
    BY <1>2, <1>4, <1>7, <2>3
<1> QED
  BY <1>6, <1>7

\* Both readers: the bytes they deliver aside, they take len bytes.
LEMMA TakeSound ==
  ASSUME NEW size \in 1 .. MaxLen, NEW s, Sound(s, size),
         NEW len \in Nat, readable(s, len)
  PROVE  Sound(takeRead(s, len), size)
<1> DEFINE t == takeRead(s, len)
<1> USE MaxLenAssumption
<1>0. s \in Stream(size)
  BY DEF Sound
<1>1. /\ ~ (Stream_available(s) < len)
      /\ t \in Stream(size) /\ t.WPos = s.WPos /\ t.WriteLimit = s.WriteLimit
      /\ s.ReadLimit >= 0 => t.ReadLimit = s.ReadLimit - len
      /\ s.ReadLimit < 0 => t.ReadLimit = s.ReadLimit
      /\ s.RPos + len >= size => t.RPos = s.RPos + len - size /\ t.Overflow = 0
      /\ s.RPos + len < size => t.RPos = s.RPos + len /\ t.Overflow = s.Overflow
  BY Taken
<1> HIDE DEF t
<1>2. /\ s.Overflow = 1 => len <= size + s.WPos - s.RPos
      /\ s.Overflow = 0 => len <= s.WPos - s.RPos
  BY <1>0, <1>1, AvailableIsReal
<1>3. \/ s.RPos + len >= size /\ t.RPos = s.RPos + len - size /\ t.Overflow = 0
      \/ s.RPos + len < size /\ t.RPos = s.RPos + len /\ t.Overflow = s.Overflow
  BY <1>0, <1>1, Types
<1>4. Sound(t, size)
  BY <1>0, <1>1, <1>2, <1>3, ReaderAdvanced
<1> QED
  BY <1>4 DEF t

\* Stream_readBytes and Stream_readBytesReverse, delivered or refused.
LEMMA ReadSound ==
  ASSUME NEW size \in 1 .. MaxLen, NEW s, Sound(s, size),
         NEW len \in Nat
  PROVE  /\ Sound(Stream_readBytes(s, len).s, size)
         /\ Sound(Stream_readBytesReverse(s, len).s, size)
  BY TakeSound DEF Stream_readBytes, Stream_readBytesReverse, Deliver, ReadRefuse

\* The typed readers, in either byte order.
LEMMA ReadNumberSound ==
  ASSUME NEW size \in 1 .. MaxLen, NEW s, Sound(s, size),
         NEW len \in Nat
  PROVE  Sound(readNumber(s, len).s, size)
<1>1. ASSUME NEW r, r \in {Stream_readBytes(s, len), Stream_readBytesReverse(s, len)}
      PROVE  Sound([r EXCEPT !.val = Repeat(0, len)].s, size)
  <2>1. [r EXCEPT !.val = Repeat(0, len)].s = r.s
    BY <1>1 DEF Stream_readBytes, Stream_readBytesReverse, Deliver, ReadRefuse
  <2> QED
    BY <1>1, <2>1, ReadSound
<1> QED
  BY <1>1, ReadSound DEF readNumber

\* Stream_reset, Stream_resetIO and Stream_clear of a stream without limits.
LEMMA ResetSound ==
  ASSUME NEW size \in 1 .. MaxLen, NEW s, Sound(s, size),
         NEW v, v \in {Stream_reset(s), Stream_resetIO(s), Stream_clear(s)}
  PROVE  /\ v \in Stream(size) /\ Consistent(v)
         /\ ~ Stream_isReadLimited(s) => Sound(v, size)
<1> DEFINE zeros == [i \in 0 .. size - 1 |-> 0]
           t     == Stream_reset(s)
           u     == Stream_clear(s)
           x     == Stream_resetIO(s)
<1> USE MaxLenAssumption, BytesAssumption
<1>0. s \in Stream(size)
  BY DEF Sound
<1>1. 0 \in 0 .. size - 1 /\ zeros \in [0 .. size - 1 -> Byte]
  BY DEF Byte
<1>2. /\ t = [s EXCEPT !.RPos = 0, !.WPos = 0, !.Overflow = 0]
      /\ u = [t EXCEPT !.Data = zeros]
      /\ x = [s EXCEPT !.RPos = 0, !.WPos = 0, !.Overflow = 0,
                       !.InReceive = FALSE, !.InTransmit = FALSE]
  BY <1>0, Types DEF Stream_reset, Stream_clear, Stream_resetIO
<1>3. /\ t \in Stream(size) /\ t.RPos = 0 /\ t.WPos = 0 /\ t.Overflow = 0
      /\ t.WriteLimit = s.WriteLimit /\ t.ReadLimit = s.ReadLimit
  <2> HIDE DEF t
  <2> QED
    BY <1>0, <1>1, <1>2, Flags DEF Stream
<1>4. /\ u \in Stream(size) /\ u.RPos = 0 /\ u.WPos = 0 /\ u.Overflow = 0
      /\ u.WriteLimit = s.WriteLimit /\ u.ReadLimit = s.ReadLimit
  <2> HIDE DEF t, u, zeros
  <2> QED
    BY <1>1, <1>2, <1>3 DEF Stream
<1>5. /\ ~ Stream_isReadLimited(s) => s.ReadLimit < 0
      /\ s.WriteLimit \in -1 .. size /\ s.ReadLimit \in Int
  BY <1>0, Types DEF Stream_isReadLimited
<1>8. /\ x \in Stream(size) /\ x.RPos = 0 /\ x.WPos = 0 /\ x.Overflow = 0
      /\ x.WriteLimit = s.WriteLimit /\ x.ReadLimit = s.ReadLimit
  <2> HIDE DEF x
  <2> QED
    BY <1>0, <1>1, <1>2, Flags DEF Stream
<1> HIDE DEF t, u, x
<1>6. /\ v \in Stream(size) /\ v.RPos = 0 /\ v.WPos = 0 /\ v.Overflow = 0
      /\ v.WriteLimit = s.WriteLimit /\ v.ReadLimit = s.ReadLimit
  <2>1. v \in {t, u, x}
    BY DEF t, u, x
  <2> QED
    BY <1>3, <1>4, <1>8, <2>1
<1>7. Consistent(v)
  BY <1>6 DEF Consistent
<1>9. ASSUME ~ Stream_isReadLimited(s)
      PROVE  Sound(v, size)
  <2>1. Straight(v, size)
    BY <1>5, <1>6, <1>9 DEF Straight
  <2> QED
    BY <1>6, <2>1, Shapes
<1> QED
  BY <1>6, <1>7, <1>9

\* The two calls that set a limit clamp it to what is there.
LEMMA LimitSound ==
  ASSUME NEW size \in 1 .. MaxLen, NEW s, Sound(s, size),
         NEW len \in NoLimit .. size
  PROVE  /\ Sound(Stream_setWriteLimit(s, len), size)
         /\ Sound(Stream_setReadLimit(s, len), size)
<1> DEFINE t == Stream_setWriteLimit(s, len)
           u == Stream_setReadLimit(s, len)
           l == IF Stream_spaceReal(s) < len THEN Stream_spaceReal(s) ELSE len
           m == IF Stream_availableReal(s) < len THEN Stream_availableReal(s)
                                                 ELSE len
<1> USE MaxLenAssumption
<1>0. s \in Stream(size) /\ (Wrapped(s, size) \/ Straight(s, size))
  BY Shapes DEF Sound
<1>1. /\ l \in -1 .. size /\ l <= Stream_spaceReal(s)
      /\ m \in -1 .. size /\ m <= Stream_availableReal(s)
  BY <1>0, Types, Filled, SMTT(30) DEF Wrapped, Straight, NoLimit
<1>2. t = [s EXCEPT !.WriteLimit = l] /\ u = [s EXCEPT !.ReadLimit = m]
  BY DEF Stream_setWriteLimit, Stream_setReadLimit
<1> HIDE DEF t, u, l, m
<1>3. /\ t \in Stream(size) /\ t.WriteLimit = l /\ t.ReadLimit = s.ReadLimit
      /\ t.WPos = s.WPos /\ t.RPos = s.RPos /\ t.Overflow = s.Overflow
  BY <1>0, <1>1, <1>2 DEF Stream, NoLimit
<1>4. /\ u \in Stream(size) /\ u.WriteLimit = s.WriteLimit /\ u.ReadLimit = m
      /\ u.WPos = s.WPos /\ u.RPos = s.RPos /\ u.Overflow = s.Overflow
  BY <1>0, <1>1, <1>2 DEF Stream, NoLimit
<1>5. Wrapped(s, size) => Wrapped(t, size) /\ Wrapped(u, size)
  BY <1>0, <1>1, <1>3, <1>4, Filled DEF Wrapped
<1>6. Straight(s, size) => Straight(t, size) /\ Straight(u, size)
  BY <1>0, <1>1, <1>3, <1>4, Filled DEF Straight
<1>7. Sound(t, size) /\ Sound(u, size)
  BY <1>0, <1>3, <1>4, <1>5, <1>6, Shapes
<1> QED
  BY <1>7 DEF t, u

\* The byte order is no part of the shape.
LEMMA OrderSound ==
  ASSUME NEW size \in 1 .. MaxLen, NEW s, Sound(s, size),
         NEW foreign \in BOOLEAN
  PROVE  Sound(Stream_setByteOrder(s, foreign), size)
<1> DEFINE t == Stream_setByteOrder(s, foreign)
<1>0. s \in Stream(size)
  BY DEF Sound
<1>1. t = [s EXCEPT !.OrderFn = foreign]
  BY DEF Stream_setByteOrder
<1> HIDE DEF t
<1>2. /\ t \in Stream(size)
      /\ t.WriteLimit = s.WriteLimit /\ t.ReadLimit = s.ReadLimit
      /\ t.WPos = s.WPos /\ t.RPos = s.RPos /\ t.Overflow = s.Overflow
  BY <1>0, <1>1 DEF Stream
<1>3. Sound(t, size)
  BY <1>0, <1>2, Shapes DEF Wrapped, Straight
<1> QED
  BY <1>3 DEF t

\* A new stream, over a buffer of any contents.
LEMMA InitSound ==
  ASSUME NEW size \in 1 .. MaxLen, NEW d \in [0 .. size - 1 -> Byte]
  PROVE  Sound(Stream_init(d, size), size)
<1> DEFINE t == Stream_init(d, size)
<1> USE MaxLenAssumption
<1>1. t \in Stream(size)
  BY DEF Stream_init, Stream, NoLimit
<1>2. Straight(t, size)
  BY DEF Stream_init, Straight, NoLimit
<1> QED
  BY <1>1, <1>2, Shapes

-----------------------------------------------------------------------------
(* The bytes in the ring. *)

\* The i-th slot from position p on.
Ahead(p, i, size) == IF p + i - 1 < size THEN p + i - 1 ELSE p + i - 1 - size

\* A position n slots further on.
Further(p, n, q, size) == \/ p + n < size /\ q = p + n
                          \/ p + n >= size /\ q = p + n - size

\* The slots of a ring are those of its buffer, in the order of the code's sums.
LEMMA AheadIs ==
  ASSUME NEW size \in Nat \ {0}, NEW p \in 0 .. size - 1, NEW i \in 1 .. size
  PROVE  /\ Ahead(p, i, size) \in 0 .. size - 1
         /\ (p + i - 1) % size = Ahead(p, i, size)
<1> DEFINE a == p + i - 1
<1>1. /\ a \in 0 .. 2 * size - 1
      /\ a < size => Ahead(p, i, size) = a
      /\ a >= size => Ahead(p, i, size) = a - size
  BY DEF Ahead
<1>2. Ahead(p, i, size) \in 0 .. size - 1
  BY DEF Ahead
<1> HIDE DEF a
<1>3. /\ a < size => a % size = a
      /\ a >= size => a % size = a - size
  BY <1>1
<1> QED
  BY <1>1, <1>2, <1>3 DEF a

\* The slots that follow a position further on.
LEMMA AheadAdds ==
  ASSUME NEW size \in Nat \ {0}, NEW p \in 0 .. size - 1, NEW q \in 0 .. size - 1,
         NEW n \in 0 .. size, Further(p, n, q, size),
         NEW i \in 1 .. size, n + i <= size
  PROVE  Ahead(q, i, size) = Ahead(p, n + i, size)
  BY DEF Ahead, Further

\* No slot comes twice on one way round.
LEMMA AheadDiffers ==
  ASSUME NEW size \in Nat \ {0}, NEW p \in 0 .. size - 1,
         NEW i \in 1 .. size, NEW j \in 1 .. size, i # j
  PROVE  Ahead(p, i, size) # Ahead(p, j, size)
  BY DEF Ahead

\* The writer stands behind the last byte that is available.
LEMMA WriterIsBehind ==
  ASSUME NEW size \in 1 .. MaxLen, NEW s, Sound(s, size)
  PROVE  /\ Stream_availableReal(s) \in 0 .. size
         /\ Stream_spaceReal(s) = size - Stream_availableReal(s)
         /\ Further(s.RPos, Stream_availableReal(s), s.WPos, size)
<1> USE MaxLenAssumption
<1>0. s \in Stream(size) /\ (Wrapped(s, size) \/ Straight(s, size))
  BY Shapes DEF Sound
<1> DEFINE n == Stream_availableReal(s)
           m == Stream_spaceReal(s)
           r == s.RPos
           w == s.WPos
<1>1. /\ size \in Nat /\ r \in 0 .. size - 1 /\ w \in 0 .. size - 1
      /\ \/ n = size + w - r /\ m = r - w /\ w <= r
         \/ n = w - r /\ m = size + r - w /\ r <= w
  BY <1>0, Types, Filled DEF Wrapped, Straight
<1> HIDE DEF n, m, r, w
<1>2. n \in 0 .. size /\ m = size - n /\ Further(r, n, w, size)
  BY <1>1 DEF Further
<1> QED
  BY <1>2 DEF n, m, r, w

\* How many bytes there are, and where they stand.
LEMMA ContentsAre ==
  ASSUME NEW size \in 1 .. MaxLen, NEW s, Sound(s, size)
  PROVE  /\ Contents(s) \in Seq(Byte)
         /\ Len(Contents(s)) = Stream_availableReal(s)
         /\ \A i \in 1 .. Stream_availableReal(s) :
              Contents(s)[i] = s.Data[Ahead(s.RPos, i, size)]
<1> DEFINE n == Stream_availableReal(s)
<1> USE MaxLenAssumption
<1>0. /\ s \in Stream(size) /\ s.Size = size
      /\ size \in Nat \ {0} /\ s.RPos \in 0 .. size - 1
      /\ s.Data \in [0 .. size - 1 -> Byte]
  BY Types DEF Sound
<1>1. n \in 0 .. size
  BY WriterIsBehind
<1> HIDE DEF n
<1>2. ASSUME NEW i \in 1 .. n
      PROVE  /\ Ahead(s.RPos, i, size) \in 0 .. size - 1
             /\ (s.RPos + i - 1) % s.Size = Ahead(s.RPos, i, size)
  <2>1. i \in 1 .. size
    BY <1>1
  <2> QED
    BY <1>0, <2>1, AheadIs
<1>3. Contents(s) = [i \in 1 .. n |-> s.Data[(s.RPos + i - 1) % s.Size]]
  BY DEF Contents, n
<1>4. \A i \in 1 .. n : Contents(s)[i] = s.Data[Ahead(s.RPos, i, size)]
  BY <1>2, <1>3
<1>5. \A i \in 1 .. n : s.Data[Ahead(s.RPos, i, size)] \in Byte
  BY <1>0, <1>2
<1>6. Contents(s) \in [1 .. n -> Byte]
  BY <1>3, <1>4, <1>5
<1>7. Contents(s) \in Seq(Byte) /\ Len(Contents(s)) = n
  <2>1. n \in Nat
    BY <1>1
  <2> QED
    BY <1>6, <2>1
<1> QED
  BY <1>4, <1>7 DEF n

\* In e the bytes put stand in the slots from w on; every other slot is as in d.
Laid(d, e, w, put, size) ==
  /\ \A i \in 1 .. Len(put) : e[Ahead(w, i, size)] = put[i]
  /\ \A j \in 0 .. size - 1 :
       (\A i \in 1 .. Len(put) : j # Ahead(w, i, size)) => e[j] = d[j]

\* A stream that has the bytes put behind those it had: they are in the slots
\* that follow the writer, and no other slot has changed.
LEMMA Appends ==
  ASSUME NEW size \in 1 .. MaxLen, NEW s, Sound(s, size), NEW t, Sound(t, size),
         NEW put \in Seq(Byte), t.RPos = s.RPos,
         Stream_availableReal(t) = Stream_availableReal(s) + Len(put),
         Laid(s.Data, t.Data, s.WPos, put, size)
  PROVE  Contents(t) = Contents(s) \o put
<1> DEFINE n == Stream_availableReal(s)
           m == Stream_availableReal(t)
           r == s.RPos
           w == s.WPos
<1>0. size \in Nat \ {0} /\ r \in 0 .. size - 1 /\ w \in 0 .. size - 1
  BY Types, MaxLenAssumption DEF Sound
<1>1. /\ n \in 0 .. size /\ Contents(s) \in Seq(Byte) /\ Len(Contents(s)) = n
      /\ \A i \in 1 .. n : Contents(s)[i] = s.Data[Ahead(r, i, size)]
      /\ Further(r, n, w, size)
  BY ContentsAre, WriterIsBehind
<1>2. /\ m \in 0 .. size /\ Contents(t) \in Seq(Byte) /\ Len(Contents(t)) = m
      /\ \A i \in 1 .. m : Contents(t)[i] = t.Data[Ahead(r, i, size)]
  BY ContentsAre, WriterIsBehind
<1>3. m = n + Len(put) /\ Len(put) \in Nat
  OBVIOUS
<1>4. /\ \A i \in 1 .. Len(put) : t.Data[Ahead(w, i, size)] = put[i]
      /\ \A j \in 0 .. size - 1 :
           (\A i \in 1 .. Len(put) : j # Ahead(w, i, size)) => t.Data[j] = s.Data[j]
  BY DEF Laid
<1> HIDE DEF n, m, r, w
<1>5. \A i \in 1 .. Len(put) : Ahead(w, i, size) = Ahead(r, n + i, size)
  <2> TAKE i \in 1 .. Len(put)
  <2>1. i \in 1 .. size /\ n + i <= size
    BY <1>0, <1>1, <1>2, <1>3
  <2> QED
    BY <1>0, <1>1, <2>1, AheadAdds
<1> DEFINE u == Contents(s) \o put
<1>6. /\ u \in Seq(Byte) /\ Len(u) = m
      /\ \A i \in 1 .. m : u[i] = IF i <= n THEN Contents(s)[i] ELSE put[i - n]
  BY <1>1, <1>2, <1>3
<1> HIDE DEF u
<1>7. ASSUME NEW i \in 1 .. m
      PROVE  Contents(t)[i] = u[i]
  <2>1. CASE i <= n
    <3>1. i \in 1 .. n /\ i \in 1 .. size
      BY <1>1, <1>2, <2>1
    <3>2. \A k \in 1 .. Len(put) : Ahead(r, i, size) # Ahead(w, k, size)
      <4> TAKE k \in 1 .. Len(put)
      <4>1. n + k \in 1 .. size /\ i # n + k
        BY <1>0, <1>1, <1>2, <1>3, <3>1
      <4> QED
        BY <1>0, <1>5, <3>1, <4>1, AheadDiffers
    <3>3. Ahead(r, i, size) \in 0 .. size - 1
      BY <1>0, <3>1, AheadIs
    <3>4. t.Data[Ahead(r, i, size)] = s.Data[Ahead(r, i, size)]
      BY <1>4, <3>2, <3>3
    <3> QED
      BY <1>1, <1>2, <1>6, <2>1, <3>1, <3>4
  <2>2. CASE ~ (i <= n)
    <3>1. i - n \in 1 .. Len(put) /\ n + (i - n) = i
      BY <1>1, <1>2, <1>3, <2>2
    <3>2. t.Data[Ahead(r, i, size)] = put[i - n]
      BY <1>4, <1>5, <3>1
    <3> QED
      BY <1>2, <1>6, <2>2, <3>2
  <2> QED
    BY <2>1, <2>2
<1>8. Contents(t) = u
  BY <1>2, <1>6, <1>7, SeqEqual
<1> QED
  BY <1>8 DEF u

\* What was there before comes first.
LEMMA Behind ==
  ASSUME NEW a \in Seq(Byte), NEW b \in Seq(Byte)
  PROVE  /\ Len(a \o b) = Len(a) + Len(b)
         /\ SubSeq(a \o b, 1, Len(a)) = a
<1> DEFINE c == a \o b
           d == SubSeq(c, 1, Len(a))
<1>1. /\ c \in Seq(Byte) /\ Len(c) = Len(a) + Len(b)
      /\ \A i \in 1 .. Len(a) : c[i] = a[i]
  OBVIOUS
<1> HIDE DEF c
<1>2. /\ d \in Seq(Byte) /\ Len(d) = Len(a)
      /\ \A i \in 1 .. Len(a) : d[i] = c[i]
  BY <1>1
<1> HIDE DEF d
<1>3. d = a
  BY <1>1, <1>2, SeqEqual
<1> QED
  BY <1>1, <1>3 DEF d, c

\* One sequence behind the other.
LEMMA Joined ==
  ASSUME NEW a \in Seq(Byte), NEW b \in Seq(Byte), NEW e, e = a \o b
  PROVE  /\ e \in Seq(Byte) /\ Len(e) = Len(a) + Len(b)
         /\ \A i \in 1 .. Len(a) : e[i] = a[i]
         /\ \A i \in 1 .. Len(b) : e[Len(a) + i] = b[i]
<1>1. /\ e \in Seq(Byte) /\ Len(e) = Len(a) + Len(b)
      /\ \A i \in 1 .. Len(a) + Len(b) :
           e[i] = IF i <= Len(a) THEN a[i] ELSE b[i - Len(a)]
  BY ConcatProperties
<1>2. Len(a) \in Nat /\ Len(b) \in Nat
  OBVIOUS
<1>3. ASSUME NEW i \in 1 .. Len(a)
      PROVE  e[i] = a[i]
  BY <1>1, <1>2
<1>4. ASSUME NEW i \in 1 .. Len(b)
      PROVE  e[Len(a) + i] = b[i]
  <2>1. Len(a) + i \in 1 .. Len(a) + Len(b) /\ ~ (Len(a) + i <= Len(a))
    BY <1>2
  <2>2. Len(a) + i - Len(a) = i
    BY <1>2
  <2>3. e[Len(a) + i] = b[Len(a) + i - Len(a)]
    BY <1>1, <2>1
  <2> QED
    BY <2>2, <2>3
<1> QED
  BY <1>1, <1>3, <1>4

\* A stream whose reader has moved on by n bytes has lost its oldest n.
LEMMA Drops ==
  ASSUME NEW size \in 1 .. MaxLen, NEW s, Sound(s, size), NEW t, Sound(t, size),
         NEW n \in Nat, t.Data = s.Data,
         Stream_availableReal(t) = Stream_availableReal(s) - n,
         Further(s.RPos, n, t.RPos, size)
  PROVE  Contents(t) = SubSeq(Contents(s), n + 1, Len(Contents(s)))
<1> DEFINE a == Stream_availableReal(s)
           b == Stream_availableReal(t)
           p == s.RPos
           q == t.RPos
           u == SubSeq(Contents(s), n + 1, Len(Contents(s)))
<1>0. size \in Nat \ {0} /\ p \in 0 .. size - 1 /\ q \in 0 .. size - 1
  BY Types, MaxLenAssumption DEF Sound
<1>1. /\ a \in 0 .. size /\ Contents(s) \in Seq(Byte) /\ Len(Contents(s)) = a
      /\ \A i \in 1 .. a : Contents(s)[i] = s.Data[Ahead(p, i, size)]
  BY ContentsAre, WriterIsBehind
<1>2. /\ b \in 0 .. size /\ Contents(t) \in Seq(Byte) /\ Len(Contents(t)) = b
      /\ \A i \in 1 .. b : Contents(t)[i] = s.Data[Ahead(q, i, size)]
  BY ContentsAre, WriterIsBehind
<1>3. b = a - n /\ Further(p, n, q, size)
  OBVIOUS
<1> HIDE DEF a, b, p, q
<1>4. n \in 0 .. size
  BY <1>0, <1>1, <1>2, <1>3
<1>5. /\ u \in Seq(Byte) /\ Len(u) = b
      /\ \A i \in 1 .. b : u[i] = Contents(s)[n + i]
  BY <1>1, <1>2, <1>3, <1>4
<1> HIDE DEF u
<1>6. ASSUME NEW i \in 1 .. b
      PROVE  Contents(t)[i] = u[i]
  <2>1. n + i \in 1 .. a /\ i \in 1 .. size /\ n + i <= size
    BY <1>1, <1>2, <1>3, <1>4
  <2>2. Ahead(q, i, size) = Ahead(p, n + i, size)
    BY <1>0, <1>3, <1>4, <2>1, AheadAdds
  <2> QED
    BY <1>1, <1>2, <1>5, <2>1, <2>2
<1>7. Contents(t) = u
  BY <1>2, <1>5, <1>6, SeqEqual
<1> QED
  BY <1>7 DEF u

\* memcpy, slot by slot.
LEMMA CopyIs ==
  ASSUME NEW size \in Nat \ {0}, NEW d \in [0 .. size - 1 -> Byte],
         NEW at \in Nat, NEW src \in Seq(Byte), NEW j \in 0 .. size - 1
  PROVE  /\ j < at => memCopy(d, at, src)[j] = d[j]
         /\ j >= at + Len(src) => memCopy(d, at, src)[j] = d[j]
         /\ j >= at /\ j < at + Len(src) => memCopy(d, at, src)[j] = src[j - at + 1]
  BY DEF memCopy

\* Bytes stored in one piece stand in the slots that follow the writer.
LEMMA StoredInOne ==
  ASSUME NEW size \in 1 .. MaxLen, NEW d \in [0 .. size - 1 -> Byte],
         NEW w \in 0 .. size - 1, NEW put \in Seq(Byte), w + Len(put) < size
  PROVE  Laid(d, memCopy(d, w, put), w, put, size)
<1> DEFINE e == memCopy(d, w, put)
<1>0. size \in Nat \ {0} /\ w \in Nat
  BY MaxLenAssumption
<1>1. \A j \in 0 .. size - 1 :
        /\ j < w => e[j] = d[j]
        /\ j >= w + Len(put) => e[j] = d[j]
        /\ j >= w /\ j < w + Len(put) => e[j] = put[j - w + 1]
  BY <1>0, CopyIs
<1> HIDE DEF e
<1>2. ASSUME NEW i \in 1 .. Len(put)
      PROVE  e[Ahead(w, i, size)] = put[i]
  <2> DEFINE j == Ahead(w, i, size)
  <2>1. j \in 0 .. size - 1 /\ j >= w /\ j < w + Len(put) /\ j - w + 1 = i
    BY DEF Ahead
  <2> HIDE DEF j
  <2>2. e[j] = put[j - w + 1]
    BY <1>1, <2>1
  <2> QED
    BY <2>1, <2>2 DEF j
<1>3. ASSUME NEW j \in 0 .. size - 1,
             \A i \in 1 .. Len(put) : j # Ahead(w, i, size)
      PROVE  e[j] = d[j]
  <2>1. CASE j >= w /\ j < w + Len(put)
    <3>1. j - w + 1 \in 1 .. Len(put) /\ Ahead(w, j - w + 1, size) = j
      BY <2>1 DEF Ahead
    <3> QED
      BY <1>3, <3>1
  <2> QED
    BY <1>1, <2>1
<1> QED
  BY <1>2, <1>3 DEF e, Laid

\* memcpy up to the end of the buffer, and from its start.
LEMMA CopyToEnd ==
  ASSUME NEW size \in Nat \ {0}, NEW d \in [0 .. size - 1 -> Byte],
         NEW w \in 0 .. size - 1, NEW src \in Seq(Byte), Len(src) = size - w
  PROVE  \A j \in 0 .. size - 1 :
           /\ j < w => memCopy(d, w, src)[j] = d[j]
           /\ j >= w => memCopy(d, w, src)[j] = src[j - w + 1]
  BY DEF memCopy

LEMMA CopyToStart ==
  ASSUME NEW size \in Nat \ {0}, NEW d \in [0 .. size - 1 -> Byte],
         NEW src \in Seq(Byte)
  PROVE  \A j \in 0 .. size - 1 :
           /\ j >= Len(src) => memCopy(d, 0, src)[j] = d[j]
           /\ j < Len(src) => memCopy(d, 0, src)[j] = src[j + 1]
  BY DEF memCopy

\* Two sequences, one behind the other.
LEMMA TwoPieces ==
  ASSUME NEW first \in Seq(Byte), NEW rest \in Seq(Byte)
  PROVE  /\ first \o rest \in Seq(Byte)
         /\ Len(first \o rest) = Len(first) + Len(rest)
         /\ \A i \in 1 .. Len(first) : (first \o rest)[i] = first[i]
         /\ \A i \in 1 .. Len(rest) : (first \o rest)[Len(first) + i] = rest[i]
  OBVIOUS

\* So do bytes stored in two pieces, up to the end of the buffer and from its start.
LEMMA StoredInTwo ==
  ASSUME NEW size \in 1 .. MaxLen, NEW d \in [0 .. size - 1 -> Byte],
         NEW w \in 0 .. size - 1, NEW first \in Seq(Byte), NEW rest \in Seq(Byte),
         Len(first) = size - w, Len(rest) <= w
  PROVE  Laid(d, memCopy(memCopy(d, w, first), 0, rest), w, first \o rest, size)
<1> DEFINE c == memCopy(d, w, first)
           e == memCopy(c, 0, rest)
           put == first \o rest
<1>0. size \in Nat \ {0} /\ w \in Nat /\ 0 \in Nat
  BY MaxLenAssumption
<1>1. c \in [0 .. size - 1 -> Byte]
  BY <1>0, CopyType
<1>2. \A j \in 0 .. size - 1 :
        /\ j < w => c[j] = d[j]
        /\ j >= w => c[j] = first[j - w + 1]
  BY <1>0, CopyToEnd
<1> HIDE DEF c
<1>3. \A j \in 0 .. size - 1 :
        /\ j >= Len(rest) => e[j] = c[j]
        /\ j < Len(rest) => e[j] = rest[j + 1]
  BY <1>0, <1>1, CopyToStart
<1> HIDE DEF e
<1>4. /\ Len(put) = Len(first) + Len(rest)
      /\ \A i \in 1 .. Len(first) : put[i] = first[i]
      /\ \A i \in 1 .. Len(rest) : put[Len(first) + i] = rest[i]
  BY TwoPieces
<1> HIDE DEF put
<1>5. ASSUME NEW i \in 1 .. Len(put)
      PROVE  e[Ahead(w, i, size)] = put[i]
  <2> DEFINE j == Ahead(w, i, size)
  <2>1. CASE i <= Len(first)
    <3>1. /\ j \in 0 .. size - 1 /\ j >= w /\ j >= Len(rest) /\ j - w + 1 = i
          /\ i \in 1 .. Len(first)
      BY <1>0, <2>1 DEF Ahead
    <3> HIDE DEF j
    <3>2. e[j] = first[j - w + 1]
      BY <1>2, <1>3, <3>1
    <3> QED
      BY <1>4, <3>1, <3>2 DEF j
  <2>2. CASE ~ (i <= Len(first))
    <3>1. /\ j \in 0 .. size - 1 /\ j < Len(rest)
          /\ j + 1 \in 1 .. Len(rest) /\ Len(first) + (j + 1) = i
      BY <1>0, <1>4, <2>2 DEF Ahead
    <3> HIDE DEF j
    <3>2. e[j] = rest[j + 1]
      BY <1>3, <3>1
    <3>3. put[Len(first) + (j + 1)] = rest[j + 1]
      BY <1>4, <3>1
    <3> QED
      BY <3>1, <3>2, <3>3 DEF j
  <2> QED
    BY <2>1, <2>2
<1>6. ASSUME NEW j \in 0 .. size - 1,
             \A i \in 1 .. Len(put) : j # Ahead(w, i, size)
      PROVE  e[j] = d[j]
  <2>1. CASE j >= w
    <3>1. j - w + 1 \in 1 .. Len(put) /\ Ahead(w, j - w + 1, size) = j
      BY <1>0, <1>4, <2>1 DEF Ahead
    <3> QED
      BY <1>6, <3>1
  <2>2. CASE j < Len(rest)
    <3>1. j + Len(first) + 1 \in 1 .. Len(put) /\ Ahead(w, j + Len(first) + 1, size) = j
      BY <1>0, <1>4, <2>2 DEF Ahead
    <3> QED
      BY <1>6, <3>1
  <2>3. CASE j < w /\ j >= Len(rest)
    BY <1>2, <1>3, <2>3
  <2> QED
    BY <1>0, <2>1, <2>2, <2>3
<1> QED
  BY <1>5, <1>6 DEF c, e, put, Laid

\* Bytes stored by a writer stand in the slots that follow it, and only there.
LEMMA StoredAhead ==
  ASSUME NEW size \in 1 .. MaxLen, NEW d \in [0 .. size - 1 -> Byte],
         NEW w \in 0 .. size - 1, NEW len \in 1 .. size,
         NEW first \in Seq(Byte), NEW rest \in Seq(Byte),
         Len(first) = size - w, Len(rest) = w + len - size
  PROVE  /\ first \o rest \in Seq(Byte) /\ Len(first \o rest) = len
         /\ Laid(d, memCopy(memCopy(d, w, first), 0, rest), w, first \o rest, size)
<1>1. Len(rest) <= w /\ Len(first) + Len(rest) = len
  BY MaxLenAssumption
<1> QED
  BY <1>1, TwoPieces, StoredInTwo

\* A writer that has moved on by len slots leaves as many more bytes to read.
LEMMA WriterMoves ==
  ASSUME NEW size \in 1 .. MaxLen, NEW s, Sound(s, size),
         NEW len \in Nat, ~ (Stream_space(s) < len),
         NEW t \in Stream(size), t.RPos = s.RPos,
         s.WPos + len >= size => t.WPos = s.WPos + len - size /\ t.Overflow = 1,
         s.WPos + len < size => t.WPos = s.WPos + len /\ t.Overflow = s.Overflow
  PROVE  Stream_availableReal(t) = Stream_availableReal(s) + len
<1> DEFINE w == s.WPos
           n == Stream_availableReal(s)
           m == Stream_availableReal(t)
<1> USE MaxLenAssumption
<1>1. s \in Stream(size) /\ (Wrapped(s, size) \/ Straight(s, size))
  BY Shapes DEF Sound
<1>2. /\ s.Overflow = 1 => len <= s.RPos - s.WPos
      /\ s.Overflow = 0 => len <= size + s.RPos - s.WPos
  BY <1>1, SpaceIsReal
<1>3. /\ s.Overflow = 1 => n = size + s.WPos - s.RPos /\ s.WPos <= s.RPos
      /\ s.Overflow = 0 => n = s.WPos - s.RPos /\ s.RPos <= s.WPos
  BY <1>1, Filled DEF Wrapped, Straight
<1>4. /\ t.Overflow = 1 => m = size + t.WPos - s.RPos
      /\ t.Overflow = 0 => m = t.WPos - s.RPos
  BY Filled
<1> DEFINE r == s.RPos
           v == t.WPos
<1>5. /\ w \in 0 .. size - 1 /\ r \in 0 .. size - 1
      /\ \/ n = size + w - r /\ w <= r /\ len <= r - w /\ s.Overflow = 1
         \/ n = w - r /\ r <= w /\ len <= size + r - w /\ s.Overflow = 0
  BY <1>1, <1>2, <1>3, Types
<1>6. /\ w + len >= size => v = w + len - size /\ m = size + v - r
      /\ w + len < size => v = w + len
      /\ w + len < size /\ s.Overflow = 1 => m = size + v - r
      /\ w + len < size /\ s.Overflow = 0 => m = v - r
  BY <1>4
<1> HIDE DEF n, m, r, v, w
<1>7. m = n + len
  BY <1>5, <1>6
<1> QED
  BY <1>7 DEF n, m

\* A write that is accepted: the bytes come behind those that were there.
LEMMA WriteAppends ==
  ASSUME NEW size \in 1 .. MaxLen, NEW s, Sound(s, size),
         NEW len \in Nat \ {0}, ~ (Stream_space(s) < len),
         NEW first, NEW rest, NEW whole,
         whole \in Seq(Byte), Len(whole) = len,
         NEW put \in Seq(Byte), Len(put) = len,
         s.WPos + len >= size =>
           /\ first \in Seq(Byte)
           /\ rest \in Seq(Byte) /\ Len(rest) = s.WPos + len - size
           /\ Laid(s.Data, memCopy(memCopy(s.Data, s.WPos, first), 0, rest),
                   s.WPos, put, size),
         s.WPos + len < size =>
           Laid(s.Data, memCopy(s.Data, s.WPos, whole), s.WPos, put, size),
         NEW t, t = write(s, len, first, rest, whole).s
  PROVE  /\ Stream_availableReal(t) = Stream_availableReal(s) + len
         /\ Contents(t) = Contents(s) \o put
<1> DEFINE w == s.WPos
           n == Stream_availableReal(s)
           m == Stream_availableReal(t)
<1> USE MaxLenAssumption
<1>0. s \in Stream(size) /\ (Wrapped(s, size) \/ Straight(s, size))
  BY Shapes DEF Sound
<1>1. /\ s.Overflow = 1 => len <= s.RPos - s.WPos
      /\ s.Overflow = 0 => len <= size + s.RPos - s.WPos
  BY <1>0, SpaceIsReal
<1>2. /\ t \in Stream(size) /\ t.RPos = s.RPos
      /\ s.WPos + len >= size =>
           /\ t.WPos = s.WPos + len - size /\ t.Overflow = 1
           /\ t.Data = memCopy(memCopy(s.Data, s.WPos, first), 0, rest)
      /\ s.WPos + len < size =>
           /\ t.WPos = s.WPos + len /\ t.Overflow = s.Overflow
           /\ t.Data = memCopy(s.Data, s.WPos, whole)
  BY Stored
<1>3. Sound(t, size)
  BY WriteSound
<1>4. m = n + len
  BY <1>2, WriterMoves
<1>5. s.Data \in [0 .. size - 1 -> Byte] /\ w \in 0 .. size - 1 /\ len <= size
  BY <1>0, <1>1, Types DEF Wrapped, Straight
<1>6. Laid(s.Data, t.Data, s.WPos, put, size)
  <2>1. s.WPos + len >= size \/ s.WPos + len < size
    BY <1>5
  <2> QED
    BY <1>2, <2>1
<1> HIDE DEF n, m, w
<1>7. Contents(t) = Contents(s) \o put
  <2>1. Stream_availableReal(t) = Stream_availableReal(s) + Len(put)
    BY <1>4 DEF n, m
  <2> QED
    BY <1>2, <1>3, <1>6, <2>1, Appends
<1> QED
  BY <1>4, <1>7 DEF n, m
-----------------------------------------------------------------------------
(* What a call does, as its caller sees it. *)

\* A limit after len bytes.
Spent(limit, len) == IF limit = NoLimit THEN NoLimit ELSE limit - len

\* A writer that returns r either refuses, for a reason and without a change,
\* or has put the bytes behind those that were there.
Puts(s, r, len, put, size) ==
  \/ r.res = "Stream_ZeroLen" /\ len = 0 /\ r.s = s
  \/ r.res = "Stream_NoSpace" /\ len > Stream_space(s) /\ r.s = s
  \/ /\ r.res = "Stream_Ok" /\ len > 0 /\ len <= Stream_space(s)
     /\ Stream_availableReal(s) + len <= size
     /\ Contents(r.s) = Contents(s) \o put
     /\ r.s.WriteLimit = Spent(s.WriteLimit, len)
     /\ r.s.ReadLimit = s.ReadLimit

\* A reader either refuses or delivers the oldest bytes and drops them.
Takes(s, r, len, got) ==
  \/ r.res = "Stream_ZeroLen" /\ len = 0 /\ r.s = s
  \/ r.res = "Stream_NoAvailable" /\ len > Stream_available(s) /\ r.s = s
  \/ /\ r.res = "Stream_Ok" /\ len > 0 /\ len <= Stream_available(s)
     /\ len <= Len(Contents(s))
     /\ got = SubSeq(Contents(s), 1, len)
     /\ Contents(r.s) = SubSeq(Contents(s), len + 1, Len(Contents(s)))
     /\ r.s.ReadLimit = Spent(s.ReadLimit, len)
     /\ r.s.WriteLimit = s.WriteLimit

\* The length of what may be written, or read, is a number.
LEMMA Allowances ==
  ASSUME NEW size \in 1 .. MaxLen, NEW s, Sound(s, size)
  PROVE  /\ Stream_space(s) \in Int /\ Stream_available(s) \in Int
         /\ Stream_space(s) <= Stream_spaceReal(s)
         /\ Stream_available(s) <= Stream_availableReal(s)
         /\ Stream_availableReal(s) \in Int /\ Stream_spaceReal(s) \in Int
<1>1. s \in Stream(size) /\ s.Overflow \in 0 .. 1 /\ LimitsWithin(s)
  BY Types DEF Sound
<1>2. Stream_availableReal(s) \in Int /\ Stream_spaceReal(s) \in Int
  BY <1>1, Types, Filled, MaxLenAssumption
<1>3. Stream_space(s) \in Int /\ Stream_available(s) \in Int
  BY <1>1, <1>2, Types
  DEF Stream_space, Stream_spaceLimit, Stream_available, Stream_availableLimit
<1> QED
  BY <1>1, <1>2, <1>3 DEF LimitsWithin

\* All four writers.
LEMMA WritePuts ==
  ASSUME NEW size \in 1 .. MaxLen, NEW s, Sound(s, size), NEW len \in Nat,
         NEW first, NEW rest, NEW whole,
         whole \in Seq(Byte), Len(whole) = len,
         NEW put \in Seq(Byte), Len(put) = len,
         s.WPos + len >= size /\ len <= size =>
           /\ first \in Seq(Byte)
           /\ rest \in Seq(Byte) /\ Len(rest) = s.WPos + len - size
           /\ Laid(s.Data, memCopy(memCopy(s.Data, s.WPos, first), 0, rest),
                   s.WPos, put, size),
         s.WPos + len < size =>
           Laid(s.Data, memCopy(s.Data, s.WPos, whole), s.WPos, put, size)
  PROVE  Puts(s, write(s, len, first, rest, whole), len, put, size)
<1> DEFINE r == write(s, len, first, rest, whole)
           t == r.s
<1>0. /\ Stream_space(s) \in Int /\ Stream_space(s) <= Stream_spaceReal(s)
      /\ Stream_availableReal(s) \in Int
      /\ Stream_spaceReal(s) = size - Stream_availableReal(s)
      /\ s.WriteLimit \in -1 .. size
  BY Allowances, WriterIsBehind, Types DEF Sound
<1>1. CASE len = 0
  <2>1. r.res = "Stream_ZeroLen" /\ t = s
    BY <1>1 DEF write, Refuse
  <2> QED
    BY <1>1, <2>1 DEF Puts
<1>2. CASE len > 0 /\ Stream_space(s) < len
  <2>1. r.res = "Stream_NoSpace" /\ t = s
    BY <1>2 DEF write, Refuse
  <2>2. len > Stream_space(s)
    BY <1>0, <1>2
  <2> HIDE DEF r
  <2>3. Puts(s, r, len, put, size)
    BY <2>1, <2>2 DEF Puts
  <2> QED
    BY <2>3 DEF r
<1>3. CASE len > 0 /\ ~ (Stream_space(s) < len)
  <2>1. len \in Nat \ {0} /\ ~ (Stream_space(s) < len)
    BY <1>3
  <2>2. /\ Stream_availableReal(s) \in 0 .. size
        /\ Stream_availableReal(s) + len <= size /\ len <= Stream_space(s)
    BY <1>0, <1>3, WriterIsBehind
  <2>3. len <= size
    BY <2>1, <2>2
  <2>4. s.WPos + len >= size =>
           /\ first \in Seq(Byte)
           /\ rest \in Seq(Byte) /\ Len(rest) = s.WPos + len - size
           /\ Laid(s.Data, memCopy(memCopy(s.Data, s.WPos, first), 0, rest),
                   s.WPos, put, size)
    BY <2>3
  <2>5. /\ r.res = "Stream_Ok" /\ t.ReadLimit = s.ReadLimit
        /\ s.WriteLimit >= 0 => t.WriteLimit = s.WriteLimit - len
        /\ s.WriteLimit < 0 => t.WriteLimit = s.WriteLimit
    BY <2>1, <2>4, Stored
  <2>6. Contents(t) = Contents(s) \o put
    BY <2>1, <2>4, WriteAppends, SMTT(30)
  <2>7. t.WriteLimit = Spent(s.WriteLimit, len)
    <3> HIDE DEF r
    <3> QED
      BY <1>0, <2>5 DEF Spent, NoLimit
  <2> HIDE DEF r
  <2>8. Puts(s, r, len, put, size)
    BY <1>3, <2>5, <2>6, <2>7, <2>2 DEF Puts
  <2> QED
    BY <2>8 DEF r
<1> QED
  BY <1>1, <1>2, <1>3

\* A sequence is its first k elements and the others.
LEMMA SubSplits ==
  ASSUME NEW v \in Seq(Byte), NEW k \in 0 .. Len(v)
  PROVE  SubSeq(v, 1, k) \o SubSeq(v, k + 1, Len(v)) = v
<1> DEFINE a == SubSeq(v, 1, k)
           b == SubSeq(v, k + 1, Len(v))
<1>1. /\ a \in Seq(Byte) /\ Len(a) = k /\ \A i \in 1 .. k : a[i] = v[i]
      /\ b \in Seq(Byte) /\ Len(b) = Len(v) - k
      /\ \A i \in 1 .. Len(v) - k : b[i] = v[k + i]
  OBVIOUS
<1> HIDE DEF a, b
<1> DEFINE u == a \o b
<1>2. /\ u \in Seq(Byte) /\ Len(u) = Len(v)
      /\ \A i \in 1 .. Len(v) : u[i] = v[i]
  <2>1. /\ u \in Seq(Byte) /\ Len(u) = Len(a) + Len(b)
        /\ \A i \in 1 .. Len(a) : u[i] = a[i]
        /\ \A i \in 1 .. Len(b) : u[Len(a) + i] = b[i]
    BY <1>1, TwoPieces
  <2> HIDE DEF u
  <2>2. ASSUME NEW i \in 1 .. Len(v)
        PROVE  u[i] = v[i]
    <3>1. CASE i <= k
      BY <1>1, <2>1, <3>1
    <3>2. CASE ~ (i <= k)
      <4>1. i - k \in 1 .. Len(b) /\ k + (i - k) = i
        BY <1>1, <3>2
      <4>2. u[k + (i - k)] = b[i - k]
        BY <1>1, <2>1, <4>1
      <4>3. b[i - k] = v[k + (i - k)]
        BY <1>1, <4>1
      <4> QED
        BY <4>1, <4>2, <4>3
    <3> QED
      BY <3>1, <3>2
  <2> QED
    BY <1>1, <2>1, <2>2
<1> HIDE DEF u
<1>3. u = v
  BY <1>2, SeqEqual
<1> QED
  BY <1>3 DEF u, a, b

\* Reversing two pieces swaps them.
LEMMA ReversePieces ==
  ASSUME NEW a \in Seq(Byte), NEW b \in Seq(Byte)
  PROVE  Reverse(a \o b) = Reverse(b) \o Reverse(a)
<1> DEFINE m == Len(a)
           n == Len(b)
           c == a \o b
           x == Reverse(a)
           y == Reverse(b)
           z == Reverse(c)
           u == y \o x
<1>1. /\ m \in Nat /\ n \in Nat /\ c \in Seq(Byte) /\ Len(c) = m + n
      /\ \A i \in 1 .. m : c[i] = a[i]
      /\ \A i \in 1 .. n : c[m + i] = b[i]
  BY TwoPieces
<1>2. /\ x \in Seq(Byte) /\ Len(x) = m /\ \A i \in 1 .. m : x[i] = a[m - i + 1]
      /\ y \in Seq(Byte) /\ Len(y) = n /\ \A i \in 1 .. n : y[i] = b[n - i + 1]
  BY ReverseType DEF Reverse
<1> HIDE DEF c
<1>3. /\ z \in Seq(Byte) /\ Len(z) = m + n
      /\ \A i \in 1 .. m + n : z[i] = c[m + n - i + 1]
  BY <1>1, ReverseType DEF Reverse
<1> HIDE DEF x, y, z, m, n
<1>4. /\ u \in Seq(Byte) /\ Len(u) = m + n
      /\ \A i \in 1 .. n : u[i] = y[i]
      /\ \A i \in 1 .. m : u[n + i] = x[i]
  BY <1>1, <1>2, TwoPieces
<1> HIDE DEF u
<1>5. ASSUME NEW i \in 1 .. m + n
      PROVE  z[i] = u[i]
  <2>1. CASE i <= n
    <3>1. n - i + 1 \in 1 .. n /\ i \in 1 .. n /\ m + n - i + 1 = m + (n - i + 1)
      BY <1>1, <2>1
    <3>2. u[i] = b[n - i + 1]
      BY <1>2, <1>4, <3>1
    <3>3. z[i] = c[m + (n - i + 1)]
      BY <1>3, <3>1
    <3> QED
      BY <1>1, <3>1, <3>2, <3>3
  <2>2. CASE ~ (i <= n)
    <3>1. /\ i - n \in 1 .. m /\ n + (i - n) = i
          /\ m - (i - n) + 1 \in 1 .. m /\ m + n - i + 1 = m - (i - n) + 1
      BY <1>1, <2>2
    <3>2. u[i] = a[m - (i - n) + 1]
      <4>1. u[n + (i - n)] = x[i - n]
        BY <1>4, <3>1
      <4> QED
        BY <1>2, <3>1, <4>1
    <3>3. z[i] = c[m - (i - n) + 1]
      BY <1>3, <3>1
    <3> QED
      BY <1>1, <3>1, <3>2, <3>3
  <2> QED
    BY <2>1, <2>2
<1>6. z = u
  BY <1>1, <1>3, <1>4, <1>5, SeqEqual
<1> QED
  BY <1>6 DEF z, u, x, y, c

\* Stream_writeBytes puts the bytes.
LEMMA WriteBytesPuts ==
  ASSUME NEW size \in 1 .. MaxLen, NEW s, Sound(s, size),
         NEW val \in Seq(Byte)
  PROVE  Puts(s, Stream_writeBytes(s, val), Len(val), val, size)
<1> DEFINE tmpLen == s.Size - s.WPos
           first  == SubSeq(val, 1, tmpLen)
           rest   == SubSeq(val, tmpLen + 1, Len(val))
<1> USE MaxLenAssumption
<1>1. /\ tmpLen \in 1 .. size /\ tmpLen = size - s.WPos
      /\ s.WPos \in 0 .. size - 1 /\ s.Data \in [0 .. size - 1 -> Byte]
  BY Types DEF Sound
<1>2. ASSUME s.WPos + Len(val) >= size, Len(val) <= size
      PROVE  /\ first \in Seq(Byte)
             /\ rest \in Seq(Byte) /\ Len(rest) = s.WPos + Len(val) - size
             /\ Laid(s.Data, memCopy(memCopy(s.Data, s.WPos, first), 0, rest),
                     s.WPos, val, size)
  <2>1. tmpLen \in 0 .. Len(val) /\ Len(val) \in 1 .. size
    BY <1>1, <1>2
  <2> HIDE DEF tmpLen
  <2>2. /\ first \in Seq(Byte) /\ Len(first) = tmpLen
        /\ rest \in Seq(Byte) /\ Len(rest) = Len(val) - tmpLen
    BY <1>1, <2>1, SubType
  <2>3. first \o rest = val
    BY <2>1, SubSplits
  <2> HIDE DEF first, rest
  <2>4. Len(first) = size - s.WPos /\ Len(rest) = s.WPos + Len(val) - size
    BY <1>1, <2>2
  <2>5. Laid(s.Data, memCopy(memCopy(s.Data, s.WPos, first), 0, rest),
             s.WPos, first \o rest, size)
    BY <1>1, <2>1, <2>2, <2>4, StoredAhead
  <2> QED
    BY <2>2, <2>3, <2>4, <2>5
<1>3. s.WPos + Len(val) < size =>
        Laid(s.Data, memCopy(s.Data, s.WPos, val), s.WPos, val, size)
  BY <1>1, StoredInOne
<1>4. Puts(s, write(s, Len(val), first, rest, val), Len(val), val, size)
  <2> HIDE DEF first, rest
  <2> QED
    BY <1>2, <1>3, WritePuts
<1> QED
  BY <1>4 DEF Stream_writeBytes

\* Stream_writeBytesReverse puts them last first, wherever the ring ends.
LEMMA WriteBytesReversePuts ==
  ASSUME NEW size \in 1 .. MaxLen, NEW s, Sound(s, size),
         NEW val \in Seq(Byte)
  PROVE  Puts(s, Stream_writeBytesReverse(s, val), Len(val), Reverse(val), size)
<1> DEFINE len   == Len(val) - (s.Size - s.WPos)
           left  == SubSeq(val, 1, len)
           right == SubSeq(val, len + 1, Len(val))
           first == Reverse(right)
           rest  == Reverse(left)
           whole == Reverse(val)
<1> USE MaxLenAssumption
<1>1. /\ len = Len(val) + s.WPos - size /\ len \in Int
      /\ s.WPos \in 0 .. size - 1 /\ s.Data \in [0 .. size - 1 -> Byte]
  BY Types DEF Sound
<1>2. ASSUME s.WPos + Len(val) >= size, Len(val) <= size
      PROVE  /\ first \in Seq(Byte)
             /\ rest \in Seq(Byte) /\ Len(rest) = s.WPos + Len(val) - size
             /\ Laid(s.Data, memCopy(memCopy(s.Data, s.WPos, first), 0, rest),
                     s.WPos, whole, size)
  <2>1. len \in 0 .. Len(val) /\ Len(val) \in 1 .. size
    BY <1>1, <1>2
  <2> HIDE DEF len
  <2>2. /\ left \in Seq(Byte) /\ Len(left) = len
        /\ right \in Seq(Byte) /\ Len(right) = Len(val) - len
    <3>1. left \in Seq(Byte) /\ Len(left) = len
      BY <2>1, SubType
    <3>2. len + 1 \in 1 .. Len(val) + 1 /\ Len(val) \in 0 .. Len(val)
      BY <2>1
    <3>3. right \in Seq(Byte) /\ Len(right) = Len(val) - len
      BY <2>1, <3>2, SubType
    <3> QED
      BY <3>1, <3>3
  <2>3. left \o right = val
    BY <2>1, SubSplits
  <2> HIDE DEF left, right
  <2>4. whole = first \o rest
    BY <2>2, <2>3, ReversePieces
  <2>5. /\ first \in Seq(Byte) /\ Len(first) = Len(right)
        /\ rest \in Seq(Byte) /\ Len(rest) = Len(left)
    BY <2>2, ReverseType
  <2> HIDE DEF first, rest, whole
  <2>6. Len(first) = size - s.WPos /\ Len(rest) = s.WPos + Len(val) - size
    BY <1>1, <2>2, <2>5
  <2>7. Laid(s.Data, memCopy(memCopy(s.Data, s.WPos, first), 0, rest),
             s.WPos, first \o rest, size)
    BY <1>1, <2>1, <2>5, <2>6, StoredAhead
  <2> QED
    BY <2>4, <2>5, <2>6, <2>7
<1>3. whole \in Seq(Byte) /\ Len(whole) = Len(val) /\ Len(val) \in Nat
  BY ReverseType
<1> HIDE DEF first, rest, whole, len
<1>4. s.WPos + Len(val) < size =>
        Laid(s.Data, memCopy(s.Data, s.WPos, whole), s.WPos, whole, size)
  BY <1>1, <1>3, StoredInOne
<1>5. Puts(s, write(s, Len(val), first, rest, whole), Len(val), whole, size)
  BY <1>2, <1>3, <1>4, WritePuts
<1> QED
  BY <1>5 DEF Stream_writeBytesReverse, first, rest, whole, left, right, len

\* Stream_writePadding puts as many bytes as it is asked for.
LEMMA WritePaddingPuts ==
  ASSUME NEW size \in 1 .. MaxLen, NEW s, Sound(s, size),
         NEW val \in Byte, NEW n \in Nat
  PROVE  \E put \in Seq(Byte) :
           /\ Len(put) = n
           /\ Puts(s, Stream_writePadding(s, val, n), n, put, size)
<1> DEFINE tmpLen == s.Size - s.WPos
           next   == (val + tmpLen) % Bytes
           first  == Repeat(val, tmpLen)
           rest   == Repeat(next, n - tmpLen)
           whole  == Repeat(val, n)
<1> USE MaxLenAssumption, BytesAssumption
<1>1. /\ tmpLen \in 1 .. size /\ tmpLen = size - s.WPos
      /\ s.WPos \in 0 .. size - 1 /\ s.Data \in [0 .. size - 1 -> Byte]
  BY Types DEF Sound
<1>2. next \in Byte
  <2> HIDE DEF tmpLen
  <2> QED
    BY <1>1, SMTT(30) DEF Byte
<1>3. whole \in Seq(Byte) /\ Len(whole) = n
  BY RepeatType
<1>4. CASE s.WPos + n >= size /\ n <= size
  <2>1. /\ tmpLen \in Nat /\ n - tmpLen \in Nat /\ n \in 1 .. size
        /\ n - tmpLen = s.WPos + n - size
        /\ ~ (s.WPos + n < size)
    BY <1>1, <1>4
  <2> HIDE DEF tmpLen, next
  <2>2. first \in Seq(Byte) /\ Len(first) = tmpLen
    BY <2>1, RepeatType
  <2>3. rest \in Seq(Byte) /\ Len(rest) = n - tmpLen
    BY <1>2, <2>1, RepeatType
  <2> HIDE DEF first, rest, whole
  <2>4. Len(first) = size - s.WPos /\ Len(rest) = s.WPos + n - size
    BY <1>1, <2>1, <2>2, <2>3
  <2> DEFINE put == first \o rest
  <2>5. /\ put \in Seq(Byte) /\ Len(put) = n
        /\ Laid(s.Data, memCopy(memCopy(s.Data, s.WPos, first), 0, rest),
                s.WPos, put, size)
    BY <1>1, <2>1, <2>2, <2>3, <2>4, StoredAhead
  <2> HIDE DEF put
  <2>6. Puts(s, write(s, n, first, rest, whole), n, put, size)
    BY <1>3, <2>1, <2>2, <2>3, <2>4, <2>5, WritePuts
  <2> QED
    BY <2>5, <2>6 DEF Stream_writePadding, first, rest, whole, next, tmpLen
<1>5. CASE ~ (s.WPos + n >= size /\ n <= size)
  <2> HIDE DEF first, rest, whole
  <2>1. s.WPos + n < size =>
          Laid(s.Data, memCopy(s.Data, s.WPos, whole), s.WPos, whole, size)
    BY <1>1, <1>3, StoredInOne
  <2>2. Puts(s, write(s, n, first, rest, whole), n, whole, size)
    BY <1>3, <1>5, <2>1, WritePuts
  <2> QED
    BY <1>3, <2>2 DEF Stream_writePadding, first, rest, whole, next, tmpLen
<1> QED
  BY <1>4, <1>5

\* The typed writers put the bytes of the number, in the stream's order.
LEMMA WriteNumberPuts ==
  ASSUME NEW size \in 1 .. MaxLen, NEW s, Sound(s, size),
         NEW val \in Seq(Byte)
  PROVE  /\ s.OrderFn =>
              Puts(s, writeNumber(s, val), Len(val), Reverse(val), size)
         /\ ~ s.OrderFn => Puts(s, writeNumber(s, val), Len(val), val, size)
  BY WriteBytesPuts, WriteBytesReversePuts DEF writeNumber

\* What a reader copies out of the ring are the slots from the reader on: in one
\* piece, or up to the end of the buffer and from its start.
LEMMA SliceIs ==
  ASSUME NEW size \in Nat \ {0}, NEW d \in [0 .. size - 1 -> Byte],
         NEW at \in 0 .. size - 1, NEW n \in Nat, at + n <= size
  PROVE  /\ slice(d, at, n) \in Seq(Byte) /\ Len(slice(d, at, n)) = n
         /\ \A i \in 1 .. n : slice(d, at, n)[i] = d[at + i - 1]
<1>1. \A i \in 1 .. n : at + i - 1 \in 0 .. size - 1
  OBVIOUS
<1>2. \A i \in 1 .. n : d[at + i - 1] \in Byte
  BY <1>1
<1> QED
  BY <1>2 DEF slice

\* In one piece, the bytes delivered are the oldest ones.
LEMMA ReadInOne ==
  ASSUME NEW size \in 1 .. MaxLen, NEW s, Sound(s, size),
         NEW len \in Nat, len <= Stream_availableReal(s), s.RPos + len < size
  PROVE  slice(s.Data, s.RPos, len) = SubSeq(Contents(s), 1, len)
<1> DEFINE c == Contents(s)
           n == Stream_availableReal(s)
           r == s.RPos
           d == s.Data
           u == slice(d, r, len)
           v == SubSeq(c, 1, len)
<1>1. /\ size \in Nat \ {0} /\ r \in 0 .. size - 1
      /\ d \in [0 .. size - 1 -> Byte] /\ n \in 0 .. size
  BY Types, MaxLenAssumption, WriterIsBehind DEF Sound
<1>2. /\ c \in Seq(Byte) /\ Len(c) = n
      /\ \A i \in 1 .. n : c[i] = d[Ahead(r, i, size)]
  BY ContentsAre
<1>3. len <= n /\ r + len < size
  OBVIOUS
<1> HIDE DEF c, n, r, d
<1>4. /\ u \in Seq(Byte) /\ Len(u) = len
      /\ \A i \in 1 .. len : u[i] = d[r + i - 1]
  <2>1. r + len <= size
    BY <1>1, <1>3
  <2> QED
    BY <1>1, <2>1, SliceIs
<1>5. /\ v \in Seq(Byte) /\ Len(v) = len /\ \A i \in 1 .. len : v[i] = c[i]
  BY <1>1, <1>2, <1>3
<1> HIDE DEF u, v
<1>6. ASSUME NEW i \in 1 .. len
      PROVE  u[i] = v[i]
  <2>1. Ahead(r, i, size) = r + i - 1 /\ i \in 1 .. n
    BY <1>1, <1>3 DEF Ahead
  <2> QED
    BY <1>2, <1>4, <1>5, <2>1
<1>7. u = v
  BY <1>4, <1>5, <1>6, SeqEqual
<1> QED
  BY <1>7 DEF u, v, c, r, d

\* So they are in two.
LEMMA ReadInTwo ==
  ASSUME NEW size \in 1 .. MaxLen, NEW s, Sound(s, size),
         NEW len \in Nat, len <= Stream_availableReal(s), s.RPos + len >= size
  PROVE  /\ slice(s.Data, s.RPos, size - s.RPos) \in Seq(Byte)
         /\ slice(s.Data, 0, len - (size - s.RPos)) \in Seq(Byte)
         /\ slice(s.Data, s.RPos, size - s.RPos)
              \o slice(s.Data, 0, len - (size - s.RPos))
              = SubSeq(Contents(s), 1, len)
<1> DEFINE c == Contents(s)
           n == Stream_availableReal(s)
           r == s.RPos
           d == s.Data
           k == size - r
           a == slice(d, r, k)
           b == slice(d, 0, len - k)
           u == a \o b
           v == SubSeq(c, 1, len)
<1>1. /\ size \in Nat \ {0} /\ r \in 0 .. size - 1
      /\ d \in [0 .. size - 1 -> Byte] /\ n \in 0 .. size
  BY Types, MaxLenAssumption, WriterIsBehind DEF Sound
<1>2. /\ c \in Seq(Byte) /\ Len(c) = n
      /\ \A i \in 1 .. n : c[i] = d[Ahead(r, i, size)]
  BY ContentsAre
<1>3. len <= n /\ r + len >= size
  OBVIOUS
<1> HIDE DEF c, n, r, d
<1>4. /\ k \in 1 .. size /\ len - k \in Nat /\ r + k <= size /\ 0 + (len - k) <= size
      /\ 0 \in 0 .. size - 1 /\ k = size - r
  BY <1>1, <1>3
<1> HIDE DEF k
<1>5. /\ a \in Seq(Byte) /\ Len(a) = k /\ \A i \in 1 .. k : a[i] = d[r + i - 1]
      /\ b \in Seq(Byte) /\ Len(b) = len - k
      /\ \A i \in 1 .. len - k : b[i] = d[0 + i - 1]
  <2>1. a \in Seq(Byte) /\ Len(a) = k /\ \A i \in 1 .. k : a[i] = d[r + i - 1]
    <3>1. k \in Nat
      BY <1>4
    <3> QED
      BY <1>1, <1>4, <3>1, SliceIs
  <2>2. /\ b \in Seq(Byte) /\ Len(b) = len - k
        /\ \A i \in 1 .. len - k : b[i] = d[0 + i - 1]
    <3> DEFINE l == len - k
    <3>1. l \in Nat /\ 0 + l <= size /\ 0 \in 0 .. size - 1
      BY <1>4
    <3> HIDE DEF l
    <3>2. /\ slice(d, 0, l) \in Seq(Byte) /\ Len(slice(d, 0, l)) = l
          /\ \A i \in 1 .. l : slice(d, 0, l)[i] = d[0 + i - 1]
      BY <1>1, <3>1, SliceIs
    <3> QED
      BY <3>2 DEF l
  <2> QED
    BY <2>1, <2>2
<1> HIDE DEF a, b
<1>6. /\ u \in Seq(Byte) /\ Len(u) = len
      /\ \A i \in 1 .. k : u[i] = a[i]
      /\ \A i \in 1 .. len - k : u[k + i] = b[i]
  <2>1. /\ u \in Seq(Byte) /\ Len(u) = Len(a) + Len(b)
        /\ \A i \in 1 .. Len(a) : u[i] = a[i]
        /\ \A i \in 1 .. Len(b) : u[Len(a) + i] = b[i]
    BY <1>5, TwoPieces
  <2>2. Len(a) = k /\ Len(b) = len - k /\ k + (len - k) = len
    BY <1>4, <1>5
  <2> HIDE DEF u
  <2> QED
    BY <2>1, <2>2
<1>7. /\ v \in Seq(Byte) /\ Len(v) = len /\ \A i \in 1 .. len : v[i] = c[i]
  BY <1>1, <1>2, <1>3
<1> HIDE DEF u, v
<1>8. ASSUME NEW i \in 1 .. len
      PROVE  u[i] = v[i]
  <2>1. v[i] = d[Ahead(r, i, size)]
    <3>1. i \in 1 .. n
      BY <1>1, <1>3
    <3> QED
      BY <1>2, <1>7, <3>1
  <2>2. CASE i <= k
    <3>1. i \in 1 .. k /\ Ahead(r, i, size) = r + i - 1
      BY <1>1, <1>4, <2>2 DEF Ahead
    <3> QED
      BY <1>5, <1>6, <2>1, <3>1
  <2>3. CASE ~ (i <= k)
    <3>1. /\ i - k \in 1 .. len - k /\ k + (i - k) = i
          /\ Ahead(r, i, size) = 0 + (i - k) - 1
      BY <1>1, <1>4, <2>3 DEF Ahead
    <3>2. u[k + (i - k)] = b[i - k] /\ b[i - k] = d[0 + (i - k) - 1]
      BY <1>5, <1>6, <3>1
    <3> QED
      BY <2>1, <3>1, <3>2
  <2> QED
    BY <2>2, <2>3
<1>9. u = v
  BY <1>6, <1>7, <1>8, SeqEqual
<1> QED
  BY <1>5, <1>9 DEF u, v, a, b, k, c, r, d

\* A reader that has moved on by len slots leaves as many fewer bytes to read.
LEMMA ReaderMoves ==
  ASSUME NEW size \in 1 .. MaxLen, NEW s, Sound(s, size),
         NEW len \in Nat, len <= Stream_availableReal(s),
         NEW t \in Stream(size), t.WPos = s.WPos,
         s.RPos + len >= size => t.RPos = s.RPos + len - size /\ t.Overflow = 0,
         s.RPos + len < size => t.RPos = s.RPos + len /\ t.Overflow = s.Overflow
  PROVE  /\ Stream_availableReal(t) = Stream_availableReal(s) - len
         /\ Further(s.RPos, len, t.RPos, size)
<1> DEFINE n == Stream_availableReal(s)
           m == Stream_availableReal(t)
           r == s.RPos
           q == t.RPos
           w == s.WPos
<1>1. s \in Stream(size) /\ (Wrapped(s, size) \/ Straight(s, size))
  BY Shapes DEF Sound
<1>2. len <= n /\ n \in 0 .. size
  BY WriterIsBehind
<1>3. /\ size \in Nat \ {0} /\ r \in 0 .. size - 1 /\ w \in 0 .. size - 1
      /\ q \in 0 .. size - 1
  BY <1>1, Types, MaxLenAssumption
<1>4. /\ \/ s.Overflow = 1 /\ n = size + w - r /\ w <= r
         \/ s.Overflow = 0 /\ n = w - r /\ r <= w
      /\ \/ t.Overflow = 1 /\ m = size + w - q
         \/ t.Overflow = 0 /\ m = w - q
  BY <1>1, Types, Filled DEF Wrapped, Straight
<1>5. /\ r + len >= size => q = r + len - size /\ t.Overflow = 0
      /\ r + len < size => q = r + len /\ t.Overflow = s.Overflow
  OBVIOUS
<1> HIDE DEF n, m, r, q, w
<1>6. m = n - len /\ Further(r, len, q, size)
  BY <1>2, <1>3, <1>4, <1>5 DEF Further
<1> QED
  BY <1>6 DEF n, m, r, q

\* The positions after a read: the bytes taken are gone, the others stay.
LEMMA TakeDrops ==
  ASSUME NEW size \in 1 .. MaxLen, NEW s, Sound(s, size),
         NEW len \in Nat, readable(s, len), NEW t, t = takeRead(s, len)
  PROVE  /\ len > 0 /\ len <= Stream_available(s)
         /\ len <= Stream_availableReal(s)
         /\ Contents(t) = SubSeq(Contents(s), len + 1, Len(Contents(s)))
         /\ t.ReadLimit = Spent(s.ReadLimit, len)
         /\ t.WriteLimit = s.WriteLimit
<1> DEFINE n == Stream_availableReal(s)
<1>0. s \in Stream(size)
  BY DEF Sound
<1>1. /\ t \in Stream(size) /\ t.Data = s.Data /\ t.WPos = s.WPos
      /\ t.WriteLimit = s.WriteLimit
      /\ s.ReadLimit >= 0 => t.ReadLimit = s.ReadLimit - len
      /\ s.ReadLimit < 0 => t.ReadLimit = s.ReadLimit
      /\ s.RPos + len >= size => t.RPos = s.RPos + len - size /\ t.Overflow = 0
      /\ s.RPos + len < size => t.RPos = s.RPos + len /\ t.Overflow = s.Overflow
  BY Taken
<1>2. Sound(t, size)
  BY TakeSound
<1>3. /\ len > 0 /\ len <= Stream_available(s) /\ len <= n /\ n \in 0 .. size
  <2>1. len > 0 /\ len <= Stream_available(s)
    BY DEF readable
  <2> QED
    BY <2>1, Allowances, WriterIsBehind
<1>4. t.ReadLimit = Spent(s.ReadLimit, len)
  BY <1>0, <1>1, Types DEF Spent, NoLimit
<1>5. /\ Stream_availableReal(t) = n - len
      /\ Further(s.RPos, len, t.RPos, size)
  BY <1>1, <1>3, ReaderMoves
<1>6. Contents(t) = SubSeq(Contents(s), len + 1, Len(Contents(s)))
  BY <1>1, <1>2, <1>5, Drops
<1> QED
  BY <1>1, <1>3, <1>4, <1>6

\* Every reader refuses, or moves on over the bytes it delivers.
LEMMA ReadTakes ==
  ASSUME NEW size \in 1 .. MaxLen, NEW s, Sound(s, size), NEW len \in Nat,
         NEW r, NEW got,
         readable(s, len) => /\ r.res = "Stream_Ok" /\ r.s = takeRead(s, len)
                             /\ got = SubSeq(Contents(s), 1, len),
         ~ readable(s, len) => r.res = readError(s, len) /\ r.s = s
  PROVE  Takes(s, r, len, got)
<1>0. Stream_available(s) \in Int
  BY Allowances
<1>1. CASE readable(s, len)
  <2>1. /\ len > 0 /\ len <= Stream_available(s)
        /\ len <= Stream_availableReal(s)
        /\ Contents(r.s) = SubSeq(Contents(s), len + 1, Len(Contents(s)))
        /\ r.s.ReadLimit = Spent(s.ReadLimit, len)
        /\ r.s.WriteLimit = s.WriteLimit
    BY <1>1, TakeDrops
  <2>2. Len(Contents(s)) = Stream_availableReal(s)
    BY ContentsAre
  <2> QED
    BY <1>1, <2>1, <2>2 DEF Takes
<1>2. CASE ~ readable(s, len)
  <2>1. len = 0 \/ (len # 0 /\ len > Stream_available(s))
    BY <1>0, <1>2 DEF readable
  <2>2. CASE len = 0
    BY <1>2, <2>2 DEF Takes, readError
  <2>3. CASE len # 0 /\ len > Stream_available(s)
    BY <1>2, <2>3 DEF Takes, readError
  <2> QED
    BY <2>1, <2>2, <2>3
<1> QED
  BY <1>1, <1>2

\* Stream_readBytes delivers the oldest bytes, in the order they were written.
LEMMA ReadBytesTakes ==
  ASSUME NEW size \in 1 .. MaxLen, NEW s, Sound(s, size), NEW len \in Nat
  PROVE  Takes(s, Stream_readBytes(s, len), len, Stream_readBytes(s, len).val)
<1> DEFINE r == Stream_readBytes(s, len)
<1>1. ASSUME readable(s, len)
      PROVE  /\ r.res = "Stream_Ok" /\ r.s = takeRead(s, len)
             /\ r.val = SubSeq(Contents(s), 1, len)
  <2>1. /\ len <= Stream_availableReal(s) /\ s.Size = size
        /\ s.RPos \in 0 .. size - 1
    BY <1>1, TakeDrops, Types DEF Sound
  <2>2. r.res = "Stream_Ok" /\ r.s = takeRead(s, len)
    BY <1>1 DEF Stream_readBytes, Deliver
  <2>3. CASE s.RPos + len >= size
    <3>1. r.val = slice(s.Data, s.RPos, size - s.RPos)
                    \o slice(s.Data, 0, len - (size - s.RPos))
      BY <1>1, <2>1, <2>3 DEF Stream_readBytes, Deliver
    <3> QED
      BY <2>1, <2>2, <2>3, <3>1, ReadInTwo
  <2>4. CASE s.RPos + len < size
    <3>1. r.val = slice(s.Data, s.RPos, len)
      <4>1. ~ (s.RPos + len >= size)
        BY <2>1, <2>4, MaxLenAssumption
      <4> QED
        BY <1>1, <2>1, <4>1 DEF Stream_readBytes, Deliver
    <3> QED
      BY <2>1, <2>2, <2>4, <3>1, ReadInOne
  <2>5. s.RPos + len >= size \/ s.RPos + len < size
    BY <2>1, MaxLenAssumption
  <2> QED
    BY <2>3, <2>4, <2>5
<1>2. ~ readable(s, len) => r.res = readError(s, len) /\ r.s = s
  BY DEF Stream_readBytes, ReadRefuse
<1> HIDE DEF r
<1>3. Takes(s, r, len, r.val)
  BY <1>1, <1>2, ReadTakes
<1> QED
  BY <1>3 DEF r

\* Stream_readBytesReverse delivers them the other way round.
LEMMA ReadBytesReverseTakes ==
  ASSUME NEW size \in 1 .. MaxLen, NEW s, Sound(s, size), NEW len \in Nat
  PROVE  \E got : /\ Takes(s, Stream_readBytesReverse(s, len), len, got)
                  /\ Stream_readBytesReverse(s, len).res = "Stream_Ok" =>
                       Stream_readBytesReverse(s, len).val = Reverse(got)
<1> DEFINE r   == Stream_readBytesReverse(s, len)
           got == SubSeq(Contents(s), 1, len)
<1>1. ASSUME readable(s, len)
      PROVE  /\ r.res = "Stream_Ok" /\ r.s = takeRead(s, len)
             /\ r.val = Reverse(got)
  <2>1. /\ len <= Stream_availableReal(s) /\ s.Size = size
        /\ s.RPos \in 0 .. size - 1
    BY <1>1, TakeDrops, Types DEF Sound
  <2>2. r.res = "Stream_Ok" /\ r.s = takeRead(s, len)
    BY <1>1 DEF Stream_readBytesReverse, Deliver
  <2>3. CASE s.RPos + len >= size
    <3> DEFINE a == slice(s.Data, s.RPos, size - s.RPos)
               b == slice(s.Data, 0, len - (size - s.RPos))
    <3>1. r.val = Reverse(b) \o Reverse(a)
      BY <1>1, <2>1, <2>3 DEF Stream_readBytesReverse, Deliver
    <3>2. a \in Seq(Byte) /\ b \in Seq(Byte) /\ a \o b = got
      BY <2>1, <2>3, ReadInTwo
    <3> HIDE DEF a, b, r, got
    <3>3. Reverse(a \o b) = Reverse(b) \o Reverse(a)
      BY <3>2, ReversePieces
    <3> QED
      BY <2>2, <3>1, <3>2, <3>3
  <2>4. CASE s.RPos + len < size
    <3>1. r.val = Reverse(slice(s.Data, s.RPos, len))
      <4>1. ~ (s.RPos + len >= size)
        BY <2>1, <2>4, MaxLenAssumption
      <4> QED
        BY <1>1, <2>1, <4>1 DEF Stream_readBytesReverse, Deliver
    <3>2. slice(s.Data, s.RPos, len) = got
      BY <2>1, <2>4, ReadInOne
    <3> HIDE DEF r, got
    <3> QED
      BY <2>2, <3>1, <3>2
  <2>5. s.RPos + len >= size \/ s.RPos + len < size
    BY <2>1, MaxLenAssumption
  <2> QED
    BY <2>3, <2>4, <2>5
<1>2. ~ readable(s, len) => r.res = readError(s, len) /\ r.s = s
  BY DEF Stream_readBytesReverse, ReadRefuse
<1> HIDE DEF r
<1>3. Takes(s, r, len, got)
  <2>1. readable(s, len) => got = SubSeq(Contents(s), 1, len)
    OBVIOUS
  <2> HIDE DEF got
  <2> QED
    BY <1>1, <1>2, <2>1, ReadTakes
<1>4. r.res = "Stream_Ok" => r.val = Reverse(got)
  BY <1>1, <1>2 DEF readError
<1> HIDE DEF got
<1> QED
  BY <1>3, <1>4 DEF r

\* The typed readers deliver the bytes of a number in the stream's order.
LEMMA ReadNumberTakes ==
  ASSUME NEW size \in 1 .. MaxLen, NEW s, Sound(s, size), NEW len \in Nat,
         NEW r, r = readNumber(s, len)
  PROVE  \E got : /\ Takes(s, r, len, got)
                  /\ r.res = "Stream_Ok" /\ s.OrderFn => r.val = Reverse(got)
                  /\ r.res = "Stream_Ok" /\ ~ s.OrderFn => r.val = got
<1> DEFINE u == IF s.OrderFn THEN Stream_readBytesReverse(s, len)
                             ELSE Stream_readBytes(s, len)
<1>1. \E got : /\ Takes(s, u, len, got)
               /\ u.res = "Stream_Ok" /\ s.OrderFn => u.val = Reverse(got)
               /\ u.res = "Stream_Ok" /\ ~ s.OrderFn => u.val = got
  <2>1. CASE s.OrderFn
    BY <2>1, ReadBytesReverseTakes
  <2>2. CASE ~ s.OrderFn
    BY <2>2, ReadBytesTakes
  <2> QED
    BY <2>1, <2>2
<1>2. /\ u.res = "Stream_Ok" => r = u
      /\ u.res # "Stream_Ok" => r = [u EXCEPT !.val = Repeat(0, len)]
  BY DEF readNumber
<1>3. u = [res |-> u.res, s |-> u.s, val |-> u.val]
  BY DEF Stream_readBytes, Stream_readBytesReverse, Deliver, ReadRefuse
<1> HIDE DEF u
<1>4. r.res = u.res /\ r.s = u.s /\ (u.res = "Stream_Ok" => r.val = u.val)
  <2>1. CASE u.res = "Stream_Ok"
    BY <1>2, <2>1
  <2>2. CASE u.res # "Stream_Ok"
    BY <1>2, <1>3, <2>2
  <2> QED
    BY <2>1, <2>2
<1> QED
  BY <1>1, <1>4 DEF Takes

\* The same ring without limits: it is sound whatever the limits promised.
Freed(s) == [s EXCEPT !.WriteLimit = NoLimit, !.ReadLimit = NoLimit]

LEMMA FreedIs ==
  ASSUME NEW size \in 1 .. MaxLen, NEW s \in Stream(size), Consistent(s),
         NEW t, t = Freed(s)
  PROVE  /\ Sound(t, size)
         /\ t.Data = s.Data /\ t.WPos = s.WPos /\ t.RPos = s.RPos
         /\ Stream_availableReal(t) = Stream_availableReal(s)
         /\ Contents(t) = Contents(s)
<1>1. /\ t \in Stream(size)
      /\ t.Data = s.Data /\ t.WPos = s.WPos /\ t.RPos = s.RPos
      /\ t.Overflow = s.Overflow /\ t.Size = s.Size
      /\ t.WriteLimit = NoLimit /\ t.ReadLimit = NoLimit
  <2> DEFINE u == [s EXCEPT !.WriteLimit = NoLimit]
  <2>1. NoLimit \in NoLimit .. size
    BY MaxLenAssumption DEF NoLimit
  <2>2. /\ u \in Stream(size)
        /\ u.Data = s.Data /\ u.WPos = s.WPos /\ u.RPos = s.RPos
        /\ u.Overflow = s.Overflow /\ u.Size = s.Size
        /\ u.WriteLimit = NoLimit
    BY <2>1 DEF Stream
  <2>3. t = [u EXCEPT !.ReadLimit = NoLimit]
    BY DEF Freed
  <2> HIDE DEF u
  <2> QED
    BY <2>1, <2>2, <2>3 DEF Stream
<1>2. /\ Stream_availableReal(t) = Stream_availableReal(s)
      /\ Contents(t) = Contents(s)
  BY <1>1 DEF Stream_availableReal, Contents
<1>3. Consistent(t)
  BY <1>1 DEF Consistent
<1>4. Stream_space(t) = Stream_spaceReal(t) /\ Stream_available(t) = Stream_availableReal(t)
  BY <1>1 DEF Stream_space, Stream_spaceLimit, Stream_available, Stream_availableLimit,
              Stream_isWriteLimited, Stream_isReadLimited, NoLimit
<1>5. Stream_spaceReal(t) \in Int /\ Stream_availableReal(t) \in Int
  BY <1>1, MaxLenAssumption DEF Stream, Stream_spaceReal, Stream_availableReal
<1>6. LimitsWithin(t)
  BY <1>4, <1>5 DEF LimitsWithin
<1> QED
  BY <1>1, <1>2, <1>3, <1>6 DEF Sound

\* Stream_moveWritePos accepts the bytes that happen to be in the space.
LEMMA MoveWritePuts ==
  ASSUME NEW size \in 1 .. MaxLen, NEW s, Sound(s, size), HalfRange(size), NEW n \in Nat,
         NEW r, r = Stream_moveWritePos(s, n)
  PROVE  \/ r.res = "Stream_NoSpace" /\ n > Stream_space(s) /\ r.s = s
         \/ /\ r.res = "Stream_Ok" /\ n <= Stream_space(s)
            /\ Stream_availableReal(s) + n <= size
            /\ \E put \in Seq(Byte) :
                 Len(put) = n /\ Contents(r.s) = Contents(s) \o put
            /\ r.s.WriteLimit = s.WriteLimit /\ r.s.ReadLimit = s.ReadLimit
<1> DEFINE t == r.s
           u == Freed(t)
           put == [i \in 1 .. n |-> s.Data[Ahead(s.WPos, i, size)]]
<1> USE MaxLenAssumption
<1>0. /\ Stream_space(s) \in Int /\ Stream_space(s) <= Stream_spaceReal(s)
      /\ Stream_availableReal(s) \in 0 .. size
      /\ Stream_spaceReal(s) = size - Stream_availableReal(s)
  BY Allowances, WriterIsBehind
<1>1. CASE Stream_space(s) < n
  <2>1. r.res = "Stream_NoSpace" /\ t = s
    BY <1>1 DEF Stream_moveWritePos, Refuse
  <2>2. n > Stream_space(s)
    BY <1>0, <1>1
  <2> QED
    BY <2>1, <2>2
<1>2. CASE ~ (Stream_space(s) < n)
  <2>1. /\ r.res = "Stream_Ok" /\ t \in Stream(size)
        /\ t.Data = s.Data /\ t.RPos = s.RPos
        /\ t.WriteLimit = s.WriteLimit /\ t.ReadLimit = s.ReadLimit
        /\ s.WPos + n >= size => t.WPos = s.WPos + n - size /\ t.Overflow = 1
        /\ s.WPos + n < size => t.WPos = s.WPos + n /\ t.Overflow = s.Overflow
    BY <1>2, MoveWriteFields
  <2>2. Sound(u, size) /\ Contents(u) = Contents(t)
        /\ u.Data = t.Data /\ u.RPos = t.RPos
        /\ Stream_availableReal(u) = Stream_availableReal(t)
    BY <2>1, MoveWriteAgrees, FreedIs
  <2>3. n <= Stream_space(s) /\ Stream_availableReal(s) + n <= size /\ n \in 0 .. size
    BY <1>0, <1>2
  <2>4. /\ s.WPos \in 0 .. size - 1 /\ s.Data \in [0 .. size - 1 -> Byte]
        /\ size \in Nat \ {0}
    BY Types DEF Sound
  <2>5. \A i \in 1 .. n : s.Data[Ahead(s.WPos, i, size)] \in Byte
    <3> TAKE i \in 1 .. n
    <3>1. i \in 1 .. size
      BY <2>3
    <3> QED
      BY <2>4, <3>1, AheadIs
  <2>6. /\ put \in Seq(Byte) /\ Len(put) = n
        /\ \A i \in 1 .. n : put[i] = s.Data[Ahead(s.WPos, i, size)]
    BY <2>5
  <2> HIDE DEF put
  <2>7. Laid(s.Data, t.Data, s.WPos, put, size)
    BY <2>1, <2>6 DEF Laid
  <2>8. Stream_availableReal(t) = Stream_availableReal(s) + Len(put)
    <3>1. Stream_availableReal(t) = Stream_availableReal(s) + n
      BY <1>2, <2>1, WriterMoves
    <3> QED
      BY <2>6, <3>1
  <2> HIDE DEF u
  <2>9. Contents(t) = Contents(s) \o put
    BY <2>1, <2>2, <2>6, <2>7, <2>8, Appends
  <2> QED
    BY <2>1, <2>3, <2>6, <2>9
<1> QED
  BY <1>1, <1>2

\* Stream_moveReadPos throws the oldest bytes away.
LEMMA MoveReadTakes ==
  ASSUME NEW size \in 1 .. MaxLen, NEW s, Sound(s, size), HalfRange(size), NEW n \in Nat,
         NEW r, r = Stream_moveReadPos(s, n)
  PROVE  \/ r.res = "Stream_NoAvailable" /\ n > Stream_available(s) /\ r.s = s
         \/ /\ r.res = "Stream_Ok" /\ n <= Stream_available(s)
            /\ n <= Len(Contents(s))
            /\ Contents(r.s) = SubSeq(Contents(s), n + 1, Len(Contents(s)))
            /\ r.s.WriteLimit = s.WriteLimit /\ r.s.ReadLimit = s.ReadLimit
<1> DEFINE t == r.s
           u == Freed(t)
<1> USE MaxLenAssumption
<1>0. /\ Stream_available(s) \in Int
      /\ Stream_available(s) <= Stream_availableReal(s)
      /\ Stream_availableReal(s) \in 0 .. size
      /\ Len(Contents(s)) = Stream_availableReal(s)
  BY Allowances, WriterIsBehind, ContentsAre
<1>1. CASE Stream_available(s) < n
  <2>1. r.res = "Stream_NoAvailable" /\ t = s
    BY <1>1 DEF Stream_moveReadPos, Refuse
  <2>2. n > Stream_available(s)
    BY <1>0, <1>1
  <2> QED
    BY <2>1, <2>2
<1>2. CASE ~ (Stream_available(s) < n)
  <2>1. /\ r.res = "Stream_Ok" /\ t \in Stream(size)
        /\ t.Data = s.Data /\ t.WPos = s.WPos
        /\ t.WriteLimit = s.WriteLimit /\ t.ReadLimit = s.ReadLimit
        /\ s.RPos + n >= size => t.RPos = s.RPos + n - size /\ t.Overflow = 0
        /\ s.RPos + n < size => t.RPos = s.RPos + n /\ t.Overflow = s.Overflow
    BY <1>2, MoveReadFields
  <2>2. Sound(u, size) /\ Contents(u) = Contents(t)
        /\ u.Data = t.Data /\ u.RPos = t.RPos
        /\ Stream_availableReal(u) = Stream_availableReal(t)
    BY <2>1, MoveReadAgrees, FreedIs
  <2>3. n <= Stream_available(s) /\ n <= Stream_availableReal(s)
    BY <1>0, <1>2
  <2>4. /\ Stream_availableReal(t) = Stream_availableReal(s) - n
        /\ Further(s.RPos, n, t.RPos, size)
    BY <2>1, <2>3, ReaderMoves
  <2> HIDE DEF u
  <2>5. Contents(t) = SubSeq(Contents(s), n + 1, Len(Contents(s)))
    BY <2>1, <2>2, <2>4, Drops
  <2> QED
    BY <1>0, <2>1, <2>3, <2>5
<1> QED
  BY <1>1, <1>2

\* A reset stream holds nothing.
LEMMA ResetEmpties ==
  ASSUME NEW size \in 1 .. MaxLen, NEW s, Sound(s, size),
         NEW t, t \in {Stream_reset(s), Stream_resetIO(s), Stream_clear(s)}
  PROVE  /\ Contents(t) = <<>>
         /\ t.WriteLimit = s.WriteLimit /\ t.ReadLimit = s.ReadLimit
<1>0. s \in Stream(size)
  BY DEF Sound
<1>1. /\ t.RPos = 0 /\ t.WPos = 0 /\ t.Overflow = 0
      /\ t.WriteLimit = s.WriteLimit /\ t.ReadLimit = s.ReadLimit
  BY <1>0 DEF Stream_reset, Stream_resetIO, Stream_clear, Stream
<1>2. t \in Stream(size) /\ Consistent(t)
  BY ResetSound
<1>3. Sound(Freed(t), size) /\ Contents(Freed(t)) = Contents(t)
      /\ Stream_availableReal(Freed(t)) = Stream_availableReal(t)
  BY <1>2, FreedIs
<1>4. Stream_availableReal(t) = 0
  BY <1>1, <1>2, Filled
<1>5. Contents(t) \in Seq(Byte) /\ Len(Contents(t)) = 0
  BY <1>3, <1>4, ContentsAre
<1> QED
  BY <1>1, <1>5, EmptySeq

\* Streams that differ in their limits or their byte order hold the same bytes.
LEMMA SameContents ==
  ASSUME NEW size \in 1 .. MaxLen, NEW s, Sound(s, size), NEW t, Sound(t, size),
         t.Data = s.Data, t.WPos = s.WPos, t.RPos = s.RPos,
         t.Overflow = s.Overflow
  PROVE  Contents(t) = Contents(s)
<1>1. s \in Stream(size) /\ t \in Stream(size)
  BY DEF Sound
<1>2. s.Size = t.Size
  BY <1>1, Types
<1> QED
  BY <1>2 DEF Contents, Stream_availableReal
-----------------------------------------------------------------------------
(* What a device does with a stream that nothing limits: it sets a flag, it  *)
(* stores bytes behind the writer, and it moves a position over a piece that *)
(* does not pass the end of the buffer.                                      *)

NoLimits(s) == s.WriteLimit = NoLimit /\ s.ReadLimit = NoLimit

\* The same positions and limits.
SameRing(s, t) ==
  /\ t.WPos = s.WPos /\ t.RPos = s.RPos /\ t.Overflow = s.Overflow
  /\ t.WriteLimit = s.WriteLimit /\ t.ReadLimit = s.ReadLimit

\* Where the positions are decides how many bytes there are.
LEMMA RingIsSame ==
  ASSUME NEW size \in 1 .. MaxLen, NEW s, Sound(s, size),
         NEW t \in Stream(size), SameRing(s, t)
  PROVE  /\ Sound(t, size)
         /\ Stream_availableReal(t) = Stream_availableReal(s)
         /\ NoLimits(s) => NoLimits(t)
<1>1. s \in Stream(size) /\ s.Size = size /\ t.Size = size
  BY Types DEF Sound
<1>2. Wrapped(s, size) \/ Straight(s, size)
  BY <1>1, Shapes
<1>3. Wrapped(t, size) \/ Straight(t, size)
  BY <1>2 DEF SameRing, Wrapped, Straight
<1> QED
  BY <1>1, <1>3, Shapes DEF SameRing, Stream_availableReal, NoLimits

\* Setting or clearing InReceive or InTransmit.
LEMMA FlagSet ==
  ASSUME NEW size \in 1 .. MaxLen, NEW s, Sound(s, size), NEW b \in BOOLEAN,
         NEW t, \/ t = [s EXCEPT !.InReceive = b]
                \/ t = [s EXCEPT !.InTransmit = b]
  PROVE  t \in Stream(size) /\ SameRing(s, t) /\ t.Data = s.Data
<1>1. s \in Stream(size)
  BY DEF Sound
<1> QED
  BY <1>1 DEF Stream, SameRing

LEMMA ReceiveSet ==
  ASSUME NEW size \in 1 .. MaxLen, NEW s, Sound(s, size), NEW b \in BOOLEAN
  PROVE  [s EXCEPT !.InReceive = b].InReceive = b
  BY DEF Sound, Stream

LEMMA TransmitSet ==
  ASSUME NEW size \in 1 .. MaxLen, NEW s, Sound(s, size), NEW b \in BOOLEAN
  PROVE  [s EXCEPT !.InTransmit = b].InTransmit = b
  BY DEF Sound, Stream

\* Storing bytes in the buffer moves nothing.
LEMMA DataSet ==
  ASSUME NEW size \in 1 .. MaxLen, NEW s, Sound(s, size),
         NEW at \in Nat, NEW src \in Seq(Byte),
         NEW t, t = [s EXCEPT !.Data = memCopy(@, at, src)]
  PROVE  /\ t \in Stream(size) /\ SameRing(s, t) /\ Aside(t) = Aside(s)
         /\ t.Data = memCopy(s.Data, at, src)
<1> DEFINE d == memCopy(s.Data, at, src)
<1>1. s \in Stream(size) /\ s.Data \in [0 .. size - 1 -> Byte]
  BY Types DEF Sound
<1>2. d \in [0 .. size - 1 -> Byte]
  BY <1>1, CopyType
<1>3. t = [s EXCEPT !.Data = d]
  OBVIOUS
<1> HIDE DEF d
<1>4. t \in Stream(size) /\ SameRing(s, t) /\ Aside(t) = Aside(s) /\ t.Data = d
  BY <1>1, <1>2, <1>3 DEF Stream, SameRing, Aside
<1> QED
  BY <1>4 DEF d

\* Without limits the bounds of a call are the real ones.
LEMMA NoLimitCounts ==
  ASSUME NEW s, NoLimits(s)
  PROVE  /\ ~ Stream_isWriteLimited(s) /\ ~ Stream_isReadLimited(s)
         /\ Stream_space(s) = Stream_spaceReal(s)
         /\ Stream_available(s) = Stream_availableReal(s)
  BY DEF NoLimits, NoLimit, Stream_isWriteLimited, Stream_isReadLimited,
         Stream_space, Stream_spaceLimit, Stream_available, Stream_availableLimit

\* Stream_moveWritePos over bytes that the device has stored.
LEMMA WriterMovesOver ==
  ASSUME NEW size \in 1 .. MaxLen, NEW s, Sound(s, size), NoLimits(s),
         NEW n \in Nat, Stream_availableReal(s) + n <= size, s.WPos + n <= size,
         NEW r, r = Stream_moveWritePos(s, n)
  PROVE  /\ r.res = "Stream_Ok"
         /\ Sound(r.s, size) /\ NoLimits(r.s)
         /\ r.s.Data = s.Data /\ r.s.RPos = s.RPos /\ Aside(r.s) = Aside(s)
         /\ Stream_availableReal(r.s) = Stream_availableReal(s) + n
         /\ s.WPos + n < size => r.s.WPos = s.WPos + n
         /\ s.WPos + n >= size => r.s.WPos = 0
<1> DEFINE t == r.s
<1>1. /\ size \in Nat /\ Stream_availableReal(s) \in 0 .. size
      /\ Stream_spaceReal(s) = size - Stream_availableReal(s)
      /\ s.WPos \in 0 .. size - 1
  BY WriterIsBehind, Types, MaxLenAssumption DEF Sound
<1>2. ~ (Stream_space(s) < n) /\ ~ Stream_isWriteLimited(s)
  BY <1>1, NoLimitCounts
<1>3. s.WPos + n <= MaxLen
  BY <1>1, MaxLenAssumption
<1>4. /\ r.res = "Stream_Ok" /\ t \in Stream(size)
      /\ t.Data = s.Data /\ t.RPos = s.RPos /\ Aside(t) = Aside(s)
      /\ t.WriteLimit = s.WriteLimit /\ t.ReadLimit = s.ReadLimit
      /\ s.WPos + n >= size => t.WPos = s.WPos + n - size /\ t.Overflow = 1
      /\ s.WPos + n < size => t.WPos = s.WPos + n /\ t.Overflow = s.Overflow
  BY <1>2, <1>3, MoveWriteFields
<1>5. Sound(t, size)
  BY <1>2, <1>3, MoveWriteSound
<1>6. Stream_availableReal(t) = Stream_availableReal(s) + n
  BY <1>2, <1>4, WriterMoves
<1>7. s.WPos + n >= size => s.WPos + n - size = 0
  BY <1>1
<1> QED
  BY <1>4, <1>5, <1>6, <1>7 DEF NoLimits

\* Stream_moveReadPos over bytes that the device has sent.
LEMMA ReaderMovesOver ==
  ASSUME NEW size \in 1 .. MaxLen, NEW s, Sound(s, size), NoLimits(s),
         NEW n \in Nat, n <= Stream_availableReal(s), s.RPos + n <= size,
         NEW r, r = Stream_moveReadPos(s, n)
  PROVE  /\ r.res = "Stream_Ok"
         /\ Sound(r.s, size) /\ NoLimits(r.s)
         /\ r.s.Data = s.Data /\ r.s.WPos = s.WPos /\ Aside(r.s) = Aside(s)
         /\ Stream_availableReal(r.s) = Stream_availableReal(s) - n
         /\ Further(s.RPos, n, r.s.RPos, size)
<1> DEFINE t == r.s
<1>1. /\ size \in Nat /\ Stream_availableReal(s) \in 0 .. size
      /\ s.RPos \in 0 .. size - 1
  BY WriterIsBehind, Types, MaxLenAssumption DEF Sound
<1>2. ~ (Stream_available(s) < n) /\ ~ Stream_isReadLimited(s)
  BY <1>1, NoLimitCounts
<1>3. s.RPos + n <= MaxLen
  BY <1>1, MaxLenAssumption
<1>4. /\ r.res = "Stream_Ok" /\ t \in Stream(size)
      /\ t.Data = s.Data /\ t.WPos = s.WPos /\ Aside(t) = Aside(s)
      /\ t.WriteLimit = s.WriteLimit /\ t.ReadLimit = s.ReadLimit
      /\ s.RPos + n >= size => t.RPos = s.RPos + n - size /\ t.Overflow = 0
      /\ s.RPos + n < size => t.RPos = s.RPos + n /\ t.Overflow = s.Overflow
  BY <1>2, <1>3, MoveReadFields
<1>5. Sound(t, size)
  BY <1>2, <1>3, MoveReadSound
<1>6. /\ Stream_availableReal(t) = Stream_availableReal(s) - n
      /\ Further(s.RPos, n, t.RPos, size)
  BY <1>4, ReaderMoves
<1> QED
  BY <1>4, <1>5, <1>6 DEF NoLimits

\* Stream_readBytes takes the oldest bytes, or does nothing.
LEMMA ReadMovesOver ==
  ASSUME NEW size \in 1 .. MaxLen, NEW s, Sound(s, size), NoLimits(s),
         NEW n \in Nat, NEW r, r = Stream_readBytes(s, n)
  PROVE  /\ Sound(r.s, size) /\ NoLimits(r.s)
         /\ r.s.Data = s.Data /\ r.s.WPos = s.WPos /\ Aside(r.s) = Aside(s)
         /\ Len(r.val) \in 0 .. Stream_availableReal(s)
         /\ Stream_availableReal(r.s) = Stream_availableReal(s) - Len(r.val)
         /\ Further(s.RPos, Len(r.val), r.s.RPos, size)
<1>1. /\ size \in Nat /\ Stream_availableReal(s) \in 0 .. size
      /\ s.RPos \in 0 .. size - 1
  BY WriterIsBehind, Types, MaxLenAssumption DEF Sound
<1>2. Sound(r.s, size)
  BY ReadSound
<1>3. CASE ~ readable(s, n)
  <2>1. r.s = s /\ r.val = <<>>
    BY <1>3 DEF Stream_readBytes, ReadRefuse
  <2>2. Further(s.RPos, 0, s.RPos, size)
    BY <1>1 DEF Further
  <2>3. Len(r.val) = 0
    BY <2>1
  <2> QED
    BY <1>1, <1>2, <2>1, <2>2, <2>3
<1>4. CASE readable(s, n)
  <2>1. r.s = takeRead(s, n) /\ r.res = "Stream_Ok"
    BY <1>4 DEF Stream_readBytes, Deliver
  <2>2. /\ r.s \in Stream(size) /\ r.s.Data = s.Data /\ r.s.WPos = s.WPos
        /\ r.s.WriteLimit = s.WriteLimit /\ Aside(r.s) = Aside(s)
        /\ s.ReadLimit < 0 => r.s.ReadLimit = s.ReadLimit
        /\ s.RPos + n >= size => r.s.RPos = s.RPos + n - size /\ r.s.Overflow = 0
        /\ s.RPos + n < size => r.s.RPos = s.RPos + n /\ r.s.Overflow = s.Overflow
    BY <1>4, <2>1, Taken
  <2>3. n > 0 /\ n <= Stream_availableReal(s)
    BY <1>4, NoLimitCounts DEF readable
  <2>4. /\ Stream_availableReal(r.s) = Stream_availableReal(s) - n
        /\ Further(s.RPos, n, r.s.RPos, size)
    BY <2>2, <2>3, ReaderMoves
  <2>5. Len(r.val) = n
    <3>1. Takes(s, r, n, r.val)
      BY ReadBytesTakes
    <3>2. r.val = SubSeq(Contents(s), 1, n) /\ n <= Len(Contents(s))
      BY <2>1, <3>1 DEF Takes
    <3>3. Contents(s) \in Seq(Byte)
      BY ContentsAre
    <3> QED
      BY <3>2, <3>3
  <2>6. NoLimits(r.s)
    BY <2>2 DEF NoLimits, NoLimit
  <2> QED
    BY <1>1, <1>2, <2>2, <2>3, <2>4, <2>5, <2>6
<1> QED
  BY <1>3, <1>4

\* Numbers that are counted round: what a sum is before and after it is reduced.
LEMMA Reduced ==
  ASSUME NEW m \in Nat \ {0}, NEW a \in -m .. 2 * m - 1
  PROVE  /\ a % m \in 0 .. m - 1
         /\ a < 0 => a % m = a + m
         /\ a >= 0 /\ a < m => a % m = a
         /\ a >= m => a % m = a - m
  OBVIOUS

\* A sum may be reduced early.
LEMMA ReducedEarly ==
  ASSUME NEW m \in Nat \ {0}, NEW a \in -m .. 2 * m - 1, NEW b \in Int,
         a + b \in -m .. 2 * m - 1, (a % m) + b \in -m .. 2 * m - 1
  PROVE  ((a % m) + b) % m = (a + b) % m
<1> DEFINE c == a % m
           x == c + b
           y == a + b
<1>1. c = a \/ c = a - m \/ c = a + m
  <2>1. /\ a < 0 => c = a + m
        /\ a >= 0 /\ a < m => c = a
        /\ a >= m => c = a - m
    BY Reduced
  <2> HIDE DEF c
  <2> QED
    BY <2>1
<1>2. c \in Int /\ a \in Int /\ b \in Int
  BY <1>1
<1> HIDE DEF c
<1>3. x = y \/ x = y - m \/ x = y + m
  BY <1>1, <1>2
<1>4. x \in -m .. 2 * m - 1 /\ y \in -m .. 2 * m - 1
  BY DEF c
<1> HIDE DEF x, y
<1>5. x % m = y % m
  <2> DEFINE p == x % m
             q == y % m
  <2>1. /\ x < 0 => p = x + m
        /\ x >= 0 /\ x < m => p = x
        /\ x >= m => p = x - m
    BY <1>4, Reduced
  <2>2. /\ y < 0 => q = y + m
        /\ y >= 0 /\ y < m => q = y
        /\ y >= m => q = y - m
    BY <1>4, Reduced
  <2> HIDE DEF p, q
  <2>3. p = q
    BY <1>3, <1>4, <2>1, <2>2
  <2> QED
    BY <2>3 DEF p, q
<1> QED
  BY <1>5 DEF x, y, c

\* The piece of space that the device may fill: it ends at the end of the
\* buffer or at the reader, and it is empty only when the stream is full.
LEMMA DirectSpaceIs ==
  ASSUME NEW size \in 1 .. MaxLen, NEW s, Sound(s, size)
  PROVE  /\ Stream_directSpace(s) \in 0 .. size
         /\ s.WPos + Stream_directSpace(s) <= size
         /\ Stream_availableReal(s) + Stream_directSpace(s) <= size
         /\ Stream_directSpace(s) = 0 => Stream_availableReal(s) = size
<1>1. s \in Stream(size) /\ (Wrapped(s, size) \/ Straight(s, size))
  BY Shapes DEF Sound
<1> QED
  BY <1>1, Types, Filled, MaxLenAssumption
  DEF Stream_directSpace, Wrapped, Straight

\* The piece of bytes that the device may send, likewise.
LEMMA DirectAvailableIs ==
  ASSUME NEW size \in 1 .. MaxLen, NEW s, Sound(s, size)
  PROVE  /\ Stream_directAvailable(s) \in 0 .. Stream_availableReal(s)
         /\ s.RPos + Stream_directAvailable(s) <= size
         /\ Stream_directAvailable(s) = 0 => Stream_availableReal(s) = 0
<1>1. s \in Stream(size) /\ (Wrapped(s, size) \/ Straight(s, size))
  BY Shapes DEF Sound
<1> QED
  BY <1>1, Types, Filled, MaxLenAssumption
  DEF Stream_directAvailable, Wrapped, Straight

\* Counted back from the writer, the last u bytes are where they are counted from
\* the reader.
LEMMA BackFromWriter ==
  ASSUME NEW size \in Nat \ {0}, NEW r \in 0 .. size - 1, NEW w \in 0 .. size - 1,
         NEW a \in 0 .. size, Further(r, a, w, size),
         NEW u \in 0 .. a, NEW i \in 1 .. u
  PROVE  (w - u + i - 1) % size = Ahead(r, a - u + i, size)
<1> DEFINE z == w - u + i - 1
           y == r + (a - u + i) - 1
           x == Ahead(r, a - u + i, size)
<1>1. z \in -size .. 2 * size - 1 /\ y \in 0 .. 2 * size - 1 /\ (z = y \/ z = y - size)
  BY DEF Further
<1>2. /\ y < size => x = y
      /\ y >= size => x = y - size
  BY DEF Ahead
<1> HIDE DEF z, y, x
<1>3. z % size = x
  <2> DEFINE p == z % size
  <2>1. /\ z < 0 => p = z + size
        /\ z >= 0 /\ z < size => p = z
        /\ z >= size => p = z - size
    BY <1>1, Reduced
  <2> HIDE DEF p
  <2>2. p = x
    BY <1>1, <1>2, <2>1
  <2> QED
    BY <2>2 DEF p
<1> QED
  BY <1>3 DEF z, x

\* Stream_writeBytes puts its bytes behind the others and leaves the reader.
LEMMA WriteBytesIs ==
  ASSUME NEW size \in 1 .. MaxLen, NEW s, Sound(s, size), NoLimits(s),
         NEW val \in Seq(Byte), NEW r, r = Stream_writeBytes(s, val)
  PROVE  /\ Sound(r.s, size) /\ NoLimits(r.s)
         /\ r.s.RPos = s.RPos /\ Aside(r.s) = Aside(s)
         /\ r.res # "Stream_Ok" => r.s = s
         /\ r.res = "Stream_Ok" =>
              /\ Contents(r.s) = Contents(s) \o val
              /\ Stream_availableReal(r.s) = Stream_availableReal(s) + Len(val)
<1> DEFINE tmpLen == s.Size - s.WPos
           first  == SubSeq(val, 1, tmpLen)
           rest   == SubSeq(val, tmpLen + 1, Len(val))
<1>1. Puts(s, r, Len(val), val, size)
  BY WriteBytesPuts
<1>2. Sound(r.s, size)
  BY WriteBytesSound
<1>3. CASE r.res # "Stream_Ok"
  BY <1>1, <1>2, <1>3 DEF Puts
<1>4. CASE r.res = "Stream_Ok"
  <2>1. /\ Contents(r.s) = Contents(s) \o val
        /\ Len(val) > 0 /\ Len(val) <= Stream_space(s)
        /\ r.s.WriteLimit = Spent(s.WriteLimit, Len(val)) /\ r.s.ReadLimit = s.ReadLimit
    BY <1>1, <1>4 DEF Puts
  <2>2. NoLimits(r.s)
    BY <2>1 DEF NoLimits, Spent
  <2>3. Stream_availableReal(r.s) = Stream_availableReal(s) + Len(val)
    <3>1. /\ Contents(s) \in Seq(Byte) /\ Len(Contents(s)) = Stream_availableReal(s)
          /\ Len(Contents(r.s)) = Stream_availableReal(r.s)
      BY <1>2, ContentsAre
    <3> QED
      BY <2>1, <3>1, Behind
  <2>4. /\ tmpLen \in 1 .. size /\ tmpLen = size - s.WPos /\ s.WPos \in 0 .. size - 1
        /\ size \in Nat
    BY Types, MaxLenAssumption DEF Sound
  <2>5. s.WPos + Len(val) >= size =>
          /\ first \in Seq(Byte)
          /\ rest \in Seq(Byte) /\ Len(rest) = s.WPos + Len(val) - size
    <3> SUFFICES ASSUME s.WPos + Len(val) >= size
                 PROVE  /\ first \in Seq(Byte)
                        /\ rest \in Seq(Byte) /\ Len(rest) = s.WPos + Len(val) - size
      OBVIOUS
    <3>1. tmpLen \in 0 .. Len(val) /\ tmpLen + 1 \in 1 .. Len(val) + 1
      BY <2>4
    <3> HIDE DEF tmpLen
    <3>2. /\ first \in Seq(Byte)
          /\ rest \in Seq(Byte) /\ Len(rest) = Len(val) - tmpLen
      BY <3>1, SubType
    <3> QED
      BY <2>4, <3>2, SMTT(30)
  <2>6. r = write(s, Len(val), first, rest, val)
    BY DEF Stream_writeBytes
  <2>7. Len(val) \in Nat \ {0} /\ ~ (Stream_space(s) < Len(val))
    BY <2>1, Allowances
  <2> HIDE DEF first, rest
  <2>8. r.s.RPos = s.RPos /\ Aside(r.s) = Aside(s)
    BY <2>5, <2>6, <2>7, Stored
  <2> QED
    BY <1>2, <1>4, <2>1, <2>2, <2>3, <2>8
<1> QED
  BY <1>3, <1>4

\* The numbers of the bytes received so far stay what they are when n more come.
LEMMA NumbersKept ==
  ASSUME NEW b \in Nat \ {0}, NEW x \in 0 .. b - 1, NEW n \in Nat, NEW u \in Nat,
         n + u < b, NEW i \in 1 .. u + n
  PROVE  (((x + n) % b) - (u + n) + i - 1) % b = (x - u + i - 1) % b
<1> DEFINE p == x + n
           c == i - 1 - (u + n)
           s == p % b
<1>1. p \in 0 .. 2 * b - 1 /\ c \in Int /\ c < 0 /\ c >= - (u + n)
  OBVIOUS
<1>2. s \in 0 .. b - 1
  <2> HIDE DEF p
  <2> QED
    BY <1>1
<1>3. p + c = x - u + i - 1 /\ p + c \in -b .. 2 * b - 1
  OBVIOUS
<1> HIDE DEF p
<1>4. s + c \in -b .. 2 * b - 1
  <2> HIDE DEF s, c
  <2> QED
    BY <1>1, <1>2
<1>5. (s + c) % b = (p + c) % b
  <2>1. p \in -b .. 2 * b - 1 /\ c \in Int
    BY <1>1
  <2> HIDE DEF c
  <2>2. p + c \in -b .. 2 * b - 1 /\ (p % b) + c \in -b .. 2 * b - 1
    BY <1>3, <1>4
  <2>3. ((p % b) + c) % b = (p + c) % b
    BY <2>1, <2>2, ReducedEarly
  <2> QED
    BY <2>3
<1>6. s + c = s - (u + n) + i - 1
  <2> HIDE DEF s
  <2> QED
    BY <1>2
<1> QED
  BY <1>3, <1>5, <1>6 DEF p

-----------------------------------------------------------------------------
(* Transfers from ring to ring: sequences and limits. *)

\* The bytes of a piece.
LEMMA PieceIs ==
  ASSUME NEW v \in Seq(Byte), NEW m \in Nat, NEW k \in Nat, m + k <= Len(v)
  PROVE  /\ SubSeq(v, m + 1, m + k) \in Seq(Byte) /\ Len(SubSeq(v, m + 1, m + k)) = k
         /\ \A i \in 1 .. k : SubSeq(v, m + 1, m + k)[i] = v[m + i]
<1> DEFINE p == SubSeq(v, m + 1, m + k)
<1>1. p \in Seq(Byte) /\ Len(p) = k
  <2>1. CASE k = 0
    BY <2>1
  <2>2. CASE k > 0
    BY <2>2
  <2> QED
    BY <2>1, <2>2
<1>2. ASSUME NEW i \in 1 .. k PROVE p[i] = v[m + i]
  OBVIOUS
<1> QED
  BY <1>1, <1>2

\* The first bytes of what is left after the first bytes, and what is left then.
LEMMA SubOfRest ==
  ASSUME NEW v \in Seq(Byte), NEW m \in 0 .. Len(v), NEW n \in 0 .. Len(v) - m,
         NEW rest, rest = SubSeq(v, m + 1, Len(v))
  PROVE  /\ rest \in Seq(Byte) /\ Len(rest) = Len(v) - m
         /\ SubSeq(rest, 1, n) = SubSeq(SubSeq(v, 1, m + n), m + 1, m + n)
         /\ SubSeq(rest, n + 1, Len(rest)) = SubSeq(v, m + n + 1, Len(v))
<1> DEFINE k == Len(v) - m - n
           a == SubSeq(rest, 1, n)
           w == SubSeq(v, 1, m + n)
           b == SubSeq(w, m + 1, m + n)
           c == SubSeq(rest, n + 1, Len(rest))
           d == SubSeq(v, m + n + 1, Len(v))
<1>0. /\ Len(v) \in Nat /\ m \in Nat /\ n \in Nat /\ k \in Nat
      /\ Len(v) = m + (n + k) /\ Len(v) = (m + n) + k /\ m + n \in Nat
      /\ m + n = 0 + (m + n) /\ n = 0 + n /\ 0 \in Nat /\ 1 = 0 + 1
      /\ m + n <= Len(v) /\ n + k \in Nat
  OBVIOUS
<1> HIDE DEF k
<1>1. /\ rest \in Seq(Byte) /\ Len(rest) = n + k
      /\ \A i \in 1 .. n + k : rest[i] = v[m + i]
  <2>1. rest = SubSeq(v, m + 1, m + (n + k)) /\ m + (n + k) <= Len(v)
    BY <1>0
  <2> QED
    BY <1>0, <2>1, PieceIs
<1>2. /\ a \in Seq(Byte) /\ Len(a) = n /\ \A i \in 1 .. n : a[i] = v[m + i]
  <2>1. PICK z \in Nat : z = 0
    OBVIOUS
  <2>2. z + 1 = 1 /\ z + n = n /\ z + n <= Len(rest) /\ \A i \in 1 .. n : z + i = i
    BY <1>0, <1>1, <2>1
  <2>3. a = SubSeq(rest, z + 1, z + n)
    BY <2>2
  <2> HIDE DEF a
  <2>4. a \in Seq(Byte) /\ Len(a) = n /\ \A i \in 1 .. n : a[i] = rest[z + i]
    BY <1>1, <2>2, <2>3, PieceIs
  <2> QED
    BY <1>0, <1>1, <2>2, <2>4
<1>3. w \in Seq(Byte) /\ Len(w) = m + n /\ \A i \in 1 .. m + n : w[i] = v[i]
  BY <1>0
<1>4. b \in Seq(Byte) /\ Len(b) = n /\ \A i \in 1 .. n : b[i] = v[m + i]
  <2> HIDE DEF w
  <2>1. b \in Seq(Byte) /\ Len(b) = n /\ \A i \in 1 .. n : b[i] = w[m + i]
    BY <1>0, <1>3, PieceIs
  <2> QED
    BY <1>0, <1>3, <2>1
<1>5. /\ c \in Seq(Byte) /\ Len(c) = k /\ \A i \in 1 .. k : c[i] = v[(m + n) + i]
  <2>1. c \in Seq(Byte) /\ Len(c) = k /\ \A i \in 1 .. k : c[i] = rest[n + i]
    <3>1. c = SubSeq(rest, n + 1, n + k) /\ n + k <= Len(rest)
      BY <1>0, <1>1
    <3> HIDE DEF c
    <3> QED
      BY <1>0, <1>1, <3>1, PieceIs
  <2>2. \A i \in 1 .. k : n + i \in 1 .. n + k /\ m + (n + i) = (m + n) + i
    BY <1>0
  <2> QED
    BY <1>1, <2>1, <2>2, SMTT(30)
<1>6. /\ d \in Seq(Byte) /\ Len(d) = k /\ \A i \in 1 .. k : d[i] = v[(m + n) + i]
  <2>1. d = SubSeq(v, (m + n) + 1, (m + n) + k) /\ (m + n) + k <= Len(v)
    BY <1>0
  <2>2. PICK q \in Nat : q = m + n
    BY <1>0
  <2>3. d = SubSeq(v, q + 1, q + k) /\ q + k <= Len(v)
    BY <2>1, <2>2
  <2> HIDE DEF d
  <2> DEFINE u == SubSeq(v, q + 1, q + k)
  <2>4. q + k <= Len(v) /\ k \in Nat
    BY <1>0, <2>3
  <2>5. u \in Seq(Byte) /\ Len(u) = k /\ \A i \in 1 .. k : u[i] = v[q + i]
    BY <2>4, PieceIs
  <2> HIDE DEF u
  <2>6. d = u
    BY <2>3 DEF u
  <2> QED
    BY <2>2, <2>5, <2>6
<1> HIDE DEF a, b, c, d
<1>7. a = b
  BY <1>2, <1>4
<1>8. c = d
  <2>1. \A i \in 1 .. k : c[i] = d[i]
    BY <1>5, <1>6
  <2>2. c \in Seq(Byte) /\ d \in Seq(Byte) /\ Len(c) = Len(d)
    BY <1>5, <1>6
  <2>3. \A i \in 1 .. Len(c) : c[i] = d[i]
    BY <1>5, <2>1
  <2> QED
    BY <2>2, <2>3, SeqEqual
<1>9. Len(rest) = Len(v) - m
  BY <1>0, <1>1
<1> QED
  BY <1>1, <1>7, <1>8, <1>9 DEF a, b, c, d, w

\* The first bytes of the first bytes.
LEMMA FirstOfFirst ==
  ASSUME NEW v \in Seq(Byte), NEW m \in Nat, NEW n \in Nat, m + n <= Len(v)
  PROVE  SubSeq(SubSeq(v, 1, m + n), 1, m) = SubSeq(v, 1, m)
<1>1. /\ SubSeq(v, 1, m + n) \in Seq(Byte) /\ Len(SubSeq(v, 1, m + n)) = m + n
      /\ \A i \in 1 .. m + n : SubSeq(v, 1, m + n)[i] = v[i]
  OBVIOUS
<1>2. PICK w \in Seq(Byte) : w = SubSeq(v, 1, m + n)
  BY <1>1
<1>3. /\ SubSeq(w, 1, m) \in Seq(Byte) /\ Len(SubSeq(w, 1, m)) = m
      /\ \A i \in 1 .. m : SubSeq(w, 1, m)[i] = w[i]
  BY <1>1, <1>2
<1>4. /\ SubSeq(v, 1, m) \in Seq(Byte) /\ Len(SubSeq(v, 1, m)) = m
      /\ \A i \in 1 .. m : SubSeq(v, 1, m)[i] = v[i]
  OBVIOUS
<1>5. \A i \in 1 .. m : SubSeq(w, 1, m)[i] = SubSeq(v, 1, m)[i]
  BY <1>1, <1>2, <1>3, <1>4
<1>6. SubSeq(w, 1, m) = SubSeq(v, 1, m)
  BY <1>3, <1>4, <1>5, SeqEqual
<1> QED
  BY <1>2, <1>6

\* The stream s has become t: its oldest n bytes are gone ...
ReadOff(s, t, n, size) ==
  /\ Sound(t, size) /\ n <= Len(Contents(s))
  /\ Contents(t) = SubSeq(Contents(s), n + 1, Len(Contents(s)))
  /\ t.ReadLimit = Spent(s.ReadLimit, n) /\ t.WriteLimit = s.WriteLimit
  /\ Stream_available(t) = Stream_available(s) - n

\* ... or these bytes have come behind the others.
PutOn(s, t, put, size) ==
  /\ Sound(t, size)
  /\ Contents(t) = Contents(s) \o put
  /\ t.WriteLimit = Spent(s.WriteLimit, Len(put)) /\ t.ReadLimit = s.ReadLimit
  /\ Stream_space(t) = Stream_space(s) - Len(put)

\* What two calls charge is what one call of both lengths does.
LEMMA SpentTwice ==
  ASSUME NEW limit \in Int, NEW m \in Nat, NEW n \in Nat, limit = NoLimit \/ m <= limit
  PROVE  Spent(Spent(limit, m), n) = Spent(limit, m + n)
  BY DEF Spent, NoLimit

\* Stream_readBytes takes the oldest bytes, also when it is asked for none.
LEMMA ReadOldest ==
  ASSUME NEW size \in 1 .. MaxLen, NEW s, Sound(s, size), NEW len \in Nat,
         len <= Stream_available(s), NEW r, r = Stream_readBytes(s, len)
  PROVE  r.val = SubSeq(Contents(s), 1, len) /\ ReadOff(s, r.s, len, size)
<1>1. Sound(r.s, size) /\ Takes(s, r, len, r.val)
  BY ReadSound, ReadBytesTakes
<1>2. /\ Contents(s) \in Seq(Byte) /\ Len(Contents(s)) = Stream_availableReal(s)
      /\ Len(Contents(r.s)) = Stream_availableReal(r.s)
      /\ Stream_availableReal(s) \in 0 .. size
  BY <1>1, ContentsAre, WriterIsBehind
<1>3. /\ Stream_available(s) \in Int /\ s.ReadLimit \in -1 .. size
      /\ r.s.ReadLimit \in -1 .. size
  BY <1>1, Allowances, Types DEF Sound
<1> DEFINE c == Contents(s)
<1>4. CASE len = 0
  <2>1. r.s = s
    BY <1>1, <1>3, <1>4 DEF Takes
  <2>2. r.val = <<>>
    BY <1>4 DEF Stream_readBytes, readable, ReadRefuse
  <2>3. SubSeq(c, 1, 0) = <<>> /\ SubSeq(c, 1, Len(c)) = c
    BY <1>2
  <2>4. Spent(s.ReadLimit, 0) = s.ReadLimit
    BY <1>3 DEF Spent
  <2>5. Stream_available(s) - 0 = Stream_available(s)
    BY <1>3
  <2>6. /\ r.val = SubSeq(c, 1, len) /\ len <= Len(c)
        /\ Contents(r.s) = SubSeq(c, len + 1, Len(c))
    <3> HIDE DEF c
    <3>1. r.val = SubSeq(c, 1, len)
      BY <1>4, <2>2, <2>3
    <3>2. Contents(r.s) = SubSeq(c, len + 1, Len(c))
      BY <1>4, <2>1, <2>3 DEF c
    <3>3. len <= Len(c)
      BY <1>2, <1>4 DEF c
    <3> QED
      BY <3>1, <3>2, <3>3
  <2> HIDE DEF c
  <2>7. /\ r.s.ReadLimit = Spent(s.ReadLimit, len)
        /\ Stream_available(r.s) = Stream_available(s) - len
    BY <1>4, <2>1, <2>4, <2>5
  <2> QED
    BY <1>1, <2>1, <2>6, <2>7 DEF c, ReadOff
<1>5. CASE len > 0
  <2>1. /\ r.res = "Stream_Ok" /\ len <= Len(c)
        /\ r.val = SubSeq(c, 1, len)
        /\ Contents(r.s) = SubSeq(c, len + 1, Len(c))
        /\ r.s.ReadLimit = Spent(s.ReadLimit, len)
        /\ r.s.WriteLimit = s.WriteLimit
    BY <1>1, <1>3, <1>5 DEF Takes
  <2>2. Stream_availableReal(r.s) = Stream_availableReal(s) - len
    <3>1. Len(SubSeq(c, len + 1, Len(c))) = Len(c) - len
      BY <1>2, <2>1
    <3> QED
      BY <1>2, <2>1, <3>1
  <2>3. Stream_available(r.s) = Stream_available(s) - len
    <3>1. CASE s.ReadLimit < 0
      <4>1. r.s.ReadLimit < 0
        BY <1>3, <2>1, <3>1 DEF Spent, NoLimit
      <4> QED
        BY <1>3, <2>2, <3>1, <4>1 DEF Stream_available, Stream_availableLimit, Stream_isReadLimited
    <3>2. CASE s.ReadLimit >= 0
      <4>1. Stream_available(s) = s.ReadLimit
        BY <3>2 DEF Stream_available, Stream_availableLimit, Stream_isReadLimited
      <4>2. r.s.ReadLimit = s.ReadLimit - len /\ r.s.ReadLimit >= 0
        BY <1>3, <2>1, <3>2, <4>1 DEF Spent, NoLimit
      <4> QED
        BY <4>1, <4>2 DEF Stream_available, Stream_availableLimit, Stream_isReadLimited
    <3> QED
      BY <1>3, <3>1, <3>2
  <2> QED
    BY <1>1, <2>1, <2>3 DEF ReadOff
<1> QED
  BY <1>4, <1>5

\* Stream_writeBytes puts the bytes behind the others, also when there are none.
LEMMA WriteNewest ==
  ASSUME NEW size \in 1 .. MaxLen, NEW s, Sound(s, size), NEW val \in Seq(Byte),
         Len(val) <= Stream_space(s), NEW r, r = Stream_writeBytes(s, val)
  PROVE  PutOn(s, r.s, val, size)
<1>1. Sound(r.s, size) /\ Puts(s, r, Len(val), val, size)
  BY WriteBytesSound, WriteBytesPuts
<1>2. /\ Contents(s) \in Seq(Byte) /\ Len(Contents(s)) = Stream_availableReal(s)
      /\ Len(Contents(r.s)) = Stream_availableReal(r.s)
      /\ Stream_availableReal(s) \in 0 .. size
      /\ Stream_spaceReal(s) = size - Stream_availableReal(s)
      /\ Stream_spaceReal(r.s) = size - Stream_availableReal(r.s)
  BY <1>1, ContentsAre, WriterIsBehind
<1>3. /\ Stream_space(s) \in Int /\ s.WriteLimit \in -1 .. size
      /\ r.s.WriteLimit \in -1 .. size /\ Len(val) \in Nat
  BY <1>1, Allowances, Types DEF Sound
<1>4. CASE Len(val) = 0
  <2>1. r.s = s
    BY <1>1, <1>3, <1>4 DEF Puts
  <2>2. val = <<>> /\ Contents(s) \o <<>> = Contents(s)
    BY <1>2, <1>4
  <2>3. Spent(s.WriteLimit, 0) = s.WriteLimit
    BY <1>3 DEF Spent
  <2>4. Stream_space(s) - 0 = Stream_space(s)
    BY <1>3
  <2> QED
    BY <1>1, <1>4, <2>1, <2>2, <2>3, <2>4 DEF PutOn
<1>5. CASE Len(val) > 0
  <2>1. /\ Contents(r.s) = Contents(s) \o val
        /\ r.s.WriteLimit = Spent(s.WriteLimit, Len(val))
        /\ r.s.ReadLimit = s.ReadLimit
    BY <1>1, <1>3, <1>5 DEF Puts
  <2>2. Stream_spaceReal(r.s) = Stream_spaceReal(s) - Len(val)
    <3>1. Len(Contents(s) \o val) = Len(Contents(s)) + Len(val)
      BY <1>2
    <3> QED
      BY <1>2, <1>3, <2>1, <3>1
  <2>3. Stream_space(r.s) = Stream_space(s) - Len(val)
    <3>1. CASE s.WriteLimit < 0
      <4>1. r.s.WriteLimit < 0
        BY <1>3, <2>1, <3>1 DEF Spent, NoLimit
      <4> QED
        BY <1>3, <2>2, <3>1, <4>1 DEF Stream_space, Stream_spaceLimit, Stream_isWriteLimited
    <3>2. CASE s.WriteLimit >= 0
      <4>1. Stream_space(s) = s.WriteLimit
        BY <3>2 DEF Stream_space, Stream_spaceLimit, Stream_isWriteLimited
      <4>2. r.s.WriteLimit = s.WriteLimit - Len(val) /\ r.s.WriteLimit >= 0
        BY <1>3, <2>1, <3>2, <4>1 DEF Spent, NoLimit
      <4> QED
        BY <4>1, <4>2 DEF Stream_space, Stream_spaceLimit, Stream_isWriteLimited
    <3> QED
      BY <1>3, <3>1, <3>2
  <2> QED
    BY <1>1, <2>1, <2>3 DEF PutOn
<1> QED
  BY <1>3, <1>4, <1>5
-----------------------------------------------------------------------------
(* The transfers. *)

\* Reading in two pieces is reading in one.
LEMMA ReadTwice ==
  ASSUME NEW size \in 1 .. MaxLen, NEW s, Sound(s, size),
         NEW m \in Nat, NEW n \in Nat, m + n <= Stream_available(s),
         NEW r1, r1 = Stream_readBytes(s, m), NEW r2, r2 = Stream_readBytes(r1.s, n),
         NEW put, put = SubSeq(Contents(s), 1, m + n)
  PROVE  /\ r1.val = SubSeq(put, 1, m) /\ r2.val = SubSeq(put, m + 1, m + n)
         /\ ReadOff(s, r2.s, m + n, size)
<1>1. /\ Contents(s) \in Seq(Byte) /\ Len(Contents(s)) = Stream_availableReal(s)
      /\ Stream_available(s) \in Int /\ Stream_availableReal(s) \in Int
      /\ Stream_available(s) <= Stream_availableReal(s)
      /\ s.ReadLimit \in Int
      /\ s.ReadLimit >= 0 => Stream_available(s) = s.ReadLimit
      /\ s.ReadLimit < 0 => s.ReadLimit = NoLimit
  <2>1. s.ReadLimit \in -1 .. size
    BY Types DEF Sound
  <2> QED
    BY <2>1, ContentsAre, Allowances, MaxLenAssumption
    DEF Stream_available, Stream_availableLimit, Stream_isReadLimited, NoLimit
<1>2. m <= Stream_available(s)
  BY <1>1
<1>3. r1.val = SubSeq(Contents(s), 1, m) /\ ReadOff(s, r1.s, m, size)
  BY <1>2, ReadOldest
<1>4. n <= Stream_available(r1.s) /\ Sound(r1.s, size)
  BY <1>1, <1>3 DEF ReadOff
<1>5. r2.val = SubSeq(Contents(r1.s), 1, n) /\ ReadOff(r1.s, r2.s, n, size)
  BY <1>4, ReadOldest
<1> DEFINE v == Contents(s)
           rest == Contents(r1.s)
<1>6. /\ v \in Seq(Byte) /\ m \in 0 .. Len(v) /\ n \in 0 .. Len(v) - m
      /\ m + n <= Len(v) /\ rest = SubSeq(v, m + 1, Len(v))
  BY <1>1, <1>3 DEF ReadOff
<1>7. Contents(r2.s) = SubSeq(rest, n + 1, Len(rest))
  BY <1>5 DEF ReadOff
<1>8. r1.val = SubSeq(put, 1, m)
  <2>1. r1.val = SubSeq(v, 1, m) /\ put = SubSeq(v, 1, m + n)
    BY <1>3
  <2> HIDE DEF v
  <2> QED
    BY <1>6, <2>1, FirstOfFirst
<1>9. /\ r2.val = SubSeq(put, m + 1, m + n)
      /\ Contents(r2.s) = SubSeq(v, m + n + 1, Len(v))
  <2>1. r2.val = SubSeq(rest, 1, n) /\ put = SubSeq(v, 1, m + n)
    BY <1>5
  <2> HIDE DEF v, rest
  <2> QED
    BY <1>6, <1>7, <2>1, SubOfRest
<1>10. /\ r2.s.ReadLimit = Spent(s.ReadLimit, m + n) /\ r2.s.WriteLimit = s.WriteLimit
       /\ Stream_available(r2.s) = Stream_available(s) - (m + n)
  <2>1. s.ReadLimit = NoLimit \/ m <= s.ReadLimit
    BY <1>1, <1>2
  <2>2. /\ r2.s.ReadLimit = Spent(Spent(s.ReadLimit, m), n)
        /\ r2.s.WriteLimit = s.WriteLimit
    BY <1>3, <1>5 DEF ReadOff
  <2>3. Stream_available(r2.s) = (Stream_available(s) - m) - n
    BY <1>3, <1>5 DEF ReadOff
  <2>4. Spent(Spent(s.ReadLimit, m), n) = Spent(s.ReadLimit, m + n)
    BY <1>1, <2>1, SpentTwice
  <2>5. (Stream_available(s) - m) - n = Stream_available(s) - (m + n)
    BY <1>1
  <2> QED
    BY <2>2, <2>3, <2>4, <2>5
<1>11. Sound(r2.s, size)
  BY <1>5 DEF ReadOff
<1> QED
  BY <1>6, <1>8, <1>9, <1>10, <1>11 DEF ReadOff

\* The same of len bytes, m of them in the first piece.
LEMMA ReadPieces ==
  ASSUME NEW size \in 1 .. MaxLen, NEW s, Sound(s, size),
         NEW len \in Nat, len <= Stream_available(s), NEW m \in 0 .. len,
         NEW r1, r1 = Stream_readBytes(s, m), NEW r2, r2 = Stream_readBytes(r1.s, len - m),
         NEW put, put = SubSeq(Contents(s), 1, len)
  PROVE  /\ r1.val = SubSeq(put, 1, m) /\ r2.val = SubSeq(put, m + 1, len)
         /\ ReadOff(s, r2.s, len, size)
<1>1. PICK n \in Nat : n = len - m
  OBVIOUS
<1>2. m \in Nat /\ m + n = len
  BY <1>1
<1> QED
  BY <1>1, <1>2, ReadTwice

\* Writing two pieces is writing the whole.
LEMMA WriteTwice ==
  ASSUME NEW size \in 1 .. MaxLen, NEW s, Sound(s, size),
         NEW first \in Seq(Byte), NEW rest \in Seq(Byte),
         Len(first) + Len(rest) <= Stream_space(s),
         NEW w1, w1 = Stream_writeBytes(s, first),
         NEW w2, w2 = Stream_writeBytes(w1.s, rest)
  PROVE  PutOn(s, w2.s, first \o rest, size)
<1>1. /\ Contents(s) \in Seq(Byte)
      /\ Stream_space(s) \in Int
      /\ s.WriteLimit \in Int
      /\ s.WriteLimit >= 0 => Stream_space(s) = s.WriteLimit
      /\ s.WriteLimit < 0 => s.WriteLimit = NoLimit
  <2>1. s.WriteLimit \in -1 .. size
    BY Types DEF Sound
  <2> QED
    BY <2>1, ContentsAre, Allowances, MaxLenAssumption
    DEF Stream_space, Stream_spaceLimit, Stream_isWriteLimited, NoLimit
<1> DEFINE m == Len(first)
           n == Len(rest)
<1>2. m \in Nat /\ n \in Nat /\ m <= Stream_space(s) /\ Len(first \o rest) = m + n
  BY <1>1
<1>3. PutOn(s, w1.s, first, size)
  BY <1>2, WriteNewest
<1>4. Sound(w1.s, size) /\ n <= Stream_space(w1.s)
  BY <1>1, <1>2, <1>3 DEF PutOn
<1>5. PutOn(w1.s, w2.s, rest, size)
  BY <1>4, WriteNewest
<1> HIDE DEF m, n
<1>6. Contents(w2.s) = Contents(s) \o (first \o rest)
  <2>1. Contents(w2.s) = (Contents(s) \o first) \o rest
    BY <1>3, <1>5 DEF PutOn
  <2> QED
    BY <1>1, <2>1, ConcatAssociative, SMTT(30)
<1>7. /\ w2.s.WriteLimit = Spent(s.WriteLimit, m + n) /\ w2.s.ReadLimit = s.ReadLimit
      /\ Stream_space(w2.s) = Stream_space(s) - (m + n)
  <2>1. s.WriteLimit = NoLimit \/ m <= s.WriteLimit
    BY <1>1, <1>2
  <2>2. /\ w2.s.WriteLimit = Spent(Spent(s.WriteLimit, m), n)
        /\ w2.s.ReadLimit = s.ReadLimit
    BY <1>3, <1>5 DEF PutOn, m, n
  <2>3. Stream_space(w2.s) = (Stream_space(s) - m) - n
    BY <1>3, <1>5 DEF PutOn, m, n
  <2>4. Spent(Spent(s.WriteLimit, m), n) = Spent(s.WriteLimit, m + n)
    BY <1>1, <1>2, <2>1, SpentTwice
  <2>5. (Stream_space(s) - m) - n = Stream_space(s) - (m + n)
    BY <1>1, <1>2
  <2> QED
    BY <2>2, <2>3, <2>4, <2>5
<1>8. Sound(w2.s, size)
  BY <1>5 DEF PutOn
<1> QED
  BY <1>2, <1>6, <1>7, <1>8 DEF PutOn
\* A transfer of len bytes either moves the oldest ones of s behind those of o,
\* or is refused for want of length, space or bytes and does nothing.
Transfers(s, o, r, len, a, b) ==
  \/ /\ r.res = "Stream_Ok" /\ len > 0
     /\ len <= Stream_space(o) /\ len <= Stream_available(s)
     /\ ReadOff(s, r.in, len, a)
     /\ PutOn(o, r.out, SubSeq(Contents(s), 1, len), b)
  \/ /\ r.res # "Stream_Ok" /\ r.in = s /\ r.out = o
     /\ len = 0 \/ len > Stream_space(o) \/ len > Stream_available(s)

\* The oldest bytes, as many as a transfer takes.
LEMMA OldestAre ==
  ASSUME NEW size \in 1 .. MaxLen, NEW s, Sound(s, size), NEW len \in Nat,
         len <= Stream_available(s), NEW put, put = SubSeq(Contents(s), 1, len)
  PROVE  put \in Seq(Byte) /\ Len(put) = len /\ len <= Stream_availableReal(s)
<1>1. /\ Contents(s) \in Seq(Byte) /\ Len(Contents(s)) = Stream_availableReal(s)
      /\ Stream_available(s) \in Int /\ Stream_availableReal(s) \in Int
      /\ Stream_available(s) <= Stream_availableReal(s)
  BY ContentsAre, Allowances
<1> DEFINE c == Contents(s)
<1>2. len <= Len(c) /\ c \in Seq(Byte)
  BY <1>1
<1> HIDE DEF c
<1>3. put = SubSeq(c, 1, len)
  BY DEF c
<1>4. put \in Seq(Byte) /\ Len(put) = len
  BY <1>2, <1>3
<1> QED
  BY <1>1, <1>2, <1>4 DEF c

\* Stream_writeStream, which reads in the pieces in which it writes.
LEMMA WriteStreamTransfers ==
  ASSUME NEW a \in 1 .. MaxLen, NEW s, Sound(s, a),
         NEW b \in 1 .. MaxLen, NEW o, Sound(o, b), NEW len \in Nat,
         NEW r, r = Stream_writeStream(o, s, len)
  PROVE  Transfers(s, o, r, len, a, b)
<1>1. /\ Stream_space(o) \in Int /\ Stream_available(s) \in Int
      /\ o.Size = b /\ o.WPos \in 0 .. b - 1
  BY Allowances, Types DEF Sound
<1>2. CASE len = 0 \/ len > Stream_space(o) \/ len > Stream_available(s)
  <2>1. r.res # "Stream_Ok" /\ r.in = s /\ r.out = o
    <3>1. CASE len = 0
      BY <3>1 DEF Stream_writeStream
    <3>2. CASE len > 0 /\ Stream_space(o) < len
      BY <3>2 DEF Stream_writeStream
    <3>3. CASE len > 0 /\ Stream_space(o) >= len /\ Stream_available(s) < len
      BY <3>3 DEF Stream_writeStream
    <3> QED
      BY <1>1, <1>2, <3>1, <3>2, <3>3
  <2> QED
    BY <1>2, <2>1 DEF Transfers
<1>3. CASE len > 0 /\ len <= Stream_space(o) /\ len <= Stream_available(s)
  <2> DEFINE put == SubSeq(Contents(s), 1, len)
             m   == o.Size - o.WPos
             n   == len - m
             c   == chargeWriteLimit(o, len)
             r1  == Stream_readBytes(s, m)
             r2  == Stream_readBytes(r1.s, n)
             r0  == Stream_readBytes(s, len)
             w   == Stream_writeBytes(o, put)
  <2>1. put \in Seq(Byte) /\ Len(put) = len
    BY <1>3, OldestAre
  <2>2. PutOn(o, w.s, put, b)
    <3> HIDE DEF put
    <3> QED
      BY <1>3, <2>1, WriteNewest
  <2>3. ~ (len = 0) /\ ~ (Stream_space(o) < len) /\ ~ (Stream_available(s) < len)
    BY <1>1, <1>3
  <2>4. r.res = "Stream_Ok"
    BY <2>3 DEF Stream_writeStream
  <2>5. ReadOff(s, r.in, len, a) /\ r.out = w.s
    <3>1. CASE o.WPos + len >= o.Size
      <4>1. m \in Nat /\ n \in Nat /\ m + n = len
        BY <1>1, <3>1
      <4>2. r.in = r2.s /\ r.out = storeWrapped(c, r1.val, r2.val)
        BY <2>3, <3>1 DEF Stream_writeStream
      <4>3. /\ r1.val = SubSeq(put, 1, m) /\ r2.val = SubSeq(put, m + 1, len)
            /\ ReadOff(s, r2.s, len, a)
        <5>1. m \in 0 .. len /\ n = len - m
          BY <4>1
        <5>2. r1 = Stream_readBytes(s, m) /\ r2 = Stream_readBytes(r1.s, len - m)
          OBVIOUS
        <5>3. put = SubSeq(Contents(s), 1, len)
          OBVIOUS
        <5> HIDE DEF m, n, put, r1, r2
        <5> QED
          BY <1>3, <5>1, <5>2, <5>3, ReadPieces
      <4>4. w.s = storeWrapped(c, SubSeq(put, 1, m), SubSeq(put, m + 1, Len(put)))
        <5> HIDE DEF put
        <5> QED
          BY <2>1, <2>3, <3>1 DEF Stream_writeBytes, write, Done
      <4> HIDE DEF m, n, r1, r2, put, w, c
      <4> QED
        BY <2>1, <4>1, <4>2, <4>3, <4>4
    <3>2. CASE ~ (o.WPos + len >= o.Size)
      <4>1. r.in = r0.s /\ r.out = storeDirect(c, r0.val)
        BY <2>3, <3>2 DEF Stream_writeStream
      <4>2. r0.val = put /\ ReadOff(s, r0.s, len, a)
        BY <1>3, ReadOldest
      <4>3. w.s = storeDirect(c, put)
        <5> HIDE DEF put
        <5> QED
          BY <2>1, <2>3, <3>2 DEF Stream_writeBytes, write, Done
      <4> HIDE DEF r0, put, w, c
      <4> QED
        BY <4>1, <4>2, <4>3
    <3> QED
      BY <3>1, <3>2
  <2> QED
    BY <1>3, <2>2, <2>4, <2>5 DEF Transfers
<1> QED
  BY <1>1, <1>2, <1>3

\* Stream_readStream, which writes in the pieces in which it reads.
LEMMA ReadStreamTransfers ==
  ASSUME NEW a \in 1 .. MaxLen, NEW s, Sound(s, a),
         NEW b \in 1 .. MaxLen, NEW o, Sound(o, b), NEW len \in Nat,
         NEW r, r = Stream_readStream(s, o, len)
  PROVE  Transfers(s, o, r, len, a, b)
<1>1. /\ Stream_space(o) \in Int /\ Stream_available(s) \in Int
      /\ s.Size = a /\ s.RPos \in 0 .. a - 1
  BY Allowances, Types DEF Sound
<1>2. CASE len = 0 \/ len > Stream_space(o) \/ len > Stream_available(s)
  <2>1. r.res # "Stream_Ok" /\ r.in = s /\ r.out = o
    <3>1. CASE len = 0
      BY <3>1 DEF Stream_readStream
    <3>2. CASE len > 0 /\ Stream_available(s) < len
      BY <3>2 DEF Stream_readStream
    <3>3. CASE len > 0 /\ Stream_available(s) >= len /\ Stream_space(o) < len
      BY <3>3 DEF Stream_readStream
    <3> QED
      BY <1>1, <1>2, <3>1, <3>2, <3>3
  <2> QED
    BY <1>2, <2>1 DEF Transfers
<1>3. CASE len > 0 /\ len <= Stream_space(o) /\ len <= Stream_available(s)
  <2> DEFINE put   == SubSeq(Contents(s), 1, len)
             m     == s.Size - s.RPos
             first == slice(s.Data, s.RPos, m)
             rest  == slice(s.Data, 0, len - m)
             whole == slice(s.Data, s.RPos, len)
             w1    == Stream_writeBytes(o, first)
             w2    == Stream_writeBytes(w1.s, rest)
             w     == Stream_writeBytes(o, whole)
             t     == Stream_readBytes(s, len)
  <2>1. put \in Seq(Byte) /\ Len(put) = len /\ len <= Stream_availableReal(s)
    BY <1>3, OldestAre
  <2>2. ~ (len = 0) /\ ~ (Stream_space(o) < len) /\ ~ (Stream_available(s) < len)
    BY <1>1, <1>3
  <2>3. r.res = "Stream_Ok" /\ r.in = takeRead(s, len)
    BY <2>2 DEF Stream_readStream
  <2>4. ReadOff(s, r.in, len, a)
    <3>1. t.s = takeRead(s, len)
      BY <1>3 DEF Stream_readBytes, readable, Deliver
    <3>2. ReadOff(s, t.s, len, a)
      BY <1>3, ReadOldest
    <3> QED
      BY <2>3, <3>1, <3>2
  <2>5. PutOn(o, r.out, put, b)
    <3>1. CASE s.RPos + len >= s.Size
      <4>1. r.out = w2.s
        BY <2>2, <3>1 DEF Stream_readStream
      <4>2. first \in Seq(Byte) /\ rest \in Seq(Byte) /\ first \o rest = put
        BY <1>1, <2>1, <3>1, ReadInTwo
      <4> HIDE DEF first, rest, put
      <4>3. Len(first) + Len(rest) <= Stream_space(o)
        <5>1. Len(first \o rest) = Len(first) + Len(rest)
          BY <4>2
        <5> QED
          BY <1>3, <2>1, <4>2, <5>1
      <4>4. PutOn(o, w2.s, first \o rest, b)
        BY <4>2, <4>3, WriteTwice
      <4> QED
        BY <4>1, <4>2, <4>4
    <3>2. CASE ~ (s.RPos + len >= s.Size)
      <4>1. r.out = w.s
        BY <2>2, <3>2 DEF Stream_readStream
      <4>2. whole = put
        BY <1>1, <2>1, <3>2, ReadInOne
      <4> HIDE DEF whole, put
      <4>3. PutOn(o, w.s, whole, b)
        BY <1>3, <2>1, <4>2, WriteNewest
      <4> QED
        BY <4>1, <4>2, <4>3
    <3> QED
      BY <3>1, <3>2
  <2> QED
    BY <1>3, <2>3, <2>4, <2>5 DEF Transfers
<1> QED
  BY <1>1, <1>2, <1>3
=============================================================================
