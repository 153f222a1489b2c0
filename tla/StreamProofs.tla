---------------------------- MODULE StreamProofs ----------------------------
(***************************************************************************)
(* Theorems about StreamCalls, for every buffer size, byte range and set   *)
(* of limits: the type invariant, the agreement of positions and flag, the *)
(* limits, that a stream implements the queue of ByteQueue, and that the   *)
(* functions that look into a stream answer what its bytes are.            *)
(*                                                                         *)
(* The inductive invariant is Inv of StreamOps: the flag cannot be shown   *)
(* to agree with the positions without the limits, because the checks of   *)
(* the code compare a length with the limit when one is set.  What the     *)
(* functions answer follows from it in each state.  Those that search in a *)
(* loop, and the calls made of several calls, are followed by induction    *)
(* over the places and the numbers, as sets that have a least member.      *)
(***************************************************************************)
EXTENDS StreamCalls, StreamLemmas, WellFoundedInduction

\* The invariant that the runs check is the one proved here.
LEMMA InvIsSound == Inv <=> Sound(stream, Size)
  BY DEF Inv, TypeOK, PositionsAgree, LimitsHold, Sound

\* The arguments of the calls.
LEMMA Arguments ==
  /\ Vals \subseteq Seq(Byte)
  /\ Lens \subseteq Nat
<1>1. Lens \subseteq Nat
  BY SizeAssumption, MaxLenAssumption DEF Lens
<1>2. ASSUME NEW val \in Vals
      PROVE  val \in Seq(Byte)
  <2>1. PICK n \in Lens : val \in [1 .. n -> Byte]
    BY DEF Vals
  <2> QED
    BY <1>1, <2>1
<1> QED
  BY <1>1, <1>2

\* Every call that charges the limits leaves a sound stream sound.
LEMMA NextSound ==
  ASSUME HalfRange(Size), Sound(stream, Size), [Next]_vars, ~ MovesUncharged
  PROVE  Sound(stream', Size)
<1> USE SizeAssumption DEF Returned, Done
<1>1. CASE UNCHANGED vars
  BY <1>1 DEF vars
<1>2. ASSUME NEW val \in Vals,
             WriteBytes(val) \/ WriteBytesReverse(val) \/ WriteNumber(val)
      PROVE  Sound(stream', Size)
  <2>1. val \in Seq(Byte)
    BY Arguments
  <2>2. CASE WriteBytes(val)
    BY <2>1, <2>2, WriteBytesSound DEF WriteBytes
  <2>3. CASE WriteBytesReverse(val)
    BY <2>1, <2>3, WriteBytesReverseSound DEF WriteBytesReverse
  <2>4. CASE WriteNumber(val)
    BY <2>1, <2>4, WriteNumberSound DEF WriteNumber
  <2> QED
    BY <1>2, <2>2, <2>3, <2>4
<1>3. ASSUME NEW val \in Byte, NEW len \in Lens, WritePadding(val, len)
      PROVE  Sound(stream', Size)
  BY <1>3, Arguments, WritePaddingSound DEF WritePadding
<1>4. ASSUME NEW len \in Lens,
             ReadBytes(len) \/ ReadBytesReverse(len) \/ ReadNumber(len)
      PROVE  Sound(stream', Size)
  <2>1. len \in Nat
    BY Arguments
  <2>2. CASE ReadBytes(len)
    BY <2>1, <2>2, ReadSound DEF ReadBytes
  <2>3. CASE ReadBytesReverse(len)
    BY <2>1, <2>3, ReadSound DEF ReadBytesReverse
  <2>4. CASE ReadNumber(len)
    BY <2>1, <2>4, ReadNumberSound DEF ReadNumber
  <2> QED
    BY <1>4, <2>2, <2>3, <2>4
<1>5. ASSUME NEW steps \in Lens, MoveWritePos(steps) \/ MoveReadPos(steps)
      PROVE  Sound(stream', Size)
  <2>1. steps \in Nat
    BY Arguments
  <2>2. CASE MoveWritePos(steps)
    <3>1. ~ Stream_isWriteLimited(stream)
      BY <2>2 DEF MovesUncharged
    <3> QED
      BY <2>1, <2>2, <3>1, MoveWriteSound DEF MoveWritePos
  <2>3. CASE MoveReadPos(steps)
    <3>1. ~ Stream_isReadLimited(stream)
      BY <2>3 DEF MovesUncharged
    <3> QED
      BY <2>1, <2>3, <3>1, MoveReadSound DEF MoveReadPos
  <2> QED
    BY <1>5, <2>2, <2>3
<1>6. CASE Reset \/ ResetIO \/ Clear
  <2>1. ~ Stream_isReadLimited(stream)
    BY <1>6 DEF MovesUncharged
  <2> QED
    BY <1>6, <2>1, ResetSound DEF Reset, ResetIO, Clear
<1>7. ASSUME NEW len \in Limits, SetWriteLimit(len) \/ SetReadLimit(len)
      PROVE  Sound(stream', Size)
  <2>1. len \in NoLimit .. Size
    BY LimitsAssumption
  <2> QED
    BY <1>7, <2>1, LimitSound DEF SetWriteLimit, SetReadLimit
<1>8. ASSUME NEW foreign \in BOOLEAN, SetByteOrder(foreign)
      PROVE  Sound(stream', Size)
  BY <1>8, OrderSound DEF SetByteOrder
<1> QED
  BY <1>1, <1>2, <1>3, <1>4, <1>5, <1>6, <1>7, <1>8 DEF Next

\* A call that charges no limit leaves types, positions and flag in order.
LEMMA UnchargedAgrees ==
  ASSUME HalfRange(Size), Sound(stream, Size), MovesUncharged
  PROVE  stream' \in Stream(Size) /\ Consistent(stream')
<1> USE SizeAssumption DEF Returned, Done
<1>1. CASE \E steps \in Lens : MoveWritePos(steps)
  BY <1>1, Arguments, MoveWriteAgrees DEF MoveWritePos
<1>2. CASE \E steps \in Lens : MoveReadPos(steps)
  BY <1>2, Arguments, MoveReadAgrees DEF MoveReadPos
<1>3. CASE Reset \/ ResetIO \/ Clear
  BY <1>3, ResetSound DEF Reset, ResetIO, Clear
<1> QED
  BY <1>1, <1>2, <1>3 DEF MovesUncharged

-----------------------------------------------------------------------------
(* The refinement: what each call does to the sequence of bytes in the ring. *)

\* What the queue calls space and available is what the code returns as such.
LEMMA QueueMeasures ==
  ASSUME Sound(stream, Size)
  PROVE  /\ Queue!space = Stream_space(stream)
         /\ Queue!available = Stream_available(stream)
         /\ Len(Contents(stream)) = Stream_availableReal(stream)
         /\ Stream_availableReal(stream) \in 0 .. Size
         /\ \A limit, n : Queue!spend(limit, n) = Spent(limit, n)
<1> USE SizeAssumption
<1>1. /\ Len(Contents(stream)) = Stream_availableReal(stream)
      /\ Stream_availableReal(stream) \in 0 .. Size
      /\ Stream_spaceReal(stream) = Size - Stream_availableReal(stream)
      /\ stream.WriteLimit \in -1 .. Size /\ stream.ReadLimit \in -1 .. Size
  BY ContentsAre, WriterIsBehind, Types DEF Sound
<1>2. Queue!space = Stream_space(stream)
  BY <1>1 DEF Queue!space, Stream_space, Stream_spaceLimit,
              Stream_isWriteLimited, NoLimit
<1>3. Queue!available = Stream_available(stream)
  BY <1>1 DEF Queue!available, Stream_available, Stream_availableLimit,
              Stream_isReadLimited, NoLimit
<1> QED
  BY <1>1, <1>2, <1>3 DEF Queue!spend, Spent

\* The call a caller sees.
LEMMA CallIs ==
  ASSUME NEW op, NEW r, NEW len, NEW val, Returned(op, r, len, val)
  PROVE  /\ stream' = r.s
         /\ call'.op = op /\ call'.res = r.res /\ call'.len = len
         /\ r.res = "Stream_Ok" => call'.val = val
  BY DEF Returned, Call

\* A call that is refused is refused by the queue.
LEMMA RejectStep ==
  ASSUME Sound(stream, Size), NEW op, NEW r, NEW len, NEW val,
         Returned(op, r, len, val), r.s = stream,
         \/ r.res = "Stream_ZeroLen" /\ len = 0
         \/ r.res = "Stream_NoSpace" /\ len > Stream_space(stream)
         \/ r.res = "Stream_NoAvailable" /\ len > Stream_available(stream)
  PROVE  Queue!Reject
<1>1. stream' = stream /\ call'.res = r.res /\ call'.len = len
  BY CallIs
<1>2. UNCHANGED <<Contents(stream), stream.WriteLimit, stream.ReadLimit>>
  BY <1>1
<1> QED
  BY <1>1, <1>2, QueueMeasures DEF Queue!Reject

\* The writers whose bytes the caller knows.
LEMMA PutStep ==
  ASSUME Sound(stream, Size), NEW r, NEW put \in Seq(Byte), NEW len \in Nat,
         Len(put) = len, Puts(stream, r, len, put, Size),
         Returned("put", r, len, put)
  PROVE  Queue!Put \/ Queue!Reject
<1>1. /\ stream' = r.s
      /\ call'.op = "put" /\ call'.res = r.res /\ call'.len = len
      /\ r.res = "Stream_Ok" => call'.val = put
  BY CallIs
<1>2. CASE \/ r.res = "Stream_ZeroLen" /\ len = 0 /\ r.s = stream
           \/ r.res = "Stream_NoSpace" /\ len > Stream_space(stream) /\ r.s = stream
  BY <1>2, RejectStep
<1>3. CASE /\ r.res = "Stream_Ok" /\ len > 0 /\ len <= Stream_space(stream)
           /\ Stream_availableReal(stream) + len <= Size
           /\ Contents(r.s) = Contents(stream) \o put
           /\ r.s.WriteLimit = Spent(stream.WriteLimit, len)
           /\ r.s.ReadLimit = stream.ReadLimit
  <2>1. len \in 1 .. Queue!space /\ Len(Contents(stream)) + len <= Size
    BY <1>3, QueueMeasures, Allowances, SizeAssumption
  <2>2. /\ stream'.WriteLimit = Queue!spend(stream.WriteLimit, len)
        /\ stream'.ReadLimit = stream.ReadLimit
        /\ Contents(stream)' = Contents(stream) \o put
    BY <1>1, <1>3, QueueMeasures
  <2> QED
    BY <1>1, <1>3, <2>1, <2>2 DEF Queue!Put, Queue!accepted
<1> QED
  BY <1>2, <1>3 DEF Puts

\* The writers whose bytes the queue does not promise, and the move of the
\* write position.
LEMMA PutAnyStep ==
  ASSUME Sound(stream, Size), NEW r, NEW len \in Nat, NEW val,
         Returned("putAny", r, len, val),
         \/ r.res = "Stream_ZeroLen" /\ len = 0 /\ r.s = stream
         \/ r.res = "Stream_NoSpace" /\ len > Stream_space(stream) /\ r.s = stream
         \/ /\ r.res = "Stream_Ok" /\ len <= Stream_space(stream)
            /\ Stream_availableReal(stream) + len <= Size
            /\ \E put \in Seq(Byte) :
                 Len(put) = len /\ Contents(r.s) = Contents(stream) \o put
            /\ r.s.WriteLimit \in {stream.WriteLimit,
                                   Spent(stream.WriteLimit, len)}
            /\ r.s.ReadLimit = stream.ReadLimit
  PROVE  Queue!PutAny \/ Queue!Reject
<1>1. /\ stream' = r.s
      /\ call'.op = "putAny" /\ call'.res = r.res /\ call'.len = len
  BY CallIs
<1>2. CASE \/ r.res = "Stream_ZeroLen" /\ len = 0 /\ r.s = stream
           \/ r.res = "Stream_NoSpace" /\ len > Stream_space(stream) /\ r.s = stream
  BY <1>2, RejectStep
<1>3. CASE /\ r.res = "Stream_Ok" /\ len <= Stream_space(stream)
           /\ Stream_availableReal(stream) + len <= Size
           /\ \E put \in Seq(Byte) :
                Len(put) = len /\ Contents(r.s) = Contents(stream) \o put
           /\ r.s.WriteLimit \in {stream.WriteLimit, Spent(stream.WriteLimit, len)}
           /\ r.s.ReadLimit = stream.ReadLimit
  <2>1. PICK put \in Seq(Byte) :
          Len(put) = len /\ Contents(r.s) = Contents(stream) \o put
    BY <1>3
  <2>2. Contents(stream) \in Seq(Byte)
    BY ContentsAre, SizeAssumption
  <2>3. /\ Len(Contents(stream)') = Len(Contents(stream)) + len
        /\ SubSeq(Contents(stream)', 1, Len(Contents(stream))) = Contents(stream)
    BY <1>1, <2>1, <2>2, Behind
  <2>4. len <= Queue!space /\ Len(Contents(stream)) + len <= Size
    BY <1>3, QueueMeasures
  <2>5. /\ stream'.WriteLimit \in {stream.WriteLimit,
                                   Queue!spend(stream.WriteLimit, len)}
        /\ stream'.ReadLimit = stream.ReadLimit
    BY <1>1, <1>3, QueueMeasures
  <2> QED
    BY <1>1, <1>3, <2>3, <2>4, <2>5 DEF Queue!PutAny, Queue!accepted
<1> QED
  BY <1>2, <1>3

\* The readers.
LEMMA TakeStep ==
  ASSUME Sound(stream, Size), NEW r, NEW got, NEW len \in Nat,
         Takes(stream, r, len, got), NEW op, NEW val,
         Returned(op, r, len, val),
         \/ op = "take" /\ (r.res = "Stream_Ok" => val = got)
         \/ op = "takeReverse" /\ (r.res = "Stream_Ok" => val = Reverse(got))
  PROVE  Queue!Take \/ Queue!Reject
<1>1. /\ stream' = r.s
      /\ call'.op = op /\ call'.res = r.res /\ call'.len = len
      /\ r.res = "Stream_Ok" => call'.val = val
  BY CallIs
<1>2. CASE \/ r.res = "Stream_ZeroLen" /\ len = 0 /\ r.s = stream
           \/ /\ r.res = "Stream_NoAvailable" /\ len > Stream_available(stream)
              /\ r.s = stream
  BY <1>2, RejectStep
<1>3. CASE /\ r.res = "Stream_Ok" /\ len > 0 /\ len <= Stream_available(stream)
           /\ len <= Len(Contents(stream))
           /\ got = SubSeq(Contents(stream), 1, len)
           /\ Contents(r.s) = SubSeq(Contents(stream), len + 1, Len(Contents(stream)))
           /\ r.s.ReadLimit = Spent(stream.ReadLimit, len)
           /\ r.s.WriteLimit = stream.WriteLimit
  <2>1. len \in 1 .. Queue!available
    BY <1>3, QueueMeasures, Allowances, SizeAssumption
  <2>2. /\ stream'.ReadLimit = Queue!spend(stream.ReadLimit, len)
        /\ stream'.WriteLimit = stream.WriteLimit
        /\ Contents(stream)' =
             SubSeq(Contents(stream), len + 1, Len(Contents(stream)))
    BY <1>1, <1>3, QueueMeasures
  <2>3. /\ op \in {"take", "takeReverse", "takeUntil"}
        /\ call'.val = IF op = "takeReverse"
                       THEN Queue!Reverse(SubSeq(Contents(stream), 1, len))
                       ELSE SubSeq(Contents(stream), 1, len)
    <3>1. \A v : Queue!Reverse(v) = Reverse(v)
      BY DEF Queue!Reverse, Reverse
    <3> QED
      BY <1>1, <1>3, <3>1
  <2> QED
    BY <1>1, <1>3, <2>1, <2>2, <2>3 DEF Queue!Take, Queue!accepted
<1> QED
  BY <1>2, <1>3 DEF Takes

\* The allowances of a sound stream are among those the queue can have.
LEMMA LimitsAreQueued ==
  ASSUME NEW s, Sound(s, Size)
  PROVE  /\ s.WriteLimit \in {NoLimit} \cup 0 .. (Size - Len(Contents(s)))
         /\ s.ReadLimit \in {NoLimit} \cup 0 .. Len(Contents(s))
<1> USE SizeAssumption, MaxLenAssumption
<1>1. /\ s.WriteLimit \in -1 .. Size /\ s.ReadLimit \in -1 .. Size
      /\ Len(Contents(s)) = Stream_availableReal(s)
      /\ Stream_availableReal(s) \in 0 .. Size
      /\ Stream_spaceReal(s) = Size - Stream_availableReal(s)
      /\ Stream_space(s) <= Stream_spaceReal(s)
      /\ Stream_available(s) <= Stream_availableReal(s)
  BY Types, ContentsAre, WriterIsBehind, Allowances DEF Sound
<1>2. /\ s.WriteLimit >= 0 => Stream_space(s) = s.WriteLimit
      /\ s.ReadLimit >= 0 => Stream_available(s) = s.ReadLimit
  BY DEF Stream_space, Stream_spaceLimit, Stream_isWriteLimited,
         Stream_available, Stream_availableLimit, Stream_isReadLimited
<1> QED
  BY <1>1, <1>2 DEF NoLimit

\* The calls that set a limit or the byte order leave the bytes where they are.
LEMMA LimitStep ==
  ASSUME Sound(stream, Size), NEW r, Sound(r.s, Size), NEW val,
         Returned("limit", r, 0, val),
         r.s.Data = stream.Data, r.s.WPos = stream.WPos, r.s.RPos = stream.RPos,
         r.s.Overflow = stream.Overflow,
         \/ r.s.WriteLimit = stream.WriteLimit
         \/ r.s.ReadLimit = stream.ReadLimit
  PROVE  Queue!Limit
<1>1. stream' = r.s /\ call'.op = "limit"
  BY CallIs
<1>2. Contents(stream)' = Contents(stream)
  BY <1>1, SameContents, SizeAssumption
<1>3. /\ stream'.WriteLimit \in
           {NoLimit} \cup 0 .. (Size - Len(Contents(stream)))
      /\ stream'.ReadLimit \in {NoLimit} \cup 0 .. Len(Contents(stream))
  BY <1>1, <1>2, LimitsAreQueued
<1> QED
  BY <1>1, <1>2, <1>3 DEF Queue!Limit

\* Each call of the program is one action of the queue.
LEMMA WriteStepsQueue ==
  ASSUME Sound(stream, Size), NEW val \in Vals,
         WriteBytes(val) \/ WriteBytesReverse(val) \/ WriteNumber(val)
  PROVE  Queue!Next
<1> USE SizeAssumption
<1>1. /\ val \in Seq(Byte) /\ Len(val) \in Nat
      /\ Reverse(val) \in Seq(Byte) /\ Len(Reverse(val)) = Len(val)
  BY Arguments, ReverseType
<1>2. CASE WriteBytes(val)
  BY <1>1, <1>2, WriteBytesPuts, PutStep DEF WriteBytes, Queue!Next
<1>3. CASE WriteBytesReverse(val)
  BY <1>1, <1>3, WriteBytesReversePuts, PutStep DEF WriteBytesReverse, Queue!Next
<1>4. CASE WriteNumber(val)
  <2> DEFINE r == writeNumber(stream, val)
  <2>1. CASE stream.OrderFn
    <3>1. Returned("put", r, Len(val), Reverse(val))
      BY <1>4, <2>1 DEF WriteNumber
    <3>2. Puts(stream, r, Len(val), Reverse(val), Size)
      BY <1>1, <2>1, WriteNumberPuts
    <3> QED
      BY <1>1, <3>1, <3>2, PutStep DEF Queue!Next
  <2>2. CASE ~ stream.OrderFn
    <3>1. Returned("put", r, Len(val), val)
      BY <1>4, <2>2 DEF WriteNumber
    <3>2. Puts(stream, r, Len(val), val, Size)
      BY <1>1, <2>2, WriteNumberPuts
    <3> QED
      BY <1>1, <3>1, <3>2, PutStep DEF Queue!Next
  <2> QED
    BY <2>1, <2>2
<1> QED
  BY <1>2, <1>3, <1>4

\* The padding writer.
LEMMA PaddingStepsQueue ==
  ASSUME Sound(stream, Size), NEW val \in Byte, NEW len \in Lens,
         WritePadding(val, len)
  PROVE  Queue!Next
<1> DEFINE r == Stream_writePadding(stream, val, len)
<1>1. len \in Nat
  BY Arguments
<1>2. PICK put \in Seq(Byte) : Len(put) = len /\ Puts(stream, r, len, put, Size)
  BY <1>1, WritePaddingPuts, SizeAssumption
<1>3. Returned("putAny", r, len, Repeat(val, len))
  BY DEF WritePadding
<1> HIDE DEF r
<1>4. \/ r.res = "Stream_ZeroLen" /\ len = 0 /\ r.s = stream
      \/ r.res = "Stream_NoSpace" /\ len > Stream_space(stream) /\ r.s = stream
      \/ /\ r.res = "Stream_Ok" /\ len <= Stream_space(stream)
         /\ Stream_availableReal(stream) + len <= Size
         /\ \E p \in Seq(Byte) :
              Len(p) = len /\ Contents(r.s) = Contents(stream) \o p
         /\ r.s.WriteLimit \in {stream.WriteLimit, Spent(stream.WriteLimit, len)}
         /\ r.s.ReadLimit = stream.ReadLimit
  BY <1>2 DEF Puts
<1> QED
  BY <1>1, <1>3, <1>4, PutAnyStep DEF Queue!Next

\* The readers, whichever way they deliver.
LEMMA ReadStepsQueue ==
  ASSUME Sound(stream, Size), NEW len \in Lens,
         ReadBytes(len) \/ ReadBytesReverse(len) \/ ReadNumber(len)
  PROVE  Queue!Next
<1> USE SizeAssumption
<1>1. len \in Nat
  BY Arguments
<1>2. CASE ReadBytes(len)
  BY <1>1, <1>2, ReadBytesTakes, TakeStep DEF ReadBytes, Queue!Next
<1>3. CASE ReadBytesReverse(len)
  <2> DEFINE r == Stream_readBytesReverse(stream, len)
  <2>1. PICK got : /\ Takes(stream, r, len, got)
                   /\ r.res = "Stream_Ok" => r.val = Reverse(got)
    BY <1>1, ReadBytesReverseTakes
  <2>2. Returned("takeReverse", r, len, r.val)
    BY <1>3 DEF ReadBytesReverse
  <2> HIDE DEF r
  <2> QED
    BY <1>1, <2>1, <2>2, TakeStep DEF Queue!Next
<1>4. CASE ReadNumber(len)
  <2> DEFINE r == readNumber(stream, len)
  <2>1. PICK got : /\ Takes(stream, r, len, got)
                   /\ r.res = "Stream_Ok" /\ stream.OrderFn => r.val = Reverse(got)
                   /\ r.res = "Stream_Ok" /\ ~ stream.OrderFn => r.val = got
    BY <1>1, ReadNumberTakes
  <2>2. CASE stream.OrderFn
    <3>1. Returned("takeReverse", r, len, r.val)
      BY <1>4, <2>2 DEF ReadNumber
    <3> HIDE DEF r
    <3> QED
      BY <1>1, <2>1, <2>2, <3>1, TakeStep DEF Queue!Next
  <2>3. CASE ~ stream.OrderFn
    <3>1. Returned("take", r, len, r.val)
      BY <1>4, <2>3 DEF ReadNumber
    <3> HIDE DEF r
    <3> QED
      BY <1>1, <2>1, <2>3, <3>1, TakeStep DEF Queue!Next
  <2> QED
    BY <2>2, <2>3
<1> QED
  BY <1>2, <1>3, <1>4

\* The moves of the positions.
LEMMA MoveStepsQueue ==
  ASSUME HalfRange(Size), Sound(stream, Size), NEW steps \in Lens,
         MoveWritePos(steps) \/ MoveReadPos(steps)
  PROVE  Queue!Next
<1> USE SizeAssumption
<1>1. steps \in Nat
  BY Arguments
<1>2. CASE MoveWritePos(steps)
  <2> DEFINE r == Stream_moveWritePos(stream, steps)
  <2>1. Returned("putAny", r, steps, <<>>)
    BY <1>2 DEF MoveWritePos
  <2>2. \/ r.res = "Stream_NoSpace" /\ steps > Stream_space(stream) /\ r.s = stream
        \/ /\ r.res = "Stream_Ok" /\ steps <= Stream_space(stream)
           /\ Stream_availableReal(stream) + steps <= Size
           /\ \E put \in Seq(Byte) :
                Len(put) = steps /\ Contents(r.s) = Contents(stream) \o put
           /\ r.s.WriteLimit = stream.WriteLimit
           /\ r.s.ReadLimit = stream.ReadLimit
    BY <1>1, MoveWritePuts
  <2> HIDE DEF r
  <2> QED
    BY <1>1, <2>1, <2>2, PutAnyStep DEF Queue!Next
<1>3. CASE MoveReadPos(steps)
  <2> DEFINE r == Stream_moveReadPos(stream, steps)
  <2>1. Returned("drop", r, steps, <<>>)
    BY <1>3 DEF MoveReadPos
  <2>2. \/ r.res = "Stream_NoAvailable" /\ steps > Stream_available(stream)
           /\ r.s = stream
        \/ /\ r.res = "Stream_Ok" /\ steps <= Stream_available(stream)
           /\ steps <= Len(Contents(stream))
           /\ Contents(r.s) =
                SubSeq(Contents(stream), steps + 1, Len(Contents(stream)))
           /\ r.s.WriteLimit = stream.WriteLimit
           /\ r.s.ReadLimit = stream.ReadLimit
    BY <1>1, MoveReadTakes
  <2> HIDE DEF r
  <2>3. /\ stream' = r.s
        /\ call'.op = "drop" /\ call'.res = r.res /\ call'.len = steps
    BY <2>1, CallIs
  <2>4. CASE r.res = "Stream_NoAvailable" /\ steps > Stream_available(stream)
             /\ r.s = stream
    BY <2>1, <2>4, RejectStep DEF Queue!Next
  <2>5. CASE /\ r.res = "Stream_Ok" /\ steps <= Stream_available(stream)
             /\ steps <= Len(Contents(stream))
             /\ Contents(r.s) =
                  SubSeq(Contents(stream), steps + 1, Len(Contents(stream)))
             /\ r.s.WriteLimit = stream.WriteLimit
             /\ r.s.ReadLimit = stream.ReadLimit
    <3>1. /\ steps <= Queue!available
          /\ Contents(stream)' =
               SubSeq(Contents(stream), steps + 1, Len(Contents(stream)))
          /\ UNCHANGED <<stream.WriteLimit, stream.ReadLimit>>
      BY <2>3, <2>5, QueueMeasures
    <3> QED
      BY <2>3, <2>5, <3>1 DEF Queue!Next, Queue!Drop, Queue!accepted
  <2> QED
    BY <2>2, <2>4, <2>5
<1> QED
  BY <1>2, <1>3

\* The calls that empty a stream.
LEMMA ResetStepsQueue ==
  ASSUME Sound(stream, Size), Reset \/ ResetIO \/ Clear
  PROVE  Queue!Next
<1>1. stream' \in {Stream_reset(stream), Stream_resetIO(stream), Stream_clear(stream)}
      /\ call'.op = "clear"
  BY CallIs DEF Reset, ResetIO, Clear, Done
<1>2. /\ Contents(stream') = <<>>
      /\ stream'.WriteLimit = stream.WriteLimit
      /\ stream'.ReadLimit = stream.ReadLimit
  BY <1>1, ResetEmpties, SizeAssumption
<1> QED
  BY <1>1, <1>2 DEF Queue!Next, Queue!Clear

\* The calls that set a limit or the byte order.
LEMMA LimitStepsQueue ==
  ASSUME Sound(stream, Size), NEW len, NEW foreign,
         \/ len \in Limits /\ (SetWriteLimit(len) \/ SetReadLimit(len))
         \/ foreign \in BOOLEAN /\ SetByteOrder(foreign)
  PROVE  Queue!Next
<1> USE SizeAssumption
<1>1. stream \in Stream(Size) /\ Limits \subseteq NoLimit .. Size
  BY LimitsAssumption DEF Sound
<1>2. ASSUME NEW l, NEW t, t = [stream EXCEPT !.WriteLimit = l],
             Returned("limit", Done(t), 0, <<>>), Sound(t, Size)
      PROVE  Queue!Limit
  <2> DEFINE r == Done(t)
  <2>1. r.s = t
    BY DEF Done
  <2>2. /\ t.Data = stream.Data /\ t.WPos = stream.WPos /\ t.RPos = stream.RPos
        /\ t.Overflow = stream.Overflow /\ t.ReadLimit = stream.ReadLimit
    BY <1>1, <1>2 DEF Stream
  <2> HIDE DEF r
  <2>3. Returned("limit", r, 0, <<>>)
    BY <1>2 DEF r
  <2> QED
    BY <1>2, <2>1, <2>2, <2>3, LimitStep
<1>3. ASSUME NEW l, NEW t,
             t = [stream EXCEPT !.ReadLimit = l] \/ t = [stream EXCEPT !.OrderFn = l],
             Returned("limit", Done(t), 0, <<>>), Sound(t, Size)
      PROVE  Queue!Limit
  <2> DEFINE r == Done(t)
  <2>1. r.s = t
    BY DEF Done
  <2>2. /\ t.Data = stream.Data /\ t.WPos = stream.WPos /\ t.RPos = stream.RPos
        /\ t.Overflow = stream.Overflow /\ t.WriteLimit = stream.WriteLimit
    BY <1>1, <1>3 DEF Stream
  <2> HIDE DEF r
  <2>3. Returned("limit", r, 0, <<>>)
    BY <1>3 DEF r
  <2> QED
    BY <1>3, <2>1, <2>2, <2>3, LimitStep
<1>4. CASE len \in Limits /\ SetWriteLimit(len)
  BY <1>1, <1>2, <1>4, LimitSound
  DEF SetWriteLimit, Stream_setWriteLimit, Queue!Next
<1>5. CASE len \in Limits /\ SetReadLimit(len)
  BY <1>1, <1>3, <1>5, LimitSound
  DEF SetReadLimit, Stream_setReadLimit, Queue!Next
<1>6. CASE foreign \in BOOLEAN /\ SetByteOrder(foreign)
  BY <1>1, <1>3, <1>6, OrderSound
  DEF SetByteOrder, Stream_setByteOrder, Queue!Next
<1> QED
  BY <1>4, <1>5, <1>6

\* A new stream is an empty queue without allowances.
LEMMA InitQueue == Init => Queue!Init
<1> SUFFICES ASSUME Init PROVE Queue!Init
  OBVIOUS
<1> USE SizeAssumption
<1>1. PICK data \in [0 .. Size - 1 -> Byte] : stream = Stream_init(data, Size)
  BY DEF Init
<1>2. /\ stream.WriteLimit = NoLimit /\ stream.ReadLimit = NoLimit
      /\ stream.WPos = 0 /\ stream.RPos = 0 /\ stream.Overflow = 0
      /\ Sound(stream, Size)
  BY <1>1, InitSound DEF Stream_init
<1>3. Stream_availableReal(stream) = 0
  BY <1>2, Filled DEF Sound
<1>4. Contents(stream) = <<>>
  BY <1>2, <1>3, ContentsAre, EmptySeq
<1> QED
  BY <1>2, <1>4 DEF Queue!Init, Init, Call

\* Every step of the program is a step of the queue, or leaves it alone.
LEMMA NextQueue ==
  ASSUME HalfRange(Size), Inv, [Next]_vars
  PROVE  [Queue!Next]_(Queue!qvars)
<1>0. Sound(stream, Size)
  BY InvIsSound
<1>1. CASE UNCHANGED vars
  BY <1>1 DEF vars, Queue!qvars, Contents, Stream_availableReal
<1>2. CASE \E val \in Vals :
             WriteBytes(val) \/ WriteBytesReverse(val) \/ WriteNumber(val)
  BY <1>0, <1>2, WriteStepsQueue
<1>3. CASE \E val \in Byte, len \in Lens : WritePadding(val, len)
  BY <1>0, <1>3, PaddingStepsQueue
<1>4. CASE \E len \in Lens :
             ReadBytes(len) \/ ReadBytesReverse(len) \/ ReadNumber(len)
  BY <1>0, <1>4, ReadStepsQueue
<1>5. CASE \E steps \in Lens : MoveWritePos(steps) \/ MoveReadPos(steps)
  BY <1>0, <1>5, MoveStepsQueue
<1>6. CASE Reset \/ ResetIO \/ Clear
  BY <1>0, <1>6, ResetStepsQueue
<1>7. CASE \E len \in Limits : SetWriteLimit(len) \/ SetReadLimit(len)
  BY <1>0, <1>7, LimitStepsQueue
<1>8. CASE \E foreign \in BOOLEAN : SetByteOrder(foreign)
  BY <1>0, <1>8, LimitStepsQueue
<1> QED
  BY <1>1, <1>2, <1>3, <1>4, <1>5, <1>6, <1>7, <1>8 DEF Next

-----------------------------------------------------------------------------
(* Induction: a set of numbers has a least one, and what it gives. *)

\* The order of the numbers as a relation.
Below == {p \in Nat \X Nat : p[1] < p[2]}

\* It has no endless descent.
LEMMA Descends == IsWellFoundedOn(Below, Nat)
<1>1. Below = OpToRel(<, Nat)
  BY Zenon DEF Below, OpToRel
<1> QED
  BY <1>1, NatLessThanWellFounded

\* A set of numbers has a least one.
LEMMA Least ==
  ASSUME NEW S, S \subseteq Nat, S # {}
  PROVE  \E n \in S : \A m \in S : n <= m
<1>1. PICK n \in S : \A m \in S : ~ (<<m, n>> \in Below)
  BY Descends, WFMin
<1>2. \A m \in S : ~ (m < n)
  BY <1>1 DEF Below
<1>3. ASSUME NEW m \in S
      PROVE  n <= m
  BY <1>2
<1> QED
  BY <1>3

\* A set of numbers that has 0, and with each number of those up to N the next
\* one, has them all.
LEMMA Induction ==
  ASSUME NEW N \in Nat, NEW S, 0 \in S,
         \A n \in 0 .. N - 1 : n \in S => n + 1 \in S
  PROVE  0 .. N \subseteq S
<1> DEFINE Missing == {n \in 0 .. N : n \notin S}
<1>1. SUFFICES ASSUME Missing # {} PROVE FALSE
  OBVIOUS
<1>2. PICK n \in Missing : \A m \in Missing : n <= m
  <2>1. Missing \subseteq Nat
    OBVIOUS
  <2> HIDE DEF Missing
  <2> QED
    BY <1>1, <2>1, Least
<1>3. n \in 1 .. N /\ n \notin S
  BY <1>2
<1>4. n - 1 \in S
  <2>1. n - 1 \in 0 .. N /\ ~ (n <= n - 1)
    BY <1>3
  <2> QED
    BY <1>2, <2>1
<1>5. n - 1 \in 0 .. N - 1 /\ (n - 1) + 1 = n
  BY <1>3
<1> QED
  BY <1>3, <1>4, <1>5

\* The same downwards.
LEMMA Downward ==
  ASSUME NEW N \in Nat, NEW S, N \in S,
         \A n \in 1 .. N : (n .. N \subseteq S) => n - 1 \in S
  PROVE  0 .. N \subseteq S
<1> DEFINE Reached(k) == N - k .. N \subseteq S
           T == {k \in 0 .. N : Reached(k)}
<1>1. 0 \in T
  BY DEF Reached
<1>2. ASSUME NEW k \in 0 .. N - 1, k \in T
      PROVE  k + 1 \in T
  <2>1. /\ N - k \in 1 .. N /\ N - (k + 1) = (N - k) - 1 /\ k + 1 \in 0 .. N
        /\ N - (k + 1) \in 0 .. N
    OBVIOUS
  <2>2. (N - k) - 1 \in S
    BY <1>2, <2>1
  <2>3. N - (k + 1) .. N = {N - (k + 1)} \cup (N - k .. N)
    BY <2>1
  <2> QED
    BY <1>2, <2>1, <2>2, <2>3
<1> HIDE DEF T
<1>3. 0 .. N \subseteq T
  BY <1>1, <1>2, Induction
<1>4. N \in T
  BY <1>3
<1> QED
  BY <1>4 DEF T

\* What CHOOSE picks as the least is the least.
LEMMA ChosenLeast ==
  ASSUME NEW S, S \subseteq Nat, S # {},
         NEW c, c = CHOOSE i \in S : \A j \in S : i <= j
  PROVE  c \in S /\ \A j \in S : c <= j
<1>1. \E i \in S : \A j \in S : i <= j
  BY Least
<1> QED
  BY <1>1, ZenonT(30)

-----------------------------------------------------------------------------
(* The bytes that may be read, and the functions that get them. *)

\* The bytes that may be read, oldest first.
AllowedOf(s) == SubSeq(Contents(s), 1, Stream_available(s))

\* They are as many as available says, and they stand in the slots from the
\* reader on.
LEMMA AllowedAre ==
  ASSUME NEW size \in 1 .. MaxLen, NEW s, Sound(s, size)
  PROVE  /\ AllowedOf(s) \in Seq(Byte)
         /\ Len(AllowedOf(s)) = Stream_available(s)
         /\ Stream_available(s) \in 0 .. Stream_availableReal(s)
         /\ Stream_availableReal(s) \in 0 .. size
         /\ \A i \in 1 .. Stream_available(s) :
              AllowedOf(s)[i] = s.Data[Ahead(s.RPos, i, size)]
<1> DEFINE c == Contents(s)
           n == Stream_availableReal(s)
           m == Stream_available(s)
           d == s.Data
           r == s.RPos
<1>1. /\ c \in Seq(Byte) /\ Len(c) = n
      /\ \A i \in 1 .. n : c[i] = d[Ahead(r, i, size)]
  BY ContentsAre
<1>2. n \in 0 .. size
  BY WriterIsBehind
<1>3. m \in 0 .. n
  <2>1. m \in Int /\ m <= n
    BY Allowances
  <2>2. 0 <= m
    <3>1. CASE s.ReadLimit >= 0
      BY <3>1 DEF Stream_available, Stream_availableLimit, Stream_isReadLimited
    <3>2. CASE ~ (s.ReadLimit >= 0)
      BY <1>2, <3>2 DEF Stream_available, Stream_availableLimit, Stream_isReadLimited
    <3> QED
      BY <3>1, <3>2
  <2> QED
    BY <1>2, <2>1, <2>2
<1> HIDE DEF c, n, m, d, r
<1> DEFINE b == SubSeq(c, 1, m)
<1>4. /\ b \in Seq(Byte) /\ Len(b) = m /\ \A i \in 1 .. m : b[i] = c[i]
  BY <1>1, <1>2, <1>3
<1> HIDE DEF b
<1>5. ASSUME NEW i \in 1 .. m
      PROVE  b[i] = d[Ahead(r, i, size)]
  <2>1. i \in 1 .. n
    BY <1>2, <1>3
  <2> QED
    BY <1>1, <1>4, <2>1
<1> QED
  BY <1>2, <1>3, <1>4, <1>5 DEF AllowedOf, b, c, n, m, d, r

\* Memory inside the buffer.
LEMMA MemoryIs ==
  ASSUME NEW size \in Nat \ {0}, NEW d \in [0 .. size - 1 -> Byte],
         NEW at \in 0 .. size - 1, NEW n \in Nat, at + n <= size
  PROVE  memory(d, at, n) = slice(d, at, n)
<1>1. \A i \in 1 .. n : at + i - 1 \in DOMAIN d
  OBVIOUS
<1> QED
  BY <1>1 DEF memory, slice

\* The bytes from an index on, of those that may be read.
LEMMA WindowIs ==
  ASSUME NEW size \in 1 .. MaxLen, NEW s, Sound(s, size),
         NEW index \in Nat, NEW len \in Nat, index + len <= Stream_available(s),
         NEW w, w = Window(AllowedOf(s), index, len)
  PROVE  /\ w \in Seq(Byte) /\ Len(w) = len
         /\ \A i \in 1 .. len : w[i] = s.Data[Ahead(s.RPos, index + i, size)]
<1> DEFINE b == AllowedOf(s)
           m == Stream_available(s)
           n == Stream_availableReal(s)
           d == s.Data
           r == s.RPos
<1>1. /\ b \in Seq(Byte) /\ Len(b) = m /\ m \in 0 .. n /\ n \in 0 .. size
      /\ \A i \in 1 .. m : b[i] = d[Ahead(r, i, size)]
  BY AllowedAre
<1>2. index + len <= m
  OBVIOUS
<1>3. w = SubSeq(b, index + 1, index + len)
  BY DEF Window
<1> HIDE DEF b, m, n, d, r
<1>4. m \in Nat
  BY <1>1
<1>5. /\ w \in Seq(Byte) /\ Len(w) = len /\ \A i \in 1 .. len : w[i] = b[index + i]
  <2>1. w = [i \in 1 .. (index + len) - (index + 1) + 1 |-> b[i + (index + 1) - 1]]
    <3>1. b \in Seq(Byte)
      BY <1>1
    <3> HIDE DEF Byte
    <3> QED
      BY <1>3, <3>1
  <2>2. /\ (index + len) - (index + 1) + 1 = len
        /\ \A i \in 1 .. len : i + (index + 1) - 1 = index + i
    OBVIOUS
  <2>3. \A i \in 1 .. len : index + i \in 1 .. Len(b)
    BY <1>1, <1>2, <1>4
  <2>4. w = [i \in 1 .. len |-> b[index + i]]
    BY <2>1, <2>2
  <2>5. \A i \in 1 .. len : b[index + i] \in Byte
    BY <1>1, <2>3
  <2>6. w \in [1 .. len -> Byte] /\ \A i \in 1 .. len : w[i] = b[index + i]
    BY <2>4, <2>5
  <2> HIDE DEF Byte
  <2> QED
    BY <2>6
<1>6. ASSUME NEW i \in 1 .. len
      PROVE  w[i] = d[Ahead(r, index + i, size)]
  <2>1. index + i \in 1 .. m
    BY <1>2, <1>4
  <2> QED
    BY <1>1, <1>5, <2>1
<1> QED
  BY <1>5, <1>6 DEF d, r

\* Where the reader of an index looks.
LEMMA IndexIs ==
  ASSUME NEW size \in Nat \ {0}, NEW r \in 0 .. size - 1,
         NEW index \in Nat, index < size, NEW at, at = (r + index) % size
  PROVE  at \in 0 .. size - 1 /\ Further(r, index, at, size)
<1>1. index + 1 \in 1 .. size /\ r + (index + 1) - 1 = r + index
  OBVIOUS
<1>2. /\ at = Ahead(r, index + 1, size)
      /\ Ahead(r, index + 1, size) \in 0 .. size - 1
  <2>1. /\ (r + (index + 1) - 1) % size = Ahead(r, index + 1, size)
        /\ Ahead(r, index + 1, size) \in 0 .. size - 1
    BY <1>1, AheadIs
  <2> QED
    BY <1>1, <2>1
<1>3. Further(r, index, Ahead(r, index + 1, size), size)
  BY <1>1 DEF Further, Ahead
<1> QED
  BY <1>2, <1>3

\* What is asked for lies among the bytes that may be read.
LEMMA WithinIs ==
  ASSUME NEW size \in 1 .. MaxLen, NEW s, Sound(s, size),
         NEW index \in Nat, NEW len \in Nat
  PROVE  Within(AllowedOf(s), index, len)
           <=> len # 0 /\ ~ (Stream_available(s) - index < len)
<1>1. Len(AllowedOf(s)) = Stream_available(s) /\ Stream_available(s) \in Int
  BY AllowedAre
<1> QED
  BY <1>1 DEF Within

\* Bytes in one piece from an index on.
LEMMA PieceInOne ==
  ASSUME NEW size \in 1 .. MaxLen, NEW s, Sound(s, size),
         NEW index \in Nat, NEW len \in Nat, Within(AllowedOf(s), index, len),
         NEW at, at = (s.RPos + index) % s.Size, at + len <= size
  PROVE  /\ at \in 0 .. size - 1
         /\ memory(s.Data, at, len) = Window(AllowedOf(s), index, len)
<1> DEFINE d == s.Data
           r == s.RPos
           w == Window(AllowedOf(s), index, len)
           u == memory(d, at, len)
<1>1. /\ size \in Nat \ {0} /\ r \in 0 .. size - 1 /\ s.Size = size
      /\ d \in [0 .. size - 1 -> Byte]
  BY Types, MaxLenAssumption DEF Sound
<1>2. len > 0 /\ index + len <= Stream_available(s) /\ index + len <= size
  <2>1. /\ Len(AllowedOf(s)) = Stream_available(s)
        /\ Stream_available(s) \in 0 .. Stream_availableReal(s)
        /\ Stream_availableReal(s) \in 0 .. size
    BY AllowedAre
  <2> QED
    BY <1>1, <2>1 DEF Within
<1>3. /\ w \in Seq(Byte) /\ Len(w) = len
      /\ \A i \in 1 .. len : w[i] = d[Ahead(r, index + i, size)]
  BY <1>2, WindowIs
<1>4. at = (r + index) % size /\ at + len <= size
  BY <1>1
<1> HIDE DEF d, r, w
<1>5. at \in 0 .. size - 1 /\ Further(r, index, at, size)
  <2>1. index < size
    BY <1>1, <1>2
  <2> QED
    BY <1>1, <1>4, <2>1, IndexIs
<1>6. u \in Seq(Byte) /\ Len(u) = len /\ \A i \in 1 .. len : u[i] = d[at + i - 1]
  <2>1. u = slice(d, at, len)
    BY <1>1, <1>4, <1>5, MemoryIs
  <2>2. /\ slice(d, at, len) \in Seq(Byte) /\ Len(slice(d, at, len)) = len
        /\ \A i \in 1 .. len : slice(d, at, len)[i] = d[at + i - 1]
    BY <1>1, <1>4, <1>5, SliceIs
  <2> HIDE DEF u
  <2> QED
    BY <2>1, <2>2
<1> HIDE DEF u
<1>7. ASSUME NEW i \in 1 .. len
      PROVE  u[i] = w[i]
  <2>1. at + i - 1 = Ahead(r, index + i, size)
    <3>1. i \in 1 .. size /\ index + i <= size /\ index \in 0 .. size
      BY <1>1, <1>2
    <3>2. Ahead(at, i, size) = Ahead(r, index + i, size)
      BY <1>1, <1>5, <3>1, AheadAdds
    <3>3. Ahead(at, i, size) = at + i - 1
      BY <1>1, <1>4, <1>5 DEF Ahead
    <3> QED
      BY <3>2, <3>3
  <2> QED
    BY <1>3, <1>6, <2>1
<1>8. u = w
  BY <1>3, <1>6, <1>7, SeqEqual
<1> QED
  BY <1>5, <1>8 DEF u, w, d

\* Bytes from an index on that pass the end of the buffer, or end there.
LEMMA PieceInTwo ==
  ASSUME NEW size \in 1 .. MaxLen, NEW s, Sound(s, size),
         NEW index \in Nat, NEW len \in Nat, Within(AllowedOf(s), index, len),
         NEW at, at = (s.RPos + index) % s.Size, at + len >= size
  PROVE  /\ at \in 0 .. size - 1
         /\ slice(s.Data, at, size - at) \o memory(s.Data, 0, len - (size - at))
              = Window(AllowedOf(s), index, len)
<1> DEFINE d == s.Data
           r == s.RPos
           w == Window(AllowedOf(s), index, len)
           k == size - at
           m == len - k
           a == slice(d, at, k)
           b == memory(d, 0, m)
           u == a \o b
<1>1. /\ size \in Nat \ {0} /\ r \in 0 .. size - 1 /\ s.Size = size
      /\ d \in [0 .. size - 1 -> Byte]
  BY Types, MaxLenAssumption DEF Sound
<1>2. len > 0 /\ index + len <= Stream_available(s) /\ index + len <= size
  <2>1. /\ Len(AllowedOf(s)) = Stream_available(s)
        /\ Stream_available(s) \in 0 .. Stream_availableReal(s)
        /\ Stream_availableReal(s) \in 0 .. size
    BY AllowedAre
  <2> QED
    BY <1>1, <2>1 DEF Within
<1>3. /\ w \in Seq(Byte) /\ Len(w) = len
      /\ \A i \in 1 .. len : w[i] = d[Ahead(r, index + i, size)]
  BY <1>2, WindowIs
<1>4. at = (r + index) % size /\ at + len >= size
  BY <1>1
<1> HIDE DEF d, r, w
<1>5. at \in 0 .. size - 1 /\ Further(r, index, at, size)
  <2>1. index < size
    BY <1>1, <1>2
  <2> QED
    BY <1>1, <1>4, <2>1, IndexIs
<1>6. k \in 1 .. len /\ at + k = size /\ m \in 0 .. size /\ k + m = len
  BY <1>1, <1>2, <1>4, <1>5
<1> HIDE DEF k, m
<1>7. a \in Seq(Byte) /\ Len(a) = k /\ \A i \in 1 .. k : a[i] = d[at + i - 1]
  <2>1. k \in Nat /\ at + k <= size
    BY <1>1, <1>6
  <2> QED
    BY <1>1, <1>5, <2>1, SliceIs
<1>8. /\ b \in Seq(Byte) /\ Len(b) = m
      /\ \A i \in 1 .. m : b[i] = d[0 + i - 1]
  <2>1. 0 \in 0 .. size - 1 /\ m \in Nat /\ 0 + m <= size
    BY <1>1, <1>6
  <2>2. b = slice(d, 0, m)
    BY <1>1, <2>1, MemoryIs
  <2>3. /\ slice(d, 0, m) \in Seq(Byte) /\ Len(slice(d, 0, m)) = m
        /\ \A i \in 1 .. m : slice(d, 0, m)[i] = d[0 + i - 1]
    BY <1>1, <2>1, SliceIs
  <2> HIDE DEF b
  <2> QED
    BY <2>2, <2>3
<1> HIDE DEF a, b
<1>9. /\ u \in Seq(Byte) /\ Len(u) = len
      /\ \A i \in 1 .. k : u[i] = a[i]
      /\ \A i \in 1 .. m : u[k + i] = b[i]
  <2>1. /\ u \in Seq(Byte) /\ Len(u) = Len(a) + Len(b)
        /\ \A i \in 1 .. Len(a) : u[i] = a[i]
        /\ \A i \in 1 .. Len(b) : u[Len(a) + i] = b[i]
    BY <1>7, <1>8, TwoPieces
  <2> HIDE DEF u
  <2> QED
    BY <1>6, <1>7, <1>8, <2>1
<1> HIDE DEF u
<1>10. ASSUME NEW i \in 1 .. len
       PROVE  u[i] = w[i]
  <2>1. Ahead(at, i, size) = Ahead(r, index + i, size)
    <3>1. i \in 1 .. size /\ index + i <= size /\ index \in 0 .. size
      BY <1>1, <1>2
    <3> QED
      BY <1>1, <1>5, <3>1, AheadAdds
  <2>2. CASE i <= k
    <3>1. i \in 1 .. k /\ Ahead(at, i, size) = at + i - 1
      BY <1>1, <1>5, <1>6, <2>2 DEF Ahead
    <3>2. u[i] = a[i] /\ a[i] = d[at + i - 1]
      BY <1>7, <1>9, <3>1
    <3> QED
      BY <1>3, <2>1, <3>1, <3>2
  <2>3. CASE ~ (i <= k)
    <3>1. /\ i - k \in 1 .. m /\ k + (i - k) = i
          /\ Ahead(at, i, size) = 0 + (i - k) - 1
      BY <1>1, <1>5, <1>6, <2>3 DEF Ahead
    <3>2. u[k + (i - k)] = b[i - k] /\ b[i - k] = d[0 + (i - k) - 1]
      BY <1>8, <1>9, <3>1
    <3> QED
      BY <1>3, <2>1, <3>1, <3>2
  <2> QED
    BY <2>2, <2>3
<1>11. u = w
  BY <1>3, <1>9, <1>10, SeqEqual
<1> QED
  BY <1>5, <1>11 DEF u, w, a, b, m, k, d

\* The get functions, refused or not, in terms of the bytes that may be read.
LEMMA GetIs ==
  ASSUME NEW size \in 1 .. MaxLen, NEW s, Sound(s, size),
         NEW index \in Nat, NEW len \in Nat
  PROVE  /\ Within(AllowedOf(s), index, len) =>
              /\ Stream_getBytesAt(s, index, len).res = "Stream_Ok"
              /\ Stream_getBytesAt(s, index, len).val = Window(AllowedOf(s), index, len)
         /\ ~ Within(AllowedOf(s), index, len) =>
              Stream_getBytesAt(s, index, len).res \in {"Stream_ZeroLen", "Stream_NoAvailable"}
<1> DEFINE at == (s.RPos + index) % s.Size
           ok == Within(AllowedOf(s), index, len)
           m  == Stream_available(s)
           g  == Stream_getBytesAt(s, index, len)
           wrapped == slice(s.Data, at, s.Size - at) \o memory(s.Data, 0, len - (s.Size - at))
           whole   == memory(s.Data, at, len)
<1>1. g = getAt(s, index, len, whole, wrapped)
  BY DEF Stream_getBytesAt
<1>2. ok <=> len # 0 /\ ~ (m - index < len)
  BY WithinIs
<1>3. s.Size = size /\ size \in Nat
  BY Types, MaxLenAssumption DEF Sound
<1>4. ok => at \in 0 .. size - 1
  <2>1. s.RPos \in 0 .. size - 1 /\ size \in Nat \ {0}
    BY Types, MaxLenAssumption DEF Sound
  <2> QED
    BY <1>3, <2>1
<1>5. ok /\ at + len >= size => wrapped = Window(AllowedOf(s), index, len)
  <2>1. ok /\ at + len >= size =>
          slice(s.Data, at, size - at) \o memory(s.Data, 0, len - (size - at))
            = Window(AllowedOf(s), index, len)
    BY PieceInTwo
  <2> QED
    BY <1>3, <2>1
<1>6. ok /\ at + len <= size => whole = Window(AllowedOf(s), index, len)
  BY <1>3, PieceInOne
<1> HIDE DEF ok, wrapped, whole, g, m
<1>7. ASSUME ok
      PROVE  g = Deliver(s, IF at + len >= s.Size THEN wrapped ELSE whole)
  BY <1>1, <1>2, <1>7 DEF getAt, m
<1>8. ~ ok => g.res \in {"Stream_ZeroLen", "Stream_NoAvailable"}
  <2>1. len = 0 \/ (len > 0 /\ m - index < len) <=> ~ ok
    BY <1>2
  <2> QED
    BY <1>1, <2>1 DEF getAt, ReadRefuse, m
<1> HIDE DEF at
<1>9. ASSUME ok
      PROVE  g.res = "Stream_Ok" /\ g.val = Window(AllowedOf(s), index, len)
  <2>1. at + len >= s.Size => wrapped = Window(AllowedOf(s), index, len)
    BY <1>3, <1>5, <1>9
  <2>2. ~ (at + len >= s.Size) => whole = Window(AllowedOf(s), index, len)
    BY <1>3, <1>4, <1>6, <1>9
  <2> QED
    BY <1>7, <1>9, <2>1, <2>2 DEF Deliver
<1> QED
  BY <1>8, <1>9 DEF ok, g

\* The reversing one: right as long as the bytes lie in one piece.
LEMMA GetReverseIs ==
  ASSUME NEW size \in 1 .. MaxLen, NEW s, Sound(s, size),
         NEW index \in Nat, NEW len \in Nat
  PROVE  /\ Stream_getBytesReverseAt(s, index, len).res
              = Stream_getBytesAt(s, index, len).res
         /\ /\ Within(AllowedOf(s), index, len)
            /\ ~ (((s.RPos + index) % s.Size) + len > s.Size)
            => Stream_getBytesReverseAt(s, index, len).val
                 = Reverse(Window(AllowedOf(s), index, len))
<1> DEFINE at == (s.RPos + index) % s.Size
           ok == Within(AllowedOf(s), index, len)
           m  == Stream_available(s)
           k  == s.Size - at
           g  == Stream_getBytesReverseAt(s, index, len)
           wrapped == Reverse(memory(s.Data, at + len - k, k))
                        \o Reverse(memory(s.Data, 0, len - k))
           whole   == Reverse(memory(s.Data, at, len))
<1>1. g = getAt(s, index, len, whole, wrapped)
  BY DEF Stream_getBytesReverseAt
<1>2. ok <=> len # 0 /\ ~ (m - index < len)
  BY WithinIs
<1>3. s.Size = size /\ size \in Nat /\ at \in 0 .. size - 1
  <2>1. s.RPos \in 0 .. size - 1 /\ size \in Nat \ {0} /\ s.Size = size
    BY Types, MaxLenAssumption DEF Sound
  <2> QED
    BY <2>1
<1>4. g.res = Stream_getBytesAt(s, index, len).res
  BY <1>1 DEF Stream_getBytesAt, getAt, Deliver, ReadRefuse
<1>5. ok /\ at + len <= size => memory(s.Data, at, len) = Window(AllowedOf(s), index, len)
  BY <1>3, PieceInOne
<1>6. ok => Window(AllowedOf(s), index, len) \in Seq(Byte)
  <2>1. ok => index + len <= m
    BY <1>2, Allowances
  <2> QED
    BY <2>1, WindowIs
<1>7. ok /\ at + len = size => wrapped = whole
  <2>1. at + len = size => k = len /\ at + len - k = at /\ len - k = 0
    BY <1>3
  <2>2. memory(s.Data, 0, 0) = <<>>
    BY DEF memory
  <2>3. Reverse(<<>>) = <<>>
    BY DEF Reverse
  <2>4. ok /\ at + len = size => whole \in Seq(Byte)
    BY <1>3, <1>5, <1>6, ReverseType
  <2>5. ok /\ at + len = size => wrapped = whole \o <<>>
    BY <2>1, <2>2, <2>3
  <2> HIDE DEF wrapped, whole, ok
  <2> QED
    BY <2>4, <2>5
<1> HIDE DEF ok, wrapped, whole, g, m
<1>8. ASSUME ok
      PROVE  g = Deliver(s, IF at + len >= s.Size THEN wrapped ELSE whole)
  BY <1>1, <1>2, <1>8 DEF getAt, m
<1> HIDE DEF at
<1>9. ASSUME ok, ~ (at + len > s.Size)
      PROVE  g.val = Reverse(Window(AllowedOf(s), index, len))
  <2>1. at + len <= size
    BY <1>3, <1>9
  <2>2. whole = Reverse(Window(AllowedOf(s), index, len))
    BY <1>5, <1>9, <2>1 DEF whole
  <2>3. at + len >= s.Size => wrapped = whole
    BY <1>3, <1>7, <1>9, <2>1
  <2> QED
    BY <1>8, <1>9, <2>2, <2>3 DEF Deliver
<1> QED
  BY <1>4, <1>9 DEF ok, g, at

\* Numbers, as the stream's order has them.
LEMMA GetNumberIs ==
  ASSUME NEW size \in 1 .. MaxLen, NEW s, Sound(s, size),
         NEW index \in Nat, NEW len \in Nat, Within(AllowedOf(s), index, len),
         ~ (((s.RPos + index) % s.Size) + len > s.Size)
  PROVE  getNumberAt(s, index, len)
           = IF s.OrderFn THEN Reverse(Window(AllowedOf(s), index, len))
                          ELSE Window(AllowedOf(s), index, len)
<1> DEFINE w == Window(AllowedOf(s), index, len)
           f == Stream_getBytesAt(s, index, len)
           g == Stream_getBytesReverseAt(s, index, len)
<1>1. f.res = "Stream_Ok" /\ f.val = w /\ g.res = f.res
  BY GetIs, GetReverseIs
<1>2. g.val = Reverse(w)
  BY GetReverseIs
<1>3. getNumberAt(s, index, len)
        = LET r == IF s.OrderFn THEN g ELSE f
          IN  IF r.res = "Stream_Ok" THEN r.val ELSE Repeat(0, len)
  BY DEF getNumberAt
<1> HIDE DEF f, g, w
<1> QED
  BY <1>1, <1>2, <1>3 DEF w

\* One byte is in one piece.
LEMMA GetByteIs ==
  ASSUME NEW size \in 1 .. MaxLen, NEW s, Sound(s, size),
         NEW index \in Nat, index < Stream_available(s)
  PROVE  getNumberAt(s, index, 1) = Window(AllowedOf(s), index, 1)
<1> DEFINE w == Window(AllowedOf(s), index, 1)
<1>1. Within(AllowedOf(s), index, 1)
  BY WithinIs, Allowances
<1>2. ~ (((s.RPos + index) % s.Size) + 1 > s.Size)
  <2>1. s.RPos \in 0 .. size - 1 /\ size \in Nat \ {0} /\ s.Size = size
    BY Types, MaxLenAssumption DEF Sound
  <2>2. (s.RPos + index) % size \in 0 .. size - 1
    BY <2>1
  <2> HIDE DEF w
  <2> QED
    BY <2>1, <2>2
<1>3. getNumberAt(s, index, 1) = IF s.OrderFn THEN Reverse(w) ELSE w
  BY <1>1, <1>2, GetNumberIs
<1>4. w \in Seq(Byte) /\ Len(w) = 1
  <2>1. PICK len \in Nat : len = 1
    OBVIOUS
  <2>2. index + len <= Stream_available(s) /\ w = Window(AllowedOf(s), index, len)
    BY <2>1, Allowances
  <2> HIDE DEF w
  <2>3. w \in Seq(Byte) /\ Len(w) = len
    BY <2>2, WindowIs
  <2> QED
    BY <2>1, <2>3
<1> HIDE DEF w
<1>5. Reverse(w) = w
  <2>1. Reverse(w) = [i \in 1 .. 1 |-> w[(1 - i) + 1]]
    BY <1>4 DEF Reverse
  <2>2. w = [i \in 1 .. 1 |-> w[i]]
    BY <1>4
  <2>3. \A i \in 1 .. 1 : (1 - i) + 1 = i
    OBVIOUS
  <2> QED
    BY <2>1, <2>2, <2>3
<1> QED
  BY <1>3, <1>5 DEF w

\* The bytes that may be read from the stream of the program.
LEMMA AllowedIs == Allowed = AllowedOf(stream)
  BY DEF Allowed, AllowedOf

\* The get functions of the stream.
LEMMA GettingLooksAhead ==
  ASSUME Sound(stream, Size)
  PROVE  GetLooksAhead
<1> DEFINE b == Allowed
<1> USE SizeAssumption
<1>0. b = AllowedOf(stream)
  BY AllowedIs
<1>1. SUFFICES ASSUME NEW index \in Indexes, NEW len \in Lens
      PROVE  LET r == Stream_getBytesAt(stream, index, len)
                 br == Stream_getBytesReverseAt(stream, index, len)
                 a == getArrayAt(stream, index, len, 1)
                 due == Window(b, index, len)
             IN  /\ (r.res = "Stream_Ok") = Within(b, index, len)
                 /\ br.res = r.res
                 /\ Within(b, index, len) =>
                      /\ r.val = due
                      /\ a.val = [i \in 1 .. len |-> Window(b, index + i - 1, 1)]
                      /\ ~ Crosses(index, len) =>
                           /\ br.val = Reverse(due)
                           /\ getNumberAt(stream, index, len) = inOrder(due)
                      /\ index = 0 => getArray(stream, len, 1, TRUE).val = a.val
                 /\ stream.RPos = 0 /\ index = 0 =>
                      /\ Stream_getBytes(stream, len) = r
                      /\ len > 0 => getNumber(stream, len) = getNumberAt(stream, 0, len)
  BY Zenon DEF GetLooksAhead
<1> HIDE DEF b
<1>2. index \in Nat /\ len \in Nat
  BY MaxLenAssumption DEF Indexes, Lens
<1> DEFINE r == Stream_getBytesAt(stream, index, len)
           br == Stream_getBytesReverseAt(stream, index, len)
           a == getArrayAt(stream, index, len, 1)
           w == Window(b, index, len)
           ok == Within(b, index, len)
<1>3. /\ ok => r.res = "Stream_Ok" /\ r.val = w
      /\ ~ ok => r.res \in {"Stream_ZeroLen", "Stream_NoAvailable"}
  BY <1>0, <1>2, GetIs
<1>4. /\ br.res = r.res
      /\ ok /\ ~ (((stream.RPos + index) % stream.Size) + len > stream.Size)
           => br.val = Reverse(w)
  BY <1>0, <1>2, GetReverseIs
<1>5. stream.Size = Size
  BY Types DEF Sound
<1>6. ok /\ ~ Crosses(index, len) =>
        br.val = Reverse(w) /\ getNumberAt(stream, index, len) = inOrder(w)
  <2>1. ~ Crosses(index, len) =>
          ~ (((stream.RPos + index) % stream.Size) + len > stream.Size)
    BY <1>5 DEF Crosses
  <2>2. ok /\ ~ Crosses(index, len) =>
          getNumberAt(stream, index, len) = IF stream.OrderFn THEN Reverse(w) ELSE w
    BY <1>0, <1>2, <2>1, GetNumberIs
  <2> QED
    BY <1>4, <2>1, <2>2 DEF inOrder
<1>7. ASSUME ok
      PROVE  /\ a.val = [i \in 1 .. len |-> Window(b, index + i - 1, 1)]
             /\ index = 0 => getArray(stream, len, 1, TRUE).val = a.val
  <2>1. len > 0 /\ index + len <= Stream_available(stream) /\ Stream_available(stream) \in Int
    BY <1>0, <1>2, <1>7, WithinIs, Allowances
  <2>2. ~ (Stream_available(stream) < len)
    BY <1>2, <2>1
  <2>3. a.val = [i \in 1 .. len |-> getNumberAt(stream, index + i - 1, 1)]
    BY <2>2 DEF getArrayAt, Deliver
  <2>4. getArray(stream, len, 1, TRUE).val = [i \in 1 .. len |-> getNumberAt(stream, i - 1, 1)]
    BY <2>2 DEF getArray, Deliver
  <2> HIDE DEF a, b
  <2>5. ASSUME NEW i \in 1 .. len
        PROVE  getNumberAt(stream, index + i - 1, 1) = Window(b, index + i - 1, 1)
    <3>1. index + i - 1 \in Nat /\ index + i - 1 < Stream_available(stream)
      BY <1>2, <2>1
    <3> QED
      BY <1>0, <3>1, GetByteIs
  <2>6. index = 0 => \A i \in 1 .. len : index + i - 1 = i - 1
    OBVIOUS
  <2> QED
    BY <2>3, <2>4, <2>5, <2>6
<1>8. stream.RPos = 0 /\ index = 0 =>
        /\ Stream_getBytes(stream, len) = r
        /\ len > 0 => getNumber(stream, len) = getNumberAt(stream, 0, len)
  BY DEF Stream_getBytes, getNumber
<1> HIDE DEF r, br, a, w, ok
<1>9. (r.res = "Stream_Ok") = ok
  <2>1. ok \in BOOLEAN
    BY DEF ok, Within
  <2> QED
    BY <1>3, <2>1
<1> QED
  BY <1>3, <1>4, <1>6, <1>7, <1>8, <1>9 DEF r, br, a, w, ok, b

\* The address of an index.
LEMMA ReadPtrIs ==
  ASSUME NEW size \in 1 .. MaxLen, NEW s, Sound(s, size), HalfRange(size),
         NEW index \in 0 .. size
  PROVE  /\ Stream_getReadPtrAt(s, index) = (s.RPos + index) % s.Size
         /\ s.RPos + index < size => Stream_getReadPtrAt(s, index) = s.RPos + index
         /\ s.RPos + index >= size => Stream_getReadPtrAt(s, index) = s.RPos + index - size
<1>1. /\ size \in Nat \ {0} /\ s.RPos \in 0 .. size - 1 /\ s.Size = size
      /\ MaxLen \in Nat
  BY Types, MaxLenAssumption DEF Sound
<1>2. index + s.RPos <= MaxLen /\ index + s.RPos = s.RPos + index
  BY <1>1 DEF HalfRange
<1>3. Stream_getReadPtrAt(s, index)
        = IF s.RPos + index >= size THEN (s.RPos + index) % size ELSE s.RPos + index
  <2>1. ToLen(index + s.RPos) = s.RPos + index
    BY <1>1, <1>2 DEF ToLen
  <2> QED
    BY <1>1, <2>1 DEF Stream_getReadPtrAt, ptrAt
<1>4. s.RPos + index \in -size .. 2 * size - 1
  BY <1>1
<1> DEFINE x == s.RPos + index
<1>5. /\ x < size => x % size = x
      /\ x >= size => x % size = x - size
  <2>1. x \in -size .. 2 * size - 1 /\ x >= 0
    BY <1>1
  <2> HIDE DEF x
  <2> QED
    BY <1>1, <2>1, Reduced
<1>6. x \in Int /\ size \in Int
  BY <1>1
<1>7. Stream_getReadPtrAt(s, index) = IF x >= size THEN x % size ELSE x
  BY <1>3
<1> HIDE DEF x
<1>8. /\ Stream_getReadPtrAt(s, index) = x % size
      /\ x < size => Stream_getReadPtrAt(s, index) = x
      /\ x >= size => Stream_getReadPtrAt(s, index) = x - size
  BY <1>5, <1>6, <1>7
<1> QED
  BY <1>1, <1>8 DEF x

\* The bytes in a row from an index on: up to the end of the buffer, or all.
LEMMA ReadRowIs ==
  ASSUME NEW size \in 1 .. MaxLen, NEW s, Sound(s, size), HalfRange(size),
         NEW index \in 0 .. Stream_availableReal(s) - 1,
         NEW at, at = Stream_getReadPtrAt(s, index),
         NEW n, n = Stream_directAvailableAt(s, index)
  PROVE  /\ at \in 0 .. size - 1 /\ at = (s.RPos + index) % s.Size
         /\ n \in 1 .. Stream_availableReal(s) - index
         /\ at + n <= size
         /\ index + n = Stream_availableReal(s) \/ at + n = size
<1> DEFINE real == Stream_availableReal(s)
           r == s.RPos
           w == s.WPos
           dir == Stream_directAvailable(s)
<1>1. s \in Stream(size) /\ (Wrapped(s, size) \/ Straight(s, size))
  BY Shapes DEF Sound
<1>2. /\ size \in Nat \ {0} /\ r \in 0 .. size - 1 /\ w \in 0 .. size - 1
  BY <1>1, Types, MaxLenAssumption
<1>3. real \in 0 .. size
  BY WriterIsBehind
<1>4. \/ s.Overflow = 1 /\ real = size + w - r /\ w <= r /\ dir = size - r
      \/ s.Overflow = 0 /\ real = w - r /\ r <= w /\ dir = w - r
  BY <1>1, Types, Filled DEF Wrapped, Straight, Stream_directAvailable
<1>5. n = IF real = dir \/ dir > index THEN dir - index ELSE w - (index - dir)
  BY DEF Stream_directAvailableAt
<1>6. /\ at = (r + index) % s.Size
      /\ r + index < size => at = r + index
      /\ r + index >= size => at = r + index - size
  <2>1. index \in 0 .. size
    BY <1>2, <1>3
  <2> QED
    BY <2>1, ReadPtrIs
<1>7. index \in 0 .. real - 1
  OBVIOUS
<1> HIDE DEF real, r, w, dir
<1>8. /\ at \in 0 .. size - 1 /\ n \in 1 .. real - index /\ at + n <= size
      /\ index + n = real \/ at + n = size
  <2>1. CASE s.Overflow = 1 /\ real = size + w - r /\ w <= r /\ dir = size - r
    <3>1. CASE dir > index
      BY <1>2, <1>3, <1>5, <1>6, <1>7, <2>1, <3>1
    <3>2. CASE ~ (dir > index)
      <4>1. real # dir /\ n = w - (index - dir)
        BY <1>2, <1>5, <1>7, <2>1, <3>2
      <4> QED
        BY <1>2, <1>3, <1>6, <1>7, <2>1, <3>2, <4>1
    <3> QED
      BY <3>1, <3>2
  <2>2. CASE s.Overflow = 0 /\ real = w - r /\ r <= w /\ dir = w - r
    <3>1. n = dir - index
      BY <1>5, <2>2
    <3> QED
      BY <1>2, <1>3, <1>6, <1>7, <2>2, <3>1
  <2> QED
    BY <1>4, <2>1, <2>2
<1> QED
  BY <1>6, <1>8 DEF real, r

\* The same of free places.
LEMMA WriteRowIs ==
  ASSUME NEW size \in 1 .. MaxLen, NEW s, Sound(s, size), HalfRange(size),
         NEW index \in 0 .. Stream_spaceReal(s) - 1,
         NEW at, at = Stream_getWritePtrAt(s, index),
         NEW n, n = Stream_directSpaceAt(s, index)
  PROVE  /\ at \in 0 .. size - 1
         /\ Further(s.WPos, index, at, size)
         /\ n \in 1 .. Stream_spaceReal(s) - index
         /\ at + n <= size
         /\ index + n = Stream_spaceReal(s) \/ at + n = size
<1> DEFINE free == Stream_spaceReal(s)
           r == s.RPos
           w == s.WPos
           dir == Stream_directSpace(s)
<1>1. s \in Stream(size) /\ (Wrapped(s, size) \/ Straight(s, size))
  BY Shapes DEF Sound
<1>2. /\ size \in Nat \ {0} /\ r \in 0 .. size - 1 /\ w \in 0 .. size - 1
      /\ s.Size = size /\ MaxLen \in Nat
  BY <1>1, Types, MaxLenAssumption
<1>3. free \in 0 .. size
  BY WriterIsBehind
<1>4. \/ s.Overflow = 1 /\ free = r - w /\ w <= r /\ dir = r - w
      \/ s.Overflow = 0 /\ free = size + r - w /\ r <= w /\ dir = size - w
  BY <1>1, Types, Filled DEF Wrapped, Straight, Stream_directSpace
<1>5. n = IF free = dir \/ dir > index THEN dir - index ELSE r - (index - dir)
  BY DEF Stream_directSpaceAt
<1>6. index \in 0 .. free - 1
  OBVIOUS
<1>7. /\ w + index < size => at = w + index
      /\ w + index >= size => at = w + index - size
  <2> DEFINE x == w + index
  <2>1. x \in -size .. 2 * size - 1 /\ x >= 0 /\ x <= MaxLen /\ index + w = x
    BY <1>2, <1>3, <1>6 DEF HalfRange
  <2>2. at = IF x >= size THEN x % size ELSE x
    <3>1. ToLen(index + w) = x
      BY <1>2, <2>1 DEF ToLen
    <3> QED
      BY <1>2, <3>1 DEF Stream_getWritePtrAt, ptrAt
  <2> HIDE DEF x
  <2>3. x < size => at = x
    BY <1>2, <2>1, <2>2
  <2>4. x >= size => at = x - size
    <3>1. x >= size => x % size = x - size
      BY <1>2, <2>1, Reduced
    <3> QED
      BY <2>2, <3>1
  <2> QED
    BY <1>2, <1>6, <2>3, <2>4 DEF x
<1> HIDE DEF free, r, w, dir
<1>8. /\ at \in 0 .. size - 1 /\ n \in 1 .. free - index /\ at + n <= size
      /\ index + n = free \/ at + n = size
  <2>1. CASE s.Overflow = 0 /\ free = size + r - w /\ r <= w /\ dir = size - w
    <3>1. CASE dir > index
      BY <1>2, <1>3, <1>5, <1>6, <1>7, <2>1, <3>1
    <3>2. CASE ~ (dir > index)
      <4>1. free # dir /\ n = r - (index - dir)
        BY <1>2, <1>5, <1>6, <2>1, <3>2
      <4> QED
        BY <1>2, <1>3, <1>6, <1>7, <2>1, <3>2, <4>1
    <3> QED
      BY <3>1, <3>2
  <2>2. CASE s.Overflow = 1 /\ free = r - w /\ w <= r /\ dir = r - w
    <3>1. n = dir - index
      BY <1>5, <2>2
    <3> QED
      BY <1>2, <1>3, <1>6, <1>7, <2>2, <3>1
  <2> QED
    BY <1>4, <2>1, <2>2
<1>9. Further(w, index, at, size)
  BY <1>2, <1>3, <1>6, <1>7 DEF Further
<1> QED
  BY <1>8, <1>9 DEF free, w

\* Some bytes of a sequence in a row.
LEMMA WindowOf ==
  ASSUME NEW b \in Seq(Byte), NEW index \in Nat, NEW len \in Nat,
         index + len <= Len(b), NEW w, w = Window(b, index, len)
  PROVE  /\ w \in Seq(Byte) /\ Len(w) = len
         /\ \A i \in 1 .. len : w[i] = b[index + i]
<1>1. /\ Len(w) = (IF index + 1 <= index + len THEN (index + len) - (index + 1) + 1 ELSE 0)
      /\ w = [i \in 1 .. (index + len) - (index + 1) + 1 |-> b[i + (index + 1) - 1]]
  BY DEF Window
<1>2. /\ (index + len) - (index + 1) + 1 = len
      /\ \A i \in 1 .. len : i + (index + 1) - 1 = index + i
  OBVIOUS
<1>3. \A i \in 1 .. len : index + i \in 1 .. Len(b)
  OBVIOUS
<1>4. w = [i \in 1 .. len |-> b[index + i]]
  BY <1>1, <1>2
<1>5. \A i \in 1 .. len : b[index + i] \in Byte
  BY <1>3
<1>6. w \in [1 .. len -> Byte] /\ \A i \in 1 .. len : w[i] = b[index + i]
  BY <1>4, <1>5
<1> HIDE DEF Byte
<1> QED
  BY <1>6

\* Bytes in one piece from an index on, whether or not a limit allows them.
LEMMA RowIs ==
  ASSUME NEW size \in 1 .. MaxLen, NEW s, Sound(s, size),
         NEW index \in Nat, NEW n \in Nat, index + n <= Stream_availableReal(s),
         NEW at \in 0 .. size - 1, Further(s.RPos, index, at, size), at + n <= size
  PROVE  slice(s.Data, at, n) = Window(Contents(s), index, n)
<1> DEFINE d == s.Data
           r == s.RPos
           c == Contents(s)
           m == Stream_availableReal(s)
           w == Window(c, index, n)
           u == slice(d, at, n)
<1>1. /\ size \in Nat \ {0} /\ r \in 0 .. size - 1 /\ d \in [0 .. size - 1 -> Byte]
  BY Types, MaxLenAssumption DEF Sound
<1>2. /\ c \in Seq(Byte) /\ Len(c) = m /\ \A i \in 1 .. m : c[i] = d[Ahead(r, i, size)]
  BY ContentsAre
<1>3. m \in 0 .. size /\ index + n <= m
  BY WriterIsBehind
<1>4. Further(r, index, at, size)
  OBVIOUS
<1> HIDE DEF d, r, c, m
<1>5. w \in Seq(Byte) /\ Len(w) = n /\ \A i \in 1 .. n : w[i] = c[index + i]
  BY <1>2, <1>3, WindowOf
<1>6. u \in Seq(Byte) /\ Len(u) = n /\ \A i \in 1 .. n : u[i] = d[at + i - 1]
  BY <1>1, SliceIs
<1> HIDE DEF u, w
<1>7. ASSUME NEW i \in 1 .. n
      PROVE  u[i] = w[i]
  <2>1. /\ i \in 1 .. size /\ index + i <= size /\ index \in 0 .. size
        /\ index + i \in 1 .. m
    BY <1>1, <1>3
  <2>2. Ahead(at, i, size) = Ahead(r, index + i, size)
    BY <1>1, <1>4, <2>1, AheadAdds
  <2>3. Ahead(at, i, size) = at + i - 1
    BY <1>1 DEF Ahead
  <2> QED
    BY <1>2, <1>5, <1>6, <2>1, <2>2, <2>3
<1>8. u = w
  BY <1>5, <1>6, <1>7, SeqEqual
<1> QED
  BY <1>8 DEF u, w, c, d

\* The addresses and rows of the stream.
LEMMA RowsLookAhead ==
  ASSUME Sound(stream, Size), HalfRange(Size)
  PROVE  RowsAreTheRing
<1> USE SizeAssumption
<1> DEFINE r == stream.RPos
           w == stream.WPos
           a == Stream_availableReal(stream)
           Used == {(r + i) % Size : i \in 0 .. a - 1}
<1>1. /\ Size \in Nat \ {0} /\ r \in 0 .. Size - 1 /\ w \in 0 .. Size - 1
      /\ stream.Size = Size
  BY Types, MaxLenAssumption DEF Sound
<1>2. /\ a \in 0 .. Size /\ Stream_spaceReal(stream) = Size - a
      /\ Further(r, a, w, Size)
  BY WriterIsBehind
<1>3. ASSUME NEW index \in 0 .. Stream_availableReal(stream) - 1
      PROVE  LET at == Stream_getReadPtrAt(stream, index)
                 n  == Stream_directAvailableAt(stream, index)
             IN  /\ n > 0 /\ at + n <= Size
                 /\ slice(stream.Data, at, n) = Window(Contents(stream), index, n)
                 /\ index + n = Stream_availableReal(stream) \/ at + n = Size
  <2> DEFINE at == Stream_getReadPtrAt(stream, index)
             n  == Stream_directAvailableAt(stream, index)
  <2>1. /\ at \in 0 .. Size - 1 /\ at = (r + index) % stream.Size
        /\ n \in 1 .. a - index
        /\ at + n <= Size
        /\ index + n = a \/ at + n = Size
    BY ReadRowIs
  <2> HIDE DEF at, n
  <2>2. /\ index \in Nat /\ index < Size /\ n \in Nat /\ index + n <= a /\ n > 0
    <3> HIDE DEF a
    <3>1. index \in 0 .. a - 1
      BY DEF a
    <3> QED
      BY <1>1, <1>2, <2>1, <3>1
  <2>3. Further(r, index, at, Size)
    BY <1>1, <2>1, <2>2, IndexIs
  <2>4. slice(stream.Data, at, n) = Window(Contents(stream), index, n)
    BY <2>1, <2>2, <2>3, RowIs
  <2> QED
    BY <2>1, <2>2, <2>4 DEF at, n
<1>4. ASSUME NEW index \in 0 .. Stream_spaceReal(stream) - 1
      PROVE  LET at == Stream_getWritePtrAt(stream, index)
                 n  == Stream_directSpaceAt(stream, index)
             IN  /\ n > 0 /\ at + n <= Size
                 /\ (at .. at + n - 1) \cap Used = {}
                 /\ index + n = Stream_spaceReal(stream) \/ at + n = Size
  <2> DEFINE at == Stream_getWritePtrAt(stream, index)
             n  == Stream_directSpaceAt(stream, index)
             f  == Stream_spaceReal(stream)
  <2>1. /\ at \in 0 .. Size - 1
        /\ Further(w, index, at, Size)
        /\ n \in 1 .. f - index
        /\ at + n <= Size
        /\ index + n = f \/ at + n = Size
    BY WriteRowIs
  <2>2. index \in 0 .. f - 1 /\ f = Size - a
    BY <1>2
  <2> HIDE DEF at, n, f, a, w, r
  <2>3. n > 0 /\ index + n + a <= Size
    BY <1>1, <1>2, <2>1, <2>2
  <2>4. ASSUME NEW x \in at .. at + n - 1, NEW i \in 0 .. a - 1
        PROVE  x # (r + i) % Size
    <3> DEFINE j == x - at + 1
    <3>1. /\ j \in 1 .. n /\ x = at + j - 1
      BY <2>1, <1>1
    <3> HIDE DEF j
    <3>2. x = Ahead(at, j, Size)
      BY <1>1, <2>1, <3>1 DEF Ahead
    <3>3. j \in 1 .. Size /\ index + j \in 1 .. Size /\ index \in 0 .. Size
          /\ a + (index + j) \in 1 .. Size /\ i + 1 \in 1 .. Size
          /\ i + 1 # a + (index + j)
      BY <1>1, <1>2, <2>1, <2>2, <2>3, <3>1
    <3>4. x = Ahead(w, index + j, Size)
      BY <1>1, <2>1, <3>2, <3>3, AheadAdds
    <3>5. x = Ahead(r, a + (index + j), Size)
      BY <1>1, <1>2, <3>3, <3>4, AheadAdds
    <3>6. (r + i) % Size = Ahead(r, i + 1, Size)
      <4>1. (r + (i + 1) - 1) % Size = Ahead(r, i + 1, Size)
        BY <1>1, <3>3, AheadIs
      <4>2. r + (i + 1) - 1 = r + i
        BY <1>1
      <4> QED
        BY <4>1, <4>2
    <3>7. Ahead(r, i + 1, Size) # Ahead(r, a + (index + j), Size)
      BY <1>1, <3>3, AheadDiffers
    <3> QED
      BY <3>5, <3>6, <3>7
  <2>5. (at .. at + n - 1) \cap Used = {}
    BY <2>4
  <2> HIDE DEF Used
  <2>6. /\ n > 0 /\ at + n <= Size
        /\ (at .. at + n - 1) \cap Used = {}
        /\ index + n = f \/ at + n = Size
    BY <2>1, <2>3, <2>5
  <2> QED
    BY <2>6 DEF at, n, f
<1> QED
  BY Zenon, <1>3, <1>4 DEF RowsAreTheRing, Used, a, r

-----------------------------------------------------------------------------
(* Comparing and searching. *)

\* The first n bytes are the same; the k-th of n is the first that is not.
SameUpTo(n, a, b) == \A i \in 1 .. n : a[i] = b[i]
\* k is the first place where a and b differ.
FirstOther(n, a, b, k) == k \in 1 .. n /\ a[k] # b[k] /\ SameUpTo(k - 1, a, b)

\* memcmp of bytes that are the same ...
LEMMA ComparesSame ==
  ASSUME NEW n \in Nat, NEW a, DOMAIN a = 1 .. n, NEW b, SameUpTo(n, a, b)
  PROVE  memcmp(a, b) = 0
<1>1. {i \in DOMAIN a : a[i] # b[i]} = {}
  BY DEF SameUpTo
<1> QED
  BY <1>1 DEF memcmp

\* ... and of bytes that are not: the first difference decides.
LEMMA ComparesFirst ==
  ASSUME NEW n \in Nat, NEW a, DOMAIN a = 1 .. n, NEW b,
         NEW k, FirstOther(n, a, b, k)
  PROVE  memcmp(a, b) = a[k] - b[k]
<1> DEFINE D == {i \in DOMAIN a : a[i] # b[i]}
           c == CHOOSE i \in D : \A j \in D : i <= j
<1>1. /\ k \in D /\ D \subseteq Nat /\ D # {} /\ D \subseteq 1 .. n
      /\ \A i \in 1 .. k - 1 : a[i] = b[i]
  BY DEF FirstOther, SameUpTo
<1>2. ASSUME NEW j \in D
      PROVE  k <= j
  BY <1>1
<1>3. c \in D /\ \A j \in D : c <= j
  <2> HIDE DEF D, c
  <2>1. c = CHOOSE i \in D : \A j \in D : i <= j
    BY DEF c
  <2> QED
    BY <1>1, <2>1, ChosenLeast
<1>4. memcmp(a, b) = IF D = {} THEN 0 ELSE a[c] - b[c]
  BY DEF memcmp
<1> HIDE DEF D, c
<1>5. c = k
  BY <1>1, <1>2, <1>3
<1> QED
  BY <1>1, <1>4, <1>5

\* Sequences that are not the same have a first difference.
LEMMA FirstDifference ==
  ASSUME NEW n \in Nat, NEW a, NEW b, ~ SameUpTo(n, a, b)
  PROVE  \E k : FirstOther(n, a, b, k)
<1> DEFINE D == {i \in 1 .. n : a[i] # b[i]}
<1>1. D \subseteq Nat /\ D # {}
  BY DEF SameUpTo
<1>2. PICK k \in D : \A j \in D : k <= j
  <2> HIDE DEF D
  <2> QED
    BY <1>1, Least
<1>3. ASSUME NEW i \in 1 .. k - 1
      PROVE  a[i] = b[i]
  <2>1. i \in 1 .. n /\ ~ (k <= i)
    BY <1>2
  <2> QED
    BY <1>2, <2>1
<1>4. FirstOther(n, a, b, k)
  BY <1>2, <1>3 DEF FirstOther, SameUpTo
<1> QED
  BY <1>4

\* The m bytes a and the n bytes b are those of c, one behind the other.
Paired(m, n, a, b, c) == /\ \A i \in 1 .. m : c[i] = a[i]
                         /\ \A i \in 1 .. n : c[m + i] = b[i]

\* In two pieces: the second counts only when the first are the same.
LEMMA ComparesParts ==
  ASSUME NEW m \in Nat, NEW n \in Nat, NEW a, NEW b, NEW c, NEW x, NEW y, NEW z,
         DOMAIN a = 1 .. m, DOMAIN b = 1 .. n, DOMAIN c = 1 .. m + n,
         Paired(m, n, a, b, c), Paired(m, n, x, y, z),
         \A i \in 1 .. m : a[i] \in Int /\ x[i] \in Int
  PROVE  memcmp(c, z) = IF memcmp(a, x) = 0 THEN memcmp(b, y) ELSE memcmp(a, x)
<1>0. /\ m + n \in Nat
      /\ \A i \in 1 .. m : c[i] = a[i] /\ z[i] = x[i]
      /\ \A i \in 1 .. n : c[m + i] = b[i] /\ z[m + i] = y[i]
  BY DEF Paired
<1>1. CASE ~ SameUpTo(m, a, x)
  <2>1. PICK k : FirstOther(m, a, x, k)
    BY <1>1, FirstDifference
  <2>2. memcmp(a, x) = a[k] - x[k] /\ memcmp(a, x) # 0
    <3>1. memcmp(a, x) = a[k] - x[k]
      BY <2>1, ComparesFirst
    <3>2. a[k] \in Int /\ x[k] \in Int /\ a[k] # x[k]
      BY <2>1 DEF FirstOther
    <3> QED
      BY <3>1, <3>2
  <2>3. /\ k \in 1 .. m /\ k \in 1 .. m + n /\ c[k] = a[k] /\ z[k] = x[k]
        /\ \A i \in 1 .. k - 1 : i \in 1 .. m
    BY <1>0, <2>1 DEF FirstOther
  <2>4. FirstOther(m + n, c, z, k)
    BY <1>0, <2>1, <2>3 DEF FirstOther, SameUpTo
  <2>5. memcmp(c, z) = c[k] - z[k]
    BY <1>0, <2>4, ComparesFirst
  <2> QED
    BY <2>2, <2>3, <2>5
<1>2. CASE SameUpTo(m, a, x)
  <2>1. memcmp(a, x) = 0
    BY <1>2, ComparesSame
  <2>2. ASSUME NEW l \in 0 .. n, SameUpTo(l, b, y)
        PROVE  SameUpTo(m + l, c, z)
    <3>1. ASSUME NEW i \in 1 .. m + l
          PROVE  c[i] = z[i]
      <4>1. CASE i <= m
        BY <1>0, <1>2, <4>1 DEF SameUpTo
      <4>2. CASE ~ (i <= m)
        <5>1. i - m \in 1 .. l /\ i - m \in 1 .. n /\ m + (i - m) = i
          BY <4>2
        <5> QED
          BY <1>0, <2>2, <5>1 DEF SameUpTo
      <4> QED
        BY <4>1, <4>2
    <3> QED
      BY <3>1 DEF SameUpTo
  <2>3. CASE SameUpTo(n, b, y)
    <3>1. memcmp(b, y) = 0
      BY <2>3, ComparesSame
    <3>2. memcmp(c, z) = 0
      BY <1>0, <2>2, <2>3, ComparesSame
    <3> QED
      BY <2>1, <3>1, <3>2
  <2>4. CASE ~ SameUpTo(n, b, y)
    <3>1. PICK k : FirstOther(n, b, y, k)
      BY <2>4, FirstDifference
    <3>2. memcmp(b, y) = b[k] - y[k]
      BY <3>1, ComparesFirst
    <3> DEFINE l == m + k
    <3>3. k \in 1 .. n /\ l \in 1 .. m + n /\ c[l] = b[k] /\ z[l] = y[k] /\ b[k] # y[k]
          /\ k - 1 \in 0 .. n /\ m + (k - 1) = l - 1
      BY <1>0, <3>1 DEF FirstOther
    <3>4. SameUpTo(l - 1, c, z)
      <4>1. SameUpTo(k - 1, b, y)
        BY <3>1 DEF FirstOther
      <4>2. SameUpTo(m + (k - 1), c, z)
        BY <2>2, <3>3, <4>1
      <4> QED
        BY <3>3, <4>2
    <3> HIDE DEF l
    <3>5. FirstOther(m + n, c, z, l)
      BY <3>3, <3>4 DEF FirstOther
    <3>6. memcmp(c, z) = c[l] - z[l]
      BY <1>0, <3>5, ComparesFirst
    <3> QED
      BY <2>1, <3>2, <3>3, <3>6
  <2> QED
    BY <2>3, <2>4
<1> QED
  BY <1>1, <1>2

\* memcmp of two pieces, one after the other, is that of the whole.
LEMMA ComparesPieces ==
  ASSUME NEW a \in Seq(Byte), NEW b \in Seq(Byte), NEW x \in Seq(Byte), NEW y \in Seq(Byte),
         Len(a) = Len(x), Len(b) = Len(y)
  PROVE  memcmp(a \o b, x \o y) = IF memcmp(a, x) = 0 THEN memcmp(b, y) ELSE memcmp(a, x)
<1> DEFINE m == Len(a)
           n == Len(b)
           c == a \o b
           z == x \o y
<1>1. /\ c \in Seq(Byte) /\ Len(c) = m + n
      /\ \A i \in 1 .. m : c[i] = a[i]
      /\ \A i \in 1 .. n : c[m + i] = b[i]
  BY TwoPieces
<1>2. /\ \A i \in 1 .. m : z[i] = x[i]
      /\ \A i \in 1 .. n : z[m + i] = y[i]
  BY TwoPieces
<1>3. /\ m \in Nat /\ n \in Nat /\ DOMAIN a = 1 .. m /\ DOMAIN b = 1 .. n
      /\ \A i \in 1 .. m : a[i] \in Int /\ x[i] \in Int
  BY BytesAssumption DEF Byte
<1> HIDE DEF c, z, m, n
<1>4. DOMAIN c = 1 .. m + n
  BY <1>1, <1>3
<1>5. Paired(m, n, a, b, c) /\ Paired(m, n, x, y, z)
  BY <1>1, <1>2 DEF Paired
<1>6. memcmp(c, z) = IF memcmp(a, x) = 0 THEN memcmp(b, y) ELSE memcmp(a, x)
  BY <1>3, <1>4, <1>5, ComparesParts
<1> QED
  BY <1>6 DEF c, z

\* memcmp of as many bytes on either side is the difference of two bytes, and 0
\* only when all are the same.
LEMMA ComparesBytes ==
  ASSUME NEW a \in Seq(Byte), NEW b \in Seq(Byte), Len(a) = Len(b)
  PROVE  /\ memcmp(a, b) \in Int /\ -Bytes < memcmp(a, b) /\ memcmp(a, b) < Bytes
         /\ memcmp(a, b) = 0 <=> a = b
<1> DEFINE n == Len(a)
<1>1. n \in Nat /\ DOMAIN a = 1 .. n
      /\ \A i \in 1 .. n : a[i] \in 0 .. Bytes - 1 /\ b[i] \in 0 .. Bytes - 1
  <2>1. n \in Nat /\ DOMAIN a = 1 .. n /\ DOMAIN b = 1 .. n
    OBVIOUS
  <2>2. \A i \in 1 .. n : a[i] \in Byte /\ b[i] \in Byte
    BY <2>1
  <2> QED
    BY <2>1, <2>2 DEF Byte
<1>2. CASE SameUpTo(n, a, b)
  <2>1. memcmp(a, b) = 0
    BY <1>1, <1>2, ComparesSame
  <2>2. a = b
    BY <1>1, <1>2, SeqEqual DEF SameUpTo
  <2> QED
    BY <2>1, <2>2, BytesAssumption
<1>3. CASE ~ SameUpTo(n, a, b)
  <2> HIDE DEF n
  <2>1. PICK k : FirstOther(n, a, b, k)
    BY <1>1, <1>3, FirstDifference
  <2>2. memcmp(a, b) = a[k] - b[k]
    BY <1>1, <2>1, ComparesFirst
  <2>3. k \in 1 .. n /\ a[k] # b[k]
    BY <2>1 DEF FirstOther
  <2>4. a[k] \in 0 .. Bytes - 1 /\ b[k] \in 0 .. Bytes - 1
    BY <1>1, <2>3
  <2> QED
    BY <2>2, <2>3, <2>4, BytesAssumption
<1> QED
  BY <1>2, <1>3

\* The conversion to int8_t keeps what is less than half of the range, and makes
\* no difference of two bytes 0.
LEMMA Int8Is ==
  ASSUME NEW d \in Int, -Bytes < d, d < Bytes
  PROVE  /\ toInt8(d) = 0 <=> d = 0
         /\ -Bytes < 2 * d /\ 2 * d < Bytes => toInt8(d) = d
<1> DEFINE h == Bytes \div 2
           x == d + h
           p == x % Bytes
<1>1. Bytes \in Nat \ {0} /\ h \in Nat /\ (Bytes = 2 * h \/ Bytes = 2 * h + 1)
  BY BytesAssumption
<1> HIDE DEF h
<1>2. x \in -Bytes .. 2 * Bytes - 1
  BY <1>1
<1>3. /\ x < 0 => p = x + Bytes
      /\ x >= 0 /\ x < Bytes => p = x
      /\ x >= Bytes => p = x - Bytes
  BY <1>1, <1>2, Reduced
<1>4. toInt8(d) = p - h
  BY DEF toInt8, h
<1> HIDE DEF p
<1> QED
  BY <1>1, <1>3, <1>4

\* Bytes in a row, in two parts.
LEMMA WindowSplits ==
  ASSUME NEW b \in Seq(Byte), NEW index \in Nat, NEW len \in Nat,
         index + len <= Len(b), NEW n \in 0 .. len
  PROVE  /\ Window(b, index, n) \in Seq(Byte) /\ Len(Window(b, index, n)) = n
         /\ Window(b, index + n, len - n) \in Seq(Byte)
         /\ Len(Window(b, index + n, len - n)) = len - n
         /\ Window(b, index, n) \o Window(b, index + n, len - n) = Window(b, index, len)
<1> DEFINE w == Window(b, index, len)
           u == Window(b, index, n)
           k == index + n
           m == len - n
           v == Window(b, k, m)
           x == u \o v
<1>1. w \in Seq(Byte) /\ Len(w) = len /\ \A i \in 1 .. len : w[i] = b[index + i]
  BY WindowOf
<1>2. n \in Nat /\ index + n <= Len(b)
  OBVIOUS
<1>3. u \in Seq(Byte) /\ Len(u) = n /\ \A i \in 1 .. n : u[i] = b[index + i]
  BY <1>2, WindowOf
<1>4. k \in Nat /\ m \in Nat /\ k + m <= Len(b) /\ n + m = len /\ k = index + n
  OBVIOUS
<1> HIDE DEF k, m
<1>5. v \in Seq(Byte) /\ Len(v) = m /\ \A i \in 1 .. m : v[i] = b[k + i]
  <2>1. v = Window(b, k, m)
    OBVIOUS
  <2> HIDE DEF v
  <2>2. k \in Nat /\ m \in Nat /\ k + m <= Len(b)
    BY <1>4
  <2> QED
    BY <2>1, <2>2, WindowOf, SMTT(30)
<1> HIDE DEF u, v, w
<1>6. /\ x \in Seq(Byte) /\ Len(x) = n + m
      /\ \A i \in 1 .. n : x[i] = u[i]
      /\ \A i \in 1 .. m : x[n + i] = v[i]
  <2>1. /\ x \in Seq(Byte) /\ Len(x) = Len(u) + Len(v)
        /\ \A i \in 1 .. Len(u) : x[i] = u[i]
        /\ \A i \in 1 .. Len(v) : x[Len(u) + i] = v[i]
    BY <1>3, <1>5, TwoPieces
  <2> HIDE DEF x
  <2> QED
    BY <1>3, <1>5, <2>1
<1> HIDE DEF x
<1>7. ASSUME NEW i \in 1 .. len
      PROVE  x[i] = w[i]
  <2>1. CASE i <= n
    <3>1. i \in 1 .. n
      BY <2>1
    <3> QED
      BY <1>1, <1>3, <1>6, <3>1
  <2>2. CASE ~ (i <= n)
    <3>1. i - n \in 1 .. m /\ n + (i - n) = i /\ k + (i - n) = index + i
      BY <1>4, <2>2
    <3>2. x[n + (i - n)] = v[i - n] /\ v[i - n] = b[k + (i - n)]
      BY <1>5, <1>6, <3>1
    <3> QED
      BY <1>1, <3>1, <3>2
  <2> QED
    BY <2>1, <2>2
<1>8. x = w
  BY <1>1, <1>4, <1>6, <1>7, SeqEqual
<1> QED
  BY <1>3, <1>5, <1>8 DEF u, v, w, x, k, m

\* compareAt.
LEMMA CompareIs ==
  ASSUME NEW size \in 1 .. MaxLen, NEW s, Sound(s, size), HalfRange(size),
         NEW index \in Nat, NEW pat \in Seq(Byte), Len(pat) > 0
  PROVE  Stream_compareAt(s, index, pat)
           = IF Within(AllowedOf(s), index, Len(pat))
             THEN toInt8(memcmp(Window(AllowedOf(s), index, Len(pat)), pat)) ELSE -2
<1> DEFINE len    == Len(pat)
           b      == AllowedOf(s)
           d      == s.Data
           tmpLen == Stream_directAvailableAt(s, index)
           n      == IF tmpLen < len THEN tmpLen ELSE len
           at     == Stream_getReadPtrAt(s, index)
           at2    == Stream_getReadPtrAt(s, index + n)
           p1     == SubSeq(pat, 1, n)
           p2     == SubSeq(pat, n + 1, len)
           m1     == memory(d, at, n)
           m2     == memory(d, at2, len - n)
           first  == toInt8(memcmp(m1, p1))
           second == toInt8(memcmp(m2, p2))
           real   == Stream_availableReal(s)
<1>1. Within(b, index, len) <=> len # 0 /\ ~ (Stream_available(s) - index < len)
  BY WithinIs
<1>2. Stream_compareAt(s, index, pat)
        = CASE len = 0 -> 0
            [] len > 0 /\ Stream_available(s) - index < len -> -2
            [] OTHER -> IF tmpLen < len /\ first = 0 THEN second ELSE first
  BY Zenon DEF Stream_compareAt
<1>3. CASE ~ Within(b, index, len)
  <2>1. len > 0 /\ Stream_available(s) - index < len
    BY <1>1, <1>3
  <2>2. Stream_compareAt(s, index, pat) = -2
    <3> HIDE DEF len, first, second, tmpLen
    <3> QED
      BY <1>2, <2>1
  <2> QED
    BY <1>3, <2>2
<1>4. CASE Within(b, index, len)
  <2>1. /\ len \in Nat \ {0}
        /\ index + len <= Stream_available(s) /\ index + len <= real
        /\ index + len <= Len(b)
        /\ b \in Seq(Byte)
        /\ real \in 0 .. size
        /\ ~ (Stream_available(s) - index < len)
    <3>1. /\ b \in Seq(Byte) /\ Len(b) = Stream_available(s)
          /\ Stream_available(s) \in 0 .. real /\ real \in 0 .. size
      BY AllowedAre
    <3>2. len \in Nat \ {0} /\ index + len <= Len(b)
      BY <1>4 DEF Within
    <3> HIDE DEF len, b, real
    <3> QED
      BY <1>1, <1>4, <3>1, <3>2
  <2>2. Stream_compareAt(s, index, pat)
          = IF tmpLen < len /\ first = 0 THEN second ELSE first
    <3> HIDE DEF len, first, second, tmpLen
    <3> QED
      BY <1>2, <2>1
  <2>3. index \in 0 .. real - 1 /\ size \in Nat \ {0} /\ s.RPos \in 0 .. size - 1
    <3>1. size \in Nat \ {0} /\ s.RPos \in 0 .. size - 1
      BY Types, MaxLenAssumption DEF Sound
    <3> HIDE DEF len, real
    <3> QED
      BY <2>1, <3>1
  <2>4. /\ at \in 0 .. size - 1 /\ at = (s.RPos + index) % s.Size
        /\ tmpLen \in 1 .. real - index
        /\ at + tmpLen <= size
        /\ index + tmpLen = real \/ at + tmpLen = size
    BY <2>3, ReadRowIs
  <2>5. n \in 1 .. len /\ n <= tmpLen /\ at + n <= size
        /\ (n = len \/ (n = tmpLen /\ tmpLen < len))
    <3> HIDE DEF len, at, tmpLen, real
    <3> QED
      BY <2>1, <2>3, <2>4
  <2> HIDE DEF len, at, tmpLen, n, b, real
  <2>6. m1 = Window(b, index, n)
    <3>1. n \in Nat /\ index + n <= Len(b) /\ n > 0
      BY <2>1, <2>5
    <3>2. Within(b, index, n)
      BY <3>1 DEF Within
    <3>3. memory(d, at, n) = Window(b, index, n)
      BY <2>4, <2>5, <3>1, <3>2, PieceInOne DEF b
    <3> QED
      BY <3>3
  <2>7. p1 \in Seq(Byte) /\ Len(p1) = n /\ p2 \in Seq(Byte) /\ Len(p2) = len - n
        /\ p1 \o p2 = pat
    <3>1. n \in 0 .. Len(pat) /\ len = Len(pat) /\ n + 1 \in 1 .. Len(pat) + 1
          /\ n >= 1
      BY <2>5, <2>1 DEF len
    <3>2. p1 \o p2 = pat
      BY <3>1, SubSplits
    <3>3. p1 \in Seq(Byte) /\ Len(p1) = n
      BY <3>1
    <3>4. p2 \in Seq(Byte) /\ Len(p2) = len - n
      BY <3>1
    <3> QED
      BY <3>2, <3>3, <3>4
  <2> HIDE DEF m1, m2, p1, p2
  <2>8. CASE tmpLen < len
    <3>1. n = tmpLen /\ at + n = size /\ index + n < real /\ index + n \in 0 .. size
          /\ index + n \in Nat
      BY <2>1, <2>4, <2>5, <2>8
    <3>2. at2 = 0 /\ at2 = (s.RPos + (index + n)) % s.Size
      <4> DEFINE k == index + n
      <4>1. k \in 0 .. size
        BY <3>1
      <4> HIDE DEF k
      <4>2. /\ Stream_getReadPtrAt(s, k) = (s.RPos + k) % s.Size
            /\ s.RPos + k >= size => Stream_getReadPtrAt(s, k) = s.RPos + k - size
        BY <4>1, ReadPtrIs
      <4>3. s.RPos + k = size
        <5>1. /\ s.RPos + index < size => at = s.RPos + index
              /\ s.RPos + index >= size => at = s.RPos + index - size
          <6>1. index \in 0 .. size
            BY <2>1, <2>3
          <6> QED
            BY <6>1, ReadPtrIs DEF at
        <5> QED
          BY <2>1, <2>3, <2>4, <2>5, <3>1, <5>1 DEF k
      <4>4. Stream_getReadPtrAt(s, k) = 0 /\ Stream_getReadPtrAt(s, k) = (s.RPos + k) % s.Size
        BY <2>3, <4>1, <4>2, <4>3
      <4> QED
        BY <4>4 DEF k
    <3>3. m2 = Window(b, index + n, len - n)
      <4> DEFINE k == index + n
                 l == len - n
      <4>1. k \in Nat /\ l \in Nat /\ l > 0 /\ k + l <= Len(b) /\ 0 + l <= size
        BY <2>1, <2>5, <2>8, <3>1
      <4>2. at2 = (s.RPos + k) % s.Size /\ at2 + l <= size
        BY <3>2, <4>1
      <4> HIDE DEF k, l, at2
      <4>3. Within(b, k, l)
        BY <4>1 DEF Within
      <4>4. memory(d, at2, l) = Window(b, k, l)
        BY <4>1, <4>2, <4>3, PieceInOne DEF b
      <4> QED
        BY <4>4 DEF m2, k, l
    <3>4. /\ toInt8(memcmp(m1 \o m2, p1 \o p2)) = IF first = 0 THEN second ELSE first
          /\ m1 \o m2 = Window(b, index, len)
      <4>1. /\ m1 \in Seq(Byte) /\ Len(m1) = n
            /\ m2 \in Seq(Byte) /\ Len(m2) = len - n
            /\ m1 \o m2 = Window(b, index, len)
        <5>1. len \in Nat /\ n \in 0 .. len
          BY <2>1, <2>5
        <5>2. /\ Window(b, index, n) \in Seq(Byte) /\ Len(Window(b, index, n)) = n
              /\ Window(b, index + n, len - n) \in Seq(Byte)
              /\ Len(Window(b, index + n, len - n)) = len - n
              /\ Window(b, index, n) \o Window(b, index + n, len - n) = Window(b, index, len)
          BY <2>1, <5>1, WindowSplits
        <5> QED
          BY <2>6, <3>3, <5>2
      <4>2. /\ m1 \in Seq(Byte) /\ m2 \in Seq(Byte) /\ p1 \in Seq(Byte) /\ p2 \in Seq(Byte)
            /\ Len(m1) = Len(p1) /\ Len(m2) = Len(p2)
        BY <2>7, <4>1
      <4>3. memcmp(m1 \o m2, p1 \o p2)
               = IF memcmp(m1, p1) = 0 THEN memcmp(m2, p2) ELSE memcmp(m1, p1)
        BY <4>2, ComparesPieces, SMTT(30)
      <4>4. first = 0 <=> memcmp(m1, p1) = 0
        BY <4>2, ComparesBytes, Int8Is
      <4> QED
        BY <4>1, <4>3, <4>4
    <3> QED
      BY <1>4, <2>2, <2>7, <2>8, <3>4 DEF len, b
  <2>9. CASE ~ (tmpLen < len)
    <3>1. n = len
      BY <2>9 DEF n
    <3>2. p1 = pat
      <4>1. p1 = SubSeq(pat, 1, Len(pat))
        BY <3>1 DEF p1, len
      <4> QED
        BY <4>1
    <3> QED
      BY <1>4, <2>2, <2>6, <2>9, <3>1, <3>2 DEF len, b
  <2> QED
    BY <2>8, <2>9
<1> QED
  BY <1>3, <1>4

\* What memchr has found among n bytes: nothing, or the first byte val.
Searched(d, at, val, n, c) ==
  \/ c = NotFound /\ \A i \in 0 .. n - 1 : d[at + i] # val
  \/ /\ c \in 0 .. n - 1 /\ d[at + c] = val
     /\ \A i \in 0 .. c - 1 : d[at + i] # val

\* memchr finds the first.
LEMMA SearchIs ==
  ASSUME NEW d, NEW at \in Nat, NEW val, NEW n \in Int
  PROVE  Searched(d, at, val, n, memchr(d, at, val, n))
<1> DEFINE F == {i \in 0 .. n - 1 : d[at + i] = val}
           l == CHOOSE i \in F : \A j \in F : i <= j
           c == memchr(d, at, val, n)
<1>1. c = IF F = {} THEN NotFound ELSE l
  BY DEF memchr
<1>2. CASE F = {}
  <2>1. c = NotFound /\ \A i \in 0 .. n - 1 : d[at + i] # val
    BY <1>1, <1>2
  <2> HIDE DEF c
  <2> QED
    BY <2>1 DEF Searched, c
<1>3. CASE F # {}
  <2>1. l \in F /\ \A j \in F : l <= j
    <3>1. F \subseteq Nat
      OBVIOUS
    <3>2. l = CHOOSE i \in F : \A j \in F : i <= j
      OBVIOUS
    <3> HIDE DEF F, l
    <3> QED
      BY <1>3, <3>1, <3>2, ChosenLeast
  <2>2. c = l
    BY <1>1, <1>3
  <2> HIDE DEF l, c
  <2>3. ASSUME NEW i \in 0 .. l - 1
        PROVE  d[at + i] # val
    <3>1. l \in 0 .. n - 1
      BY <2>1
    <3>2. i \in 0 .. n - 1 /\ ~ (l <= i)
      BY <3>1
    <3> QED
      BY <2>1, <3>2
  <2> QED
    BY <2>1, <2>2, <2>3 DEF Searched, c
<1> QED
  BY <1>2, <1>3

\* val is not among the bytes with indexes from .. to - 1.
Misses(b, val, from, to) == \A j \in from .. to - 1 : j < Len(b) => b[j + 1] # val

\* The slots of the bytes from an index on.
LEMMA SlotIs ==
  ASSUME NEW size \in Nat \ {0}, NEW r \in 0 .. size - 1, NEW at \in 0 .. size - 1,
         NEW i \in Nat, Further(r, i, at, size), NEW j \in Nat, i <= j, j < size
  PROVE  /\ at + (j - i) < size => Ahead(r, j + 1, size) = at + (j - i)
         /\ at + (j - i) >= size => Ahead(r, j + 1, size) = at + (j - i) - size
  BY DEF Further, Ahead

\* findByteAt never passes a byte that it looks for: it finds one, or says a
\* place before it.
LEMMA FindByteAtIs ==
  ASSUME NEW size \in 1 .. MaxLen, NEW s, Sound(s, size), HalfRange(size),
         NEW i \in Nat, NEW val, NEW at, at = Stream_findByteAt(s, i, val)
  PROVE  \/ at = NotFound /\ Misses(AllowedOf(s), val, i, size)
         \/ at \in i .. size - 1 /\ Misses(AllowedOf(s), val, i, at)
<1> DEFINE b      == AllowedOf(s)
           a      == Stream_available(s)
           real   == Stream_availableReal(s)
           d      == s.Data
           r      == s.RPos
           w      == s.WPos
           tmpLen == Stream_directAvailableAt(s, i)
           ptr    == Stream_getReadPtrAt(s, i)
           first  == memchr(d, ptr, val, tmpLen)
           second == memchr(d, 0, val, w)
<1>1. /\ size \in Nat \ {0} /\ r \in 0 .. size - 1 /\ w \in 0 .. size - 1
      /\ s.Size = size
  BY Types, MaxLenAssumption DEF Sound
<1>2. /\ Len(b) = a /\ a \in 0 .. real /\ real \in 0 .. size
      /\ \A k \in 1 .. a : b[k] = d[Ahead(r, k, size)]
  BY AllowedAre
<1>20. a \in 0 .. real /\ real \in 0 .. size
  BY <1>2
<1>3. at = CASE a < i -> NotFound
             [] a >= i /\ first # NotFound -> first + i
             [] OTHER -> IF tmpLen + i < a /\ second # NotFound
                         THEN second + i ELSE NotFound
  BY Zenon DEF Stream_findByteAt
<1>4. \/ second = NotFound /\ \A k \in 0 .. w - 1 : d[0 + k] # val
      \/ /\ second \in 0 .. w - 1 /\ d[0 + second] = val
         /\ \A k \in 0 .. second - 1 : d[0 + k] # val
  <2>1. PICK o \in Nat : o = 0
    OBVIOUS
  <2>2. w \in Int
    BY <1>1
  <2>3. second = memchr(d, o, val, w)
    BY <2>1
  <2> HIDE DEF second, w, d
  <2>4. Searched(d, o, val, w, second)
    BY <2>2, <2>3, SearchIs
  <2> QED
    BY <2>1, <2>4 DEF Searched
<1>5. CASE a < i
  <2>1. at = NotFound
    <3> HIDE DEF first, second, a, tmpLen, real, b, d
    <3>1. ~ (a >= i)
      BY <1>5, <1>20
    <3> QED
      BY <1>3, <1>5, <3>1
  <2>2. Misses(b, val, i, size)
    <3> HIDE DEF b, a, real
    <3> QED
      BY <1>2, <1>5 DEF Misses
  <2> QED
    BY <2>1, <2>2
<1>6. CASE ~ (a < i) /\ i < real
  <2>1. i \in 0 .. real - 1
    <3> HIDE DEF real
    <3> QED
      BY <1>2, <1>6
  <2>2. /\ ptr \in 0 .. size - 1 /\ ptr = (r + i) % size
        /\ tmpLen \in 1 .. real - i
        /\ ptr + tmpLen <= size
        /\ i + tmpLen = real \/ ptr + tmpLen = size
    BY <1>1, <2>1, ReadRowIs
  <2> HIDE DEF ptr, tmpLen, a, real, r, w, b, d
  <2>3. Further(r, i, ptr, size)
    <3>1. i \in Nat /\ i < size
      BY <1>1, <1>2, <2>1
    <3> QED
      BY <1>1, <2>2, <3>1, IndexIs
  <2>4. \/ first = NotFound /\ \A k \in 0 .. tmpLen - 1 : d[ptr + k] # val
        \/ /\ first \in 0 .. tmpLen - 1 /\ d[ptr + first] = val
           /\ \A k \in 0 .. first - 1 : d[ptr + k] # val
    <3>1. ptr \in Nat /\ tmpLen \in Int
      BY <1>1, <1>2, <2>2
    <3>2. first = memchr(d, ptr, val, tmpLen)
      OBVIOUS
    <3> HIDE DEF first
    <3>3. Searched(d, ptr, val, tmpLen, first)
      BY <3>1, <3>2, SearchIs
    <3> QED
      BY <3>3 DEF Searched
  <2> HIDE DEF first, second
  <2>5. ASSUME NEW j \in i .. a - 1
        PROVE  /\ j - i < tmpLen => b[j + 1] = d[ptr + (j - i)]
               /\ tmpLen <= j - i => /\ j - i - tmpLen \in 0 .. w - 1
                                     /\ b[j + 1] = d[0 + (j - i - tmpLen)]
    <3>1. j \in Nat /\ i <= j /\ j < size /\ j + 1 \in 1 .. a /\ j < real
      BY <1>1, <1>2
    <3>2. b[j + 1] = d[Ahead(r, j + 1, size)]
      BY <1>2, <3>1
    <3>3. /\ ptr + (j - i) < size => Ahead(r, j + 1, size) = ptr + (j - i)
          /\ ptr + (j - i) >= size => Ahead(r, j + 1, size) = ptr + (j - i) - size
      BY <1>1, <2>2, <2>3, <3>1, SlotIs
    <3>4. Further(r, real, w, size)
      BY WriterIsBehind DEF r, real, w
    <3>5. CASE j - i < tmpLen
      BY <1>1, <1>2, <2>2, <3>1, <3>2, <3>3, <3>5
    <3>6. CASE tmpLen <= j - i
      <4>1. ptr + tmpLen = size
        BY <1>1, <1>2, <2>2, <3>1, <3>6
      <4>2. w = real - i - tmpLen
        <5>1. i + tmpLen < real
          BY <1>20, <2>1, <2>2, <3>1, <3>6
        <5> QED
          BY <1>1, <1>20, <2>1, <2>2, <2>3, <3>4, <4>1, <5>1 DEF Further
      <4> QED
        BY <1>1, <1>2, <2>1, <2>2, <3>1, <3>2, <3>3, <3>6, <4>1, <4>2
    <3> QED
      BY <1>1, <1>2, <2>2, <3>1, <3>5, <3>6
  <2>6. CASE first # NotFound
    <3>1. at = first + i
      BY <1>1, <1>2, <1>3, <1>6, <2>6
    <3>2. at \in i .. size - 1 /\ first \in 0 .. tmpLen - 1
      <4>1. first \in 0 .. tmpLen - 1
        BY <2>4, <2>6
      <4> QED
        BY <1>1, <1>20, <2>1, <2>2, <3>1, <4>1
    <3>3. ASSUME NEW j \in i .. at - 1, j < Len(b)
          PROVE  b[j + 1] # val
      <4>1. j \in i .. a - 1 /\ j - i \in 0 .. first - 1 /\ j - i < tmpLen
        BY <1>2, <2>1, <2>2, <3>1, <3>2, <3>3
      <4> QED
        BY <2>4, <2>5, <2>6, <4>1
    <3> QED
      BY <3>2, <3>3 DEF Misses, b
  <2>7. CASE first = NotFound /\ tmpLen + i < a /\ second # NotFound
    <3>1. at = second + i
      BY <1>1, <1>2, <1>3, <1>6, <2>7
    <3>2. second \in 0 .. w - 1 /\ \A k \in 0 .. second - 1 : d[0 + k] # val
      BY <1>4, <2>7 DEF d, w
    <3>3. at \in i .. size - 1
      <4>1. a - 1 \in i .. a - 1 /\ real - i \in Int
        BY <1>1, <1>2, <2>1, <2>2, <2>7
      <4>2. ptr + tmpLen = size
        BY <1>1, <1>2, <2>1, <2>2, <2>7
      <4>3. Further(r, real, w, size)
        BY WriterIsBehind DEF r, real, w
      <4>4. w = real - i - tmpLen
        BY <1>1, <1>20, <2>1, <2>2, <2>3, <2>7, <4>2, <4>3 DEF Further
      <4>5. second \in 0 .. w - 1
        BY <3>2
      <4> QED
        BY <1>1, <1>20, <2>1, <2>2, <3>1, <4>4, <4>5
    <3>4. ASSUME NEW j \in i .. at - 1, j < Len(b)
          PROVE  b[j + 1] # val
      <4>1. j \in i .. a - 1
        BY <1>2, <2>1, <3>3, <3>4
      <4>2. CASE j - i < tmpLen
        <5>1. j - i \in 0 .. tmpLen - 1
          BY <1>2, <2>1, <2>2, <4>1, <4>2
        <5>2. b[j + 1] = d[ptr + (j - i)]
          BY <2>5, <4>1, <4>2
        <5> QED
          BY <2>4, <2>7, <5>1, <5>2 DEF NotFound
      <4>3. CASE tmpLen <= j - i
        <5>1. j - i - tmpLen \in 0 .. second - 1
          BY <1>1, <1>2, <2>1, <2>2, <3>1, <3>2, <3>3, <4>1, <4>3
        <5>2. b[j + 1] = d[0 + (j - i - tmpLen)]
          BY <2>5, <4>1, <4>3
        <5> QED
          BY <3>2, <5>1, <5>2
      <4> QED
        BY <1>2, <2>1, <2>2, <4>1, <4>2, <4>3
    <3> QED
      BY <3>3, <3>4 DEF Misses, b
  <2>8. CASE first = NotFound /\ ~ (tmpLen + i < a /\ second # NotFound)
    <3>1. at = NotFound
      BY <1>1, <1>2, <1>3, <1>6, <2>8
    <3>2. ASSUME NEW j \in i .. size - 1, j < Len(b)
          PROVE  b[j + 1] # val
      <4>1. j \in i .. a - 1
        BY <1>1, <1>2, <2>1, <3>2
      <4>2. CASE j - i < tmpLen
        <5>1. j - i \in 0 .. tmpLen - 1
          BY <1>2, <2>1, <2>2, <4>1, <4>2
        <5>2. b[j + 1] = d[ptr + (j - i)]
          BY <2>5, <4>1, <4>2
        <5> QED
          BY <2>4, <2>8, <5>1, <5>2 DEF NotFound
      <4>3. CASE tmpLen <= j - i
        <5>1. tmpLen + i < a /\ second = NotFound
          BY <1>2, <2>1, <2>2, <2>8, <4>1, <4>3
        <5>2. /\ b[j + 1] = d[0 + (j - i - tmpLen)]
              /\ j - i - tmpLen \in 0 .. w - 1
          BY <2>5, <4>1, <4>3
        <5>3. \A k \in 0 .. w - 1 : d[0 + k] # val
          BY <1>1, <1>4, <5>1 DEF NotFound, w, d
        <5> QED
          BY <5>2, <5>3
      <4> QED
        BY <1>2, <2>1, <2>2, <4>1, <4>2, <4>3
    <3> QED
      BY <3>1, <3>2 DEF Misses, b
  <2> QED
    BY <2>6, <2>7, <2>8
<1>7. CASE ~ (a < i) /\ ~ (i < real)
  <2>1. i = a /\ i = real
    <3> HIDE DEF a, real
    <3> QED
      BY <1>2, <1>7
  <2>2. tmpLen = 0
    <3> DEFINE dir == Stream_directAvailable(s)
    <3>1. s \in Stream(size) /\ (Wrapped(s, size) \/ Straight(s, size))
      BY Shapes DEF Sound
    <3>2. \/ real = size + w - r /\ w <= r /\ dir = size - r
          \/ real = w - r /\ r <= w /\ dir = w - r
      BY <3>1, Types, Filled DEF Wrapped, Straight, Stream_directAvailable
    <3>3. tmpLen = IF real = dir \/ dir > i THEN dir - i ELSE w - (i - dir)
      BY DEF Stream_directAvailableAt
    <3> HIDE DEF real, tmpLen, w, r, dir
    <3> QED
      BY <1>1, <1>2, <2>1, <3>2, <3>3
  <2>3. first = NotFound
    <3>1. {k \in 0 .. tmpLen - 1 : d[ptr + k] = val} = {}
      <4>1. 0 .. 0 - 1 = {}
        OBVIOUS
      <4> HIDE DEF tmpLen
      <4> QED
        BY <2>2, <4>1
    <3> HIDE DEF tmpLen, ptr
    <3> QED
      BY <3>1 DEF memchr
  <2>4. at = NotFound
    <3> HIDE DEF first, second, a, tmpLen, real
    <3>1. ~ (tmpLen + i < a)
      BY <2>1, <2>2
    <3> QED
      BY <1>3, <1>7, <2>3, <3>1
  <2>5. Misses(b, val, i, size)
    <3> HIDE DEF b, a, real
    <3> QED
      BY <1>2, <2>1 DEF Misses
  <2> QED
    BY <2>4, <2>5
<1> QED
  BY <1>5, <1>6, <1>7

\* The places of a pattern among some bytes, from an offset on.
PlacesOf(b, pat, offset) ==
  {at \in offset .. Len(b) - Len(pat) : Window(b, at, Len(pat)) = pat}

\* What FirstFrom answers for the places there are.
LEMMA FirstFromIs ==
  ASSUME NEW b, NEW pat, NEW offset \in Nat
  PROVE  /\ PlacesOf(b, pat, offset) = {} => FirstFrom(b, pat, offset) = NotFound
         /\ \A at \in PlacesOf(b, pat, offset) :
              (\A other \in PlacesOf(b, pat, offset) : at <= other)
                => FirstFrom(b, pat, offset) = at
         /\ \A more \in Nat : PlacesOf(b, pat, more) = PlacesOf(b, pat, offset)
              => FirstFrom(b, pat, more) = FirstFrom(b, pat, offset)
         /\ FirstFrom(b, pat, offset) = NotFound
              \/ FirstFrom(b, pat, offset) \in PlacesOf(b, pat, offset)
<1> DEFINE P == PlacesOf(b, pat, offset)
           c == CHOOSE at \in P : \A other \in P : at <= other
<1>1. \A m : FirstFrom(b, pat, m)
               = LET Q == PlacesOf(b, pat, m)
                 IN IF Q = {} THEN NotFound
                    ELSE CHOOSE at \in Q : \A other \in Q : at <= other
  BY DEF FirstFrom, PlacesOf
<1>2. FirstFrom(b, pat, offset) = IF P = {} THEN NotFound ELSE c
  BY <1>1
<1>3. P \subseteq Nat
  BY DEF PlacesOf
<1>4. P # {} => c \in P /\ \A other \in P : c <= other
  <2>1. c = CHOOSE at \in P : \A other \in P : at <= other
    OBVIOUS
  <2> HIDE DEF P, c
  <2> QED
    BY <1>3, <2>1, ChosenLeast
<1>5. \A more \in Nat : PlacesOf(b, pat, more) = P
         => FirstFrom(b, pat, more) = FirstFrom(b, pat, offset)
  BY <1>1
<1> HIDE DEF P, c
<1>6. \A at \in P : (\A other \in P : at <= other) => FirstFrom(b, pat, offset) = at
  <2> SUFFICES ASSUME NEW at \in P, \A other \in P : at <= other
               PROVE  FirstFrom(b, pat, offset) = at
    OBVIOUS
  <2>1. c \in P /\ c <= at /\ at <= c
    BY <1>4
  <2>2. c = at
    BY <1>3, <2>1
  <2> QED
    BY <1>2, <2>2
<1> QED
  BY <1>2, <1>4, <1>5, <1>6 DEF P

\* Where a pattern lies, its first byte is.
LEMMA PlaceStarts ==
  ASSUME NEW b \in Seq(Byte), NEW pat \in Seq(Byte), Len(pat) > 0, NEW offset \in Nat,
         NEW at \in PlacesOf(b, pat, offset)
  PROVE  /\ at \in Nat /\ offset <= at /\ at + Len(pat) <= Len(b)
         /\ Window(b, at, Len(pat)) = pat
         /\ at < Len(b) /\ b[at + 1] = pat[1]
<1> DEFINE len == Len(pat)
<1>1. /\ at \in Nat /\ offset <= at /\ at + len <= Len(b) /\ Window(b, at, len) = pat
      /\ len \in Nat /\ 1 \in 1 .. len /\ at < Len(b)
  BY DEF PlacesOf
<1> HIDE DEF len
<1>2. \A i \in 1 .. len : pat[i] = b[at + i]
  BY <1>1, WindowOf
<1> QED
  BY <1>1, <1>2 DEF len

\* A search that has passed no first byte has passed no place.
LEMMA PassesNone ==
  ASSUME NEW b \in Seq(Byte), NEW pat \in Seq(Byte), Len(pat) > 0, NEW i \in Nat,
         NEW to \in Nat, Misses(b, pat[1], i, to)
  PROVE  \A at \in PlacesOf(b, pat, i) : to <= at
<1> SUFFICES ASSUME NEW at \in PlacesOf(b, pat, i), ~ (to <= at)
             PROVE  FALSE
  <2>1. \A at \in PlacesOf(b, pat, i) : at \in Nat
    BY DEF PlacesOf
  <2> QED
    BY <2>1
<1>1. at \in Nat /\ i <= at /\ at < Len(b) /\ b[at + 1] = pat[1]
  BY PlaceStarts
<1>2. at \in i .. to - 1
  BY <1>1
<1> QED
  BY <1>1, <1>2 DEF Misses

\* One turn of the loop: what is found from i on is what is found now, or what is
\* found behind the place where the pattern was not.
LEMMA TurnIs ==
  ASSUME NEW size \in 1 .. MaxLen, NEW s, Sound(s, size), HalfRange(size),
         NEW i \in Nat, NEW pat \in Seq(Byte), Len(pat) > 0,
         NEW at, at = Stream_findByteAt(s, i, pat[1])
  PROVE  /\ at = NotFound \/ at \in i .. size - 1
         /\ FirstFrom(AllowedOf(s), pat, i)
              = IF at = NotFound \/ Stream_compareAt(s, at, pat) = 0
                THEN at
                ELSE FirstFrom(AllowedOf(s), pat, at + 1)
<1> DEFINE b == AllowedOf(s)
           len == Len(pat)
           P == PlacesOf(b, pat, i)
           x == Stream_compareAt(s, at, pat)
           v == pat[1]
<1>1. \/ at = NotFound /\ Misses(b, v, i, size)
      \/ at \in i .. size - 1 /\ Misses(b, v, i, at)
  <2> HIDE DEF v
  <2>1. at = Stream_findByteAt(s, i, v)
    BY DEF v
  <2> QED
    BY <2>1, FindByteAtIs
<1>2. b \in Seq(Byte) /\ Len(b) <= size /\ size \in Nat /\ Len(b) \in Nat
  <2>1. /\ b \in Seq(Byte) /\ Len(b) = Stream_available(s)
        /\ Stream_available(s) \in 0 .. Stream_availableReal(s)
        /\ Stream_availableReal(s) \in 0 .. size
    BY AllowedAre
  <2> HIDE DEF b
  <2> QED
    BY <2>1, MaxLenAssumption
<1>3. len \in Nat /\ len > 0
  OBVIOUS
<1>4. CASE at = NotFound
  <2>1. Misses(b, pat[1], i, size)
    BY <1>1, <1>4 DEF NotFound
  <2>2. P = {}
    <3>1. \A j \in P : size <= j
      BY <1>2, <2>1, PassesNone
    <3>2. \A j \in P : j \in Nat /\ j < Len(b)
      BY <1>2, PlaceStarts
    <3> HIDE DEF P, b
    <3> QED
      BY <1>2, <3>1, <3>2
  <2>3. FirstFrom(b, pat, i) = NotFound
    BY <2>2, FirstFromIs
  <2> QED
    BY <1>4, <2>3
<1>5. CASE at # NotFound
  <2>1. at \in i .. size - 1 /\ Misses(b, pat[1], i, at) /\ at \in Nat
    BY <1>1, <1>5
  <2>2. \A j \in P : at <= j
    BY <1>2, <2>1, PassesNone
  <2> DEFINE w == Window(b, at, len)
  <2>3. /\ x = IF Within(b, at, len) THEN toInt8(memcmp(w, pat)) ELSE -2
        /\ Within(b, at, len) => (toInt8(memcmp(w, pat)) = 0 <=> w = pat)
    <3>1. x = IF Within(b, at, len) THEN toInt8(memcmp(w, pat)) ELSE -2
      BY <2>1, CompareIs
    <3>2. ASSUME Within(b, at, len)
          PROVE  toInt8(memcmp(w, pat)) = 0 <=> w = pat
      <4>1. at + len <= Len(b)
        BY <3>2 DEF Within
      <4>2. w \in Seq(Byte) /\ Len(w) = len
        BY <1>2, <1>3, <2>1, <4>1, WindowOf
      <4> HIDE DEF w
      <4> QED
        BY <4>2, ComparesBytes, Int8Is
    <3> QED
      BY <3>1, <3>2
  <2> HIDE DEF w
  <2>4. CASE x = 0
    <3>1. Within(b, at, len) /\ w = pat
      <4> HIDE DEF x, b, len
      <4> QED
        BY <2>3, <2>4
    <3>2. Window(b, at, len) = pat
      BY <3>1 DEF w
    <3>3. at \in P
      <4>1. at + len <= Len(b)
        BY <3>1 DEF Within
      <4>2. at \in i .. Len(b) - len
        BY <1>2, <1>3, <2>1, <4>1
      <4> QED
        BY <3>2, <4>2 DEF PlacesOf
    <3>4. FirstFrom(b, pat, i) = at
      BY <2>2, <3>3, FirstFromIs
    <3> QED
      BY <2>1, <2>4, <3>4
  <2>5. CASE x # 0
    <3>1. at \notin P
      <4> SUFFICES ASSUME at \in P
                   PROVE  FALSE
        OBVIOUS
      <4>1. at + len <= Len(b) /\ Window(b, at, len) = pat
        BY <1>2, PlaceStarts
      <4>2. Within(b, at, len)
        BY <1>3, <4>1 DEF Within
      <4>3. w = pat
        BY <4>1 DEF w
      <4> HIDE DEF x, b, len
      <4> QED
        BY <2>3, <2>5, <4>2, <4>3
    <3>2. P = PlacesOf(b, pat, at + 1)
      <4>1. ASSUME NEW j \in P
            PROVE  j \in PlacesOf(b, pat, at + 1)
        <5>1. j \in i .. Len(b) - len /\ Window(b, j, len) = pat
          BY DEF PlacesOf
        <5>2. j # at /\ at <= j
          BY <2>2, <3>1
        <5>3. j \in at + 1 .. Len(b) - len
          BY <1>2, <1>3, <2>1, <5>1, <5>2
        <5> QED
          BY <5>1, <5>3 DEF PlacesOf
      <4>2. ASSUME NEW j \in PlacesOf(b, pat, at + 1)
            PROVE  j \in P
        <5>1. j \in at + 1 .. Len(b) - len /\ Window(b, j, len) = pat
          BY DEF PlacesOf
        <5>2. j \in i .. Len(b) - len
          BY <1>2, <1>3, <2>1, <5>1
        <5> QED
          BY <5>1, <5>2 DEF PlacesOf
      <4> QED
        BY <4>1, <4>2
    <3>3. at + 1 \in Nat
      BY <2>1
    <3>4. FirstFrom(b, pat, at + 1) = FirstFrom(b, pat, i)
      BY <3>2, <3>3, FirstFromIs
    <3> QED
      BY <1>5, <2>1, <2>5, <3>4
  <2> QED
    BY <2>4, <2>5
<1> QED
  BY <1>4, <1>5

\* The loop of findPattern as a function of the place it has come to: the one
\* function that goes on as the loop does is the search from that place.
LEMMA FindPatternIs ==
  ASSUME NEW size \in 1 .. MaxLen, NEW s, Sound(s, size), HalfRange(size),
         NEW offset \in 0 .. size, NEW pat \in Seq(Byte), Len(pat) > 0
  PROVE  Stream_findPatternAt(s, offset, pat) = FirstFrom(AllowedOf(s), pat, offset)
<1> DEFINE b == AllowedOf(s)
           found(i) == Stream_findByteAt(s, i, pat[1])
           here(i) == found(i) = NotFound \/ Stream_compareAt(s, found(i), pat) = 0
           goal(i) == FirstFrom(b, pat, i)
           Solves(f) == f = [i \in 0 .. s.Size + 1 |->
                               LET at == Stream_findByteAt(s, i, pat[1])
                               IN  IF at = NotFound \/ Stream_compareAt(s, at, pat) = 0
                                   THEN at ELSE f[at + 1]]
           from == CHOOSE f : Solves(f)
           g == [i \in 0 .. s.Size + 1 |-> goal(i)]
           N == size + 1
<1>1. Stream_findPatternAt(s, offset, pat)
        = IF Stream_available(s) < Len(pat) THEN NotFound ELSE from[offset]
  BY DEF Stream_findPatternAt
<1>2. s.Size = size /\ size \in Nat \ {0}
  BY Types, MaxLenAssumption DEF Sound
<1>3. ASSUME NEW i \in 0 .. N
      PROVE  /\ ~ here(i) => found(i) \in i .. size - 1
             /\ goal(i) = IF here(i) THEN found(i) ELSE goal(found(i) + 1)
  BY <1>2, TurnIs
<1>4. \A f : Solves(f) <=> f = [i \in 0 .. N |-> IF here(i) THEN found(i)
                                                 ELSE f[found(i) + 1]]
  BY <1>2
<1> HIDE DEF found, here, goal, Solves
<1>5. Solves(g)
  <2>1. g = [i \in 0 .. N |-> goal(i)]
    BY <1>2
  <2> HIDE DEF g
  <2>2. ASSUME NEW i \in 0 .. N
        PROVE  goal(i) = IF here(i) THEN found(i) ELSE g[found(i) + 1]
    <3>1. ~ here(i) => found(i) + 1 \in 0 .. N
      BY <1>2, <1>3
    <3> QED
      BY <1>3, <2>1, <3>1
  <2>3. g = [i \in 0 .. N |-> IF here(i) THEN found(i) ELSE g[found(i) + 1]]
    BY <2>1, <2>2
  <2> QED
    BY <1>4, <2>3
<1>6. Solves(from)
  <2>1. \E f : Solves(f)
    BY <1>5
  <2> QED
    BY <2>1, Zenon
<1> HIDE DEF from, g
<1>7. ASSUME NEW i \in 0 .. N
      PROVE  from[i] = IF here(i) THEN found(i) ELSE from[found(i) + 1]
  <2>1. from = [k \in 0 .. N |-> IF here(k) THEN found(k) ELSE from[found(k) + 1]]
    BY <1>4, <1>6
  <2> DEFINE F(k) == IF here(k) THEN found(k) ELSE from[found(k) + 1]
  <2>2. from = [k \in 0 .. N |-> F(k)]
    BY <2>1
  <2> HIDE DEF F
  <2>3. from[i] = F(i)
    BY <2>2
  <2> QED
    BY <2>3 DEF F
<1> DEFINE T == {i \in 0 .. N : from[i] = goal(i)}
<1>8. 0 .. N \subseteq T
  <2>1. N \in T
    <3>1. N \in 0 .. N /\ here(N)
      BY <1>2, <1>3
    <3> QED
      BY <1>3, <1>7, <3>1
  <2>2. ASSUME NEW n \in 1 .. N, n .. N \subseteq T
        PROVE  n - 1 \in T
    <3> DEFINE i == n - 1
    <3>1. i \in 0 .. N /\ i + 1 = n
      BY <1>2
    <3> HIDE DEF i
    <3>2. CASE here(i)
      BY <1>3, <1>7, <3>1, <3>2 DEF i
    <3>3. CASE ~ here(i)
      <4>1. found(i) + 1 \in n .. N
        BY <1>2, <1>3, <3>1, <3>3
      <4>2. from[found(i) + 1] = goal(found(i) + 1)
        BY <2>2, <4>1
      <4> QED
        BY <1>3, <1>7, <3>1, <3>3, <4>2 DEF i
    <3> QED
      BY <3>2, <3>3
  <2> HIDE DEF T
  <2>3. N \in Nat
    BY <1>2
  <2> HIDE DEF N
  <2> QED
    BY <2>1, <2>2, <2>3, Downward
<1>9. from[offset] = goal(offset)
  <2>1. offset \in 0 .. N
    BY <1>2
  <2> QED
    BY <1>8, <2>1
<1>10. ASSUME Stream_available(s) < Len(pat)
       PROVE  goal(offset) = NotFound
  <2>1. Len(b) = Stream_available(s) /\ Stream_available(s) \in Int
    BY AllowedAre, Allowances
  <2>2. PlacesOf(b, pat, offset) = {}
    <3> HIDE DEF b
    <3>1. \A at \in offset .. Len(b) - Len(pat) : FALSE
      BY <1>2, <1>10, <2>1
    <3> QED
      BY <3>1 DEF PlacesOf
  <2>3. offset \in Nat
    BY <1>2
  <2> QED
    BY <2>2, <2>3, FirstFromIs DEF goal
<1> QED
  BY <1>1, <1>9, <1>10 DEF goal

\* findByte looks at all bytes in the ring; where all of them may be read it is
\* the search for a pattern of one byte.
LEMMA FindByteIs ==
  ASSUME NEW size \in 1 .. MaxLen, NEW s, Sound(s, size),
         Stream_available(s) = Stream_availableReal(s),
         NEW val, NEW at, at = Stream_findByte(s, val)
  PROVE  \/ at = NotFound /\ Misses(AllowedOf(s), val, 0, size)
         \/ /\ at \in 0 .. Stream_available(s) - 1
            /\ AllowedOf(s)[at + 1] = val
            /\ Misses(AllowedOf(s), val, 0, at)
<1> DEFINE b      == AllowedOf(s)
           a      == Stream_available(s)
           d      == s.Data
           r      == s.RPos
           w      == s.WPos
           dir    == Stream_directAvailable(s)
           first  == memchr(d, r, val, dir)
           second == memchr(d, 0, val, w)
<1>1. /\ size \in Nat \ {0} /\ r \in 0 .. size - 1 /\ w \in 0 .. size - 1
      /\ s.Size = size
  BY Types, MaxLenAssumption DEF Sound
<1>2. a \in 0 .. size /\ Len(b) = a
  BY AllowedAre
<1>3. \A k \in 1 .. a : b[k] = d[Ahead(r, k, size)]
  BY AllowedAre
<1>4. \/ s.Overflow = 1 /\ a = size + w - r /\ w <= r /\ dir = size - r
      \/ s.Overflow = 0 /\ a = w - r /\ r <= w /\ dir = w - r
  <2>1. s \in Stream(size) /\ (Wrapped(s, size) \/ Straight(s, size))
    BY Shapes DEF Sound
  <2> QED
    BY <2>1, Types, Filled DEF Wrapped, Straight, Stream_directAvailable
<1>5. at = CASE a = 0 -> NotFound
             [] a # 0 /\ first # NotFound -> first
             [] OTHER -> IF s.Overflow = 1 /\ second # NotFound
                         THEN second + s.Size - s.RPos ELSE NotFound
  BY Zenon DEF Stream_findByte
<1>6. \/ second = NotFound /\ \A k \in 0 .. w - 1 : d[0 + k] # val
      \/ /\ second \in 0 .. w - 1 /\ d[0 + second] = val
         /\ \A k \in 0 .. second - 1 : d[0 + k] # val
  <2>1. PICK o \in Nat : o = 0
    OBVIOUS
  <2>2. w \in Int
    BY <1>1
  <2>3. second = memchr(d, o, val, w)
    BY <2>1
  <2> HIDE DEF second, w, d
  <2>4. Searched(d, o, val, w, second)
    BY <2>2, <2>3, SearchIs
  <2> QED
    BY <2>1, <2>4 DEF Searched
<1>7. \/ first = NotFound /\ \A k \in 0 .. dir - 1 : d[r + k] # val
      \/ /\ first \in 0 .. dir - 1 /\ d[r + first] = val
         /\ \A k \in 0 .. first - 1 : d[r + k] # val
  <2>1. r \in Nat /\ dir \in Int
    <3> HIDE DEF dir, r, w, a
    <3> QED
      BY <1>1, <1>4
  <2> HIDE DEF first, r, dir
  <2>2. first = memchr(d, r, val, dir)
    BY DEF first
  <2>3. Searched(d, r, val, dir, first)
    BY <2>1, <2>2, SearchIs
  <2> QED
    BY <2>3 DEF Searched
<1> HIDE DEF b, a, d, r, w, dir, first, second
<1>8. ASSUME NEW j \in 0 .. a - 1
      PROVE  /\ j < dir => b[j + 1] = d[r + j]
             /\ dir <= j => /\ j - dir \in 0 .. w - 1 /\ b[j + 1] = d[0 + (j - dir)]
                            /\ s.Overflow = 1
  <2>1. b[j + 1] = d[Ahead(r, j + 1, size)]
    <3>1. j + 1 \in 1 .. a
      BY <1>2
    <3> QED
      BY <1>3, <3>1
  <2>2. j < dir => Ahead(r, j + 1, size) = r + j
    BY <1>1, <1>2, <1>4 DEF Ahead
  <2>3. dir <= j => /\ j - dir \in 0 .. w - 1 /\ s.Overflow = 1
                    /\ Ahead(r, j + 1, size) = 0 + (j - dir)
    BY <1>1, <1>2, <1>4 DEF Ahead
  <2> QED
    BY <2>1, <2>2, <2>3
<1>9. CASE a = 0
  <2>1. at = NotFound
    BY <1>5, <1>9
  <2>2. Misses(b, val, 0, size)
    BY <1>2, <1>9 DEF Misses
  <2> QED
    BY <2>1, <2>2 DEF b
<1>10. CASE a # 0 /\ first # NotFound
  <2>1. at = first
    BY <1>5, <1>10
  <2>2. /\ first \in 0 .. dir - 1 /\ d[r + first] = val
        /\ \A k \in 0 .. first - 1 : d[r + k] # val
    BY <1>7, <1>10
  <2>3. at \in 0 .. a - 1 /\ at < dir
    BY <1>1, <1>2, <1>4, <2>1, <2>2
  <2>4. b[at + 1] = val
    BY <1>8, <2>1, <2>2, <2>3
  <2>5. ASSUME NEW j \in 0 .. at - 1
        PROVE  b[j + 1] # val
    <3>1. j \in 0 .. a - 1 /\ j < dir /\ j \in 0 .. first - 1
      BY <1>1, <1>2, <1>4, <2>1, <2>2, <2>3
    <3> QED
      BY <1>8, <2>2, <3>1
  <2> QED
    BY <2>3, <2>4, <2>5 DEF Misses, a, b
<1>11. CASE a # 0 /\ first = NotFound
  <2>1. \A k \in 0 .. dir - 1 : d[r + k] # val
    BY <1>7, <1>11 DEF NotFound
  <2>2. ASSUME NEW j \in 0 .. a - 1, j < dir
        PROVE  b[j + 1] # val
    <3>1. j \in 0 .. dir - 1
      BY <1>1, <1>2, <1>4, <2>2
    <3> QED
      BY <1>8, <2>1, <2>2, <3>1
  <2>3. CASE s.Overflow = 1 /\ second # NotFound
    <3>1. at = second + size - r
      BY <1>1, <1>5, <1>11, <2>3 DEF r
    <3>2. /\ second \in 0 .. w - 1 /\ d[0 + second] = val
          /\ \A k \in 0 .. second - 1 : d[0 + k] # val
      BY <1>6, <2>3
    <3>3. at \in 0 .. a - 1 /\ dir <= at /\ at - dir = second
      BY <1>1, <1>2, <1>4, <2>3, <3>1, <3>2
    <3>4. b[at + 1] = val
      BY <1>8, <3>2, <3>3
    <3>5. ASSUME NEW j \in 0 .. at - 1
          PROVE  b[j + 1] # val
      <4>1. j \in 0 .. a - 1
        BY <1>2, <3>3
      <4>2. CASE dir <= j
        <5>1. j - dir \in 0 .. second - 1
          BY <1>1, <1>2, <1>4, <3>3, <4>2
        <5> QED
          BY <1>8, <3>2, <4>1, <4>2, <5>1
      <4>3. dir \in Int
        BY <1>1, <1>4
      <4> QED
        BY <2>2, <4>1, <4>2, <4>3
    <3> QED
      BY <3>3, <3>4, <3>5 DEF Misses, a, b
  <2>4. CASE ~ (s.Overflow = 1 /\ second # NotFound)
    <3>1. at = NotFound
      BY <1>5, <1>11, <2>4
    <3>2. ASSUME NEW j \in 0 .. size - 1, j < Len(b)
          PROVE  b[j + 1] # val
      <4>1. j \in 0 .. a - 1
        BY <1>1, <1>2, <3>2
      <4>2. CASE dir <= j
        <5>1. /\ j - dir \in 0 .. w - 1 /\ b[j + 1] = d[0 + (j - dir)]
              /\ s.Overflow = 1
          BY <1>8, <4>1, <4>2
        <5>2. \A k \in 0 .. w - 1 : d[0 + k] # val
          BY <1>1, <1>6, <2>4, <5>1 DEF NotFound
        <5> QED
          BY <5>1, <5>2
      <4>3. dir \in Int
        BY <1>1, <1>4
      <4> QED
        BY <2>2, <4>1, <4>2, <4>3
    <3> QED
      BY <3>1, <3>2 DEF Misses, b
  <2> QED
    BY <2>3, <2>4
<1> QED
  BY <1>9, <1>10, <1>11

\* findByte finds the first place of a pattern of one byte.
LEMMA FindOneIs ==
  ASSUME NEW size \in 1 .. MaxLen, NEW s, Sound(s, size),
         Stream_available(s) = Stream_availableReal(s),
         NEW pat \in Seq(Byte), Len(pat) = 1
  PROVE  Stream_findByte(s, pat[1]) = FirstFrom(AllowedOf(s), pat, 0)
<1> DEFINE b == AllowedOf(s)
           a == Stream_available(s)
           v == pat[1]
           at == Stream_findByte(s, v)
           P == PlacesOf(b, pat, 0)
<1>1. \/ at = NotFound /\ Misses(b, v, 0, size)
      \/ at \in 0 .. a - 1 /\ b[at + 1] = v /\ Misses(b, v, 0, at)
  <2> HIDE DEF v, at
  <2>1. at = Stream_findByte(s, v)
    BY DEF at
  <2> QED
    BY <2>1, FindByteIs
<1>2. b \in Seq(Byte) /\ Len(b) = a /\ a \in 0 .. size /\ size \in Nat
  <2>1. /\ b \in Seq(Byte) /\ Len(b) = a /\ a \in 0 .. Stream_availableReal(s)
        /\ Stream_availableReal(s) \in 0 .. size
    BY AllowedAre
  <2> HIDE DEF b, a
  <2> QED
    BY <2>1, MaxLenAssumption
<1>3. 0 \in Nat /\ Len(pat) > 0
  OBVIOUS
<1> HIDE DEF b, a, at
<1>4. CASE at = NotFound
  <2>1. Misses(b, pat[1], 0, size)
    BY <1>1, <1>4 DEF NotFound
  <2>2. P = {}
    <3>1. \A j \in P : size <= j
      BY <1>2, <1>3, <2>1, PassesNone
    <3>2. \A j \in P : j \in Nat /\ j < Len(b)
      BY <1>2, <1>3, PlaceStarts
    <3> HIDE DEF P
    <3> QED
      BY <1>2, <3>1, <3>2
  <2> QED
    BY <1>3, <1>4, <2>2, FirstFromIs DEF at, b
<1>5. CASE at # NotFound
  <2>1. at \in 0 .. a - 1 /\ b[at + 1] = pat[1] /\ Misses(b, pat[1], 0, at) /\ at \in Nat
    BY <1>1, <1>5
  <2>2. \A j \in P : at <= j
    BY <1>2, <1>3, <2>1, PassesNone
  <2>3. Window(b, at, Len(pat)) = pat
    <3> DEFINE len == Len(pat)
               x == Window(b, at, len)
    <3>1. len \in Nat /\ len = 1 /\ at + len <= Len(b)
      BY <1>2, <2>1
    <3> HIDE DEF len
    <3>2. x \in Seq(Byte) /\ Len(x) = len /\ x[1] = b[at + 1]
      <4>1. x = Window(b, at, len)
        OBVIOUS
      <4> HIDE DEF x
      <4>2. at \in Nat /\ len \in Nat /\ at + len <= Len(b) /\ b \in Seq(Byte)
        BY <1>2, <2>1, <3>1
      <4>3. x \in Seq(Byte) /\ Len(x) = len
        BY <4>1, <4>2, WindowOf
      <4>4. x[1] = b[at + 1]
        <5>1. at + 1 \in 1 .. Len(b) /\ (at + len) - (at + 1) + 1 = 1
              /\ 1 + (at + 1) - 1 = at + 1
          BY <3>1, <4>2
        <5>2. x = SubSeq(b, at + 1, at + len)
          BY <4>1 DEF Window
        <5>3. x = [i \in 1 .. (at + len) - (at + 1) + 1 |-> b[i + (at + 1) - 1]]
          BY <4>2, <5>1, <5>2
        <5> QED
          BY <5>1, <5>3
      <4> QED
        BY <4>3, <4>4
    <3> HIDE DEF x
    <3>3. \A i \in 1 .. len : x[i] = pat[i]
      BY <2>1, <3>1, <3>2
    <3>4. x = pat
      BY <3>2, <3>3, SeqEqual DEF len
    <3> QED
      BY <3>4 DEF x, len
  <2>4. at \in P
    BY <1>2, <2>1, <2>3 DEF PlacesOf
  <2> QED
    BY <1>3, <2>2, <2>4, FirstFromIs DEF at, b
<1> QED
  BY <1>4, <1>5

\* The patterns are of one or two bytes, and the number a pattern is, in the
\* order of the stream, is found as a pattern of its own.
LEMMA PatternsAre ==
  ASSUME NEW pat \in Patterns
  PROVE  /\ pat \in Seq(Byte) /\ Len(pat) \in 1 .. 2 /\ Len(pat) > 0
         /\ inOrder(pat) \in Seq(Byte) /\ Len(inOrder(pat)) = Len(pat)
         /\ (IF stream.OrderFn /\ Len(pat) > 1 THEN memreverse(pat) ELSE pat)
              = inOrder(pat)
<1>1. PICK n \in 1 .. 2 : pat \in [1 .. n -> Byte]
  BY DEF Patterns
<1>2. /\ n \in Nat /\ DOMAIN pat = 1 .. n /\ pat = [i \in 1 .. n |-> pat[i]]
      /\ \A i \in 1 .. n : pat[i] \in Byte
  BY <1>1
<1> HIDE DEF Byte
<1>3. pat \in Seq(Byte) /\ Len(pat) = n
  BY <1>1, <1>2
<1>4. Reverse(pat) \in Seq(Byte) /\ Len(Reverse(pat)) = n
      /\ Reverse(pat) = [i \in 1 .. n |-> pat[n - i + 1]]
  <2>1. Reverse(pat) = [i \in 1 .. n |-> pat[n - i + 1]]
    BY <1>3 DEF Reverse
  <2> QED
    BY <1>3, <2>1, ReverseType
<1>5. CASE n = 1
  <2>1. Reverse(pat) = [i \in 1 .. n |-> pat[i]]
    <3>1. \A i \in 1 .. n : n - i + 1 = i
      BY <1>5
    <3> QED
      BY <1>4, <3>1
  <2> QED
    BY <1>2, <1>3, <1>4, <1>5, <2>1 DEF inOrder
<1>6. CASE n = 2
  <2>1. memreverse(pat) = [i \in 1 .. n |-> CASE i = 1 -> pat[n]
                                             [] i = n -> pat[1]
                                             [] OTHER -> pat[i]]
    BY <1>2, <1>3 DEF memreverse
  <2>2. \A i \in 1 .. n : (CASE i = 1 -> pat[n]
                             [] i = n -> pat[1]
                             [] OTHER -> pat[i]) = pat[n - i + 1]
    BY <1>6
  <2>3. memreverse(pat) = Reverse(pat)
    BY <1>4, <2>1, <2>2
  <2> QED
    BY <1>3, <1>4, <1>6, <2>3 DEF inOrder
<1> QED
  BY <1>1, <1>5, <1>6

\* Comparing, wherever the ring ends.
LEMMA ComparingIsRight ==
  ASSUME Sound(stream, Size), HalfRange(Size)
  PROVE  ComparesContents
<1> USE SizeAssumption
<1>1. ASSUME NEW index \in Indexes, NEW pat \in Patterns
      PROVE  LET window == Window(Allowed, index, Len(pat))
                 order  == memcmp(window, pat)
                 answer == Stream_compareAt(stream, index, pat)
             IN  /\ ~ Within(Allowed, index, Len(pat)) => answer = -2
                 /\ Within(Allowed, index, Len(pat)) =>
                      /\ (answer = 0) = (window = pat)
                      /\ -Bytes < 2 * order /\ 2 * order < Bytes => answer = order
                 /\ Stream_compare(stream, pat) = Stream_compareAt(stream, 0, pat)
  <2> DEFINE len    == Len(pat)
             b      == AllowedOf(stream)
             window == Window(b, index, len)
             order  == memcmp(window, pat)
             answer == Stream_compareAt(stream, index, pat)
  <2>1. index \in Nat /\ pat \in Seq(Byte) /\ len > 0
    BY PatternsAre, MaxLenAssumption DEF Indexes
  <2>2. answer = IF Within(b, index, len) THEN toInt8(order) ELSE -2
    BY <2>1, CompareIs
  <2>3. ASSUME Within(b, index, len)
        PROVE  window \in Seq(Byte) /\ Len(window) = len
    <3>1. index + len <= Len(b)
      BY <2>3 DEF Within
    <3>2. b \in Seq(Byte)
      BY AllowedAre
    <3> QED
      BY <2>1, <3>1, <3>2, WindowOf
  <2> HIDE DEF window, answer, b
  <2>4. ASSUME Within(b, index, len)
        PROVE  /\ toInt8(order) = 0 <=> window = pat
               /\ -Bytes < 2 * order /\ 2 * order < Bytes => toInt8(order) = order
    BY <2>1, <2>3, <2>4, ComparesBytes, Int8Is
  <2> HIDE DEF order
  <2>5. /\ ~ Within(b, index, len) => answer = -2
        /\ Within(b, index, len) =>
             /\ (answer = 0) = (window = pat)
             /\ -Bytes < 2 * order /\ 2 * order < Bytes => answer = order
    BY <2>2, <2>4
  <2>6. Stream_compare(stream, pat) = Stream_compareAt(stream, 0, pat)
    BY DEF Stream_compare
  <2> QED
    BY <2>5, <2>6, AllowedIs DEF window, answer, order, b
<1> QED
  BY <1>1 DEF ComparesContents

\* Searching, wherever the ring ends.
LEMMA SearchingIsRight ==
  ASSUME Sound(stream, Size), HalfRange(Size)
  PROVE  FindsFirst
<1> USE SizeAssumption
<1>1. ASSUME NEW pat \in Patterns, NEW offset \in Indexes
      PROVE  /\ Stream_findPatternAt(stream, offset, pat)
                  = FirstFrom(Allowed, pat, offset)
             /\ findNumberAt(stream, offset, pat)
                  = FirstFrom(Allowed, inOrder(pat), offset)
  <2>1. offset \in 0 .. Size
    BY DEF Indexes
  <2>2. /\ pat \in Seq(Byte) /\ Len(pat) > 0
        /\ inOrder(pat) \in Seq(Byte) /\ Len(inOrder(pat)) > 0
    BY PatternsAre
  <2>3. findNumberAt(stream, offset, pat)
          = Stream_findPatternAt(stream, offset, inOrder(pat))
    BY PatternsAre DEF findNumberAt
  <2> QED
    BY <2>1, <2>2, <2>3, FindPatternIs, AllowedIs
<1>2. ASSUME NEW pat \in Patterns
      PROVE  /\ Stream_findPattern(stream, pat) = FirstFrom(Allowed, pat, 0)
             /\ Len(pat) = 1 /\ AllAllowed =>
                  Stream_findByte(stream, pat[1]) = FirstFrom(Allowed, pat, 0)
  <2>1. Stream_findPattern(stream, pat) = FirstFrom(Allowed, pat, 0)
    <3>1. PICK o \in Indexes : o = 0
      BY MaxLenAssumption DEF Indexes
    <3> QED
      BY <1>1, <3>1 DEF Stream_findPattern
  <2>2. ASSUME Len(pat) = 1, AllAllowed
        PROVE  Stream_findByte(stream, pat[1]) = FirstFrom(Allowed, pat, 0)
    BY <2>2, PatternsAre, FindOneIs, AllowedIs DEF AllAllowed
  <2> QED
    BY <2>1, <2>2
<1> QED
  BY <1>1, <1>2 DEF FindsFirst

\* What a reader that stops delivers is the first of the bytes that may be read.
LEMMA ReadUpToIs ==
  ASSUME NEW size \in 1 .. MaxLen, NEW s, Sound(s, size),
         NEW upTo \in Nat, NEW len \in Nat, NEW n,
         n = IF len < upTo THEN len ELSE upTo, upTo <= Stream_available(s)
  PROVE  readUpTo(s, upTo, len).val = Window(AllowedOf(s), 0, n)
<1> DEFINE c == Contents(s)
           a == Stream_available(s)
           b == AllowedOf(s)
           r == Stream_readBytes(s, n)
<1>1. n \in Nat /\ n <= a /\ a \in Int
  BY Allowances
<1>2. /\ c \in Seq(Byte) /\ Len(c) = Stream_availableReal(s) /\ a \in 0 .. Len(c)
  BY ContentsAre, AllowedAre
<1>3. b = SubSeq(c, 1, a) /\ b \in Seq(Byte) /\ Len(b) = a
  BY AllowedAre DEF AllowedOf
<1>4. Takes(s, r, n, r.val)
  BY <1>1, ReadBytesTakes
<1>5. readUpTo(s, upTo, len).val = IF r.res = "Stream_Ok" THEN r.val ELSE <<>>
  BY DEF readUpTo, Deliver
<1> HIDE DEF r, a, b, c
<1>6. Window(b, 0, n) = SubSeq(b, 1, n)
  BY <1>1 DEF Window
<1>7. CASE n = 0
  <2>1. r.res # "Stream_Ok"
    BY <1>4, <1>7 DEF Takes, a
  <2>2. SubSeq(b, 1, n) = <<>>
    BY <1>3, <1>7
  <2> QED
    BY <1>5, <1>6, <2>1, <2>2 DEF b
<1>8. CASE n # 0
  <2>1. r.res = "Stream_Ok" /\ r.val = SubSeq(c, 1, n)
    BY <1>1, <1>4, <1>8 DEF Takes, a, c
  <2>2. SubSeq(b, 1, n) = SubSeq(c, 1, n)
    <3>1. /\ SubSeq(b, 1, n) = [i \in 1 .. n |-> b[i]]
          /\ SubSeq(c, 1, n) = [i \in 1 .. n |-> c[i]]
      BY <1>1, <1>2, <1>3
    <3>2. \A i \in 1 .. n : b[i] = c[i]
      BY <1>1, <1>2, <1>3
    <3> QED
      BY <3>1, <3>2
  <2> QED
    BY <1>5, <1>6, <2>1, <2>2 DEF b
<1> QED
  BY <1>7, <1>8

\* The readers that stop at a pattern.
LEMMA StoppingIsRight ==
  ASSUME Sound(stream, Size), HalfRange(Size)
  PROVE  StopsAtPattern
<1> USE SizeAssumption
<1> DEFINE b == Allowed
           at(pat) == FirstFrom(b, pat, 0)
           n(pat, len) == IF len < at(pat) + Len(pat) THEN len ELSE at(pat) + Len(pat)
           r(pat, len) == Stream_readBytesUntilPattern(stream, pat, len)
<1>1. b = AllowedOf(stream) /\ Len(b) = Stream_available(stream) /\ Len(b) \in Int
  BY AllowedIs, AllowedAre, Allowances
<1>2. ASSUME NEW pat \in Patterns, NEW len \in Lens
      PROVE  /\ r(pat, len).val = IF at(pat) = NotFound THEN <<>>
                                  ELSE Window(b, 0, n(pat, len))
             /\ Len(pat) = 1 /\ AllAllowed =>
                  Stream_readBytesUntil(stream, pat[1], len) = r(pat, len)
  <2> DEFINE f == at(pat)
             k == Len(pat)
             m == n(pat, len)
  <2>1. len \in Nat /\ k \in Nat /\ k > 0
    BY Arguments, PatternsAre
  <2>2. f = NotFound \/ f \in PlacesOf(b, pat, 0)
    BY FirstFromIs
  <2>3. f = NotFound \/ (f \in Nat /\ f + k <= Len(b))
    <3> HIDE DEF f, k, b
    <3> QED
      BY <1>1, <2>1, <2>2 DEF PlacesOf, k
  <2>4. Stream_findPattern(stream, pat) = f
    BY SearchingIsRight DEF FindsFirst
  <2>5. r(pat, len) = IF f >= 0 THEN readUpTo(stream, f + k, len)
                      ELSE Deliver(stream, <<>>)
    BY <2>4 DEF Stream_readBytesUntilPattern
  <2>6. m = IF len < f + k THEN len ELSE f + k
    OBVIOUS
  <2>7. Len(pat) = 1 /\ AllAllowed =>
          /\ Stream_findByte(stream, pat[1]) = f
          /\ Stream_readBytesUntil(stream, pat[1], len)
               = IF f >= 0 THEN readUpTo(stream, f + 1, len) ELSE Deliver(stream, <<>>)
    BY SearchingIsRight DEF FindsFirst, Stream_readBytesUntil
  <2>8. Len(pat) = 1 <=> k = 1
    OBVIOUS
  <2> DEFINE x == r(pat, len)
             u == Stream_readBytesUntil(stream, pat[1], len)
  <2> HIDE DEF x, u, m, f, k, b
  <2>9. CASE f = NotFound
    <3>1. ~ (f >= 0)
      BY <2>9 DEF NotFound
    <3>2. x = Deliver(stream, <<>>)
      BY <2>5, <3>1 DEF x
    <3>3. x.val = <<>>
      BY <3>2 DEF Deliver
    <3>4. Len(pat) = 1 /\ AllAllowed => u = x
      BY <2>7, <3>1, <3>2 DEF u
    <3> QED
      BY <2>9, <3>3, <3>4 DEF x, u, f
  <2>10. CASE f # NotFound
    <3>1. f \in Nat /\ f + k \in Nat /\ f + k <= Stream_available(stream)
      BY <1>1, <2>1, <2>3, <2>10
    <3>2. x = readUpTo(stream, f + k, len)
      BY <2>5, <3>1 DEF x
    <3>3. x.val = Window(AllowedOf(stream), 0, m)
      BY <2>1, <2>6, <3>1, <3>2, ReadUpToIs
    <3>4. Len(pat) = 1 /\ AllAllowed => u = x
      BY <2>7, <2>8, <3>1, <3>2 DEF u
    <3> QED
      BY <1>1, <2>10, <3>3, <3>4 DEF x, u, f, m
  <2> QED
    BY <2>9, <2>10
<1> QED
  BY <1>2 DEF StopsAtPattern

-----------------------------------------------------------------------------
(* Folds, and sequences of sequences. *)

\* The largest of some numbers from 1 to N.
LEMMA LargestIs ==
  ASSUME NEW N \in Nat, NEW S \in SUBSET (1 .. N), S # {}
  PROVE  Max(S) \in S /\ \A y \in S : y <= Max(S)
<1> DEFINE T == {N - x : x \in S}
<1>1. PICK t \in T : \A u \in T : t <= u
  <2>1. T \subseteq Nat /\ T # {}
    <3>1. \A x \in S : N - x \in Nat
      OBVIOUS
    <3>2. PICK x : x \in S
      OBVIOUS
    <3>3. N - x \in T
      BY <3>2
    <3> QED
      BY <3>1, <3>3
  <2> HIDE DEF T
  <2> QED
    BY <2>1, Least
<1>2. PICK x \in S : t = N - x
  BY <1>1
<1>3. ASSUME NEW y \in S
      PROVE  x >= y
  <2>1. N - y \in T /\ y \in Int /\ x \in Int
    OBVIOUS
  <2>2. N - x <= N - y
    BY <1>1, <1>2, <2>1
  <2> QED
    BY <2>1, <2>2
<1>4. \E m \in S : \A y \in S : m >= y
  BY <1>3
<1>5. Max(S) \in S /\ \A y \in S : Max(S) >= y
  <2>1. Max(S) = CHOOSE m \in S : \A y \in S : m >= y
    BY DEF Max
  <2> QED
    BY <1>4, <2>1, ZenonT(30)
<1> QED
  BY <1>5

\* The first n + 1 numbers without the largest are the first n.
LEMMA LastOfFirst ==
  ASSUME NEW n \in Nat
  PROVE  /\ 1 .. n + 1 # {} /\ Max(1 .. n + 1) = n + 1
         /\ (1 .. n + 1) \ {n + 1} = 1 .. n
<1> DEFINE S == 1 .. n + 1
           m == Max(S)
<1>1. S \in SUBSET (1 .. n + 1) /\ S # {} /\ n + 1 \in Nat
  OBVIOUS
<1>2. m \in S /\ \A y \in S : y <= m
  <2> HIDE DEF S
  <2> QED
    BY <1>1, LargestIs
<1>3. m = n + 1
  <2> HIDE DEF m
  <2>1. n + 1 \in S /\ m <= n + 1 /\ m \in Int
    BY <1>2
  <2> QED
    BY <1>2, <2>1
<1> QED
  BY <1>1, <1>3

\* f folds the first N of something with step, from base on.
FoldStep(f, base, step, S) ==
  IF S = {} THEN base ELSE step[<<f[S \ {Max(S)}], Max(S)>>]
Folds(f, base, step, N) == f = [S \in SUBSET (1 .. N) |-> FoldStep(f, base, step, S)]

\* A step that stays in a set can be folded.
LEMMA FoldExists ==
  ASSUME NEW X, NEW base \in X, NEW N \in Nat, NEW step \in [X \X (1 .. N) -> X]
  PROVE  \E f \in [SUBSET (1 .. N) -> X] : Folds(f, base, step, N)
<1> DEFINE Solved(m) == \E f \in [SUBSET (1 .. m) -> X] : Folds(f, base, step, m)
           T == {m \in 0 .. N : Solved(m)}
<1>1. Solved(0)
  <2> DEFINE f == [S \in SUBSET (1 .. 0) |-> base]
  <2>1. SUBSET (1 .. 0) = {{}}
    OBVIOUS
  <2>2. f \in [SUBSET (1 .. 0) -> X]
    OBVIOUS
  <2>3. Folds(f, base, step, 0)
    BY <2>1 DEF Folds, FoldStep
  <2> QED
    BY <2>2, <2>3
<1>2. ASSUME NEW m \in 0 .. N - 1, Solved(m)
      PROVE  Solved(m + 1)
  <2>1. PICK f \in [SUBSET (1 .. m) -> X] : Folds(f, base, step, m)
    BY <1>2
  <2> DEFINE k == m + 1
             g == [S \in SUBSET (1 .. k) |->
                     IF k \in S THEN step[<<f[S \ {k}], k>>] ELSE f[S]]
  <2>2. k \in 1 .. N /\ k \in Nat /\ m \in Nat
    OBVIOUS
  <2>3. ASSUME NEW S \in SUBSET (1 .. k)
        PROVE  /\ S \ {k} \in SUBSET (1 .. m)
               /\ k \notin S => S \in SUBSET (1 .. m)
    OBVIOUS
  <2>4. g \in [SUBSET (1 .. k) -> X]
    <3>1. ASSUME NEW S \in SUBSET (1 .. k)
          PROVE  (IF k \in S THEN step[<<f[S \ {k}], k>>] ELSE f[S]) \in X
      <4>1. f[S \ {k}] \in X
        BY <2>3
      <4>2. step[<<f[S \ {k}], k>>] \in X
        <5>1. <<f[S \ {k}], k>> \in X \X (1 .. N)
          BY <2>2, <4>1
        <5> QED
          BY <5>1
      <4> QED
        BY <2>3, <4>2
    <3> QED
      BY <3>1
  <2>5. ASSUME NEW S \in SUBSET (1 .. k)
        PROVE  g[S] = FoldStep(g, base, step, S)
    <3>1. CASE k \in S
      <4>1. Max(S) = k
        <5> DEFINE x == Max(S)
        <5>1. x \in S /\ \A y \in S : y <= x
          <6>1. S # {}
            BY <3>1
          <6> QED
            BY <2>2, <6>1, LargestIs
        <5> HIDE DEF x
        <5>2. k <= x /\ x <= k /\ x \in Int
          BY <3>1, <5>1
        <5>3. x = k
          BY <2>2, <5>2
        <5> QED
          BY <5>3 DEF x
      <4>2. g[S \ {k}] = f[S \ {k}]
        <5>1. S \ {k} \in SUBSET (1 .. k) /\ k \notin S \ {k}
          OBVIOUS
        <5> QED
          BY <5>1
      <4>3. g[S] = step[<<f[S \ {k}], k>>] /\ S # {}
        BY <3>1
      <4> HIDE DEF g
      <4> QED
        BY <4>1, <4>2, <4>3 DEF FoldStep
    <3>2. CASE k \notin S
      <4>1. S \in SUBSET (1 .. m) /\ g[S] = f[S]
        BY <2>3, <3>2
      <4>2. f[S] = FoldStep(f, base, step, S)
        <5> DEFINE F(U) == FoldStep(f, base, step, U)
        <5>1. f = [U \in SUBSET (1 .. m) |-> F(U)]
          BY <2>1 DEF Folds
        <5> HIDE DEF F
        <5>2. f[S] = F(S)
          BY <4>1, <5>1
        <5> QED
          BY <5>2 DEF F
      <4>3. g[S \ {Max(S)}] = f[S \ {Max(S)}]
        <5> DEFINE U == S \ {Max(S)}
        <5>1. U \in SUBSET (1 .. k) /\ k \notin U
          BY <3>2
        <5> HIDE DEF U
        <5>2. g[U] = f[U]
          BY <5>1
        <5> QED
          BY <5>2 DEF U
      <4> HIDE DEF g
      <4> QED
        BY <4>1, <4>2, <4>3 DEF FoldStep
    <3> QED
      BY <3>1, <3>2
  <2>6. Folds(g, base, step, k)
    <3>1. g = [S \in SUBSET (1 .. k) |-> g[S]]
      OBVIOUS
    <3> HIDE DEF g, k
    <3> QED
      BY <2>5, <3>1 DEF Folds
  <2> HIDE DEF g
  <2> QED
    BY <2>4, <2>6
<1>3. N \in T
  <2> HIDE DEF Solved
  <2>1. 0 \in T
    BY <1>1
  <2>2. \A m \in 0 .. N - 1 : m \in T => m + 1 \in T
    BY <1>2
  <2>3. 0 .. N \subseteq T
    <3> HIDE DEF T
    <3> QED
      BY <2>1, <2>2, Induction
  <2> QED
    BY <2>3
<1>4. Solved(N)
  <2> HIDE DEF Solved
  <2> QED
    BY <1>3
<1> QED
  BY <1>4

\* f[n] are the bytes of the first n sequences of v, one behind the other.
Concats(f, v) == /\ f[0] = <<>>
                 /\ \A n \in 0 .. Len(v) : f[n] \in Seq(Byte)
                 /\ \A n \in 0 .. Len(v) - 1 : f[n + 1] = f[n] \o v[n + 1]

\* The bytes of any sequences can be put together so.
LEMMA ConcatsExists ==
  ASSUME NEW v \in Seq(Seq(Byte))
  PROVE  \E f : Concats(f, v)
<1> DEFINE X == Seq(Byte)
           N == Len(v)
           b == <<>>
           step == [p \in X \X (1 .. N) |-> p[1] \o v[p[2]]]
           at(F) == [n \in 0 .. N |-> F[1 .. n]]
<1>1. b \in X /\ N \in Nat
  OBVIOUS
<1>2. step \in [X \X (1 .. N) -> X]
  <2>1. ASSUME NEW p \in X \X (1 .. N)
        PROVE  p[1] \o v[p[2]] \in X
    <3>1. p[1] \in Seq(Byte) /\ v[p[2]] \in Seq(Byte)
      OBVIOUS
    <3> DEFINE x == p[1]
               y == v[p[2]]
    <3> HIDE DEF x, y, Byte
    <3>2. x \o y \in Seq(Byte)
      BY <3>1 DEF x, y
    <3> QED
      BY <3>2 DEF x, y
  <2> QED
    BY <2>1
<1>3. \A r \in X, i \in 1 .. N : step[<<r, i>>] = r \o v[i]
  OBVIOUS
<1> HIDE DEF X, b, step, N
<1>4. PICK F \in [SUBSET (1 .. N) -> X] : Folds(F, b, step, N)
  BY <1>1, <1>2, FoldExists
<1> DEFINE f == [n \in 0 .. N |-> F[1 .. n]]
           G(S) == FoldStep(F, b, step, S)
<1>5. F = [S \in SUBSET (1 .. N) |-> G(S)]
  BY <1>4 DEF Folds
<1>6. \A n \in 0 .. N : f[n] \in X
  <2>1. \A n \in 0 .. N : 1 .. n \in SUBSET (1 .. N)
    BY <1>1
  <2> QED
    BY <2>1
<1>7. f[0] = b
  <2>1. f[0] = F[1 .. 0] /\ 1 .. 0 = {} /\ {} \in SUBSET (1 .. N)
    BY <1>1
  <2>2. F[{}] = G({})
    <3> HIDE DEF G
    <3> QED
      BY <1>5, <2>1
  <2> QED
    BY <2>1, <2>2 DEF FoldStep
<1>8. ASSUME NEW n \in 0 .. N - 1
      PROVE  f[n + 1] = f[n] \o v[n + 1]
  <2> DEFINE S == 1 .. n + 1
  <2>1. n \in Nat /\ n \in 0 .. N /\ n + 1 \in 0 .. N /\ n + 1 \in 1 .. N
    BY <1>1
  <2>2. f[n + 1] = F[S] /\ f[n] = F[1 .. n]
    BY <2>1
  <2>3. S # {} /\ Max(S) = n + 1 /\ S \ {n + 1} = 1 .. n
    BY <2>1, LastOfFirst
  <2>4. S \in SUBSET (1 .. N)
    BY <1>1, <2>1
  <2>5. f[n] \in X
    BY <1>6, <2>1
  <2> HIDE DEF S, f
  <2>6. F[S] = G(S)
    <3> HIDE DEF G
    <3> QED
      BY <1>5, <2>4
  <2>7. G(S) = step[<<f[n], n + 1>>]
    BY <2>2, <2>3 DEF FoldStep
  <2> HIDE DEF G
  <2> QED
    BY <1>3, <2>1, <2>2, <2>5, <2>6, <2>7
<1> HIDE DEF f
<1>9. Concats(f, v)
  BY <1>6, <1>7, <1>8 DEF Concats, X, b, N
<1> QED
  BY <1>9

\* What the library's FlattenSeq makes of the first n sequences.
LEMMA FlattenIs ==
  ASSUME NEW v \in Seq(Seq(Byte)), NEW f, Concats(f, v), NEW n \in 0 .. Len(v)
  PROVE  FlattenSeq(SubSeq(v, 1, n)) = f[n]
<1> DEFINE u == SubSeq(v, 1, n)
           Solves(g) == g = [i \in 1 .. Len(u) |->
                               IF i = 1 THEN u[i] ELSE g[i - 1] \o u[i]]
           flat == CHOOSE g : Solves(g)
<1>1. Len(v) \in Nat /\ n \in Nat
  OBVIOUS
<1>2. Len(u) = n /\ \A i \in 1 .. n : u[i] = v[i]
  <2> DEFINE X == Seq(Byte)
  <2>1. v \in Seq(X)
    OBVIOUS
  <2> HIDE DEF X
  <2> QED
    BY <2>1
<1>3. FlattenSeq(u) = IF Len(u) = 0 THEN u ELSE flat[Len(u)]
  BY DEF FlattenSeq
<1>4. CASE n = 0
  <2>1. u = <<>>
    BY <1>4
  <2> QED
    BY <1>2, <1>3, <1>4, <2>1 DEF Concats
<1>5. CASE n # 0
  <2> HIDE DEF u, Solves
  <2> DEFINE h == [i \in 1 .. n |-> f[i]]
  <2>1. ASSUME NEW i \in 1 .. n
        PROVE  f[i] = f[i - 1] \o u[i] /\ f[1] = u[1]
    <3>1. i - 1 \in 0 .. Len(v) - 1 /\ (i - 1) + 1 = i /\ 0 \in 0 .. Len(v) - 1
      BY <1>1, <1>5
    <3>2. f[i] = f[i - 1] \o u[i]
      <4>1. f[(i - 1) + 1] = f[i - 1] \o v[(i - 1) + 1]
        BY <3>1 DEF Concats
      <4> QED
        BY <1>2, <3>1, <4>1
    <3>3. f[1] = <<>> \o v[1]
      <4>1. f[0 + 1] = f[0] \o v[0 + 1]
        BY <3>1 DEF Concats
      <4>2. 0 + 1 = 1
        OBVIOUS
      <4> QED
        BY <4>1, <4>2 DEF Concats
    <3>4. <<>> \o v[1] = v[1] /\ u[1] = v[1]
      <4>1. 1 \in 1 .. Len(v) /\ 1 \in 1 .. n
        BY <1>1, <1>5
      <4>2. v[1] \in Seq(Byte)
        BY <4>1
      <4> QED
        BY <1>2, <4>1, <4>2
    <3> QED
      BY <3>2, <3>3, <3>4
  <2>2. Solves(h)
    <3>1. ASSUME NEW i \in 1 .. n
          PROVE  f[i] = IF i = 1 THEN u[i] ELSE h[i - 1] \o u[i]
      <4>1. CASE i = 1
        BY <2>1, <4>1
      <4>2. CASE i # 1
        <5>1. i - 1 \in 1 .. n
          BY <1>1, <4>2
        <5> QED
          BY <2>1, <4>2, <5>1
      <4> QED
        BY <4>1, <4>2
    <3>2. h = [i \in 1 .. n |-> f[i]]
      OBVIOUS
    <3> HIDE DEF h
    <3>3. h = [i \in 1 .. n |-> IF i = 1 THEN u[i] ELSE h[i - 1] \o u[i]]
      BY <3>1, <3>2
    <3> QED
      BY <1>2, <3>3 DEF Solves
  <2>3. Solves(flat)
    <3>1. \E g : Solves(g)
      BY <2>2
    <3> QED
      BY <3>1, Zenon
  <2> HIDE DEF flat, h
  <2> DEFINE E(i) == IF i = 1 THEN u[i] ELSE flat[i - 1] \o u[i]
  <2>4. flat = [i \in 1 .. n |-> E(i)]
    BY <1>2, <2>3 DEF Solves
  <2>5. \A i \in 1 .. n : flat[i] = E(i)
    <3> HIDE DEF E
    <3> QED
      BY <2>4
  <2> DEFINE T == {i \in 0 .. n : i = 0 \/ flat[i] = f[i]}
  <2>6. 0 \in T
    BY <1>1
  <2>7. ASSUME NEW i \in 0 .. n - 1, i \in T
        PROVE  i + 1 \in T
    <3>1. i + 1 \in 1 .. n /\ i + 1 \in 0 .. n /\ (i + 1) - 1 = i
      BY <1>1
    <3>2. flat[i + 1] = E(i + 1)
      BY <2>5, <3>1
    <3>3. CASE i = 0
      <4>1. i + 1 = 1
        BY <3>3
      <4>2. flat[i + 1] = u[1] /\ f[i + 1] = u[1]
        BY <2>1, <3>1, <3>2, <4>1
      <4> QED
        BY <3>1, <4>2
    <3>4. CASE i # 0
      <4>1. i + 1 # 1 /\ flat[i] = f[i]
        BY <2>7, <3>4
      <4>2. flat[i + 1] = f[i] \o u[i + 1]
        BY <3>1, <3>2, <4>1
      <4>3. f[i + 1] = f[i] \o u[i + 1]
        BY <2>1, <3>1
      <4> QED
        BY <3>1, <4>2, <4>3
    <3> QED
      BY <3>3, <3>4
  <2>8. n \in T
    <3> HIDE DEF T
    <3>1. 0 .. n \subseteq T
      BY <1>1, <2>6, <2>7, Induction
    <3> QED
      BY <1>1, <3>1
  <2> QED
    BY <1>2, <1>3, <1>5, <2>8 DEF u
<1> QED
  BY <1>4, <1>5

-----------------------------------------------------------------------------
(* Arrays of numbers, written. *)

\* The results of a call, and the streams it can leave.
Codes  == {"Stream_Ok", "Stream_ZeroLen", "Stream_NoSpace", "Stream_NoAvailable"}
Sounds == {t \in Stream(Size) : Sound(t, Size)}

\* The numbers of an array one by one.
PutNext(r, val) == IF r.res = "Stream_Ok" THEN writeNumber(r.s, val) ELSE r
PutOutcomes     == [res : Codes, s : Sounds]

\* A writer returns one of the results.
LEMMA WriteOutcome ==
  ASSUME NEW s, NEW len, NEW first, NEW rest, NEW whole, NEW w,
         w = write(s, len, first, rest, whole)
  PROVE  w = [res |-> w.res, s |-> w.s] /\ w.res \in Codes
<1>1. \E t : w \in {Refuse("Stream_ZeroLen", s), Refuse("Stream_NoSpace", s), Done(t)}
  <2>1. CASE len = 0
    BY <2>1 DEF write
  <2>2. CASE len # 0 /\ len > 0 /\ Stream_space(s) < len
    BY <2>2 DEF write
  <2>3. CASE len # 0 /\ ~ (len > 0 /\ Stream_space(s) < len)
    BY <2>3 DEF write
  <2> QED
    BY <2>1, <2>2, <2>3
<1> QED
  <2>1. PICK t : w \in {Refuse("Stream_ZeroLen", s), Refuse("Stream_NoSpace", s), Done(t)}
    BY <1>1
  <2>2. PICK code, u : code \in Codes /\ w = [res |-> code, s |-> u]
    BY <2>1 DEF Refuse, Done, Codes
  <2> QED
    BY <2>2

\* So does one number more of an array.
LEMMA PutNextOutcome ==
  ASSUME NEW r \in PutOutcomes, NEW val \in Seq(Byte)
  PROVE  PutNext(r, val) \in PutOutcomes
<1> USE SizeAssumption
<1>1. CASE r.res = "Stream_Ok"
  <2> DEFINE s == r.s
             w == writeNumber(s, val)
  <2>1. Sound(s, Size)
    BY DEF PutOutcomes, Sounds
  <2>2. Sound(w.s, Size)
    BY <2>1, WriteNumberSound
  <2>3. w = [res |-> w.res, s |-> w.s] /\ w.res \in Codes
    <3>1. \E len, first, rest, whole : w = write(s, len, first, rest, whole)
      BY DEF writeNumber, Stream_writeBytes, Stream_writeBytesReverse
    <3> QED
      BY <3>1, WriteOutcome
  <2>4. PutNext(r, val) = w
    BY <1>1 DEF PutNext
  <2> HIDE DEF w
  <2>5. w.s \in Sounds
    BY <2>2 DEF Sounds, Sound
  <2> QED
    BY <2>3, <2>4, <2>5 DEF PutOutcomes
<1>2. CASE r.res # "Stream_Ok"
  BY <1>2 DEF PutNext
<1> QED
  BY <1>1, <1>2

\* The fold of the library over some numbers.
PutsAll(f, s, vals) ==
  f = [S \in SUBSET DOMAIN vals |->
         IF S = {} THEN Done(s) ELSE PutNext(f[S \ {Max(S)}], vals[Max(S)])]

\* writeArray folds PutNext.
LEMMA WriteArrayFolds ==
  ASSUME NEW s, NEW vals
  PROVE  writeArray(s, vals) = (CHOOSE f : PutsAll(f, s, vals))[DOMAIN vals]
  BY Zenon DEF writeArray, FoldLeft, MapThenFoldSet, PutsAll, PutNext

\* What writeArray has done after each number.
PutsOneByOne(at, s, vals, k) ==
  /\ at[0] = Done(s)
  /\ \A n \in 0 .. k - 1 : at[n + 1] = PutNext(at[n], vals[n + 1])

\* writeArray is what has been done after the last number.
LEMMA WriteArrayGoes ==
  ASSUME NEW s, Sound(s, Size), NEW k \in Nat, NEW vals, DOMAIN vals = 1 .. k,
         \A i \in 1 .. k : vals[i] \in Seq(Byte)
  PROVE  \E at : PutsOneByOne(at, s, vals, k) /\ writeArray(s, vals) = at[k]
<1> DEFINE X == PutOutcomes
           b == Done(s)
           step == [p \in X \X (1 .. k) |-> PutNext(p[1], vals[p[2]])]
           F == CHOOSE f : PutsAll(f, s, vals)
           at == [n \in 0 .. k |-> F[1 .. n]]
<1>1. b \in X
  <2>1. s \in Sounds
    BY DEF Sounds, Sound
  <2> QED
    BY <2>1 DEF Done, PutOutcomes, Codes
<1>2. step \in [X \X (1 .. k) -> X]
  <2>1. ASSUME NEW p \in X \X (1 .. k)
        PROVE  PutNext(p[1], vals[p[2]]) \in X
    BY PutNextOutcome
  <2> QED
    BY <2>1
<1>3. \A r \in X, i \in 1 .. k : step[<<r, i>>] = PutNext(r, vals[i])
  OBVIOUS
<1> HIDE DEF X, b, step
<1>4. PICK f \in [SUBSET (1 .. k) -> X] : Folds(f, b, step, k)
  BY <1>1, <1>2, FoldExists
<1>5. ASSUME NEW S \in SUBSET (1 .. k)
      PROVE  FoldStep(f, b, step, S)
               = IF S = {} THEN b ELSE PutNext(f[S \ {Max(S)}], vals[Max(S)])
  <2>1. CASE S = {}
    BY <2>1 DEF FoldStep
  <2>2. CASE S # {}
    <3> DEFINE m == Max(S)
               U == S \ {m}
    <3>1. m \in 1 .. k
      BY <2>2, LargestIs
    <3>2. f[U] \in X
      OBVIOUS
    <3>3. FoldStep(f, b, step, S) = step[<<f[U], m>>]
      BY <2>2 DEF FoldStep
    <3> HIDE DEF m, U
    <3>4. FoldStep(f, b, step, S) = PutNext(f[U], vals[m])
      BY <1>3, <3>1, <3>2, <3>3
    <3> QED
      BY <2>2, <3>4 DEF m, U
  <2> QED
    BY <2>1, <2>2
<1>6. PutsAll(f, s, vals)
  BY <1>4, <1>5 DEF Folds, PutsAll, b
<1>7. PutsAll(F, s, vals)
  <2>1. \E g : PutsAll(g, s, vals)
    BY <1>6
  <2> QED
    BY <2>1, Zenon
<1>8. writeArray(s, vals) = F[1 .. k]
  BY WriteArrayFolds
<1> HIDE DEF F
<1> DEFINE G(S) == IF S = {} THEN b ELSE PutNext(F[S \ {Max(S)}], vals[Max(S)])
<1>9. F = [S \in SUBSET (1 .. k) |-> G(S)]
  BY <1>7 DEF PutsAll, b
<1>10. at[0] = b
  <2>1. at[0] = F[1 .. 0]
    OBVIOUS
  <2>2. 1 .. 0 = {}
    OBVIOUS
  <2>3. {} \in SUBSET (1 .. k)
    OBVIOUS
  <2>4. F[{}] = G({})
    <3> HIDE DEF G
    <3> QED
      BY <1>9, <2>3
  <2> QED
    BY <2>1, <2>2, <2>4
<1>11. ASSUME NEW n \in 0 .. k - 1
       PROVE  at[n + 1] = PutNext(at[n], vals[n + 1])
  <2> DEFINE S == 1 .. n + 1
  <2>1. n \in Nat /\ n \in 0 .. k /\ n + 1 \in 0 .. k
    OBVIOUS
  <2>2. at[n + 1] = F[S] /\ at[n] = F[1 .. n]
    BY <2>1
  <2>3. S # {} /\ Max(S) = n + 1 /\ S \ {n + 1} = 1 .. n
    BY <2>1, LastOfFirst
  <2>4. S \in SUBSET (1 .. k)
    BY <2>1
  <2> HIDE DEF S, at
  <2>5. F[S] = G(S)
    <3> HIDE DEF G
    <3> QED
      BY <1>9, <2>4
  <2> QED
    BY <2>2, <2>3, <2>5
<1>12. writeArray(s, vals) = at[k]
  BY <1>8
<1> HIDE DEF at
<1> QED
  BY <1>10, <1>11, <1>12 DEF PutsOneByOne, b

\* Putting bytes behind others.
LEMMA Regroups ==
  ASSUME NEW x \in Seq(Byte), NEW y \in Seq(Byte), NEW z \in Seq(Byte)
  PROVE  (x \o y) \o z = x \o (y \o z)
<1> HIDE DEF Byte
<1> QED
  BY ConcatAssociative

\* The bytes of a sequence of some more.
LEMMA ConcatsAre ==
  ASSUME NEW v \in Seq(Seq(Byte)), NEW f, Concats(f, v), NEW n \in 0 .. Len(v) - 1
  PROVE  /\ f[n] \in Seq(Byte) /\ v[n + 1] \in Seq(Byte)
         /\ f[n + 1] = f[n] \o v[n + 1] /\ f[n + 1] \in Seq(Byte)
<1>1. n \in 0 .. Len(v) /\ n + 1 \in 0 .. Len(v) /\ n + 1 \in 1 .. Len(v)
  OBVIOUS
<1>2. v[n + 1] \in Seq(Byte)
  <2> DEFINE X == Seq(Byte)
  <2> HIDE DEF X
  <2>1. v \in Seq(X)
    BY DEF X
  <2>2. v[n + 1] \in X
    BY <1>1, <2>1
  <2> QED
    BY <2>2 DEF X
<1> QED
  BY <1>1, <1>2 DEF Concats

\* What may be written and read, in terms of the bytes and the limits.
LEMMA SpaceIs ==
  ASSUME NEW s, Sound(s, Size)
  PROVE  /\ s.WriteLimit \in -1 .. Size /\ s.ReadLimit \in -1 .. Size
         /\ Contents(s) \in Seq(Byte) /\ Len(Contents(s)) \in 0 .. Size
         /\ Stream_space(s) = IF s.WriteLimit = NoLimit
                              THEN Size - Len(Contents(s)) ELSE s.WriteLimit
         /\ Stream_available(s) = IF s.ReadLimit = NoLimit
                                  THEN Len(Contents(s)) ELSE s.ReadLimit
<1> USE SizeAssumption
<1>1. /\ Contents(s) \in Seq(Byte) /\ Len(Contents(s)) = Stream_availableReal(s)
      /\ Stream_availableReal(s) \in 0 .. Size
      /\ Stream_spaceReal(s) = Size - Stream_availableReal(s)
      /\ s.WriteLimit \in -1 .. Size /\ s.ReadLimit \in -1 .. Size
  BY ContentsAre, WriterIsBehind, Types DEF Sound
<1>2. Stream_space(s) = IF s.WriteLimit = NoLimit
                        THEN Size - Len(Contents(s)) ELSE s.WriteLimit
  BY <1>1 DEF Stream_space, Stream_spaceLimit, Stream_isWriteLimited, NoLimit
<1>3. Stream_available(s) = IF s.ReadLimit = NoLimit
                            THEN Len(Contents(s)) ELSE s.ReadLimit
  BY <1>1 DEF Stream_available, Stream_availableLimit, Stream_isReadLimited, NoLimit
<1> QED
  BY <1>1, <1>2, <1>3

\* Numbers are written in one byte order.
LEMMA WriteKeepsOrder ==
  ASSUME NEW s, Sound(s, Size), NEW val
  PROVE  writeNumber(s, val).s.OrderFn = s.OrderFn
<1>1. ASSUME NEW len, NEW first, NEW rest, NEW whole
      PROVE  write(s, len, first, rest, whole).s.OrderFn = s.OrderFn
  <2> DEFINE w == write(s, len, first, rest, whole)
             c == chargeWriteLimit(s, len)
  <2>1. \/ w.s = s \/ w.s = storeWrapped(c, first, rest) \/ w.s = storeDirect(c, whole)
    <3>1. CASE len = 0
      BY <3>1 DEF write, Refuse
    <3>2. CASE len # 0 /\ len > 0 /\ Stream_space(s) < len
      BY <3>2 DEF write, Refuse
    <3>3. CASE len # 0 /\ ~ (len > 0 /\ Stream_space(s) < len)
      BY <3>3 DEF write, Done
    <3> QED
      BY <3>1, <3>2, <3>3
  <2>2. s \in Stream(Size)
    BY DEF Sound
  <2>3. c.OrderFn = s.OrderFn /\ DOMAIN c = DOMAIN s
    BY <2>2 DEF chargeWriteLimit, Stream
  <2>4. \A x, y : storeWrapped(c, x, y).OrderFn = c.OrderFn
    BY <2>2, <2>3 DEF storeWrapped, Stream
  <2>5. \A x : storeDirect(c, x).OrderFn = c.OrderFn
    BY <2>2, <2>3 DEF storeDirect, Stream
  <2> HIDE DEF w, c
  <2>6. w.s.OrderFn = s.OrderFn
    BY <2>1, <2>3, <2>4, <2>5
  <2> QED
    BY <2>6 DEF w
<1> QED
  BY <1>1 DEF writeNumber, Stream_writeBytes, Stream_writeBytesReverse

\* What has been queued after n numbers: all of them, or those up to the first
\* that did not fit.
PutSoFar(r, s, put, f, n) ==
  /\ Sound(r.s, Size) /\ r.s.OrderFn = s.OrderFn /\ r.s.ReadLimit = s.ReadLimit
  /\ \E m \in 0 .. n :
       /\ Contents(r.s) = Contents(s) \o f[m]
       /\ r.s.WriteLimit = Spent(s.WriteLimit, Len(f[m]))
       /\ Len(f[m]) <= Stream_space(s) /\ Len(Contents(s)) + Len(f[m]) <= Size
       /\ r.res = "Stream_Ok" => m = n
       /\ r.res # "Stream_Ok" => m < n /\ Len(f[m]) + Len(put[m + 1]) > Stream_space(s)

\* One number more is queued, or nothing any more.
LEMMA PutNextPuts ==
  ASSUME NEW s, Sound(s, Size), NEW put \in Seq(Seq(Byte)), NEW f, Concats(f, put),
         NEW n \in 0 .. Len(put) - 1, NEW r, PutSoFar(r, s, put, f, n),
         NEW val \in Seq(Byte), Len(val) > 0, Len(put[n + 1]) = Len(val),
         put[n + 1] = IF s.OrderFn THEN Reverse(val) ELSE val
  PROVE  PutSoFar(PutNext(r, val), s, put, f, n + 1)
<1> USE SizeAssumption
<1> DEFINE t == PutNext(r, val)
<1>1. PICK m \in 0 .. n :
       /\ Contents(r.s) = Contents(s) \o f[m]
       /\ r.s.WriteLimit = Spent(s.WriteLimit, Len(f[m]))
       /\ Len(f[m]) <= Stream_space(s) /\ Len(Contents(s)) + Len(f[m]) <= Size
       /\ r.res = "Stream_Ok" => m = n
       /\ r.res # "Stream_Ok" => m < n /\ Len(f[m]) + Len(put[m + 1]) > Stream_space(s)
  BY DEF PutSoFar
<1>2. Sound(r.s, Size) /\ r.s.OrderFn = s.OrderFn /\ r.s.ReadLimit = s.ReadLimit
  BY DEF PutSoFar
<1>3. n \in Nat /\ m \in Nat /\ m \in 0 .. Len(put) /\ m \in 0 .. n + 1
  OBVIOUS
<1>4. CASE r.res # "Stream_Ok"
  <2>1. t = r
    BY <1>4 DEF PutNext
  <2>2. m < n + 1
    BY <1>3
  <2> QED
    BY <1>1, <1>2, <1>3, <1>4, <2>1, <2>2 DEF PutSoFar
<1>5. CASE r.res = "Stream_Ok"
  <2> DEFINE q == r.s
             a == f[n]
             b == put[n + 1]
             u == writeNumber(q, val)
             c == Contents(s)
             len == Len(val)
  <2>1. t = u
    BY <1>5 DEF PutNext
  <2>2. Puts(q, u, len, b, Size)
    BY <1>2, WriteNumberPuts
  <2>3. Sound(u.s, Size) /\ u.s.OrderFn = s.OrderFn
    BY <1>2, WriteNumberSound, WriteKeepsOrder
  <2>4. /\ a \in Seq(Byte) /\ b \in Seq(Byte) /\ f[n + 1] = a \o b /\ c \in Seq(Byte)
        /\ len \in Nat \ {0} /\ Len(b) = len
    <3>1. a \in Seq(Byte) /\ b \in Seq(Byte) /\ f[n + 1] = a \o b
      BY ConcatsAre
    <3>2. c \in Seq(Byte)
      BY SpaceIs
    <3>3. len \in Nat \ {0} /\ Len(b) = len
      OBVIOUS
    <3> QED
      BY <3>1, <3>2, <3>3
  <2>5. /\ Contents(q) = c \o a /\ q.WriteLimit = Spent(s.WriteLimit, Len(a))
        /\ Len(a) <= Stream_space(s) /\ Len(c) + Len(a) <= Size
        /\ Sound(q, Size) /\ q.ReadLimit = s.ReadLimit
    BY <1>1, <1>2, <1>5
  <2> HIDE DEF t, q, a, b, u, c, len
  <2>6. /\ Len(Contents(q)) = Len(c) + Len(a) /\ Len(a \o b) = Len(a) + len
        /\ Len(a) \in Nat /\ Len(c) \in Nat
        /\ (c \o a) \o b = c \o (a \o b)
    <3>1. a \in Seq(Byte) /\ b \in Seq(Byte) /\ c \in Seq(Byte)
      BY <2>4
    <3>5. (c \o a) \o b = c \o (a \o b)
      BY <3>1, Regroups
    <3>6. ASSUME NEW x \in Seq(Byte), NEW y \in Seq(Byte)
          PROVE  Len(x \o y) = Len(x) + Len(y)
      BY ConcatProperties, Zenon
    <3>7. Len(c \o a) = Len(c) + Len(a) /\ Len(a \o b) = Len(a) + Len(b)
      BY <3>1, <3>6, Zenon
    <3>2. Len(a) \in Nat /\ Len(c) \in Nat
      BY <2>4
    <3> QED
      BY <2>4, <2>5, <3>5, <3>7, <3>2
  <2>7. /\ Stream_space(s) = IF s.WriteLimit = -1 THEN Size - Len(c) ELSE s.WriteLimit
        /\ Stream_space(q) = IF q.WriteLimit = -1 THEN Size - (Len(c) + Len(a))
                             ELSE q.WriteLimit
        /\ s.WriteLimit \in -1 .. Size /\ Size \in Nat
    <3>1. /\ Stream_space(s) = IF s.WriteLimit = NoLimit THEN Size - Len(c) ELSE s.WriteLimit
          /\ s.WriteLimit \in -1 .. Size
      BY SpaceIs DEF c
    <3>2. Stream_space(q) = IF q.WriteLimit = NoLimit
                            THEN Size - Len(Contents(q)) ELSE q.WriteLimit
      BY <2>5, SpaceIs
    <3>3. Size \in Nat
      BY MaxLenAssumption
    <3> QED
      BY <2>6, <3>1, <3>2, <3>3 DEF NoLimit
  <2>8. Stream_space(q) = Stream_space(s) - Len(a) /\ Stream_space(s) \in Int
    BY <2>5, <2>6, <2>7 DEF Spent, NoLimit
  <2>9. CASE u.res = "Stream_NoSpace" /\ len > Stream_space(q) /\ u.s = q
    <3>1. Len(a) + Len(b) > Stream_space(s)
      BY <2>4, <2>6, <2>8, <2>9
    <3>2. n \in 0 .. n + 1 /\ n < n + 1 /\ t.res # "Stream_Ok" /\ t.s = q
      BY <1>3, <2>1, <2>9
    <3> QED
      <4>1. \E i \in 0 .. n + 1 :
              /\ Contents(t.s) = c \o f[i]
              /\ t.s.WriteLimit = Spent(s.WriteLimit, Len(f[i]))
              /\ Len(f[i]) <= Stream_space(s) /\ Len(c) + Len(f[i]) <= Size
              /\ t.res = "Stream_Ok" => i = n + 1
              /\ t.res # "Stream_Ok" => i < n + 1 /\ Len(f[i]) + Len(put[i + 1]) > Stream_space(s)
        BY <2>5, <3>1, <3>2 DEF a, b
      <4>2. t.s.OrderFn = s.OrderFn /\ Sound(t.s, Size) /\ t.s.ReadLimit = s.ReadLimit
        BY <2>1, <2>3, <2>5, <3>2
      <4> QED
        BY <4>1, <4>2 DEF PutSoFar, t, c
  <2>10. CASE /\ u.res = "Stream_Ok" /\ len > 0 /\ len <= Stream_space(q)
              /\ Stream_availableReal(q) + len <= Size
              /\ Contents(u.s) = Contents(q) \o b
              /\ u.s.WriteLimit = Spent(q.WriteLimit, len)
              /\ u.s.ReadLimit = q.ReadLimit
    <3>1. Contents(u.s) = c \o (a \o b)
      BY <2>5, <2>6, <2>10
    <3>2. u.s.WriteLimit = Spent(s.WriteLimit, Len(a) + len)
      BY <2>4, <2>5, <2>6, <2>7, <2>8, <2>10 DEF Spent, NoLimit
    <3>3. Len(a) + len <= Stream_space(s)
      BY <2>4, <2>6, <2>8, <2>10
    <3>4. Len(c) + (Len(a) + len) <= Size
      <4>1. Len(Contents(q)) = Stream_availableReal(q)
        BY <2>5, ContentsAre
      <4> QED
        BY <2>4, <2>6, <2>10, <4>1
    <3>5. n + 1 \in 0 .. n + 1
      BY <1>3
    <3>6. f[n + 1] = a \o b
      BY <2>4
    <3> DEFINE k == n + 1
               g == f[k]
    <3>7. /\ Contents(t.s) = Contents(s) \o g
          /\ t.s.WriteLimit = Spent(s.WriteLimit, Len(g))
          /\ Len(g) <= Stream_space(s) /\ Len(Contents(s)) + Len(g) <= Size
          /\ t.res = "Stream_Ok"
      BY <2>1, <2>6, <2>10, <3>1, <3>2, <3>3, <3>4, <3>6 DEF c
    <3>8. Sound(t.s, Size) /\ t.s.OrderFn = s.OrderFn /\ t.s.ReadLimit = s.ReadLimit
      BY <2>1, <2>3, <2>5, <2>10
    <3>9. k \in 0 .. k
      BY <3>5
    <3> HIDE DEF g
    <3>10. \E i \in 0 .. k :
              /\ Contents(t.s) = Contents(s) \o f[i]
              /\ t.s.WriteLimit = Spent(s.WriteLimit, Len(f[i]))
              /\ Len(f[i]) <= Stream_space(s) /\ Len(Contents(s)) + Len(f[i]) <= Size
              /\ t.res = "Stream_Ok" => i = k
              /\ t.res # "Stream_Ok" => i < k /\ Len(f[i]) + Len(put[i + 1]) > Stream_space(s)
      <4>1. g = f[k]
        BY DEF g
      <4> HIDE DEF k
      <4> QED
        BY <3>7, <3>9, <4>1
    <3>11. PutSoFar(t, s, put, f, k)
      BY <3>8, <3>10 DEF PutSoFar
    <3> QED
      BY <3>11 DEF t
  <2> QED
    BY <2>2, <2>4, <2>9, <2>10 DEF Puts, t
<1> QED
  BY <1>4, <1>5

\* k numbers of w bytes.
Numbers(vals, k, w) == /\ DOMAIN vals = 1 .. k
                       /\ \A i \in 1 .. k : vals[i] \in Seq(Byte) /\ Len(vals[i]) = w

\* The numbers of an array as they come in the stream.
LEMMA ArraysAre ==
  ASSUME NEW vals \in Arrays
  PROVE  \E k \in 0 .. MaxElements, w \in Nat \ {0} :
           Numbers(vals, k, w) /\ Len(vals) = k
<1>1. PICK k \in 0 .. MaxElements, w \in Widths : vals \in [1 .. k -> [1 .. w -> Byte]]
  BY DEF Arrays
<1>2. k \in Nat /\ w \in Nat \ {0}
  BY ElementsAssumption, WidthsAssumption
<1>3. ASSUME NEW i \in 1 .. k
      PROVE  vals[i] \in Seq(Byte) /\ Len(vals[i]) = w
  <2>1. vals[i] \in [1 .. w -> Byte]
    BY <1>1
  <2> HIDE DEF Byte
  <2> QED
    BY <1>2, <2>1
<1>4. DOMAIN vals = 1 .. k /\ Len(vals) = k
  <2> DEFINE X == [1 .. w -> Byte]
  <2>1. vals \in [1 .. k -> X]
    BY <1>1
  <2> HIDE DEF X
  <2>2. vals \in Seq(X)
    BY <1>2, <2>1
  <2> QED
    BY <1>2, <2>1, <2>2
<1> QED
  BY <1>2, <1>3, <1>4 DEF Numbers

\* Numbers as they come in the stream have as many bytes.
LEMMA InOrderIs ==
  ASSUME NEW k \in Nat, NEW w \in Nat, NEW vals, Numbers(vals, k, w),
         NEW put, put = [i \in DOMAIN vals |-> inOrder(vals[i])]
  PROVE  /\ put \in Seq(Seq(Byte)) /\ Len(put) = k
         /\ \A i \in 1 .. k : /\ put[i] = IF stream.OrderFn THEN Reverse(vals[i]) ELSE vals[i]
                              /\ Len(put[i]) = w
<1>1. ASSUME NEW i \in 1 .. k
      PROVE  inOrder(vals[i]) \in Seq(Byte) /\ Len(inOrder(vals[i])) = w
  <2> DEFINE v == vals[i]
  <2>1. v \in Seq(Byte) /\ Len(v) = w
    BY DEF Numbers
  <2> HIDE DEF v
  <2> QED
    BY <2>1, ReverseType DEF inOrder, v
<1> DEFINE X == Seq(Byte)
<1>2. put = [i \in 1 .. k |-> inOrder(vals[i])]
  BY DEF Numbers
<1>3. put \in [1 .. k -> X] /\ \A i \in 1 .. k : put[i] = inOrder(vals[i])
  BY <1>1, <1>2
<1>4. put \in Seq(X) /\ Len(put) = k
  <2> HIDE DEF X
  <2> QED
    BY <1>3
<1> QED
  BY <1>1, <1>3, <1>4 DEF inOrder

\* After all numbers, or those up to the first that did not fit.
LEMMA WriteArrayPuts ==
  ASSUME Sound(stream, Size), NEW k \in Nat, NEW w \in Nat \ {0}, NEW vals,
         Numbers(vals, k, w),
         NEW put, put = [i \in DOMAIN vals |-> inOrder(vals[i])],
         NEW f, Concats(f, put)
  PROVE  PutSoFar(writeArray(stream, vals), stream, put, f, k)
<1>0. /\ put \in Seq(Seq(Byte)) /\ Len(put) = k
      /\ \A i \in 1 .. k : /\ put[i] = IF stream.OrderFn THEN Reverse(vals[i]) ELSE vals[i]
                           /\ Len(put[i]) = w
  BY InOrderIs
<1>1. PICK at : PutsOneByOne(at, stream, vals, k) /\ writeArray(stream, vals) = at[k]
  BY WriteArrayGoes DEF Numbers
<1> DEFINE T == {n \in 0 .. k : PutSoFar(at[n], stream, put, f, n)}
<1>2. 0 \in T
  <2> DEFINE c == Contents(stream)
             r == at[0]
             p == f[0]
  <2>1. r = Done(stream) /\ p = <<>>
    BY <1>1 DEF PutsOneByOne, Concats
  <2>2. /\ c \in Seq(Byte) /\ Len(c) \in 0 .. Size /\ Size \in Nat
        /\ stream.WriteLimit \in -1 .. Size
        /\ Stream_space(stream) = IF stream.WriteLimit = NoLimit
                                  THEN Size - Len(c) ELSE stream.WriteLimit
    BY SpaceIs, SizeAssumption, MaxLenAssumption
  <2> HIDE DEF c, r, p
  <2>3. c \o p = c /\ Len(p) = 0
    BY <2>1, <2>2, ConcatEmptySeq
  <2>4. /\ r.s = stream /\ r.res = "Stream_Ok"
    BY <2>1 DEF Done
  <2>5. /\ stream.WriteLimit = Spent(stream.WriteLimit, Len(p))
        /\ Len(p) <= Stream_space(stream) /\ Len(c) + Len(p) <= Size
    BY <2>2, <2>3 DEF Spent, NoLimit
  <2>6. \E m \in 0 .. 0 :
          /\ Contents(r.s) = c \o f[m]
          /\ r.s.WriteLimit = Spent(stream.WriteLimit, Len(f[m]))
          /\ Len(f[m]) <= Stream_space(stream) /\ Len(c) + Len(f[m]) <= Size
          /\ r.res = "Stream_Ok" => m = 0
          /\ r.res # "Stream_Ok" => m < 0 /\ Len(f[m]) + Len(put[m + 1]) > Stream_space(stream)
    <3>1. 0 \in 0 .. 0
      OBVIOUS
    <3> QED
      BY <2>3, <2>4, <2>5, <3>1 DEF c, p
  <2>7. PutSoFar(r, stream, put, f, 0)
    BY <2>4, <2>6 DEF PutSoFar, c
  <2> QED
    BY <2>7 DEF r
<1>3. ASSUME NEW n \in 0 .. k - 1, n \in T
      PROVE  n + 1 \in T
  <2>1. n + 1 \in 1 .. k /\ n + 1 \in 0 .. k /\ n \in 0 .. Len(put) - 1
    BY <1>0
  <2>2. at[n + 1] = PutNext(at[n], vals[n + 1])
    BY <1>1 DEF PutsOneByOne
  <2> DEFINE val == vals[n + 1]
             r == at[n]
  <2>3. /\ val \in Seq(Byte) /\ Len(val) > 0 /\ Len(put[n + 1]) = Len(val)
        /\ put[n + 1] = IF stream.OrderFn THEN Reverse(val) ELSE val
    BY <1>0, <2>1 DEF Numbers
  <2>4. PutSoFar(r, stream, put, f, n)
    BY <1>3
  <2> HIDE DEF val, r
  <2>5. PutSoFar(PutNext(r, val), stream, put, f, n + 1)
    BY <1>0, <2>1, <2>3, <2>4, PutNextPuts
  <2> QED
    BY <2>1, <2>2, <2>5 DEF val, r
<1>4. k \in T
  <2> HIDE DEF T
  <2>1. 0 .. k \subseteq T
    BY <1>2, <1>3, Induction
  <2> QED
    BY <2>1
<1> QED
  BY <1>1, <1>4

\* Writing an array is a step of the queue, and leaves the stream sound.
LEMMA WriteArrayStep ==
  ASSUME Sound(stream, Size), NEW vals \in Arrays, WriteArray(vals)
  PROVE  Sound(stream', Size) /\ Queue!PutArray
<1> USE SizeAssumption
<1> DEFINE put == [i \in DOMAIN vals |-> inOrder(vals[i])]
           r   == writeArray(stream, vals)
<1>1. PICK k \in 0 .. MaxElements, w \in Nat \ {0} :
           Numbers(vals, k, w) /\ Len(vals) = k
  BY ArraysAre
<1>2. k \in Nat
  BY ElementsAssumption
<1>3. /\ stream' = r.s /\ call'.op = "putArray" /\ call'.res = r.res
      /\ call'.val = put
  BY DEF WriteArray, Call
<1> HIDE DEF put, r
<1>4. put \in Seq(Seq(Byte)) /\ Len(put) = k
  <2>1. put = [i \in DOMAIN vals |-> inOrder(vals[i])] /\ w \in Nat
    BY DEF put
  <2> QED
    BY <1>1, <1>2, <2>1, InOrderIs
<1>5. PICK f : Concats(f, put)
  BY <1>4, ConcatsExists
<1>6. PutSoFar(r, stream, put, f, k)
  BY <1>1, <1>2, <1>5, WriteArrayPuts DEF put, r
<1>7. PICK m \in 0 .. k :
         /\ Contents(r.s) = Contents(stream) \o f[m]
         /\ r.s.WriteLimit = Spent(stream.WriteLimit, Len(f[m]))
         /\ Len(f[m]) <= Stream_space(stream) /\ Len(Contents(stream)) + Len(f[m]) <= Size
         /\ r.res = "Stream_Ok" => m = k
         /\ r.res # "Stream_Ok" =>
              m < k /\ Len(f[m]) + Len(put[m + 1]) > Stream_space(stream)
  BY <1>6 DEF PutSoFar
<1>8. Sound(r.s, Size) /\ r.s.ReadLimit = stream.ReadLimit
  BY <1>6 DEF PutSoFar
<1>9. FlattenSeq(SubSeq(put, 1, m)) = f[m]
  BY <1>4, <1>5, <1>7, FlattenIs
<1> DEFINE p == FlattenSeq(SubSeq(put, 1, m))
<1>10. /\ Len(p) <= Queue!space /\ Len(Contents(stream)) + Len(p) <= Size
       /\ Contents(stream)' = Contents(stream) \o p
       /\ stream'.WriteLimit = Queue!spend(stream.WriteLimit, Len(p))
       /\ stream'.ReadLimit = stream.ReadLimit
       /\ IF call'.res = "Stream_Ok" THEN m = Len(put)
          ELSE m < Len(put) /\ Len(p) + Len(put[m + 1]) > Queue!space
       /\ m \in 0 .. Len(put)
  <2> HIDE DEF p
  <2>1. p = f[m]
    BY <1>9 DEF p
  <2>2. Queue!space = Stream_space(stream) /\ \A l, n : Queue!spend(l, n) = Spent(l, n)
    BY QueueMeasures
  <2>3. Contents(stream)' = Contents(r.s) /\ stream' = r.s
    BY <1>3
  <2> QED
    BY <1>3, <1>4, <1>7, <1>8, <2>1, <2>2, <2>3
<1>11. Queue!PutArray
  <2>1. /\ \E n \in 0 .. Len(call'.val) :
                 LET q == FlattenSeq(SubSeq(call'.val, 1, n))
                 IN  /\ Len(q) <= Queue!space /\ Len(Contents(stream)) + Len(q) <= Size
                     /\ Contents(stream)' = Contents(stream) \o q
                     /\ stream'.WriteLimit = Queue!spend(stream.WriteLimit, Len(q))
                     /\ IF call'.res = "Stream_Ok"
                        THEN n = Len(call'.val)
                        ELSE n < Len(call'.val) /\ Len(q) + Len(call'.val[n + 1]) > Queue!space
    BY <1>3, <1>10
  <2>2. \A v : Queue!FlattenSeq(v) = FlattenSeq(v)
    BY Zenon DEF Queue!FlattenSeq, FlattenSeq
  <2> QED
    BY <1>3, <1>10, <2>1, <2>2, Zenon DEF Queue!PutArray, Queue!accepted
<1> QED
  BY <1>3, <1>8, <1>11

-----------------------------------------------------------------------------
(* Arrays of numbers, read. *)

\* Reversing twice.
LEMMA ReverseTwice ==
  ASSUME NEW v \in Seq(Byte)
  PROVE  Reverse(Reverse(v)) = v
<1> DEFINE n == Len(v)
           u == Reverse(v)
           z == Reverse(u)
<1>1. u \in Seq(Byte) /\ Len(u) = n
  BY ReverseType
<1>2. \A i \in 1 .. n : u[i] = v[n - i + 1]
  BY DEF Reverse
<1> HIDE DEF u
<1>3. z \in Seq(Byte) /\ Len(z) = n
  BY <1>1, ReverseType
<1>4. \A i \in 1 .. n : z[i] = u[n - i + 1]
  BY <1>1 DEF Reverse
<1> HIDE DEF z
<1>5. ASSUME NEW i \in 1 .. n
      PROVE  z[i] = v[i]
  <2>1. n - i + 1 \in 1 .. n /\ n - (n - i + 1) + 1 = i
    OBVIOUS
  <2> QED
    BY <1>2, <1>4, <2>1
<1>6. z = v
  BY <1>3, <1>5, SeqEqual
<1> QED
  BY <1>6 DEF z, u

\* Numbers are read in one byte order.
LEMMA ReadKeepsOrder ==
  ASSUME NEW s, Sound(s, Size), NEW len
  PROVE  readNumber(s, len).s.OrderFn = s.OrderFn
<1>1. s \in Stream(Size)
  BY DEF Sound
<1>2. takeRead(s, len).OrderFn = s.OrderFn
  <2> DEFINE c == chargeReadLimit(s, len)
  <2>1. c.OrderFn = s.OrderFn /\ DOMAIN c = DOMAIN s
    BY <1>1 DEF chargeReadLimit, Stream
  <2> HIDE DEF c
  <2>2. \A x, y : /\ [c EXCEPT !.RPos = x, !.Overflow = y].OrderFn = c.OrderFn
                  /\ [c EXCEPT !.RPos = x].OrderFn = c.OrderFn
    BY <1>1, <2>1 DEF Stream
  <2>3. takeRead(s, len) = IF s.RPos + len >= s.Size
                           THEN [c EXCEPT !.RPos = s.RPos + len - s.Size, !.Overflow = 0]
                           ELSE [c EXCEPT !.RPos = s.RPos + len]
    BY DEF takeRead, c
  <2> QED
    BY <2>1, <2>2, <2>3
<1>3. /\ Stream_readBytes(s, len).s \in {s, takeRead(s, len)}
      /\ Stream_readBytesReverse(s, len).s \in {s, takeRead(s, len)}
  BY DEF Stream_readBytes, Stream_readBytesReverse, Deliver, ReadRefuse
<1> DEFINE u == IF s.OrderFn THEN Stream_readBytesReverse(s, len)
                             ELSE Stream_readBytes(s, len)
<1>4. u.s \in {s, takeRead(s, len)}
  BY <1>3
<1>5. \E val : u = [res |-> u.res, s |-> u.s, val |-> val]
  BY DEF Stream_readBytes, Stream_readBytesReverse, Deliver, ReadRefuse
<1>6. readNumber(s, len) = IF u.res = "Stream_Ok" THEN u
                           ELSE [u EXCEPT !.val = Repeat(0, len)]
  BY DEF readNumber
<1> HIDE DEF u
<1>7. readNumber(s, len).s = u.s
  BY <1>5, <1>6
<1> QED
  BY <1>2, <1>4, <1>7

\* A number that is read: the next bytes, or zeros when they are not all there.
TakenOne(s, r, w, num) ==
  \/ /\ w <= Stream_available(s)
     /\ Contents(s) = num \o Contents(r.s)
     /\ r.s.ReadLimit = Spent(s.ReadLimit, w)
  \/ /\ w > Stream_available(s)
     /\ r.s = s
     /\ \A j \in DOMAIN num : num[j] = 0

\* A number that is read is taken or 0.
LEMMA ReadNumberIs ==
  ASSUME NEW s, Sound(s, Size), NEW w \in Nat \ {0}, NEW r, r = readNumber(s, w),
         NEW num, num = IF s.OrderFn THEN Reverse(r.val) ELSE r.val
  PROVE  /\ Sound(r.s, Size) /\ r.s.OrderFn = s.OrderFn
         /\ r.s.WriteLimit = s.WriteLimit
         /\ r.val \in Seq(Byte) /\ num \in Seq(Byte) /\ Len(num) = w
         /\ TakenOne(s, r, w, num)
<1> USE SizeAssumption
<1>1. Sound(r.s, Size) /\ r.s.OrderFn = s.OrderFn
  BY ReadNumberSound, ReadKeepsOrder
<1>2. PICK got : /\ Takes(s, r, w, got)
                 /\ r.res = "Stream_Ok" /\ s.OrderFn => r.val = Reverse(got)
                 /\ r.res = "Stream_Ok" /\ ~ s.OrderFn => r.val = got
  <2>1. w \in Nat
    OBVIOUS
  <2> QED
    BY <2>1, ReadNumberTakes
<1>3. CASE r.res = "Stream_Ok"
  <2> DEFINE c == Contents(s)
             d == Contents(r.s)
  <2>1. /\ w <= Stream_available(s) /\ w <= Len(c)
        /\ got = SubSeq(c, 1, w) /\ d = SubSeq(c, w + 1, Len(c))
        /\ r.s.ReadLimit = Spent(s.ReadLimit, w) /\ r.s.WriteLimit = s.WriteLimit
    BY <1>2, <1>3 DEF Takes
  <2>2. c \in Seq(Byte)
    BY SpaceIs
  <2> HIDE DEF c, d
  <2>3. got \in Seq(Byte) /\ Len(got) = w
    <3> HIDE DEF Byte
    <3> QED
      BY <2>1, <2>2
  <2>4. c = got \o d
    <3>1. w \in 0 .. Len(c)
      BY <2>1, <2>2
    <3> QED
      BY <2>1, <2>2, <3>1, SubSplits
  <2>5. num = got /\ r.val \in Seq(Byte)
    BY <1>2, <1>3, <2>3, ReverseTwice, ReverseType
  <2> QED
    BY <1>1, <2>1, <2>3, <2>4, <2>5 DEF TakenOne, c, d
<1>4. CASE r.res # "Stream_Ok"
  <2>1. w > Stream_available(s) /\ r.s = s
    BY <1>2, <1>4 DEF Takes
  <2>2. r.val = Repeat(0, w)
    <3> DEFINE u == IF s.OrderFn THEN Stream_readBytesReverse(s, w)
                             ELSE Stream_readBytes(s, w)
    <3>1. \E val : u = [res |-> u.res, s |-> u.s, val |-> val]
      BY DEF Stream_readBytes, Stream_readBytesReverse, Deliver, ReadRefuse
    <3>2. r = IF u.res = "Stream_Ok" THEN u ELSE [u EXCEPT !.val = Repeat(0, w)]
      BY DEF readNumber
    <3> HIDE DEF u
    <3> QED
      BY <1>4, <3>1, <3>2
  <2>3. /\ r.val \in Seq(Byte) /\ Len(r.val) = w /\ \A j \in 1 .. w : r.val[j] = 0
    <3>1. 0 \in Byte
      BY BytesAssumption DEF Byte
    <3> QED
      BY <2>2, <3>1, RepeatType DEF Repeat
  <2> DEFINE v == r.val
  <2> HIDE DEF v
  <2>4. num \in Seq(Byte) /\ Len(num) = w /\ \A j \in 1 .. w : num[j] = 0
    <3>1. CASE s.OrderFn
      <4>1. v \in Seq(Byte) /\ Len(v) = w /\ \A j \in 1 .. w : v[j] = 0
        BY <2>3 DEF v
      <4>2. num = Reverse(v)
        BY <3>1 DEF v
      <4>3. \A j \in 1 .. w : Reverse(v)[j] = v[w - j + 1] /\ w - j + 1 \in 1 .. w
        BY <4>1 DEF Reverse
      <4> QED
        BY <4>1, <4>2, <4>3, ReverseType
    <3>2. CASE ~ s.OrderFn
      BY <2>3, <3>2
    <3> QED
      BY <3>1, <3>2
  <2>5. DOMAIN num = 1 .. w
    <3> HIDE DEF Byte
    <3> QED
      BY <2>4
  <2> QED
    BY <1>1, <2>1, <2>3, <2>4, <2>5 DEF TakenOne
<1> QED
  BY <1>3, <1>4

\* One number more of an array.
TakeNext(r, w) == LET num == readNumber(r.s, w)
                  IN  Deliver(num.s, Append(r.val, num.val))
TakeOutcomes   == [res : Codes, s : Sounds, val : Seq(Seq(Byte))]

\* Reading goes on whatever came of the numbers before.
LEMMA TakeNextOutcome ==
  ASSUME NEW r \in TakeOutcomes, NEW w \in Nat \ {0}
  PROVE  TakeNext(r, w) \in TakeOutcomes
<1> DEFINE s == r.s
           g == readNumber(s, w)
           X == Seq(Byte)
           v == r.val
           x == g.val
<1>1. Sound(s, Size) /\ v \in Seq(X)
  BY DEF TakeOutcomes, Sounds
<1>2. Sound(g.s, Size) /\ x \in X
  <2> DEFINE num == IF s.OrderFn THEN Reverse(g.val) ELSE g.val
  <2>1. num = IF s.OrderFn THEN Reverse(g.val) ELSE g.val
    OBVIOUS
  <2> HIDE DEF num, s, g
  <2>2. g = readNumber(s, w)
    BY DEF g
  <2> QED
    BY <1>1, <2>1, <2>2, ReadNumberIs
<1>3. TakeNext(r, w) = [res |-> "Stream_Ok", s |-> g.s, val |-> Append(v, x)]
  BY DEF TakeNext, Deliver
<1> HIDE DEF g, s, X, v, x
<1>4. Append(v, x) \in Seq(X) /\ g.s \in Sounds /\ "Stream_Ok" \in Codes
  BY <1>1, <1>2 DEF Sounds, Sound, Codes
<1> QED
  BY <1>3, <1>4 DEF TakeOutcomes, X

\* The fold of the library over the numbers to read.
TakesAll(f, s, n, w) ==
  f = [S \in SUBSET DOMAIN [i \in 1 .. n |-> i] |->
         IF S = {} THEN Deliver(s, <<>>) ELSE TakeNext(f[S \ {Max(S)}], w)]

\* readArray folds TakeNext.
LEMMA ReadArrayFolds ==
  ASSUME NEW s, NEW n, NEW w, ~ (Stream_available(s) < n)
  PROVE  readArray(s, n, w)
           = (CHOOSE f : TakesAll(f, s, n, w))[DOMAIN [i \in 1 .. n |-> i]]
  BY Zenon DEF readArray, FoldLeft, MapThenFoldSet, TakesAll, TakeNext

\* What readArray has read after each number.
TakesOneByOne(at, s, k, w) ==
  /\ at[0] = Deliver(s, <<>>)
  /\ \A n \in 0 .. k - 1 : at[n + 1] = TakeNext(at[n], w)
  /\ \A n \in 0 .. k : at[n] \in TakeOutcomes

\* readArray is what has been read after the last number.
LEMMA ReadArrayGoes ==
  ASSUME NEW s, Sound(s, Size), NEW k \in Nat, NEW w \in Nat \ {0},
         ~ (Stream_available(s) < k)
  PROVE  \E at : TakesOneByOne(at, s, k, w) /\ readArray(s, k, w) = at[k]
<1> DEFINE X == TakeOutcomes
           b == Deliver(s, <<>>)
           step == [p \in X \X (1 .. k) |-> TakeNext(p[1], w)]
           F == CHOOSE f : TakesAll(f, s, k, w)
           at == [n \in 0 .. k |-> F[1 .. n]]
<1>0. DOMAIN [i \in 1 .. k |-> i] = 1 .. k
  OBVIOUS
<1>1. b \in X
  <2>1. s \in Sounds
    BY DEF Sounds, Sound
  <2> DEFINE Y == Seq(Byte)
  <2>2. <<>> \in Seq(Y)
    <3> HIDE DEF Y
    <3> QED
      OBVIOUS
  <2> QED
    BY <2>1, <2>2 DEF Deliver, TakeOutcomes, Codes
<1>2. step \in [X \X (1 .. k) -> X]
  <2>1. ASSUME NEW p \in X \X (1 .. k)
        PROVE  TakeNext(p[1], w) \in X
    BY TakeNextOutcome
  <2> QED
    BY <2>1
<1>3. \A r \in X, i \in 1 .. k : step[<<r, i>>] = TakeNext(r, w)
  OBVIOUS
<1> HIDE DEF X, b, step
<1>4. PICK f \in [SUBSET (1 .. k) -> X] : Folds(f, b, step, k)
  BY <1>1, <1>2, FoldExists
<1>5. ASSUME NEW S \in SUBSET (1 .. k)
      PROVE  FoldStep(f, b, step, S)
               = IF S = {} THEN b ELSE TakeNext(f[S \ {Max(S)}], w)
  <2>1. CASE S = {}
    BY <2>1 DEF FoldStep
  <2>2. CASE S # {}
    <3> DEFINE m == Max(S)
               U == S \ {m}
    <3>1. m \in 1 .. k
      BY <2>2, LargestIs
    <3>2. f[U] \in X
      OBVIOUS
    <3>3. FoldStep(f, b, step, S) = step[<<f[U], m>>]
      BY <2>2 DEF FoldStep
    <3> HIDE DEF m, U
    <3>4. FoldStep(f, b, step, S) = TakeNext(f[U], w)
      BY <1>3, <3>1, <3>2, <3>3
    <3> QED
      BY <2>2, <3>4 DEF m, U
  <2> QED
    BY <2>1, <2>2
<1>6. TakesAll(f, s, k, w)
  BY <1>0, <1>4, <1>5 DEF Folds, TakesAll, b
<1>7. TakesAll(F, s, k, w)
  <2>1. \E g : TakesAll(g, s, k, w)
    BY <1>6
  <2> QED
    BY <2>1, Zenon
<1>8. readArray(s, k, w) = F[1 .. k]
  <2>1. readArray(s, k, w) = F[DOMAIN [i \in 1 .. k |-> i]]
    BY ReadArrayFolds
  <2> HIDE DEF F
  <2> QED
    BY <1>0, <2>1
<1> HIDE DEF F
<1> DEFINE G(S) == IF S = {} THEN b ELSE TakeNext(F[S \ {Max(S)}], w)
<1>9. F = [S \in SUBSET (1 .. k) |-> G(S)]
  BY <1>0, <1>7 DEF TakesAll, b
<1>10. at[0] = b
  <2>1. at[0] = F[1 .. 0]
    OBVIOUS
  <2>2. 1 .. 0 = {}
    OBVIOUS
  <2>3. {} \in SUBSET (1 .. k)
    OBVIOUS
  <2>4. F[{}] = G({})
    <3> HIDE DEF G
    <3> QED
      BY <1>9, <2>3
  <2> QED
    BY <2>1, <2>2, <2>4
<1>11. ASSUME NEW n \in 0 .. k - 1
       PROVE  at[n + 1] = TakeNext(at[n], w)
  <2> DEFINE S == 1 .. n + 1
  <2>1. n \in Nat /\ n \in 0 .. k /\ n + 1 \in 0 .. k
    OBVIOUS
  <2>2. at[n + 1] = F[S] /\ at[n] = F[1 .. n]
    BY <2>1
  <2>3. S # {} /\ Max(S) = n + 1 /\ S \ {n + 1} = 1 .. n
    BY <2>1, LastOfFirst
  <2>4. S \in SUBSET (1 .. k)
    BY <2>1
  <2> HIDE DEF S, at
  <2>5. F[S] = G(S)
    <3> HIDE DEF G
    <3> QED
      BY <1>9, <2>4
  <2> QED
    BY <2>2, <2>3, <2>5
<1>12. readArray(s, k, w) = at[k]
  BY <1>8
<1> HIDE DEF at
<1>13. \A n \in 0 .. k : at[n] \in X
  <2> DEFINE T == {n \in 0 .. k : at[n] \in X}
  <2>1. 0 \in T
    BY <1>1, <1>10
  <2>2. ASSUME NEW n \in 0 .. k - 1, n \in T
        PROVE  n + 1 \in T
    <3>1. at[n] \in X /\ n + 1 \in 0 .. k
      BY <2>2
    <3> QED
      BY <1>11, <3>1, TakeNextOutcome DEF X
  <2>3. 0 .. k \subseteq T
    <3> HIDE DEF T
    <3> QED
      BY <2>1, <2>2, Induction
  <2> QED
    BY <2>3
<1> QED
  BY <1>10, <1>11, <1>12, <1>13 DEF TakesOneByOne, b, X

\* The i-th number of the array is the one that is read i-th.
ReadInTurn(at, k, w) ==
  /\ Numbers(at[k].val, k, w) /\ at[k].res = "Stream_Ok"
  /\ \A i \in 1 .. k : at[k].val[i] = readNumber(at[i - 1].s, w).val
  /\ \A i \in 0 .. k - 1 : at[i + 1].s = readNumber(at[i].s, w).s

\* Each number is in its place of the array.
LEMMA ReadOneByOne ==
  ASSUME NEW s, NEW k \in Nat, NEW w \in Nat \ {0}, NEW at, TakesOneByOne(at, s, k, w)
  PROVE  ReadInTurn(at, k, w)
<1> DEFINE X == Seq(Byte)
           num(i) == readNumber(at[i - 1].s, w).val
           T == {n \in 0 .. k : /\ Len(at[n].val) = n /\ at[n].res = "Stream_Ok"
                                /\ \A i \in 1 .. n : at[n].val[i] = num(i)}
<1>1. \A n \in 0 .. k : at[n].val \in Seq(X) /\ Sound(at[n].s, Size)
  BY DEF TakesOneByOne, TakeOutcomes, Sounds
<1>2. ASSUME NEW i \in 1 .. k
      PROVE  num(i) \in X /\ Len(num(i)) = w
  <2> DEFINE q == at[i - 1].s
             r == readNumber(q, w)
             u == IF q.OrderFn THEN Reverse(r.val) ELSE r.val
  <2>1. Sound(q, Size)
    BY <1>1
  <2>2. u = IF q.OrderFn THEN Reverse(r.val) ELSE r.val
    OBVIOUS
  <2>3. num(i) = r.val
    OBVIOUS
  <2> HIDE DEF q, num
  <2>4. r = readNumber(q, w)
    OBVIOUS
  <2> HIDE DEF r, u
  <2>5. r.val \in Seq(Byte) /\ u \in Seq(Byte) /\ Len(u) = w
    BY <2>1, <2>2, <2>4, ReadNumberIs
  <2>6. Len(r.val) = w
    <3> DEFINE v == r.val
    <3>1. v \in Seq(Byte) /\ (u = Reverse(v) \/ u = v)
      BY <2>2, <2>5
    <3> HIDE DEF v
    <3>2. Len(v) = Len(u)
      BY <3>1, ReverseType
    <3> QED
      BY <2>5, <3>2 DEF v
  <2> QED
    BY <2>3, <2>5, <2>6
<1>3. ASSUME NEW n \in 0 .. k - 1
      PROVE  /\ at[n + 1].val = Append(at[n].val, num(n + 1))
             /\ at[n + 1].res = "Stream_Ok"
             /\ at[n + 1].s = readNumber(at[n].s, w).s
  <2>1. (n + 1) - 1 = n
    OBVIOUS
  <2>2. at[n + 1] = TakeNext(at[n], w)
    BY DEF TakesOneByOne
  <2> QED
    BY <2>1, <2>2 DEF TakeNext, Deliver
<1> HIDE DEF num
<1>4. 0 \in T
  <2>1. at[0].val = <<>> /\ at[0].res = "Stream_Ok"
    BY DEF TakesOneByOne, Deliver
  <2> QED
    BY <2>1
<1>5. ASSUME NEW n \in 0 .. k - 1, n \in T
      PROVE  n + 1 \in T
  <2> DEFINE v == at[n].val
             x == num(n + 1)
             u == at[n + 1].val
  <2>1. /\ v \in Seq(X) /\ x \in X /\ u = Append(v, x)
        /\ Len(v) = n /\ \A i \in 1 .. n : v[i] = num(i)
    <3>1. n \in 0 .. k /\ n + 1 \in 1 .. k
      OBVIOUS
    <3>2. v \in Seq(X)
      BY <1>1, <3>1
    <3>3. x \in X
      BY <1>2, <3>1
    <3>4. u = Append(v, x)
      BY <1>3
    <3>5. Len(v) = n /\ \A i \in 1 .. n : v[i] = num(i)
      BY <1>5
    <3> QED
      BY <3>2, <3>3, <3>4, <3>5
  <2> HIDE DEF v, x, u, X
  <2>2. Len(u) = n + 1 /\ \A i \in 1 .. n + 1 : u[i] = IF i = n + 1 THEN x ELSE v[i]
    BY <2>1
  <2>3. \A i \in 1 .. n + 1 : u[i] = num(i)
    <3>1. ASSUME NEW i \in 1 .. n + 1
          PROVE  u[i] = num(i)
      <4>1. CASE i = n + 1
        BY <2>2, <4>1 DEF x
      <4>2. CASE i # n + 1
        <5>1. i \in 1 .. n
          BY <4>2
        <5> QED
          BY <2>1, <2>2, <4>2, <5>1
      <4> QED
        BY <4>1, <4>2
    <3> QED
      BY <3>1
  <2>4. n + 1 \in 0 .. k /\ at[n + 1].res = "Stream_Ok"
    BY <1>3
  <2>5. Len(at[n + 1].val) = n + 1 /\ \A i \in 1 .. n + 1 : at[n + 1].val[i] = num(i)
    BY <2>2, <2>3 DEF u
  <2> QED
    BY <2>4, <2>5
<1>6. k \in T
  <2> HIDE DEF T
  <2>1. 0 .. k \subseteq T
    BY <1>4, <1>5, Induction
  <2> QED
    BY <2>1
<1>7. DOMAIN at[k].val = 1 .. k
  <2> DEFINE v == at[k].val
  <2>1. v \in Seq(X) /\ Len(v) = k
    BY <1>1, <1>6
  <2> HIDE DEF v, X
  <2>2. DOMAIN v = 1 .. k
    BY <2>1
  <2> QED
    BY <2>2 DEF v
<1>8. \A i \in 1 .. k : at[k].val[i] = num(i)
  BY <1>6
<1>9. Numbers(at[k].val, k, w)
  BY <1>2, <1>7, <1>8 DEF Numbers
<1> QED
  BY <1>3, <1>6, <1>8, <1>9 DEF num, ReadInTurn

\* What has been taken after n numbers: all of them, or those up to the first
\* that was not all there and every one behind it, which are 0.
TakenSoFar(q, s, take, f, n) ==
  /\ Sound(q, Size) /\ q.OrderFn = s.OrderFn /\ q.WriteLimit = s.WriteLimit
  /\ \E m \in 0 .. n :
       /\ Contents(s) = f[m] \o Contents(q)
       /\ q.ReadLimit = Spent(s.ReadLimit, Len(f[m]))
       /\ Len(f[m]) <= Stream_available(s)
       /\ \A i \in m + 1 .. n : /\ Len(take[i]) > Stream_available(s) - Len(f[m])
                                /\ \A j \in DOMAIN take[i] : take[i][j] = 0

\* One number more is taken, or it and all behind it are 0.
LEMMA TakeNextTakes ==
  ASSUME NEW s, Sound(s, Size), NEW take \in Seq(Seq(Byte)), NEW f, Concats(f, take),
         NEW w \in Nat \ {0}, \A i \in 1 .. Len(take) : Len(take[i]) = w,
         NEW n \in 0 .. Len(take) - 1, NEW q, TakenSoFar(q, s, take, f, n),
         NEW g, g = readNumber(q, w),
         take[n + 1] = IF s.OrderFn THEN Reverse(g.val) ELSE g.val
  PROVE  TakenSoFar(g.s, s, take, f, n + 1)
<1> USE SizeAssumption
<1>1. PICK m \in 0 .. n :
       /\ Contents(s) = f[m] \o Contents(q)
       /\ q.ReadLimit = Spent(s.ReadLimit, Len(f[m]))
       /\ Len(f[m]) <= Stream_available(s)
       /\ \A i \in m + 1 .. n : /\ Len(take[i]) > Stream_available(s) - Len(f[m])
                                /\ \A j \in DOMAIN take[i] : take[i][j] = 0
  BY DEF TakenSoFar
<1>2. Sound(q, Size) /\ q.OrderFn = s.OrderFn /\ q.WriteLimit = s.WriteLimit
  BY DEF TakenSoFar
<1> DEFINE num == take[n + 1]
           x == f[m]
           c == Contents(s)
           d == Contents(q)
           e == Contents(g.s)
           k == n + 1
<1>3. num = IF q.OrderFn THEN Reverse(g.val) ELSE g.val
  BY <1>2
<1>4. /\ n \in Nat /\ m \in Nat /\ m \in 0 .. k /\ k \in 0 .. k /\ m <= n /\ w \in Nat
      /\ n \in 1 .. Len(take) \/ n = 0
  OBVIOUS
<1>5. /\ Sound(g.s, Size) /\ g.s.OrderFn = q.OrderFn /\ g.s.WriteLimit = q.WriteLimit
      /\ num \in Seq(Byte) /\ Len(num) = w /\ TakenOne(q, g, w, num)
  <2> HIDE DEF num
  <2> QED
    BY <1>2, <1>3, ReadNumberIs
<1>6. x \in Seq(Byte) /\ c \in Seq(Byte) /\ d \in Seq(Byte) /\ e \in Seq(Byte)
  <2>1. m \in 0 .. Len(take)
    BY <1>4
  <2>2. x \in Seq(Byte)
    BY <2>1 DEF Concats
  <2> QED
    BY <1>2, <1>5, <2>2, SpaceIs
<1>7. Len(x) \in Nat /\ Len(c) = Len(x) + Len(d) /\ Len(d) \in Nat
  <2>1. c = x \o d
    BY <1>1
  <2> HIDE DEF x, c, d, Byte
  <2> QED
    BY <1>6, <2>1
<1>8. /\ Stream_available(s) = IF s.ReadLimit = NoLimit THEN Len(c) ELSE s.ReadLimit
      /\ Stream_available(q) = IF q.ReadLimit = NoLimit THEN Len(d) ELSE q.ReadLimit
      /\ s.ReadLimit \in -1 .. Size /\ Size \in Nat
  BY <1>2, SpaceIs, MaxLenAssumption
<1>9. Stream_available(q) = Stream_available(s) - Len(x) /\ Stream_available(s) \in Int
  <2>1. q.ReadLimit = Spent(s.ReadLimit, Len(x)) /\ Len(x) <= Stream_available(s)
    BY <1>1
  <2> HIDE DEF x, c, d
  <2> QED
    BY <1>7, <1>8, <2>1 DEF Spent, NoLimit
<1>10. \A i \in m + 1 .. n : Len(take[i]) = w /\ i \in 1 .. Len(take)
  BY <1>4
<1>11. CASE /\ w > Stream_available(q) /\ g.s = q
            /\ \A j \in DOMAIN num : num[j] = 0
  <2>1. ASSUME NEW i \in m + 1 .. k
        PROVE  /\ Len(take[i]) > Stream_available(s) - Len(x)
               /\ \A j \in DOMAIN take[i] : take[i][j] = 0
    <3>1. CASE i = k
      <4>1. Len(num) > Stream_available(s) - Len(x)
        BY <1>5, <1>9, <1>11
      <4> QED
        BY <1>11, <3>1, <4>1
    <3>2. CASE i # k
      <4>1. i \in m + 1 .. n
        BY <1>4, <3>2
      <4> QED
        BY <1>1, <4>1
    <3> QED
      BY <3>1, <3>2
  <2>2. \E l \in 0 .. k :
          /\ Contents(s) = f[l] \o Contents(g.s)
          /\ g.s.ReadLimit = Spent(s.ReadLimit, Len(f[l]))
          /\ Len(f[l]) <= Stream_available(s)
          /\ \A i \in l + 1 .. k : /\ Len(take[i]) > Stream_available(s) - Len(f[l])
                                   /\ \A j \in DOMAIN take[i] : take[i][j] = 0
    <3> HIDE DEF k
    <3> QED
      BY <1>1, <1>4, <1>11, <2>1
  <2> HIDE DEF k
  <2>3. TakenSoFar(g.s, s, take, f, k)
    BY <1>2, <1>5, <2>2 DEF TakenSoFar
  <2> QED
    BY <2>3 DEF k
<1>12. CASE /\ w <= Stream_available(q) /\ d = num \o e
            /\ g.s.ReadLimit = Spent(q.ReadLimit, w)
  <2>1. m = n
    <3>1. CASE m < n
      <4>1. n \in m + 1 .. n
        BY <1>4, <3>1
      <4>2. Len(take[n]) > Stream_available(s) - Len(x) /\ Len(take[n]) = w
        BY <1>1, <1>10, <4>1
      <4> HIDE DEF x
      <4> QED
        BY <1>9, <1>12, <4>2
    <3> QED
      BY <1>4, <3>1
  <2> DEFINE y == f[k]
  <2>2. y = x \o num
    BY <2>1, ConcatsAre
  <2>3. c = y \o e /\ Len(y) = Len(x) + w
    <3>1. c = x \o (num \o e)
      BY <1>1, <1>12
    <3> HIDE DEF x, num, e, c, y
    <3>2. x \o (num \o e) = (x \o num) \o e
      BY <1>5, <1>6, Regroups
    <3>3. Len(x \o num) = Len(x) + Len(num)
      BY <1>5, <1>6, ConcatProperties, Zenon
    <3> QED
      BY <1>5, <2>2, <3>1, <3>2, <3>3
  <2>4. g.s.ReadLimit = Spent(s.ReadLimit, Len(y))
    <3> DEFINE a == Len(x)
               b == Len(y)
               l == s.ReadLimit
               p == q.ReadLimit
    <3>1. p = Spent(l, a) /\ g.s.ReadLimit = Spent(p, w)
      BY <1>1, <1>12
    <3>2. a <= Stream_available(s) /\ (l # NoLimit => Stream_available(s) = l)
      BY <1>1, <1>8
    <3>3. b = a + w /\ a \in Nat /\ l \in Int
      BY <1>7, <1>8, <2>3
    <3> HIDE DEF a, b, l, p, x, y
    <3>4. w <= Stream_available(s) - a /\ Stream_available(s) \in Int
      BY <1>9, <1>12 DEF a
    <3>5. g.s.ReadLimit = Spent(l, b)
      <4>1. CASE l = NoLimit
        BY <3>1, <4>1 DEF Spent
      <4>2. CASE l # NoLimit
        <5>1. p = l - a /\ p # NoLimit
          BY <1>4, <3>1, <3>2, <3>3, <3>4, <4>2 DEF Spent, NoLimit
        <5>2. g.s.ReadLimit = (l - a) - w
          BY <3>1, <5>1 DEF Spent
        <5> QED
          BY <1>4, <3>3, <4>2, <5>2 DEF Spent
      <4> QED
        BY <4>1, <4>2
    <3> QED
      BY <3>5 DEF b, l
  <2>5. Len(y) <= Stream_available(s)
    <3> HIDE DEF x, y
    <3> QED
      BY <1>4, <1>7, <1>9, <1>12, <2>3
  <2>6. ASSUME NEW i \in k + 1 .. k
        PROVE  FALSE
    BY <1>4
  <2>7. \E l \in 0 .. k :
          /\ Contents(s) = f[l] \o Contents(g.s)
          /\ g.s.ReadLimit = Spent(s.ReadLimit, Len(f[l]))
          /\ Len(f[l]) <= Stream_available(s)
          /\ \A i \in l + 1 .. k : /\ Len(take[i]) > Stream_available(s) - Len(f[l])
                                   /\ \A j \in DOMAIN take[i] : take[i][j] = 0
    <3> HIDE DEF k
    <3> QED
      BY <1>4, <2>3, <2>4, <2>5, <2>6
  <2> HIDE DEF k
  <2>8. TakenSoFar(g.s, s, take, f, k)
    BY <1>2, <1>5, <2>7 DEF TakenSoFar
  <2> QED
    BY <2>8 DEF k
<1> QED
  BY <1>5, <1>11, <1>12 DEF TakenOne

\* After all numbers.
LEMMA ReadArrayTakes ==
  ASSUME Sound(stream, Size), NEW k \in Nat, NEW w \in Nat \ {0},
         ~ (Stream_available(stream) < k),
         NEW r, r = readArray(stream, k, w),
         NEW take, take = [i \in DOMAIN r.val |-> inOrder(r.val[i])],
         NEW f, Concats(f, take)
  PROVE  /\ r.res = "Stream_Ok" /\ take \in Seq(Seq(Byte)) /\ Len(take) = k
         /\ TakenSoFar(r.s, stream, take, f, k)
<1>1. PICK at : TakesOneByOne(at, stream, k, w) /\ r = at[k]
  BY ReadArrayGoes
<1>2. /\ Numbers(r.val, k, w) /\ r.res = "Stream_Ok"
      /\ \A i \in 1 .. k : r.val[i] = readNumber(at[i - 1].s, w).val
      /\ \A i \in 0 .. k - 1 : at[i + 1].s = readNumber(at[i].s, w).s
  <2>1. TakesOneByOne(at, stream, k, w)
    BY <1>1
  <2>2. /\ Numbers(at[k].val, k, w) /\ at[k].res = "Stream_Ok"
        /\ \A i \in 1 .. k : at[k].val[i] = readNumber(at[i - 1].s, w).val
        /\ \A i \in 0 .. k - 1 : at[i + 1].s = readNumber(at[i].s, w).s
    <3>1. ReadInTurn(at, k, w)
      BY <2>1, ReadOneByOne
    <3> QED
      BY <3>1, Zenon DEF ReadInTurn
  <2> QED
    BY <1>1, <2>2
<1>3. /\ take \in Seq(Seq(Byte)) /\ Len(take) = k
      /\ \A i \in 1 .. k : /\ take[i] = IF stream.OrderFn THEN Reverse(r.val[i]) ELSE r.val[i]
                           /\ Len(take[i]) = w
  <2> DEFINE v == r.val
  <2>1. Numbers(v, k, w) /\ take = [i \in DOMAIN v |-> inOrder(v[i])] /\ w \in Nat
    BY <1>2
  <2> HIDE DEF v
  <2>2. /\ take \in Seq(Seq(Byte)) /\ Len(take) = k
        /\ \A i \in 1 .. k : /\ take[i] = IF stream.OrderFn THEN Reverse(v[i]) ELSE v[i]
                             /\ Len(take[i]) = w
    BY <2>1, InOrderIs
  <2> QED
    BY <2>2 DEF v
<1> DEFINE T == {n \in 0 .. k : TakenSoFar(at[n].s, stream, take, f, n)}
<1>4. 0 \in T
  <2> DEFINE c == Contents(stream)
             x == f[0]
             q == at[0].s
  <2>1. q = stream /\ x = <<>>
    BY <1>1 DEF TakesOneByOne, Concats, Deliver
  <2>2. /\ c \in Seq(Byte) /\ Len(c) \in 0 .. Size /\ Size \in Nat
        /\ stream.ReadLimit \in -1 .. Size
        /\ Stream_available(stream) = IF stream.ReadLimit = NoLimit
                                      THEN Len(c) ELSE stream.ReadLimit
    BY SpaceIs, SizeAssumption, MaxLenAssumption
  <2> HIDE DEF c, x, q
  <2>3. x \o c = c /\ Len(x) = 0
    BY <2>1, <2>2, ConcatEmptySeq
  <2>4. /\ stream.ReadLimit = Spent(stream.ReadLimit, Len(x))
        /\ Len(x) <= Stream_available(stream)
    BY <2>2, <2>3 DEF Spent, NoLimit
  <2>5. \E m \in 0 .. 0 :
          /\ c = f[m] \o Contents(q)
          /\ q.ReadLimit = Spent(stream.ReadLimit, Len(f[m]))
          /\ Len(f[m]) <= Stream_available(stream)
          /\ \A i \in m + 1 .. 0 : /\ Len(take[i]) > Stream_available(stream) - Len(f[m])
                                   /\ \A j \in DOMAIN take[i] : take[i][j] = 0
    <3>1. 0 \in 0 .. 0 /\ 0 + 1 .. 0 = {}
      OBVIOUS
    <3>2. Contents(q) = c
      BY <2>1 DEF c
    <3> QED
      BY <2>1, <2>3, <2>4, <3>1, <3>2 DEF x
  <2>6. TakenSoFar(q, stream, take, f, 0)
    BY <2>1, <2>5 DEF TakenSoFar, c
  <2> QED
    BY <2>6 DEF q
<1>5. ASSUME NEW n \in 0 .. k - 1, n \in T
      PROVE  n + 1 \in T
  <2> DEFINE q == at[n].s
             g == readNumber(q, w)
             j == n + 1
  <2>1. j \in 1 .. k /\ j \in 0 .. k /\ n \in 0 .. Len(take) - 1 /\ j - 1 = n
    BY <1>3
  <2>2. TakenSoFar(q, stream, take, f, n)
    BY <1>5
  <2>3. at[j].s = g.s /\ r.val[j] = g.val
    <3>1. r.val[j] = readNumber(at[j - 1].s, w).val
      BY <1>2, <2>1
    <3> QED
      BY <1>2, <2>1, <3>1
  <2>4. take[j] = IF stream.OrderFn THEN Reverse(g.val) ELSE g.val
    BY <1>3, <2>1, <2>3
  <2>5. g = readNumber(q, w) /\ take[n + 1] = IF stream.OrderFn THEN Reverse(g.val) ELSE g.val
    BY <2>4
  <2> HIDE DEF g, q
  <2>6. TakenSoFar(g.s, stream, take, f, n + 1)
    <3> HIDE DEF T
    <3>1. \A i \in 1 .. Len(take) : Len(take[i]) = w
      BY <1>3
    <3>2. take \in Seq(Seq(Byte))
      BY <1>3
    <3> QED
      BY <2>1, <2>2, <2>5, <3>1, <3>2, TakeNextTakes
  <2> QED
    BY <2>1, <2>3, <2>6
<1>6. k \in T
  <2> HIDE DEF T
  <2>1. 0 .. k \subseteq T
    BY <1>4, <1>5, Induction
  <2> QED
    BY <2>1
<1> QED
  BY <1>1, <1>2, <1>3, <1>6

-----------------------------------------------------------------------------
(* The steps of the program. *)

\* Reading an array is a step of the queue, and leaves the stream sound.
LEMMA ReadArrayStep ==
  ASSUME Sound(stream, Size), NEW k \in 0 .. MaxElements, NEW w \in Widths,
         ReadArray(k, w)
  PROVE  Sound(stream', Size) /\ (Queue!TakeArray \/ Queue!Reject)
<1> USE SizeAssumption
<1> DEFINE r == readArray(stream, k, w)
           take == [i \in DOMAIN r.val |-> inOrder(r.val[i])]
<1>1. k \in Nat /\ w \in Nat \ {0}
  BY ElementsAssumption, WidthsAssumption
<1>2. Returned("takeArray", r, k, take)
  BY DEF ReadArray
<1>3. CASE Stream_available(stream) < k
  <2>1. r = ReadRefuse("Stream_NoAvailable", stream)
    BY <1>3 DEF readArray
  <2> HIDE DEF r, take
  <2>2. r.s = stream /\ r.res = "Stream_NoAvailable"
    BY <2>1 DEF ReadRefuse
  <2>3. k > Stream_available(stream)
    BY <1>1, <1>3, Allowances
  <2>4. stream' = r.s
    BY <1>2, CallIs
  <2> QED
    BY <1>2, <2>2, <2>3, <2>4, RejectStep
<1>4. CASE ~ (Stream_available(stream) < k)
  <2> HIDE DEF r, take
  <2>1. PICK f : Concats(f, take)
    <3>1. PICK at : TakesOneByOne(at, stream, k, w) /\ r = at[k]
      BY <1>1, <1>4, ReadArrayGoes DEF r
    <3>2. ReadInTurn(at, k, w)
      BY <1>1, <3>1, ReadOneByOne
    <3>3. Numbers(at[k].val, k, w)
      BY <3>2, Zenon DEF ReadInTurn
    <3> DEFINE v == r.val
    <3>4. Numbers(v, k, w) /\ take = [i \in DOMAIN v |-> inOrder(v[i])] /\ w \in Nat
      BY <1>1, <3>1, <3>3 DEF take
    <3> HIDE DEF v
    <3>5. take \in Seq(Seq(Byte))
      BY <1>1, <3>4, InOrderIs
    <3> QED
      BY <3>5, ConcatsExists
  <2>2. /\ r.res = "Stream_Ok" /\ take \in Seq(Seq(Byte)) /\ Len(take) = k
        /\ TakenSoFar(r.s, stream, take, f, k)
    <3>1. r = readArray(stream, k, w) /\ take = [i \in DOMAIN r.val |-> inOrder(r.val[i])]
      BY DEF r, take
    <3> QED
      BY <1>1, <1>4, <2>1, <3>1, ReadArrayTakes
  <2>3. PICK m \in 0 .. k :
          /\ Contents(stream) = f[m] \o Contents(r.s)
          /\ r.s.ReadLimit = Spent(stream.ReadLimit, Len(f[m]))
          /\ Len(f[m]) <= Stream_available(stream)
          /\ \A i \in m + 1 .. k : /\ Len(take[i]) > Stream_available(stream) - Len(f[m])
                                   /\ \A j \in DOMAIN take[i] : take[i][j] = 0
    BY <2>2 DEF TakenSoFar
  <2>4. Sound(r.s, Size) /\ r.s.WriteLimit = stream.WriteLimit
    BY <2>2 DEF TakenSoFar
  <2>5. /\ stream' = r.s /\ call'.op = "takeArray" /\ call'.res = "Stream_Ok"
        /\ call'.len = k /\ call'.val = take
    BY <1>2, <2>2, CallIs
  <2>6. FlattenSeq(SubSeq(take, 1, m)) = f[m]
    BY <2>1, <2>2, <2>3, FlattenIs
  <2> DEFINE p == FlattenSeq(SubSeq(take, 1, m))
  <2>7. /\ Len(p) <= Queue!available
        /\ Contents(stream) = p \o Contents(stream)'
        /\ stream'.ReadLimit = Queue!spend(stream.ReadLimit, Len(p))
        /\ stream'.WriteLimit = stream.WriteLimit
        /\ \A i \in m + 1 .. k : /\ Len(take[i]) > Queue!available - Len(p)
                                 /\ \A j \in DOMAIN take[i] : take[i][j] = 0
        /\ k <= Queue!available
    <3>1. p = f[m]
      BY <2>6
    <3> HIDE DEF p
    <3>2. Queue!available = Stream_available(stream)
          /\ \A l, n : Queue!spend(l, n) = Spent(l, n)
      BY QueueMeasures
    <3>3. Contents(stream)' = Contents(r.s)
      BY <2>5
    <3>4. k <= Stream_available(stream)
      BY <1>1, <1>4, Allowances
    <3> QED
      BY <2>3, <2>4, <2>5, <3>1, <3>2, <3>3, <3>4
  <2>8. \E n \in 0 .. call'.len :
          LET q == FlattenSeq(SubSeq(call'.val, 1, n))
          IN  /\ Len(q) <= Queue!available
              /\ Contents(stream) = q \o Contents(stream)'
              /\ stream'.ReadLimit = Queue!spend(stream.ReadLimit, Len(q))
              /\ \A i \in n + 1 .. call'.len :
                   /\ Len(call'.val[i]) > Queue!available - Len(q)
                   /\ \A j \in DOMAIN call'.val[i] : call'.val[i][j] = 0
    BY <2>3, <2>5, <2>7, Zenon
  <2>9. \A v : Queue!FlattenSeq(v) = FlattenSeq(v)
    BY Zenon DEF Queue!FlattenSeq, FlattenSeq
  <2>10. call'.len <= Queue!available /\ Len(call'.val) = call'.len
    BY <2>2, <2>5, <2>7
  <2>11. Queue!TakeArray
    BY <2>5, <2>7, <2>8, <2>9, <2>10, Zenon DEF Queue!TakeArray, Queue!accepted
  <2> QED
    BY <2>4, <2>5, <2>11
<1> QED
  BY <1>3, <1>4

\* A reader that stops takes the oldest bytes, or nothing.
LEMMA StopStep ==
  ASSUME Sound(stream, Size), NEW upTo \in Nat, NEW len \in Nat, NEW r,
         \/ r = readUpTo(stream, upTo, len)
         \/ r = Deliver(stream, <<>>),
         Returned("takeUntil", r, Len(r.val), r.val)
  PROVE  Sound(stream', Size) /\ (Queue!Take \/ Queue!Miss)
<1> USE SizeAssumption
<1> DEFINE n == IF len < upTo THEN len ELSE upTo
           t == Stream_readBytes(stream, n)
<1>1. n \in Nat
  OBVIOUS
<1>2. /\ stream' = r.s
      /\ call'.op = "takeUntil" /\ call'.res = r.res /\ call'.len = Len(r.val)
      /\ r.res = "Stream_Ok" => call'.val = r.val
  BY CallIs
<1>3. CASE r = Deliver(stream, <<>>)
  <2>1. r.s = stream /\ r.res = "Stream_Ok" /\ r.val = <<>>
    BY <1>3 DEF Deliver
  <2>2. UNCHANGED <<Contents(stream), stream.WriteLimit, stream.ReadLimit>>
    BY <1>2, <2>1
  <2> QED
    BY <1>2, <2>1, <2>2 DEF Queue!Miss, Queue!accepted
<1>4. CASE r = t /\ t.res = "Stream_Ok"
  <2>1. Sound(t.s, Size) /\ Takes(stream, t, n, t.val)
    BY <1>1, ReadSound, ReadBytesTakes
  <2> HIDE DEF t, n
  <2>2. /\ n > 0 /\ n <= Stream_available(stream) /\ n <= Len(Contents(stream))
        /\ r.val = SubSeq(Contents(stream), 1, n)
    BY <1>4, <2>1 DEF Takes
  <2>3. Len(r.val) = n
    <3> DEFINE c == Contents(stream)
    <3>1. c \in Seq(Byte) /\ n <= Len(c) /\ r.val = SubSeq(c, 1, n)
      BY <2>2, SpaceIs
    <3> HIDE DEF c, Byte
    <3> QED
      BY <1>1, <3>1
  <2>4. /\ n \in 1 .. Queue!available
        /\ stream'.ReadLimit = Queue!spend(stream.ReadLimit, n)
        /\ stream'.WriteLimit = stream.WriteLimit
        /\ Contents(stream)' = SubSeq(Contents(stream), n + 1, Len(Contents(stream)))
    <3>1. /\ r.s.ReadLimit = Spent(stream.ReadLimit, n)
          /\ r.s.WriteLimit = stream.WriteLimit
          /\ Contents(r.s) = SubSeq(Contents(stream), n + 1, Len(Contents(stream)))
      BY <1>4, <2>1 DEF Takes
    <3>2. n \in 1 .. Queue!available
      BY <1>1, <2>2, QueueMeasures, Allowances
    <3> QED
      BY <1>2, <3>1, <3>2, QueueMeasures
  <2>5. Queue!Take
    BY <1>2, <1>4, <2>2, <2>3, <2>4 DEF Queue!Take, Queue!accepted
  <2> QED
    BY <1>2, <1>4, <2>1, <2>5
<1>5. r = Deliver(stream, <<>>) \/ (r = t /\ t.res = "Stream_Ok")
  BY DEF readUpTo
<1> QED
  BY <1>3, <1>4, <1>5

\* A byte that findByte finds is at a place.
LEMMA FoundIsAPlace ==
  ASSUME NEW s, Sound(s, Size), NEW val, Stream_findByte(s, val) >= 0
  PROVE  Stream_findByte(s, val) \in Nat
<1> USE SizeAssumption
<1> DEFINE dir    == Stream_directAvailable(s)
           first  == memchr(s.Data, s.RPos, val, dir)
           second == memchr(s.Data, 0, val, s.WPos)
           at     == Stream_findByte(s, val)
<1>1. /\ Size \in Nat /\ s.Size = Size /\ s.RPos \in 0 .. Size - 1
      /\ s.WPos \in 0 .. Size - 1 /\ dir \in Int
  <2>1. dir \in 0 .. Stream_availableReal(s)
    BY DirectAvailableIs
  <2>2. dir \in Int
    BY <2>1
  <2> HIDE DEF dir
  <2> QED
    BY <2>2, Types, MaxLenAssumption DEF Sound
<1>2. first \in Int
  <2> DEFINE d == s.Data
             r == s.RPos
  <2>1. r \in Nat
    BY <1>1
  <2> HIDE DEF d, r, dir
  <2>2. Searched(d, r, val, dir, memchr(d, r, val, dir))
    BY <1>1, <2>1, SearchIs
  <2> QED
    BY <1>1, <2>2 DEF Searched, NotFound, d, r
<1>3. second \in Int
  <2> DEFINE d == s.Data
             w == s.WPos
  <2>1. w \in Int
    BY <1>1
  <2>2. PICK o \in Nat : o = 0
    OBVIOUS
  <2> HIDE DEF d, w
  <2>3. Searched(d, o, val, w, memchr(d, o, val, w))
    BY <2>1, SearchIs
  <2> QED
    BY <2>1, <2>2, <2>3 DEF Searched, NotFound, d, w
<1>4. at = CASE Stream_available(s) = 0 -> NotFound
             [] Stream_available(s) # 0 /\ first # NotFound -> first
             [] OTHER -> IF s.Overflow = 1 /\ second # NotFound
                         THEN second + s.Size - s.RPos ELSE NotFound
  BY Zenon DEF Stream_findByte
<1>5. at \in {NotFound, first, second + s.Size - s.RPos}
  <2> HIDE DEF first, second, at
  <2> QED
    BY <1>4
<1>6. at \in Int
  <2> HIDE DEF first, second, at
  <2> QED
    BY <1>1, <1>2, <1>3, <1>5 DEF NotFound
<1> QED
  BY <1>6

\* The operations that are made of several calls keep the stream sound, and
\* each is an action of the queue.
LEMMA CallsStep ==
  ASSUME HalfRange(Size), Sound(stream, Size),
         \/ \E vals \in Arrays : WriteArray(vals)
         \/ \E n \in 0 .. MaxElements, width \in Widths : ReadArray(n, width)
         \/ \E end \in Byte, len \in Lens : ReadBytesUntil(end, len)
         \/ \E pat \in Patterns, len \in Lens : ReadBytesUntilPattern(pat, len)
  PROVE  Sound(stream', Size) /\ Queue!Next
<1> USE SizeAssumption
<1>1. CASE \E vals \in Arrays : WriteArray(vals)
  BY <1>1, WriteArrayStep DEF Queue!Next
<1>2. CASE \E n \in 0 .. MaxElements, width \in Widths : ReadArray(n, width)
  BY <1>2, ReadArrayStep DEF Queue!Next
<1>3. ASSUME NEW end \in Byte, NEW len \in Lens, ReadBytesUntil(end, len)
      PROVE  Sound(stream', Size) /\ Queue!Next
  <2> DEFINE at == Stream_findByte(stream, end)
             r  == Stream_readBytesUntil(stream, end, len)
  <2>1. len \in Nat
    BY Arguments
  <2>2. Returned("takeUntil", r, Len(r.val), r.val)
    BY <1>3 DEF ReadBytesUntil
  <2>3. r = IF at >= 0 THEN readUpTo(stream, at + 1, len) ELSE Deliver(stream, <<>>)
    BY DEF Stream_readBytesUntil
  <2>4. at >= 0 => at + 1 \in Nat
    <3>1. at >= 0 => at \in Nat
      BY FoundIsAPlace
    <3> HIDE DEF at
    <3> QED
      BY <3>1
  <2> HIDE DEF at, r
  <2>5. CASE at >= 0
    BY <2>1, <2>2, <2>3, <2>4, <2>5, StopStep DEF Queue!Next
  <2>6. CASE ~ (at >= 0)
    <3>1. PICK upTo \in Nat : upTo = 0
      OBVIOUS
    <3>2. r = Deliver(stream, <<>>)
      BY <2>3, <2>6
    <3> QED
      BY <2>1, <2>2, <3>2, StopStep DEF Queue!Next
  <2> QED
    BY <2>5, <2>6
<1>4. ASSUME NEW pat \in Patterns, NEW len \in Lens, ReadBytesUntilPattern(pat, len)
      PROVE  Sound(stream', Size) /\ Queue!Next
  <2> DEFINE at == Stream_findPattern(stream, pat)
             k  == Len(pat)
             r  == Stream_readBytesUntilPattern(stream, pat, len)
  <2>1. len \in Nat /\ k \in Nat
    BY Arguments, PatternsAre
  <2>2. Returned("takeUntil", r, Len(r.val), r.val)
    BY <1>4 DEF ReadBytesUntilPattern
  <2>3. r = IF at >= 0 THEN readUpTo(stream, at + k, len) ELSE Deliver(stream, <<>>)
    BY DEF Stream_readBytesUntilPattern
  <2>4. at >= 0 => at + k \in Nat
    <3> DEFINE b == Allowed
    <3>1. at = FirstFrom(b, pat, 0)
      BY SearchingIsRight DEF FindsFirst
    <3>2. PICK o \in Nat : o = 0
      OBVIOUS
    <3> HIDE DEF b, at, k
    <3>3. at = NotFound \/ at \in PlacesOf(b, pat, o)
      BY <3>1, <3>2, FirstFromIs
    <3>4. at = NotFound \/ at \in Nat
      BY <3>2, <3>3 DEF PlacesOf
    <3> QED
      BY <2>1, <3>4 DEF NotFound
  <2> HIDE DEF at, r, k
  <2>5. CASE at >= 0
    BY <2>1, <2>2, <2>3, <2>4, <2>5, StopStep DEF Queue!Next
  <2>6. CASE ~ (at >= 0)
    <3>1. PICK upTo \in Nat : upTo = 0
      OBVIOUS
    <3>2. r = Deliver(stream, <<>>)
      BY <2>3, <2>6
    <3> QED
      BY <2>1, <2>2, <3>2, StopStep DEF Queue!Next
  <2> QED
    BY <2>5, <2>6
<1> QED
  BY <1>1, <1>2, <1>3, <1>4

\* Every call of the program leaves a sound stream sound.
LEMMA NextCallSound ==
  ASSUME HalfRange(Size), Sound(stream, Size), [NextCall]_vars, ~ MovesUncharged
  PROVE  Sound(stream', Size)
<1>1. CASE [Next]_vars
  BY <1>1, NextSound
<1>2. CASE NextCall /\ ~ Next
  BY <1>2, CallsStep DEF NextCall
<1> QED
  BY <1>1, <1>2

\* Every call of the program is a step of the queue, or leaves it alone.
LEMMA NextCallQueue ==
  ASSUME HalfRange(Size), Inv, [NextCall]_vars
  PROVE  [Queue!Next]_(Queue!qvars)
<1>1. CASE [Next]_vars
  BY <1>1, NextQueue
<1>2. CASE NextCall /\ ~ Next
  BY <1>2, InvIsSound, CallsStep DEF NextCall
<1> QED
  BY <1>1, <1>2

-----------------------------------------------------------------------------
(* The theorems.  CallsSpec has every step of Spec of StreamOps.            *)

\* A program that calls no operation made of several calls is one of those that
\* the theorems are about.
LEMMA FewerCalls == Spec => CallsSpec
<1>1. [Next]_vars => [NextCall]_vars
  BY DEF NextCall
<1> QED
  BY <1>1, PTL DEF Spec, CallsSpec

\* From a state in which everything is in order, every call leaves types,
\* positions and flag in order, and, but for the uncharged moves, the limits.
LEMMA NextAgrees ==
  ASSUME HalfRange(Size), Inv, [NextCall]_vars
  PROVE  /\ TypeOK' /\ PositionsAgree'
         /\ ~ MovesUncharged => LimitsHold'
<1>1. Sound(stream, Size)
  BY InvIsSound
<1>2. CASE ~ MovesUncharged
  <2>1. Sound(stream', Size)
    BY <1>1, <1>2, NextCallSound
  <2> QED
    BY <2>1 DEF TypeOK, PositionsAgree, LimitsHold, Sound
<1>3. CASE MovesUncharged
  BY <1>1, <1>3, UnchargedAgrees DEF TypeOK, PositionsAgree
<1> QED
  BY <1>2, <1>3

LEMMA InitInv == Init => Inv
  BY SizeAssumption, InitSound, InvIsSound DEF Init

\* For every size of the buffer up to half the range of Stream_LenType and every
\* program: as long as the limits promise only bytes that are there, the struct
\* keeps its types and the flag agrees with the positions (StreamBuffer.c, all
\* operations).
THEOREM StreamInvariant ==
  ASSUME HalfRange(Size)
  PROVE  CallsSpec /\ []LimitsHold => []Inv
<1>1. Inv /\ [NextCall]_vars /\ LimitsHold' => Inv'
  BY NextAgrees DEF Inv
<1> QED
  BY InitInv, <1>1, PTL DEF CallsSpec

\* Whatever is called, both positions stay inside the buffer, the limits inside
\* their range and every byte of the buffer a byte (struct Stream, StreamBuffer.h),
\* as long as the limits hold.
THEOREM StreamTyped ==
  ASSUME HalfRange(Size)
  PROVE  CallsSpec /\ []LimitsHold => []TypeOK
<1>1. Inv => TypeOK
  BY DEF Inv
<1> QED
  BY <1>1, StreamInvariant, PTL

\* Whatever is called, the overflow flag that writers set and readers clear tells
\* a full ring from an empty one and a wrapped one from a straight one, as long as
\* the limits hold.
THEOREM PositionsAlwaysAgree ==
  ASSUME HalfRange(Size)
  PROVE  CallsSpec /\ []LimitsHold => []PositionsAgree
<1>1. Inv => PositionsAgree
  BY DEF Inv
<1> QED
  BY <1>1, StreamInvariant, PTL

\* For every program and every size of the buffer up to half the range of
\* Stream_LenType: from a state in which everything is in order no call makes a
\* limit promise what is not there, but a move under its own limit and a reset or
\* clear under a read limit; and these, too, leave types, positions and flag in
\* order (all operations of StreamBuffer.c, and moveWritePos, moveReadPos, reset,
\* resetIO, clear).
THEOREM LimitsBreakNoOtherWay ==
  ASSUME HalfRange(Size)
  PROVE  CallsSpec => /\ LimitsBreakOnlyByMoves
                      /\ [][Inv => TypeOK' /\ PositionsAgree']_vars
<1>1. Inv /\ [NextCall]_vars =>
        /\ ~ LimitsHold' /\ Inv => MovesUncharged
        /\ TypeOK' /\ PositionsAgree'
  BY NextAgrees
<1> QED
  BY <1>1, PTL DEF CallsSpec, LimitsBreakOnlyByMoves

\* A program that keeps from these calls while the limit in question is set has
\* limits that hold for ever, and with them all the rest (Stream_spaceLimit,
\* Stream_availableLimit).
THEOREM LimitsAlwaysHold ==
  ASSUME HalfRange(Size)
  PROVE  CallsSpec /\ [][~ MovesUncharged]_vars => []Inv
<1>1. Inv /\ [NextCall]_vars /\ [~ MovesUncharged]_vars => Inv'
  <2> SUFFICES ASSUME Inv, [NextCall]_vars, [~ MovesUncharged]_vars PROVE Inv'
    OBVIOUS
  <2>1. CASE ~ MovesUncharged
    BY <2>1, NextAgrees DEF Inv
  <2>2. CASE UNCHANGED vars
    BY <2>2 DEF vars, Inv, TypeOK, PositionsAgree, LimitsHold
  <2> QED
    BY <2>1, <2>2
<1> QED
  BY InitInv, <1>1, PTL DEF CallsSpec

\* For every size of the buffer up to half the range of Stream_LenType, every
\* range of bytes and every program, as long as the limits hold, the ring of
\* StreamBuffer.c is a bounded queue: the bytes that are delivered are the oldest,
\* in order or, by the reversing calls, in the opposite one; none is lost, repeated
\* or altered wherever the ring ends; and a call is refused only for want of
\* length, of room or of bytes.  An array is queued up to the first number that
\* does not fit, one that is read ends in zeros from the first number that is not
\* all there, and a reader that looks for an end takes the oldest bytes or none.
THEOREM StreamIsAQueue ==
  ASSUME HalfRange(Size)
  PROVE  CallsSpec /\ []LimitsHold => ImplementsQueue
<1>1. Init => Queue!Init
  BY InitQueue
<1>2. Inv /\ [NextCall]_vars => [Queue!Next]_(Queue!qvars)
  BY NextCallQueue
<1> QED
  BY <1>1, <1>2, StreamInvariant, PTL DEF CallsSpec, ImplementsQueue, Queue!Spec

\* In every state the program can reach while the limits hold, wherever the ring
\* ends: the get functions deliver what a read would deliver and are refused when
\* a read would be; compare says equal of equal bytes only, whatever the conversion
\* of memcmp's result to int8_t makes of a difference, and which are greater as
\* long as the first two that differ do so by less than half of the range; and the
\* direct functions name the longest row of bytes or of free places that starts at
\* an index (the get, compare and direct functions of StreamBuffer.c).
THEOREM LooksAreRight ==
  ASSUME HalfRange(Size)
  PROVE  CallsSpec /\ []LimitsHold => []LooksAhead
<1>1. Inv => LooksAhead
  BY InvIsSound, GettingLooksAhead, ComparingIsRight, RowsLookAhead DEF LooksAhead
<1> QED
  BY <1>1, StreamInvariant, PTL

\* In every such state the find functions answer with the first place at or after
\* the offset where the pattern lies among the bytes that may be read, though their
\* loop is given places of two pieces of a ring, and readBytesUntil and its
\* relative deliver the bytes up to and with that place.
THEOREM SearchesAreRight ==
  ASSUME HalfRange(Size)
  PROVE  CallsSpec /\ []LimitsHold => []FindsAndStops
<1>1. Inv => FindsAndStops
  BY InvIsSound, SearchingIsRight, StoppingIsRight DEF FindsAndStops
<1> QED
  BY <1>1, StreamInvariant, PTL
=============================================================================
