----------------------------- MODULE StreamLock -----------------------------
(***************************************************************************)
(* The locks of StreamBuffer.c.  A writer takes a piece of the space with  *)
(* Stream_lockWrite, writes into the lock, a copy of the struct over the   *)
(* same bytes, and makes it all part of the stream with Stream_unlockWrite *)
(* or none of it with Stream_unlockWriteIgnore.  A reader does the same    *)
(* with bytes.  Meanwhile the other side goes on using the stream.         *)
(*                                                                         *)
(* The code records the locks but Stream_writeBytes and Stream_readBytes   *)
(* do not consult them.  The program modelled here keeps to what they are  *)
(* for: it does not write to a stream that it has locked for writing, nor  *)
(* read from one that it has locked for reading.  No limits are set.       *)
(***************************************************************************)
EXTENDS StreamBuffer

CONSTANTS
  Size,      \* bytes in the buffer
  LockLens   \* the lengths the program passes to lockWrite and lockRead

ASSUME SizeAssumption     == Size \in 1 .. MaxLen
ASSUME LockLensAssumption == LockLens \subseteq 0 .. Size

VARIABLES
  stream,
  wlock,    \* the copy that Stream_lockWrite filled, while WriteLocked
  rlock,    \* the copy that Stream_lockRead filled, while ReadLocked
  written,  \* the bytes written through wlock
  taken,    \* the bytes read through rlock
  call      \* the last operation as the users of the stream see it

vars == <<stream, wlock, rlock, written, taken, call>>

NoLock == <<>>

Call(op, len, val) == [op |-> op, res |-> "Stream_Ok", len |-> len, val |-> val]

Init ==
  /\ \E data \in [0 .. Size - 1 -> Byte] : stream = Stream_init(data, Size)
  /\ wlock = NoLock /\ rlock = NoLock
  /\ written = <<>> /\ taken = <<>>
  /\ call = Call("init", 0, <<>>)

\* The bytes themselves are shared by the stream and its locks.
Over(s, data) == [s EXCEPT !.Data = data]

-----------------------------------------------------------------------------
(* The writer. *)

\* Mutants: plausible bugs, each the code of the definition that follows it but
\* for one slip.  The name of a mutant ends in Mutant.
LockWriteUncheckedMutant(len) ==
  /\ ~ stream.WriteLocked
  /\ wlock' = Stream_flipWrite(stream, len)
  /\ stream' = [stream EXCEPT !.WriteLocked = TRUE]
  /\ written' = <<>>
  /\ UNCHANGED <<rlock, taken, call>>

\* Otherwise it returns Stream_NoSpace and changes nothing.
Stream_lockWrite(len) ==
  /\ Stream_space(stream) >= len /\ ~ stream.WriteLocked
  /\ wlock' = Stream_flipWrite(stream, len)
  /\ stream' = [stream EXCEPT !.WriteLocked = TRUE]
  /\ written' = <<>>
  /\ UNCHANGED <<rlock, taken, call>>

WriteInLock(val) ==
  /\ stream.WriteLocked
  /\ LET r == Stream_writeBytes(wlock, val) IN
     /\ r.res = "Stream_Ok"
     /\ wlock' = r.s
     /\ stream' = Over(stream, r.s.Data)
     /\ rlock' = IF stream.ReadLocked THEN Over(rlock, r.s.Data) ELSE rlock
     /\ written' = written \o val
  /\ UNCHANGED <<taken, call>>

UnlockWrite ==
  /\ stream.WriteLocked
  /\ stream' = Stream_unlockWrite(stream, wlock)
  /\ call' = IF written = <<>> THEN call ELSE Call("put", Len(written), written)
  /\ wlock' = NoLock /\ written' = <<>>
  /\ UNCHANGED <<rlock, taken>>

IgnoreNothingMutant ==
  /\ stream.WriteLocked
  /\ stream' = Stream_unlockWrite(stream, wlock)
  /\ wlock' = NoLock /\ written' = <<>>
  /\ UNCHANGED <<rlock, taken, call>>

Stream_unlockWriteIgnore ==
  /\ stream.WriteLocked
  /\ stream' = [stream EXCEPT !.WriteLocked = FALSE]
  /\ wlock' = NoLock /\ written' = <<>>
  /\ UNCHANGED <<rlock, taken, call>>

Write(val) ==
  /\ ~ stream.WriteLocked
  /\ LET r == Stream_writeBytes(stream, val) IN
     /\ r.res = "Stream_Ok"
     /\ stream' = r.s
     /\ rlock' = IF stream.ReadLocked THEN Over(rlock, r.s.Data) ELSE rlock
  /\ call' = Call("put", Len(val), val)
  /\ UNCHANGED <<wlock, written, taken>>

-----------------------------------------------------------------------------
(* The reader. *)

\* Otherwise it returns Stream_NoAvailable and changes nothing.
Stream_lockRead(len) ==
  /\ Stream_available(stream) >= len /\ ~ stream.ReadLocked
  /\ rlock' = Stream_flipRead(stream, len)
  /\ stream' = [stream EXCEPT !.ReadLocked = TRUE]
  /\ taken' = <<>>
  /\ UNCHANGED <<wlock, written, call>>

ReadInLock(len) ==
  /\ stream.ReadLocked
  /\ LET r == Stream_readBytes(rlock, len) IN
     /\ r.res = "Stream_Ok"
     /\ rlock' = r.s
     /\ taken' = taken \o r.val
  /\ UNCHANGED <<stream, wlock, written, call>>

UnlockRead ==
  /\ stream.ReadLocked
  /\ stream' = Stream_unlockRead(stream, rlock)
  /\ call' = IF taken = <<>> THEN call ELSE Call("take", Len(taken), taken)
  /\ rlock' = NoLock /\ taken' = <<>>
  /\ UNCHANGED <<wlock, written>>

Stream_unlockReadIgnore ==
  /\ stream.ReadLocked
  /\ stream' = [stream EXCEPT !.ReadLocked = FALSE]
  /\ rlock' = NoLock /\ taken' = <<>>
  /\ UNCHANGED <<wlock, written, call>>

Read(len) ==
  /\ ~ stream.ReadLocked
  /\ LET r == Stream_readBytes(stream, len) IN
     /\ r.res = "Stream_Ok"
     /\ stream' = r.s
     /\ call' = Call("take", len, r.val)
  /\ UNCHANGED <<wlock, rlock, written, taken>>

-----------------------------------------------------------------------------
Vals == UNION {[1 .. n -> Byte] : n \in 1 .. Size}

Next ==
  \/ \E len \in LockLens : Stream_lockWrite(len) \/ Stream_lockRead(len)
  \/ \E val \in Vals : WriteInLock(val) \/ Write(val)
  \/ \E len \in 1 .. Size : ReadInLock(len) \/ Read(len)
  \/ UnlockWrite \/ Stream_unlockWriteIgnore
  \/ UnlockRead \/ Stream_unlockReadIgnore

Spec == Init /\ [][Next]_vars

-----------------------------------------------------------------------------
TypeOK ==
  /\ stream \in Stream(Size)
  /\ stream.WriteLocked => wlock \in Stream(Size)
  /\ stream.ReadLocked => rlock \in Stream(Size)

\* "return number of byte write in lock" (StreamBuffer.c:2077): whatever the
\* other side read from the stream meanwhile, the length that unlockWrite
\* moves by is the number of bytes written through the lock.
LockWriteLenIsWritten ==
  stream.WriteLocked => Stream_lockWriteLen(stream, wlock) = Len(written)

\* "return number of bytes that read" (StreamBuffer.c:2136), the same for the
\* reader's lock.
LockReadLenIsTaken ==
  stream.ReadLocked => Stream_lockReadLen(stream, rlock) = Len(taken)

\* The space left in the writer's lock is free: it holds no byte of the stream
\* and none that was written through the lock.
LockedSpaceIsFree ==
  stream.WriteLocked =>
    Stream_spaceReal(wlock) + Len(written) + Stream_availableReal(stream) <= Size

\* What the reader's lock has delivered and still holds are the oldest bytes of
\* the stream: no writer, locked or not, gets at them meanwhile.
LockedBytesAreOldest ==
  stream.ReadLocked => IsPrefix(taken \o Contents(rlock), Contents(stream))

\* Both lengths that the unlocks move by count what was done through the lock,
\* whatever the other side did to the stream meanwhile.
LockLensAreDone == LockWriteLenIsWritten /\ LockReadLenIsTaken

\* Stream and locks keep their types, and each lock its piece of the ring to
\* itself: no writer, locked or not, writes where the reader's lock has bytes,
\* and the writer's lock has no byte of the stream.
LocksKeepTheirPlace == TypeOK /\ LockedSpaceIsFree /\ LockedBytesAreOldest

\* Users of the stream see a queue in which the bytes of a lock appear, or
\* disappear, all at once when it is unlocked, and not at all when the changes
\* are ignored: every other step with a lock leaves the queue as it is.
Queue == INSTANCE ByteQueue WITH
  Capacity   <- Size,
  Unlimited  <- NoLimit,
  q          <- Contents(stream),
  writeLimit <- stream.WriteLimit,
  readLimit  <- stream.ReadLimit

ImplementsQueue == Queue!Spec
=============================================================================
