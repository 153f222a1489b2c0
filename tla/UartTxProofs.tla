---------------------------- MODULE UartTxProofs ----------------------------
(***************************************************************************)
(* Theorems about UartTx: that no signal is lost, whatever overlaps; and,   *)
(* until the calls of the two threads overlap, that what is sent is, until *)
(* a send fails, the oldest bytes that were not, that the loop never       *)
(* writes over an unsent byte, and that a flush leaves no byte behind.     *)
(*                                                                         *)
(* The argument is that of UartRxProofs, for the other direction: there is *)
(* one request and one party that has it.  A failed send makes the sender  *)
(* send bytes twice, so the counts of TxIInv are bounds, and exact until   *)
(* then; and while there are bytes, somebody has a request for them or is  *)
(* on the way to make one.                                                 *)
(***************************************************************************)
EXTENDS UartTx, StreamLemmas

-----------------------------------------------------------------------------
(* The inductive invariant. *)

\* The places of each thread.
LoopPlaces   == {"loop", "flush", "request", "arm"}
SenderPlaces == {"lock", "test", "waiting", "send", "unlock", "complete", "handle",
                 "advance", "flush", "request", "arm"}

\* The variables have their types; the ring is sound and nothing limits it.
Typed ==
  /\ Sound(buf, Size) /\ NoLimits(buf)
  /\ outgoing \in 0 .. Size
  /\ tx \in [at : -MaxFailures .. Size, inTx : 0 .. Size + MaxFailures]
  /\ mutex \in {None, T} /\ signalled \in BOOLEAN
  /\ pc \in [Threads -> LoopPlaces \cup SenderPlaces]
  /\ pc[L] \in LoopPlaces /\ pc[T] \in SenderPlaces
  /\ len \in [Threads -> 0 .. Size] /\ at \in [Threads -> 0 .. Size - 1]
  /\ next \in Byte /\ unsent \in 0 .. Size
  /\ failures \in 0 .. MaxFailures
  /\ overlapped \in BOOLEAN /\ running \in BOOLEAN

\* The parts of the calls that must not overlap do not, and who holds the mutex
\* of the request.
Exclusive ==
  /\ ~ Overlapping
  /\ mutex = T <=> pc[T] \in {"test", "send", "unlock"}
  /\ pc[T] = "send" => tx.inTx > 0

\* The one request: a thread is about to make it, the sender has it, or has
\* finished it and not yet handled it.
Asking(t) == pc[t] = "arm"
Asked     == tx.inTx > 0
Finished  == pc[T] \in {"unlock", "complete", "handle"}

OneRequest ==
  /\ buf.InTransmit <=> Asking(L) \/ Asking(T) \/ Asked \/ Finished
  /\ Asking(L) => ~ Asking(T)
  /\ Asking(L) \/ Asking(T) => ~ Asked /\ ~ Finished
  /\ Asked => ~ Finished
  /\ \A t \in Threads : pc[t] = "request" => ~ buf.InTransmit
  /\ pc[T] \in {"advance", "flush"} => ~ buf.InTransmit

\* The bytes that the request covers, and how many of them are still to be sent:
\* a failed send makes the two differ by what it adds to the count.
Counts ==
  LET a == Stream_availableReal(buf) IN
  /\ Asking(L) => len[L] = outgoing /\ at[L] = buf.RPos /\ outgoing > 0
  /\ Asking(T) => len[T] = outgoing /\ at[T] = buf.RPos /\ outgoing > 0
  /\ buf.InTransmit \/ pc[T] = "advance" =>
       buf.RPos + outgoing <= Size /\ outgoing <= a
  /\ Asked => tx.at + tx.inTx = buf.RPos + outgoing
  /\ tx.at >= - failures
  /\ unsent <= a
  /\ Asked => unsent <= a - outgoing + tx.inTx
  /\ Finished \/ pc[T] = "advance" => unsent <= a - outgoing
  /\ pc[T] \in {"handle", "advance"} => len[T] = outgoing

\* Until a send has failed the counts are exact.
Exact ==
  LET a == Stream_availableReal(buf) IN
  failures = 0 =>
    /\ Asked => unsent = a - outgoing + tx.inTx
    /\ Finished \/ pc[T] = "advance" => unsent = a - outgoing
    /\ ~ (Asked \/ Finished \/ pc[T] = "advance") => unsent = a

\* The unsent bytes are the last ones of the ring.
InOrder ==
  LET a == Stream_availableReal(buf) IN
  \A i \in 1 .. unsent :
    Contents(buf)[a - unsent + i] = Number(i)

\* While there are bytes, somebody has a request for them or is going to make one.
Pending == \/ Stream_availableReal(buf) = 0
           \/ buf.InTransmit
           \/ pc[L] \in {"flush", "request"}
           \/ pc[T] \in {"advance", "flush", "request"}

TxIInv == /\ Typed /\ Exclusive /\ OneRequest /\ Counts /\ Exact /\ InOrder
          /\ SentInOrder /\ Pending /\ NoLostSignal
-----------------------------------------------------------------------------
(* The wakeup. *)

\* Where the threads are, whether or not the calls exclude one another.
Placed == /\ pc \in [Threads -> LoopPlaces \cup SenderPlaces]
          /\ pc[L] \in LoopPlaces /\ pc[T] \in SenderPlaces

PlacedInv == Placed /\ NoLostSignal

LEMMA PlacedStep ==
  ASSUME PlacedInv, [Next]_vars
  PROVE  PlacedInv'
<1> USE DEF PlacedInv, Placed, NoLostSignal, LoopPlaces, SenderPlaces, Threads, L, T, At, Goto, socket
<1>1. CASE Write
  BY <1>1 DEF Write
<1>3. ASSUME NEW t \in Threads, OStream_flush(t)
     PROVE  PlacedInv'
  BY <1>3 DEF OStream_flush, Return
<1>4. ASSUME NEW t \in Threads, RequestBytes(t)
     PROVE  PlacedInv'
  BY <1>4 DEF RequestBytes, Return
<1>5. ASSUME NEW t \in Threads, socketTransmit(t)
     PROVE  PlacedInv'
  BY <1>5 DEF socketTransmit, Return
<1>6. CASE Lock
  BY <1>6 DEF Lock
<1>7. CASE Test
  BY <1>7 DEF Test
<1>8. CASE Wake
  BY <1>8 DEF Wake
<1>9. CASE Send
  BY <1>9 DEF Send
<1>10. CASE Unlock
  BY <1>10 DEF Unlock
<1>11. CASE txHandle
  BY <1>11 DEF txHandle
<1>12. CASE OStream_handle
  BY <1>12 DEF OStream_handle, Return
<1>13. CASE HandleAdvance
  BY <1>13 DEF HandleAdvance, Return
<1>14. CASE SpuriousWake
  BY <1>14 DEF SpuriousWake
<1>15. CASE SendFailed
  BY <1>15 DEF SendFailed
<1>16. CASE Exit
  BY <1>16 DEF Exit
<1>17. CASE UNCHANGED vars
  BY <1>17 DEF vars
<1>18. L \in Threads /\ T \in Threads
  BY DEF Threads
<1> QED
  BY <1>1, <1>3, <1>4, <1>5, <1>6, <1>7, <1>8, <1>9, <1>10, <1>11, <1>12,
     <1>13, <1>14, <1>15, <1>16, <1>17, <1>18
  DEF Next, LoopFlushes, Sender

\* SendThread waits on txCond only while there is no request, and the thread that
\* leaves one (socketTransmit) signals: the sender is never left waiting with a
\* request it was not told of, however the threads interleave.
THEOREM SignalIsNotLost == Spec => []NoLostSignal
<1>1. Init => PlacedInv
  BY DEF Init, PlacedInv, Placed, NoLostSignal, LoopPlaces, SenderPlaces, Threads, L, T
<1>2. PlacedInv /\ [Next]_vars => PlacedInv'
  BY PlacedStep
<1>3. PlacedInv => NoLostSignal
  BY DEF PlacedInv
<1> QED
  BY <1>1, <1>2, <1>3, PTL DEF Spec

-----------------------------------------------------------------------------
(* What the steps that touch the ring do to it, when calls exclude another. *)

\* The types, as numbers.
LEMMA Numbers ==
  ASSUME TxIInv
  PROVE  /\ Size \in 1 .. MaxLen /\ Size \in Nat \ {0} /\ MaxLen \in Nat
         /\ MaxFailures \in Nat /\ failures \in 0 .. MaxFailures
         /\ Sound(buf, Size) /\ NoLimits(buf)
         /\ Stream_availableReal(buf) \in 0 .. Size
         /\ buf.WPos \in 0 .. Size - 1 /\ buf.RPos \in 0 .. Size - 1
         /\ buf.InTransmit \in BOOLEAN
         /\ outgoing \in 0 .. Size /\ unsent \in 0 .. Size
         /\ tx.at \in -MaxFailures .. Size /\ tx.inTx \in 0 .. Size + MaxFailures
         /\ len[L] \in 0 .. Size /\ len[T] \in 0 .. Size
         /\ at[L] \in 0 .. Size - 1 /\ at[T] \in 0 .. Size - 1
         /\ Bytes \in Nat \ {0} /\ Bytes > Size /\ next \in 0 .. Bytes - 1
<1>1. /\ Size \in 1 .. MaxLen /\ Size \in Nat \ {0} /\ MaxLen \in Nat
      /\ MaxFailures \in Nat /\ Bytes \in Nat \ {0} /\ Bytes > Size
  BY SizeAssumption, MaxLenAssumption, FailuresAssumption, BytesAssumption,
     NumberAssumption
<1>2. Sound(buf, Size) /\ buf \in Stream(Size)
  BY DEF TxIInv, Typed, Sound
<1>3. Stream_availableReal(buf) \in 0 .. Size
  BY <1>1, <1>2, WriterIsBehind
<1>4. buf.InTransmit \in BOOLEAN
  BY <1>2 DEF Stream
<1>5. L \in Threads /\ T \in Threads
  BY DEF Threads
<1> QED
  BY <1>1, <1>2, <1>3, <1>4, <1>5, Types DEF TxIInv, Typed, Byte

\* Nothing about the ring changes but the flag.
Flagged(b) == /\ Sound(buf', Size) /\ NoLimits(buf') /\ buf'.InTransmit = b
              /\ buf'.RPos = buf.RPos /\ Contents(buf') = Contents(buf)
              /\ Stream_availableReal(buf') = Stream_availableReal(buf)

LEMMA FlagStep ==
  ASSUME TxIInv, NEW b \in BOOLEAN, buf' = [buf EXCEPT !.InTransmit = b]
  PROVE  Flagged(b)
<1>1. Size \in 1 .. MaxLen /\ Sound(buf, Size) /\ NoLimits(buf)
  BY Numbers
<1>2. buf' \in Stream(Size) /\ SameRing(buf, buf') /\ buf'.Data = buf.Data
  BY <1>1, FlagSet
<1>3. buf'.InTransmit = b
  BY <1>1, TransmitSet
<1>4. /\ Sound(buf', Size) /\ NoLimits(buf')
      /\ Stream_availableReal(buf') = Stream_availableReal(buf)
  BY <1>1, <1>2, RingIsSame
<1>5. Contents(buf') = Contents(buf)
  BY <1>1, <1>2, <1>4, SameContents DEF SameRing
<1> QED
  BY <1>2, <1>3, <1>4, <1>5 DEF Flagged, SameRing

\* The bytes of one write of the loop.
Written(n) == [i \in 1 .. n |-> (next + i - 1) % Bytes]

\* A write puts n bytes behind the others, or does nothing.
LEMMA WriteIs ==
  ASSUME TxIInv, Write
  PROVE  /\ Sound(buf', Size) /\ NoLimits(buf')
         /\ buf'.RPos = buf.RPos /\ buf'.InTransmit = buf.InTransmit
         /\ \/ buf' = buf /\ next' = next /\ unsent' = unsent
            \/ \E n \in 1 .. Size :
                 /\ Contents(buf') = Contents(buf) \o Written(n)
                 /\ Written(n) \in Seq(Byte) /\ Len(Written(n)) = n
                 /\ Stream_availableReal(buf') = Stream_availableReal(buf) + n
                 /\ next' = (next + n) % Bytes /\ unsent' = unsent + n
<1>1. PICK n \in 1 .. Size :
        LET r == Stream_writeBytes(buf, Written(n))
        IN  /\ buf' = r.s
            /\ IF r.res = "Stream_Ok"
               THEN next' = (next + n) % Bytes /\ unsent' = unsent + n
               ELSE UNCHANGED <<next, unsent>>
  BY DEF Write, Written
<1> DEFINE r == Stream_writeBytes(buf, Written(n))
<1>2. Written(n) \in Seq(Byte) /\ Len(Written(n)) = n
  <2>1. \A i \in 1 .. n : (next + i - 1) % Bytes \in Byte
    <3> TAKE i \in 1 .. n
    <3> DEFINE s == next + i - 1
    <3>1. s \in Int /\ Bytes \in Nat \ {0}
      BY Numbers
    <3> HIDE DEF s
    <3>2. s % Bytes \in 0 .. Bytes - 1
      BY <3>1
    <3> QED
      BY <3>2 DEF s, Byte
  <2>2. n \in Nat
    BY Numbers
  <2> QED
    BY <2>1, <2>2 DEF Written
<1>3. /\ Sound(r.s, Size) /\ NoLimits(r.s)
      /\ r.s.RPos = buf.RPos /\ Aside(r.s) = Aside(buf)
      /\ r.res # "Stream_Ok" => r.s = buf
      /\ r.res = "Stream_Ok" =>
           /\ Contents(r.s) = Contents(buf) \o Written(n)
           /\ Stream_availableReal(r.s) = Stream_availableReal(buf) + Len(Written(n))
  <2>1. Size \in 1 .. MaxLen /\ Sound(buf, Size) /\ NoLimits(buf)
    BY Numbers
  <2> DEFINE v == Written(n)
  <2>2. v \in Seq(Byte)
    BY <1>2
  <2>3. r = Stream_writeBytes(buf, v)
    OBVIOUS
  <2> HIDE DEF v, r
  <2>4. /\ Sound(r.s, Size) /\ NoLimits(r.s)
        /\ r.s.RPos = buf.RPos /\ Aside(r.s) = Aside(buf)
        /\ r.res # "Stream_Ok" => r.s = buf
        /\ r.res = "Stream_Ok" =>
             /\ Contents(r.s) = Contents(buf) \o v
             /\ Stream_availableReal(r.s) = Stream_availableReal(buf) + Len(v)
    BY <2>1, <2>2, <2>3, WriteBytesIs
  <2> QED
    BY <2>4 DEF v
<1>4. /\ buf' = r.s
      /\ r.res = "Stream_Ok" => next' = (next + n) % Bytes /\ unsent' = unsent + n
      /\ r.res # "Stream_Ok" => next' = next /\ unsent' = unsent
  BY <1>1
<1> HIDE DEF r
<1>5. r.s.InTransmit = buf.InTransmit
  BY <1>3 DEF Aside
<1>6. CASE r.res = "Stream_Ok"
  BY <1>2, <1>3, <1>4, <1>5, <1>6
<1>7. CASE r.res # "Stream_Ok"
  BY <1>3, <1>4, <1>5, <1>7
<1> QED
  BY <1>6, <1>7

\* OStream_flush asks for the whole piece of bytes.
LEMMA RequestIs ==
  ASSUME TxIInv, NEW t \in Threads, RequestBytes(t)
  PROVE  \E n \in 0 .. Size :
           /\ buf.RPos + n <= Size /\ n <= Stream_availableReal(buf)
           /\ outgoing' = n /\ len' = [len EXCEPT ![t] = n]
           /\ at' = [at EXCEPT ![t] = buf.RPos]
           /\ \/ /\ n > 0 /\ Flagged(TRUE)
                 /\ pc' = [pc EXCEPT ![t] = "arm"]
              \/ /\ n = 0 /\ buf' = buf /\ Return(t)
                 /\ Stream_availableReal(buf) = 0
<1> DEFINE n == Stream_directAvailable(buf)
<1>1. /\ n \in 0 .. Size /\ buf.RPos + n <= Size
      /\ n <= Stream_availableReal(buf)
      /\ n = 0 => Stream_availableReal(buf) = 0
  BY DirectAvailableIs, Numbers
<1>2. /\ outgoing' = n /\ len' = [len EXCEPT ![t] = n]
      /\ at' = [at EXCEPT ![t] = buf.RPos]
      /\ \/ n > 0 /\ buf' = [buf EXCEPT !.InTransmit = TRUE] /\ Goto(t, "arm")
         \/ n <= 0 /\ UNCHANGED buf /\ Return(t)
  BY DEF RequestBytes
<1> HIDE DEF n
<1>3. buf' = [buf EXCEPT !.InTransmit = TRUE] => Flagged(TRUE)
  BY FlagStep
<1>4. \/ /\ n > 0 /\ Flagged(TRUE)
         /\ pc' = [pc EXCEPT ![t] = "arm"]
      \/ /\ n = 0 /\ buf' = buf /\ Return(t)
         /\ Stream_availableReal(buf) = 0
  <2>1. n <= 0 => n = 0
    BY <1>1
  <2> QED
    BY <1>1, <1>2, <1>3, <2>1 DEF Goto
<1>5. n \in 0 .. Size
  BY <1>1
<1> WITNESS n \in 0 .. Size
<1> QED
  BY <1>1, <1>2, <1>4

\* OStream_handle moves over the bytes of the request.
LEMMA AdvanceIs ==
  ASSUME TxIInv, HandleAdvance
  PROVE  /\ Sound(buf', Size) /\ NoLimits(buf')
         /\ buf'.InTransmit = buf.InTransmit
         /\ Stream_availableReal(buf') = Stream_availableReal(buf) - outgoing
         /\ Contents(buf') = SubSeq(Contents(buf), outgoing + 1, Len(Contents(buf)))
         /\ pc' = [pc EXCEPT ![T] = "flush"]
<1> DEFINE r == Stream_moveReadPos(buf, outgoing)
<1>1. pc[T] = "advance"
  BY DEF HandleAdvance, At
<1>2. /\ len[T] = outgoing /\ outgoing \in Nat
      /\ buf.RPos + outgoing <= Size /\ outgoing <= Stream_availableReal(buf)
  BY <1>1, Numbers DEF TxIInv, Counts
<1>3. /\ r.res = "Stream_Ok"
      /\ Sound(r.s, Size) /\ NoLimits(r.s)
      /\ r.s.Data = buf.Data /\ r.s.WPos = buf.WPos /\ Aside(r.s) = Aside(buf)
      /\ Stream_availableReal(r.s) = Stream_availableReal(buf) - outgoing
      /\ Further(buf.RPos, outgoing, r.s.RPos, Size)
  BY <1>2, Numbers, ReaderMovesOver
<1>4. Contents(r.s) = SubSeq(Contents(buf), outgoing + 1, Len(Contents(buf)))
  BY <1>2, <1>3, Numbers, Drops
<1>5. buf' = r.s /\ Goto(T, "flush")
  BY <1>2, <1>3 DEF HandleAdvance
<1> QED
  BY <1>3, <1>4, <1>5 DEF Goto, Aside

\* What a send does to the counts.
LEMMA SendIs ==
  ASSUME TxIInv, Send
  PROVE  \E n \in 1 .. tx.inTx :
           /\ tx' = [at |-> tx.at + n, inTx |-> tx.inTx - n]
           /\ unsent' = unsent - Min2(n, unsent)
           /\ pc' = [pc EXCEPT ![T] = IF tx.inTx = n THEN "unlock" ELSE "send"]
  BY DEF Send, Goto
-----------------------------------------------------------------------------
(* Who is in a call, and who has the request. *)

LEMMA ExclusiveStep ==
  ASSUME TxIInv, [Next]_vars, ~ overlapped'
  PROVE  Exclusive'
<1>0. Placed /\ Exclusive /\ mutex \in {None, T}
      /\ tx.inTx \in Nat
  BY Numbers DEF TxIInv, Typed, Placed
<1> USE <1>0 DEF Placed, Exclusive, Overlapping, Handling, Requesting, LoopPlaces, SenderPlaces,
            Threads, L, T, None, At, Goto, socket, rest
<1>1. CASE Write
  BY <1>1 DEF Write
<1>3. ASSUME NEW t \in Threads, OStream_flush(t)
     PROVE  Exclusive'
  BY <1>3 DEF OStream_flush, Return
<1>4. ASSUME NEW t \in Threads, RequestBytes(t)
     PROVE  Exclusive'
  BY <1>4 DEF RequestBytes, Return
<1>5. ASSUME NEW t \in Threads, socketTransmit(t)
     PROVE  Exclusive'
  BY <1>5 DEF socketTransmit, Return
<1>6. CASE Lock
  BY <1>6 DEF Lock
<1>7. CASE Test
  BY <1>7 DEF Test
<1>8. CASE Wake
  BY <1>8 DEF Wake
<1>9. CASE Send
  <2>1. PICK n \in 1 .. tx.inTx :
          /\ tx' = [at |-> tx.at + n, inTx |-> tx.inTx - n]
          /\ pc' = [pc EXCEPT ![T] = IF tx.inTx = n THEN "unlock" ELSE "send"]
    BY <1>9, SendIs
  <2>2. mutex' = mutex /\ buf' = buf /\ pc[T] = "send"
    BY <1>9 DEF Send, stream
  <2>3. /\ tx'.inTx = tx.inTx - n /\ tx.inTx > 0
        /\ tx.inTx = n => tx'.inTx = 0
        /\ tx.inTx # n => tx'.inTx > 0
    BY <2>1
  <2>4. CASE tx.inTx = n
    BY <2>1, <2>2, <2>3, <2>4
  <2>5. CASE tx.inTx # n
    BY <2>1, <2>2, <2>3, <2>5
  <2> QED
    BY <2>4, <2>5
<1>10. CASE Unlock
  BY <1>10 DEF Unlock
<1>11. CASE txHandle
  BY <1>11 DEF txHandle
<1>12. CASE OStream_handle
  BY <1>12 DEF OStream_handle, Return
<1>13. CASE HandleAdvance
  BY <1>13 DEF HandleAdvance, Return
<1>14. CASE SpuriousWake
  BY <1>14 DEF SpuriousWake
<1>15. CASE SendFailed
  <2>1. tx'.inTx = tx.inTx + 1 /\ tx.inTx > 0
    BY <1>15 DEF SendFailed
  <2> QED
    BY <1>15, <2>1 DEF SendFailed, stream
<1>16. CASE Exit
  BY <1>16 DEF Exit
<1>17. CASE UNCHANGED vars
  BY <1>17 DEF vars
<1>18. L \in Threads /\ T \in Threads
  BY DEF Threads
<1> QED
  BY <1>1, <1>3, <1>4, <1>5, <1>6, <1>7, <1>8, <1>9, <1>10, <1>11, <1>12,
     <1>13, <1>14, <1>15, <1>16, <1>17, <1>18
  DEF Next, LoopFlushes, Sender

LEMMA OneRequestStep ==
  ASSUME TxIInv, [Next]_vars, ~ overlapped'
  PROVE  OneRequest'
<1>0. Placed /\ Exclusive /\ OneRequest
      /\ mutex \in {None, T} /\ tx.inTx \in Nat /\ buf.InTransmit \in BOOLEAN
  BY Numbers DEF TxIInv, Typed, Placed
<1> USE <1>0 DEF Placed, Exclusive, Overlapping, Handling, Requesting, OneRequest, Asking, Asked, Finished, LoopPlaces,
            SenderPlaces, Threads, L, T, None, At, Goto,
            stream, socket, rest
<1>1. CASE Write
  <2>1. buf'.InTransmit = buf.InTransmit
    BY <1>1, WriteIs
  <2> QED
    BY <1>1, <2>1 DEF Write
<1>3. ASSUME NEW t \in Threads, OStream_flush(t)
     PROVE  OneRequest'
  BY <1>3 DEF OStream_flush, Return
<1>4. ASSUME NEW t \in Threads, RequestBytes(t)
     PROVE  OneRequest'
  <2>1. /\ pc[t] = "request" /\ tx' = tx /\ mutex' = mutex
        /\ \/ /\ buf'.InTransmit = TRUE
              /\ pc' = [pc EXCEPT ![t] = "arm"]
           \/ buf' = buf /\ Return(t)
    BY <1>4, RequestIs DEF RequestBytes, Flagged
  <2>2. ~ buf.InTransmit
    BY <2>1
  <2> QED
    BY <2>1, <2>2 DEF Return
<1>5. ASSUME NEW t \in Threads, socketTransmit(t)
     PROVE  OneRequest'
  <2>1. tx'.inTx = len[t] /\ pc[t] = "arm" /\ mutex = None
    BY <1>5 DEF socketTransmit
  <2>2. len[t] > 0
    BY <2>1 DEF TxIInv, Counts
  <2> QED
    BY <1>5, <2>1, <2>2 DEF socketTransmit, Return
<1>6. CASE Lock
  BY <1>6 DEF Lock
<1>7. CASE Test
  BY <1>7 DEF Test
<1>8. CASE Wake
  BY <1>8 DEF Wake
<1>9. CASE Send
  <2>1. PICK n \in 1 .. tx.inTx :
          /\ tx' = [at |-> tx.at + n, inTx |-> tx.inTx - n]
          /\ pc' = [pc EXCEPT ![T] = IF tx.inTx = n THEN "unlock" ELSE "send"]
    BY <1>9, SendIs
  <2>2. mutex' = mutex /\ buf' = buf /\ pc[T] = "send"
    BY <1>9 DEF Send, stream
  <2>3. /\ tx'.inTx = tx.inTx - n /\ tx.inTx > 0
        /\ tx.inTx = n => tx'.inTx = 0
        /\ tx.inTx # n => tx'.inTx > 0
    BY <2>1
  <2>4. CASE tx.inTx = n
    BY <2>1, <2>2, <2>3, <2>4
  <2>5. CASE tx.inTx # n
    BY <2>1, <2>2, <2>3, <2>5
  <2> QED
    BY <2>4, <2>5
<1>10. CASE Unlock
  BY <1>10 DEF Unlock
<1>11. CASE txHandle
  BY <1>11 DEF txHandle
<1>12. CASE OStream_handle
  <2>1. /\ pc[T] = "handle" /\ tx' = tx
        /\ buf.InTransmit => buf'.InTransmit = FALSE
    BY <1>12, FlagStep DEF OStream_handle, Flagged
  <2> QED
    BY <1>12, <2>1 DEF OStream_handle, Return
<1>13. CASE HandleAdvance
  <2>1. /\ buf'.InTransmit = buf.InTransmit /\ pc[T] = "advance" /\ tx' = tx
        /\ pc' = [pc EXCEPT ![T] = "flush"]
    BY <1>13, AdvanceIs DEF HandleAdvance
  <2> QED
    BY <2>1
<1>14. CASE SpuriousWake
  BY <1>14 DEF SpuriousWake
<1>15. CASE SendFailed
  <2>1. tx'.inTx = tx.inTx + 1 /\ tx.inTx > 0
    BY <1>15 DEF SendFailed
  <2> QED
    BY <1>15, <2>1 DEF SendFailed, stream
<1>16. CASE Exit
  BY <1>16 DEF Exit
<1>17. CASE UNCHANGED vars
  BY <1>17 DEF vars
<1>18. L \in Threads /\ T \in Threads
  BY DEF Threads
<1> QED
  BY <1>1, <1>3, <1>4, <1>5, <1>6, <1>7, <1>8, <1>9, <1>10, <1>11, <1>12,
     <1>13, <1>14, <1>15, <1>16, <1>17, <1>18
  DEF Next, LoopFlushes, Sender
-----------------------------------------------------------------------------
(* The types and the counts. *)

\* What has overlapped stays so.
LEMMA OverlapStays ==
  ASSUME [Next]_vars
  PROVE  /\ overlapped => overlapped'
         /\ overlapped \in BOOLEAN => overlapped' \in BOOLEAN
<1>1. (overlapped' = (overlapped \/ Overlapping')) \/ overlapped' = overlapped
  BY DEF Next, LoopFlushes, Sender, Goto, Write, OStream_flush, RequestBytes,
         socketTransmit, Return, Lock, Test, Wake, Send, Unlock, txHandle,
         OStream_handle, HandleAdvance, SpuriousWake, SendFailed, Exit, vars
<1>2. (overlapped \/ Overlapping') \in BOOLEAN
  OBVIOUS
<1>3. overlapped \in BOOLEAN => overlapped' \in BOOLEAN
  <2>1. CASE overlapped' = (overlapped \/ Overlapping')
    BY <1>2, <2>1
  <2>2. CASE overlapped' = overlapped
    BY <2>2
  <2> QED
    BY <1>1, <2>1, <2>2
<1>4. ASSUME overlapped PROVE overlapped'
  <2>1. CASE overlapped' = (overlapped \/ Overlapping')
    BY <1>4, <2>1, Zenon
  <2>2. CASE overlapped' = overlapped
    BY <1>4, <2>2
  <2> QED
    BY <1>1, <2>1, <2>2
<1> QED
  BY <1>3, <1>4

LEMMA TypedStep ==
  ASSUME TxIInv, [Next]_vars
  PROVE  Typed'
<1>0. Typed /\ PlacedInv
  BY DEF TxIInv, Typed, Placed, PlacedInv
<1>20. Placed'
  BY <1>0, PlacedStep DEF PlacedInv
<1>21. /\ Size \in Nat \ {0} /\ MaxFailures \in Nat /\ Bytes \in Nat \ {0}
       /\ buf.RPos \in 0 .. Size - 1
       /\ outgoing \in 0 .. Size
       /\ len[L] \in 0 .. Size /\ len[T] \in 0 .. Size
       /\ at[L] \in 0 .. Size - 1 /\ at[T] \in 0 .. Size - 1
  BY Numbers
<1>22. overlapped' \in BOOLEAN
  BY <1>0, OverlapStays DEF Typed
<1> USE <1>0, <1>20, <1>21, <1>22
    DEF Typed, Placed, Threads, L, T, None, At, Goto, stream, socket,
        bytes, rest
<1>1. CASE Write
  <2>1. Sound(buf', Size) /\ NoLimits(buf')
    BY <1>1, WriteIs
  <2>2. next' \in Byte /\ unsent' \in 0 .. Size
    <3> DEFINE a == Stream_availableReal(buf)
               b == Stream_availableReal(buf')
    <3>1. CASE next' = next /\ unsent' = unsent
      BY <3>1
    <3>2. CASE \E n \in 1 .. Size : b = a + n /\ next' = (next + n) % Bytes
                                    /\ unsent' = unsent + n
      <4>1. PICK n \in 1 .. Size : b = a + n /\ next' = (next + n) % Bytes
                                   /\ unsent' = unsent + n
        BY <3>2
      <4>2. a \in 0 .. Size /\ unsent \in 0 .. Size /\ unsent <= a
        BY Numbers DEF TxIInv, Counts
      <4>3. b \in 0 .. Size
        BY <2>1, Numbers, WriterIsBehind
      <4> HIDE DEF a, b
      <4>4. unsent' \in 0 .. Size
        BY <4>1, <4>2, <4>3
      <4> DEFINE s == next + n
      <4>5. s \in Int /\ Bytes \in Nat \ {0}
        BY Numbers
      <4>6. next' = s % Bytes
        BY <4>1
      <4> HIDE DEF s
      <4>7. next' \in Byte
        BY <4>5, <4>6 DEF Byte
      <4> QED
        BY <4>4, <4>7
    <3> QED
      BY <1>1, <3>1, <3>2, WriteIs
  <2> QED
    BY <1>1, <2>1, <2>2 DEF Write
<1>3. ASSUME NEW t \in Threads, OStream_flush(t)
     PROVE  Typed'
  BY <1>3 DEF OStream_flush, Return
<1>4. ASSUME NEW t \in Threads, RequestBytes(t)
     PROVE  Typed'
  <2>1. PICK n \in 0 .. Size :
          /\ outgoing' = n /\ len' = [len EXCEPT ![t] = n]
          /\ at' = [at EXCEPT ![t] = buf.RPos]
          /\ \/ Flagged(TRUE)
             \/ buf' = buf /\ Return(t)
    BY <1>4, RequestIs
  <2>2. Sound(buf', Size) /\ NoLimits(buf')
    BY <2>1 DEF Flagged
  <2>3. len' \in [Threads -> 0 .. Size] /\ at' \in [Threads -> 0 .. Size - 1]
    BY <2>1
  <2> QED
    BY <1>4, <2>1, <2>2, <2>3 DEF RequestBytes
<1>5. ASSUME NEW t \in Threads, socketTransmit(t)
     PROVE  Typed'
  <2>1. len[t] \in 0 .. Size + MaxFailures /\ at[t] \in -MaxFailures .. Size
    <3>1. len[t] \in 0 .. Size /\ at[t] \in 0 .. Size - 1
      OBVIOUS
    <3> QED
      BY <3>1
  <2>2. tx' \in [at : -MaxFailures .. Size, inTx : 0 .. Size + MaxFailures]
    BY <1>5, <2>1 DEF socketTransmit
  <2>3. signalled' \in BOOLEAN
    BY <1>5 DEF socketTransmit, Return
  <2> QED
    BY <1>5, <2>2, <2>3 DEF socketTransmit
<1>6. CASE Lock
  BY <1>6 DEF Lock
<1>7. CASE Test
  BY <1>7 DEF Test
<1>8. CASE Wake
  BY <1>8 DEF Wake
<1>9. CASE Send
  <2>1. PICK n \in 1 .. tx.inTx :
          /\ tx' = [at |-> tx.at + n, inTx |-> tx.inTx - n]
          /\ unsent' = unsent - Min2(n, unsent)
    BY <1>9, SendIs
  <2>2. Asked /\ buf.InTransmit
    BY <2>1 DEF Asked, TxIInv, OneRequest
  <2>3. tx.at + tx.inTx = buf.RPos + outgoing /\ buf.RPos + outgoing <= Size
    BY <2>2 DEF TxIInv, Counts
  <2>4. /\ tx.at \in -MaxFailures .. Size /\ tx.inTx \in 0 .. Size + MaxFailures
        /\ unsent \in 0 .. Size
    BY Numbers
  <2>5. /\ tx.at + n \in -MaxFailures .. Size
        /\ tx.inTx - n \in 0 .. Size + MaxFailures
    BY <2>1, <2>3, <2>4
  <2>6. unsent' \in 0 .. Size
    BY <2>1, <2>4 DEF Min2
  <2>7. tx' \in [at : -MaxFailures .. Size, inTx : 0 .. Size + MaxFailures]
    BY <2>1, <2>5
  <2> QED
    BY <1>9, <2>6, <2>7 DEF Send
<1>10. CASE Unlock
  BY <1>10 DEF Unlock
<1>11. CASE txHandle
  BY <1>11 DEF txHandle
<1>12. CASE OStream_handle
  <2>1. Sound(buf', Size) /\ NoLimits(buf')
    BY <1>12, FlagStep DEF OStream_handle, Flagged
  <2>2. len' \in [Threads -> 0 .. Size]
    <3>1. Min2(len[T], outgoing) \in 0 .. Size
      BY DEF Min2
    <3> QED
      BY <1>12, <3>1 DEF OStream_handle
  <2> QED
    BY <1>12, <2>1, <2>2 DEF OStream_handle
<1>13. CASE HandleAdvance
  <2>1. Sound(buf', Size) /\ NoLimits(buf')
    BY <1>13, AdvanceIs
  <2> QED
    BY <1>13, <2>1 DEF HandleAdvance
<1>14. CASE SpuriousWake
  BY <1>14 DEF SpuriousWake
<1>15. CASE SendFailed
  <2>1. Asked /\ buf.InTransmit
    BY <1>15 DEF SendFailed, Asked, TxIInv, OneRequest, Exclusive
  <2>2. /\ tx.at + tx.inTx = buf.RPos + outgoing /\ buf.RPos + outgoing <= Size
        /\ tx.at >= - failures
    BY <2>1 DEF TxIInv, Counts
  <2>3. /\ tx.at \in -MaxFailures .. Size /\ tx.inTx \in 0 .. Size + MaxFailures
        /\ failures \in 0 .. MaxFailures /\ failures < MaxFailures
    BY <1>15, Numbers DEF SendFailed
  <2>4. /\ tx.at - 1 \in -MaxFailures .. Size
        /\ tx.inTx + 1 \in 0 .. Size + MaxFailures
        /\ failures + 1 \in 0 .. MaxFailures
    BY <2>2, <2>3
  <2>5. tx' \in [at : -MaxFailures .. Size, inTx : 0 .. Size + MaxFailures]
    BY <1>15, <2>4 DEF SendFailed
  <2> QED
    BY <1>15, <2>4, <2>5 DEF SendFailed
<1>16. CASE Exit
  BY <1>16 DEF Exit
<1>17. CASE UNCHANGED vars
  BY <1>17 DEF vars
<1>18. L \in Threads /\ T \in Threads
  BY DEF Threads
<1> QED
  BY <1>1, <1>3, <1>4, <1>5, <1>6, <1>7, <1>8, <1>9, <1>10, <1>11, <1>12,
     <1>13, <1>14, <1>15, <1>16, <1>17, <1>18
  DEF Next, LoopFlushes, Sender
LEMMA CountsStep ==
  ASSUME TxIInv, [Next]_vars, ~ overlapped'
  PROVE  Counts'
<1>0. /\ Placed /\ Exclusive /\ OneRequest /\ Counts
      /\ buf.InTransmit \in BOOLEAN
  BY Numbers DEF TxIInv, Typed, Placed
<1>20. /\ Size \in Nat \ {0} /\ Stream_availableReal(buf) \in 0 .. Size
       /\ buf.RPos \in 0 .. Size - 1 /\ outgoing \in 0 .. Size
       /\ unsent \in 0 .. Size /\ failures \in Nat
       /\ tx.at \in Int /\ tx.inTx \in Nat
       /\ len[L] \in 0 .. Size /\ len[T] \in 0 .. Size
       /\ at[L] \in 0 .. Size - 1 /\ at[T] \in 0 .. Size - 1
  BY Numbers
<1>21. /\ len \in [Threads -> 0 .. Size] /\ at \in [Threads -> 0 .. Size - 1]
       /\ tx = [at |-> tx.at, inTx |-> tx.inTx]
  BY DEF TxIInv, Typed
<1> USE <1>0, <1>20, <1>21
    DEF Placed, Exclusive, Overlapping, Handling, Requesting, OneRequest, Counts, Asking, Asked, Finished,
        LoopPlaces, SenderPlaces, Threads, L, T, None, At, Goto,
        stream, socket, bytes, rest
<1>1. CASE Write
  <2> DEFINE a == Stream_availableReal(buf)
             b == Stream_availableReal(buf')
  <2>1. /\ outgoing' = outgoing /\ tx' = tx /\ len' = len /\ at' = at
        /\ failures' = failures /\ pc[L] = "loop"
        /\ pc' = [pc EXCEPT ![L] = "flush"]
    BY <1>1 DEF Write
  <2>2. /\ buf'.RPos = buf.RPos /\ buf'.InTransmit = buf.InTransmit
        /\ \/ buf' = buf /\ unsent' = unsent
           \/ \E n \in 1 .. Size : b = a + n /\ unsent' = unsent + n
    BY <1>1, WriteIs
  <2>3. CASE buf' = buf /\ unsent' = unsent
    BY <2>1, <2>3
  <2>4. CASE \E n \in 1 .. Size : b = a + n /\ unsent' = unsent + n
    <3>1. PICK n \in 1 .. Size : b = a + n /\ unsent' = unsent + n
      BY <2>4
    <3>2. a \in 0 .. Size
      OBVIOUS
    <3> HIDE DEF a, b
    <3> QED
      BY <2>1, <2>2, <3>1, <3>2 DEF a, b
  <2> QED
    BY <2>2, <2>3, <2>4
<1>3. ASSUME NEW t \in Threads, OStream_flush(t)
     PROVE  Counts'
  BY <1>3 DEF OStream_flush, Return
<1>4. ASSUME NEW t \in Threads, RequestBytes(t)
     PROVE  Counts'
  <2>1. /\ pc[t] = "request" /\ tx' = tx /\ unsent' = unsent /\ failures' = failures
    BY <1>4 DEF RequestBytes
  <2> DEFINE a == Stream_availableReal(buf)
             b == Stream_availableReal(buf')
  <2>2. PICK n \in 0 .. Size :
          /\ buf.RPos + n <= Size /\ n <= a
          /\ outgoing' = n /\ len' = [len EXCEPT ![t] = n]
          /\ at' = [at EXCEPT ![t] = buf.RPos]
          /\ \/ /\ n > 0 /\ Flagged(TRUE)
                /\ pc' = [pc EXCEPT ![t] = "arm"]
             \/ /\ n = 0 /\ buf' = buf /\ Return(t)
    BY <1>4, RequestIs
  <2>3. a \in 0 .. Size /\ ~ buf.InTransmit
    BY <2>1
  <2>4. CASE /\ n > 0 /\ Flagged(TRUE)
             /\ pc' = [pc EXCEPT ![t] = "arm"]
    <3>1. b = a /\ buf'.RPos = buf.RPos /\ buf'.InTransmit = TRUE
      BY <2>4 DEF Flagged
    <3> HIDE DEF a, b
    <3>2. CASE t = L
      BY <2>1, <2>2, <2>3, <2>4, <3>1, <3>2 DEF a, b
    <3>3. CASE t = T
      BY <2>1, <2>2, <2>3, <2>4, <3>1, <3>3 DEF a, b
    <3> QED
      BY <3>2, <3>3
  <2>5. CASE n = 0 /\ buf' = buf /\ Return(t)
    <3>1. CASE t = L
      BY <2>1, <2>2, <2>3, <2>5, <3>1 DEF Return
    <3>2. CASE t = T
      BY <2>1, <2>2, <2>3, <2>5, <3>2 DEF Return
    <3> QED
      BY <3>1, <3>2
  <2> QED
    BY <2>2, <2>4, <2>5
<1>5. ASSUME NEW t \in Threads, socketTransmit(t)
     PROVE  Counts'
  <2>1. /\ tx'.at = at[t] /\ tx'.inTx = len[t] /\ pc[t] = "arm"
        /\ buf' = buf /\ outgoing' = outgoing /\ len' = len /\ at' = at
        /\ unsent' = unsent /\ failures' = failures /\ Return(t)
    BY <1>5 DEF socketTransmit
  <2>2. CASE t = L
    BY <2>1, <2>2 DEF Return
  <2>3. CASE t = T
    BY <2>1, <2>3 DEF Return
  <2> QED
    BY <2>2, <2>3
<1>6. CASE Lock
  BY <1>6 DEF Lock
<1>7. CASE Test
  BY <1>7 DEF Test
<1>8. CASE Wake
  BY <1>8 DEF Wake
<1>9. CASE Send
  <2>1. PICK n \in 1 .. tx.inTx :
          /\ tx' = [at |-> tx.at + n, inTx |-> tx.inTx - n]
          /\ unsent' = unsent - Min2(n, unsent)
          /\ pc' = [pc EXCEPT ![T] = IF tx.inTx = n THEN "unlock" ELSE "send"]
    BY <1>9, SendIs
  <2>2. /\ buf' = buf /\ outgoing' = outgoing /\ len' = len /\ at' = at
        /\ failures' = failures /\ pc[T] = "send"
    BY <1>9 DEF Send
  <2>3. /\ tx'.at = tx.at + n /\ tx'.inTx = tx.inTx - n
        /\ unsent' \in 0 .. unsent /\ (unsent' = 0 \/ unsent' = unsent - n)
    BY <2>1 DEF Min2
  <2> DEFINE a == Stream_availableReal(buf)
             b == Stream_availableReal(buf')
  <2>4. b = a /\ a \in 0 .. Size
    BY <2>2
  <2> HIDE DEF a, b
  <2>5. CASE tx.inTx = n
    BY <2>1, <2>2, <2>3, <2>4, <2>5 DEF a, b
  <2>6. CASE tx.inTx # n
    BY <2>1, <2>2, <2>3, <2>4, <2>6 DEF a, b
  <2> QED
    BY <2>5, <2>6
<1>10. CASE Unlock
  BY <1>10 DEF Unlock
<1>11. CASE txHandle
  BY <1>11 DEF txHandle
<1>12. CASE OStream_handle
  <2>1. /\ pc[T] = "handle" /\ tx' = tx /\ outgoing' = outgoing /\ at' = at
        /\ unsent' = unsent /\ failures' = failures /\ buf.InTransmit
        /\ Flagged(FALSE) /\ pc' = [pc EXCEPT ![T] = "advance"]
        /\ len' = [len EXCEPT ![T] = outgoing]
    BY <1>12, FlagStep DEF OStream_handle, Min2
  <2> DEFINE a == Stream_availableReal(buf)
             b == Stream_availableReal(buf')
  <2>2. /\ b = a /\ buf'.RPos = buf.RPos /\ buf'.InTransmit = FALSE
    BY <2>1 DEF Flagged
  <2> HIDE DEF a, b
  <2> QED
    BY <2>1, <2>2 DEF a, b
<1>13. CASE HandleAdvance
  <2>1. /\ pc[T] = "advance" /\ tx' = tx /\ outgoing' = outgoing /\ at' = at
        /\ unsent' = unsent /\ len' = len /\ failures' = failures
    BY <1>13 DEF HandleAdvance
  <2> DEFINE a == Stream_availableReal(buf)
             b == Stream_availableReal(buf')
  <2>2. /\ b = a - outgoing /\ buf'.InTransmit = buf.InTransmit
        /\ pc' = [pc EXCEPT ![T] = "flush"]
    BY <1>13, AdvanceIs
  <2>3. tx.inTx = 0 /\ ~ buf.InTransmit
    BY <2>1
  <2> HIDE DEF a, b
  <2> QED
    BY <2>1, <2>2, <2>3 DEF a, b
<1>14. CASE SpuriousWake
  BY <1>14 DEF SpuriousWake
<1>15. CASE SendFailed
  <2>1. /\ tx'.at = tx.at - 1 /\ tx'.inTx = tx.inTx + 1 /\ failures' = failures + 1
        /\ buf' = buf /\ outgoing' = outgoing /\ len' = len /\ at' = at
        /\ unsent' = unsent /\ pc' = pc /\ pc[T] = "send"
    BY <1>15 DEF SendFailed
  <2> DEFINE a == Stream_availableReal(buf)
             b == Stream_availableReal(buf')
  <2>2. /\ b = a /\ a \in 0 .. Size /\ tx.inTx > 0 /\ buf.InTransmit
        /\ ~ Asking(L) /\ ~ Asking(T) /\ ~ Finished /\ pc[T] = "send"
    BY <2>1
  <2>3. /\ tx'.at + tx'.inTx = buf.RPos + outgoing
        /\ tx'.at >= - failures'
        /\ unsent <= a - outgoing + tx'.inTx
    <3>1. /\ tx.at + tx.inTx = buf.RPos + outgoing
          /\ tx.at >= - failures
          /\ unsent <= a - outgoing + tx.inTx
      BY <2>2
    <3> HIDE DEF a
    <3> QED
      BY <2>1, <2>2, <3>1
  <2>4. buf.RPos + outgoing <= Size /\ outgoing <= a /\ unsent <= a
    BY <2>2
  <2> HIDE DEF a, b
  <2> QED
    BY <2>1, <2>2, <2>3, <2>4 DEF a, b
<1>16. CASE Exit
  BY <1>16 DEF Exit
<1>17. CASE UNCHANGED vars
  BY <1>17 DEF vars
<1>18. L \in Threads /\ T \in Threads
  BY DEF Threads
<1> QED
  BY <1>1, <1>3, <1>4, <1>5, <1>6, <1>7, <1>8, <1>9, <1>10, <1>11, <1>12,
     <1>13, <1>14, <1>15, <1>16, <1>17, <1>18
  DEF Next, LoopFlushes, Sender
LEMMA ExactStep ==
  ASSUME TxIInv, [Next]_vars, ~ overlapped'
  PROVE  Exact'
<1>0. /\ Placed /\ Exclusive /\ OneRequest /\ Counts /\ Exact
      /\ buf.InTransmit \in BOOLEAN
  BY Numbers DEF TxIInv, Typed, Placed
<1>20. /\ Size \in Nat \ {0} /\ Stream_availableReal(buf) \in 0 .. Size
       /\ outgoing \in 0 .. Size /\ unsent \in 0 .. Size /\ failures \in Nat
       /\ tx.inTx \in Nat /\ len[L] \in 0 .. Size /\ len[T] \in 0 .. Size
  BY Numbers
<1> USE <1>0, <1>20
    DEF Placed, Exclusive, Overlapping, Handling, Requesting, OneRequest, Counts, Exact, Asking, Asked, Finished,
        LoopPlaces, SenderPlaces, Threads, L, T, None, At, Goto,
        stream, socket, bytes, rest
<1>1. CASE Write
  <2> DEFINE a == Stream_availableReal(buf)
             b == Stream_availableReal(buf')
  <2>1. /\ outgoing' = outgoing /\ tx' = tx /\ failures' = failures
        /\ pc[L] = "loop" /\ pc' = [pc EXCEPT ![L] = "flush"]
    BY <1>1 DEF Write
  <2>2. \/ buf' = buf /\ unsent' = unsent
        \/ \E n \in 1 .. Size : b = a + n /\ unsent' = unsent + n
    BY <1>1, WriteIs
  <2>3. CASE buf' = buf /\ unsent' = unsent
    BY <2>1, <2>3
  <2>4. CASE \E n \in 1 .. Size : b = a + n /\ unsent' = unsent + n
    <3>1. PICK n \in 1 .. Size : b = a + n /\ unsent' = unsent + n
      BY <2>4
    <3>2. a \in 0 .. Size
      OBVIOUS
    <3> HIDE DEF a, b
    <3> QED
      BY <2>1, <2>2, <3>1, <3>2 DEF a, b
  <2> QED
    BY <2>2, <2>3, <2>4
<1>3. ASSUME NEW t \in Threads, OStream_flush(t)
     PROVE  Exact'
  BY <1>3 DEF OStream_flush, Return
<1>4. ASSUME NEW t \in Threads, RequestBytes(t)
     PROVE  Exact'
  <2>1. /\ pc[t] = "request" /\ tx' = tx /\ unsent' = unsent /\ failures' = failures
    BY <1>4 DEF RequestBytes
  <2> DEFINE a == Stream_availableReal(buf)
             b == Stream_availableReal(buf')
  <2>2. \/ Flagged(TRUE) /\ pc' = [pc EXCEPT ![t] = "arm"]
        \/ buf' = buf /\ Return(t)
    BY <1>4, RequestIs
  <2>3. ~ buf.InTransmit
    BY <2>1
  <2>4. b = a
    BY <2>2 DEF Flagged
  <2>5. pc'[T] \notin {"unlock", "complete", "handle", "advance"}
    BY <2>1, <2>2, <2>3 DEF Return
  <2> HIDE DEF a, b
  <2> QED
    BY <2>1, <2>3, <2>4, <2>5 DEF a, b
<1>5. ASSUME NEW t \in Threads, socketTransmit(t)
     PROVE  Exact'
  <2>1. /\ tx'.inTx = len[t] /\ pc[t] = "arm" /\ len[t] = outgoing /\ len[t] > 0
        /\ buf' = buf /\ outgoing' = outgoing
        /\ unsent' = unsent /\ failures' = failures /\ Return(t)
    BY <1>5 DEF socketTransmit
  <2>2. ~ Asked /\ ~ Finished /\ pc[T] # "advance"
    BY <2>1
  <2>3. pc'[T] \notin {"unlock", "complete", "handle", "advance"}
    BY <2>1, <2>2 DEF Return
  <2> QED
    BY <2>1, <2>2, <2>3
<1>6. CASE Lock
  BY <1>6 DEF Lock
<1>7. CASE Test
  BY <1>7 DEF Test
<1>8. CASE Wake
  BY <1>8 DEF Wake
<1>9. CASE Send
  <2>1. PICK n \in 1 .. tx.inTx :
          /\ tx' = [at |-> tx.at + n, inTx |-> tx.inTx - n]
          /\ unsent' = unsent - Min2(n, unsent)
          /\ pc' = [pc EXCEPT ![T] = IF tx.inTx = n THEN "unlock" ELSE "send"]
    BY <1>9, SendIs
  <2>2. buf' = buf /\ outgoing' = outgoing /\ failures' = failures /\ pc[T] = "send"
    BY <1>9 DEF Send
  <2> DEFINE a == Stream_availableReal(buf)
             b == Stream_availableReal(buf')
  <2>3. b = a /\ a \in 0 .. Size /\ outgoing <= a
    BY <2>2
  <2>4. SUFFICES ASSUME failures = 0
                 PROVE  Exact'
    BY <2>2
  <2>5. unsent = a - outgoing + tx.inTx
    BY <2>2, <2>4
  <2> HIDE DEF a, b
  <2>6. tx'.inTx = tx.inTx - n /\ unsent' = unsent - n
    BY <2>1, <2>3, <2>5 DEF Min2
  <2>7. CASE tx.inTx = n
    BY <2>1, <2>2, <2>3, <2>5, <2>6, <2>7 DEF a, b
  <2>8. CASE tx.inTx # n
    <3>1. pc'[T] = "send" /\ tx'.inTx > 0
      BY <2>1, <2>2, <2>6, <2>8
    <3> QED
      BY <2>2, <2>3, <2>5, <2>6, <3>1 DEF a, b
  <2> QED
    BY <2>7, <2>8
<1>10. CASE Unlock
  BY <1>10 DEF Unlock
<1>11. CASE txHandle
  BY <1>11 DEF txHandle
<1>12. CASE OStream_handle
  <2>1. /\ pc[T] = "handle" /\ tx' = tx /\ outgoing' = outgoing
        /\ unsent' = unsent /\ failures' = failures /\ buf.InTransmit
        /\ Flagged(FALSE) /\ pc' = [pc EXCEPT ![T] = "advance"]
    BY <1>12, FlagStep DEF OStream_handle
  <2> DEFINE a == Stream_availableReal(buf)
             b == Stream_availableReal(buf')
  <2>2. b = a
    BY <2>1 DEF Flagged
  <2> HIDE DEF a, b
  <2> QED
    BY <2>1, <2>2 DEF a, b
<1>13. CASE HandleAdvance
  <2>1. /\ pc[T] = "advance" /\ tx' = tx /\ outgoing' = outgoing
        /\ unsent' = unsent /\ failures' = failures
    BY <1>13 DEF HandleAdvance
  <2> DEFINE a == Stream_availableReal(buf)
             b == Stream_availableReal(buf')
  <2>2. b = a - outgoing /\ pc' = [pc EXCEPT ![T] = "flush"]
    BY <1>13, AdvanceIs
  <2>3. tx.inTx = 0 /\ (failures = 0 => unsent = a - outgoing)
    BY <2>1
  <2> HIDE DEF a, b
  <2> QED
    BY <2>1, <2>2, <2>3 DEF a, b
<1>14. CASE SpuriousWake
  BY <1>14 DEF SpuriousWake
<1>15. CASE SendFailed
  <2>1. failures' = failures + 1
    BY <1>15 DEF SendFailed
  <2>2. failures' # 0
    BY <2>1
  <2> QED
    BY <2>2
<1>16. CASE Exit
  BY <1>16 DEF Exit
<1>17. CASE UNCHANGED vars
  BY <1>17 DEF vars
<1>18. L \in Threads /\ T \in Threads
  BY DEF Threads
<1> QED
  BY <1>1, <1>3, <1>4, <1>5, <1>6, <1>7, <1>8, <1>9, <1>10, <1>11, <1>12,
     <1>13, <1>14, <1>15, <1>16, <1>17, <1>18
  DEF Next, LoopFlushes, Sender

-----------------------------------------------------------------------------
(* While there are bytes, there is a request or will be one. *)

LEMMA PendingStep ==
  ASSUME TxIInv, [Next]_vars, ~ overlapped'
  PROVE  Pending'
<1>0. /\ Placed /\ Exclusive /\ OneRequest /\ Pending
      /\ buf.InTransmit \in BOOLEAN
  BY Numbers DEF TxIInv, Typed, Placed
<1> USE <1>0
    DEF Placed, Exclusive, Overlapping, Handling, Requesting, OneRequest, Pending, Asking, Finished,
        LoopPlaces, SenderPlaces, Threads, L, T, None, At, Goto,
        stream, socket
<1>1. CASE Write
  BY <1>1 DEF Write
<1>3. ASSUME NEW t \in Threads, OStream_flush(t)
     PROVE  Pending'
  BY <1>3 DEF OStream_flush, Return
<1>4. ASSUME NEW t \in Threads, RequestBytes(t)
     PROVE  Pending'
  <2>1. \/ Flagged(TRUE)
        \/ buf' = buf /\ Stream_availableReal(buf) = 0
    BY <1>4, RequestIs
  <2>2. CASE Flagged(TRUE)
    BY <2>2 DEF Flagged
  <2>3. CASE buf' = buf /\ Stream_availableReal(buf) = 0
    BY <2>3
  <2> QED
    BY <2>1, <2>2, <2>3
<1>5. ASSUME NEW t \in Threads, socketTransmit(t)
     PROVE  Pending'
  BY <1>5 DEF socketTransmit, Return
<1>6. CASE Lock
  BY <1>6 DEF Lock
<1>7. CASE Test
  BY <1>7 DEF Test
<1>8. CASE Wake
  BY <1>8 DEF Wake
<1>9. CASE Send
  BY <1>9 DEF Send
<1>10. CASE Unlock
  BY <1>10 DEF Unlock
<1>11. CASE txHandle
  BY <1>11 DEF txHandle
<1>12. CASE OStream_handle
  <2>1. pc' = [pc EXCEPT ![T] = "advance"]
    BY <1>12 DEF OStream_handle
  <2> QED
    BY <2>1
<1>13. CASE HandleAdvance
  <2>1. pc' = [pc EXCEPT ![T] = "flush"]
    BY <1>13, AdvanceIs
  <2> QED
    BY <2>1
<1>14. CASE SpuriousWake
  BY <1>14 DEF SpuriousWake
<1>15. CASE SendFailed
  BY <1>15 DEF SendFailed
<1>16. CASE Exit
  BY <1>16 DEF Exit
<1>17. CASE UNCHANGED vars
  BY <1>17 DEF vars
<1>18. L \in Threads /\ T \in Threads
  BY DEF Threads
<1> QED
  BY <1>1, <1>3, <1>4, <1>5, <1>6, <1>7, <1>8, <1>9, <1>10, <1>11, <1>12,
     <1>13, <1>14, <1>15, <1>16, <1>17, <1>18
  DEF Next, LoopFlushes, Sender
-----------------------------------------------------------------------------
(* The bytes, in the order of writing. *)

\* A byte is unsent where the ring says it is.
LEMMA UnsentStand ==
  ASSUME TxIInv, NEW i \in 1 .. unsent
  PROVE  LET j == Stream_availableReal(buf) - unsent + i IN
         /\ j \in 1 .. Stream_availableReal(buf)
         /\ Contents(buf)[j] = Number(i)
         /\ Contents(buf)[j] = buf.Data[Ahead(buf.RPos, j, Size)]
<1> DEFINE a == Stream_availableReal(buf)
           j == a - unsent + i
<1>1. a \in 0 .. Size /\ unsent \in 0 .. Size /\ unsent <= a
  BY Numbers DEF TxIInv, Counts
<1>2. Contents(buf)[j] = Number(i)
  BY DEF TxIInv, InOrder
<1>3. \A k \in 1 .. a : Contents(buf)[k] = buf.Data[Ahead(buf.RPos, k, Size)]
  BY Numbers, ContentsAre
<1> HIDE DEF a
<1>4. j \in 1 .. a
  BY <1>1
<1> QED
  BY <1>2, <1>3, <1>4 DEF a

\* A write puts its bytes behind those that are unsent.
LEMMA WriteKeepsOrder ==
  ASSUME TxIInv, Write
  PROVE  InOrder'
<1> DEFINE a == Stream_availableReal(buf)
           b == Stream_availableReal(buf')
           c == Contents(buf)
           d == Contents(buf')
<1>1. CASE buf' = buf /\ next' = next /\ unsent' = unsent
  BY <1>1 DEF TxIInv, InOrder, Number
<1>2. CASE \E n \in 1 .. Size :
             /\ d = c \o Written(n)
             /\ Written(n) \in Seq(Byte) /\ Len(Written(n)) = n
             /\ b = a + n
             /\ next' = (next + n) % Bytes /\ unsent' = unsent + n
  <2>1. PICK n \in 1 .. Size :
          /\ d = c \o Written(n)
          /\ Written(n) \in Seq(Byte) /\ Len(Written(n)) = n
          /\ b = a + n
          /\ next' = (next + n) % Bytes /\ unsent' = unsent + n
    BY <1>2
  <2>2. /\ a \in 0 .. Size /\ unsent \in 0 .. Size /\ unsent <= a
        /\ Size \in Nat /\ Bytes \in Nat \ {0} /\ Bytes > Size
        /\ next \in 0 .. Bytes - 1
    BY Numbers DEF TxIInv, Counts
  <2>3. b \in 0 .. Size
    <3>1. Sound(buf', Size) /\ Size \in 1 .. MaxLen
      BY WriteIs, Numbers
    <3> QED
      BY <3>1, WriterIsBehind
  <2>4. c \in Seq(Byte) /\ Len(c) = a
    BY Numbers, ContentsAre
  <2>5. SUFFICES ASSUME NEW i \in 1 .. unsent'
                 PROVE  d[b - unsent' + i] = Number(i)'
    BY DEF InOrder
  <2>6. Number(i)' = (next - unsent + i - 1) % Bytes
    <3> HIDE DEF a, b
    <3>1. n \in Nat /\ unsent \in Nat /\ n + unsent < Bytes /\ i \in 1 .. unsent + n
      BY <2>1, <2>2, <2>3, <2>5
    <3>2. (((next + n) % Bytes) - (unsent + n) + i - 1) % Bytes
            = (next - unsent + i - 1) % Bytes
      BY <2>2, <3>1, NumbersKept
    <3> QED
      BY <2>1, <3>2 DEF Number
  <2> DEFINE w == Written(n)
             k == a - unsent + i
  <2>7. b - unsent' + i = k
    <3> HIDE DEF a, b
    <3> QED
      BY <2>1, <2>2, <2>5
  <2>8. CASE i <= unsent
    <3>1. c[k] = Number(i)
      BY <2>5, <2>1, <2>2, <2>8 DEF TxIInv, InOrder
    <3>2. k \in 1 .. a
      <4> HIDE DEF a, b
      <4> QED
        BY <2>1, <2>2, <2>5, <2>8
    <3>3. d[k] = c[k]
      <4> HIDE DEF a, c, d, w, k
      <4> QED
        BY <2>1, <2>4, <3>2, ConcatProperties DEF w
    <3> QED
      BY <2>6, <2>7, <3>1, <3>3 DEF Number
  <2>9. CASE i > unsent
    <3> DEFINE m == i - unsent
    <3>1. k = a + m /\ m \in 1 .. n
      <4> HIDE DEF a, b
      <4> QED
        BY <2>1, <2>2, <2>5, <2>9
    <3>2. d[k] = w[m]
      <4> HIDE DEF a, c, d, w, k, m
      <4> QED
        BY <2>1, <2>2, <2>4, <3>1, ConcatProperties DEF w
    <3>3. w[m] = (next + m - 1) % Bytes
      BY <3>1 DEF Written
    <3>4. next + m - 1 = next - unsent + i - 1
      BY <2>1, <2>2, <2>5
    <3> QED
      BY <2>6, <2>7, <3>2, <3>3, <3>4
  <2>10. i \in Int /\ unsent \in Int
    BY <2>1, <2>2, <2>5
  <2> QED
    BY <2>8, <2>9, <2>10
<1> QED
  BY <1>1, <1>2, WriteIs

\* A send takes the oldest of them.
LEMMA SendKeepsOrder ==
  ASSUME TxIInv, Send
  PROVE  InOrder'
<1>1. PICK n \in 1 .. tx.inTx : unsent' = unsent - Min2(n, unsent)
  BY SendIs
<1> DEFINE a == Stream_availableReal(buf)
           k == Min2(n, unsent)
<1>2. buf' = buf /\ next' = next
  BY DEF Send, stream
<1>3. /\ a \in 0 .. Size /\ unsent \in 0 .. Size /\ next \in Int /\ tx.inTx \in Int
      /\ k \in 0 .. unsent /\ unsent' = unsent - k
  BY <1>1, Numbers DEF Min2
<1>4. SUFFICES ASSUME NEW i \in 1 .. unsent'
               PROVE  Contents(buf)[a - unsent' + i] = Number(i)'
  BY <1>2 DEF InOrder
<1>5. Contents(buf)[a - unsent + (k + i)] = Number(k + i)
  <2>1. k + i \in 1 .. unsent
    <3> HIDE DEF k
    <3> QED
      BY <1>3, <1>4
  <2> QED
    BY <2>1 DEF TxIInv, InOrder
<1>6. /\ a - unsent + (k + i) = a - unsent' + i
      /\ next - unsent + (k + i) - 1 = next - unsent' + i - 1
  <2> HIDE DEF a, k
  <2> QED
    BY <1>3, <1>4
<1> QED
  BY <1>2, <1>5, <1>6 DEF Number

\* OStream_handle drops bytes that are sent.
LEMMA HandleKeepsOrder ==
  ASSUME TxIInv, HandleAdvance
  PROVE  InOrder'
<1> DEFINE a == Stream_availableReal(buf)
           b == Stream_availableReal(buf')
           c == Contents(buf)
           d == Contents(buf')
<1>1. pc[T] = "advance" /\ next' = next /\ unsent' = unsent
  BY DEF HandleAdvance, At, bytes
<1>2. b = a - outgoing /\ d = SubSeq(c, outgoing + 1, Len(c))
  BY AdvanceIs
<1>3. /\ a \in 0 .. Size /\ unsent \in 0 .. Size /\ outgoing \in 0 .. Size
      /\ Size \in Nat /\ unsent <= a - outgoing /\ outgoing <= a
  BY <1>1, Numbers DEF TxIInv, Counts
<1>4. c \in Seq(Byte) /\ Len(c) = a
  BY Numbers, ContentsAre
<1>5. SUFFICES ASSUME NEW i \in 1 .. unsent
               PROVE  d[b - unsent + i] = Number(i)
  BY <1>1 DEF InOrder, Number
<1>6. c[a - unsent + i] = Number(i)
  BY DEF TxIInv, InOrder
<1> DEFINE j == b - unsent + i
<1>7. j \in 1 .. a - outgoing /\ outgoing + j = a - unsent + i
  <2> HIDE DEF a, b
  <2> QED
    BY <1>2, <1>3, <1>5
<1>8. d[j] = c[outgoing + j]
  <2> HIDE DEF a, b, c, d, j
  <2> QED
    BY <1>2, <1>3, <1>4, <1>7
<1> QED
  BY <1>6, <1>7, <1>8
\* Every other step leaves the bytes alone.
LEMMA OthersKeepOrder ==
  ASSUME TxIInv, [Next]_vars, ~ Write, ~ Send, ~ HandleAdvance
  PROVE  InOrder'
<1>1. ASSUME Stream_availableReal(buf') = Stream_availableReal(buf),
             Contents(buf') = Contents(buf), next' = next, unsent' = unsent
      PROVE  InOrder'
  BY <1>1 DEF TxIInv, InOrder, Number
<1>2. ASSUME NEW b \in BOOLEAN, Flagged(b), next' = next, unsent' = unsent
      PROVE  InOrder'
  BY <1>1, <1>2 DEF Flagged
<1>3. ASSUME buf' = buf, next' = next, unsent' = unsent
      PROVE  InOrder'
  BY <1>1, <1>3
<1> USE DEF stream, bytes
<1>4. ASSUME NEW t \in Threads, RequestBytes(t)
      PROVE  InOrder'
  <2>1. Flagged(TRUE) \/ buf' = buf
    BY <1>4, RequestIs
  <2> QED
    BY <1>2, <1>3, <1>4, <2>1 DEF RequestBytes
<1>5. CASE OStream_handle
  <2>1. Flagged(FALSE) \/ buf' = buf
    BY <1>5, FlagStep DEF OStream_handle
  <2> QED
    BY <1>2, <1>3, <1>5, <2>1 DEF OStream_handle
<1>6. ASSUME NEW t \in Threads, OStream_flush(t) \/ socketTransmit(t)
      PROVE  InOrder'
  BY <1>3, <1>6 DEF OStream_flush, socketTransmit
<1>7. CASE Lock \/ Test \/ Wake \/ Unlock \/ txHandle
  BY <1>3, <1>7 DEF Lock, Test, Wake, Unlock, txHandle
<1>8. CASE SpuriousWake \/ SendFailed \/ Exit \/ UNCHANGED vars
  BY <1>3, <1>8 DEF SpuriousWake, SendFailed, Exit, vars
<1>9. L \in Threads /\ T \in Threads
  BY DEF Threads
<1> QED
  BY <1>4, <1>5, <1>6, <1>7, <1>8, <1>9 DEF Next, LoopFlushes, Sender

\* Until a send has failed, send takes the oldest bytes that were not sent.
LEMMA SendIsInOrder ==
  ASSUME TxIInv, Send
  PROVE  SentInOrder'
<1>1. SUFFICES ASSUME failures = 0
               PROVE  /\ Len(chunk'.val) <= chunk'.due
                      /\ \A i \in DOMAIN chunk'.val :
                           chunk'.val[i] = (chunk'.first + i - 1) % Bytes
  BY DEF SentInOrder, Send, rest
<1>2. PICK n \in 1 .. tx.inTx, other \in Byte :
        chunk' = [first |-> Number(1), due |-> unsent,
                  val |-> [i \in 1 .. n |->
                             IF tx.at + i - 1 \in 0 .. Size - 1
                             THEN buf.Data[tx.at + i - 1] ELSE other]]
  BY DEF Send
<1> DEFINE a == Stream_availableReal(buf)
           p == buf.RPos
<1>3. /\ Size \in Nat \ {0} /\ a \in 0 .. Size /\ p \in 0 .. Size - 1
      /\ unsent \in 0 .. Size /\ outgoing \in 0 .. Size /\ tx.at \in Int
      /\ tx.inTx \in Nat /\ Bytes \in Nat \ {0} /\ Bytes > Size
      /\ next \in 0 .. Bytes - 1
  BY Numbers
<1>4. Asked /\ buf.InTransmit
  BY <1>2, <1>3 DEF Asked, TxIInv, OneRequest
<1>5. /\ tx.at + tx.inTx = p + outgoing /\ p + outgoing <= Size /\ outgoing <= a
      /\ unsent = a - outgoing + tx.inTx /\ unsent <= a /\ tx.at >= 0
  <2>1. /\ tx.at + tx.inTx = p + outgoing /\ p + outgoing <= Size /\ outgoing <= a
        /\ unsent = a - outgoing + tx.inTx /\ unsent <= a /\ tx.at >= - failures
    BY <1>1, <1>4 DEF TxIInv, Counts, Exact
  <2> QED
    BY <1>1, <1>3, <2>1
<1> HIDE DEF a, p
<1>6. n \in 1 .. unsent /\ tx.at = p + (a - unsent) /\ n \in Nat
  <2>1. n \in 1 .. tx.inTx /\ tx.inTx <= unsent
    BY <1>2, <1>3, <1>5
  <2>2. tx.at = p + (a - unsent)
    BY <1>3, <1>5
  <2> QED
    BY <1>2, <1>3, <2>1, <2>2
<1>7. ASSUME NEW i \in 1 .. n
      PROVE  chunk'.val[i] = (Number(1) + i - 1) % Bytes
  <2> DEFINE j == a - unsent + i
             k == tx.at + i - 1
  <2>1. /\ i \in 1 .. unsent /\ j \in 1 .. a
        /\ k = p + j - 1 /\ k \in 0 .. Size - 1
    <3> DEFINE h == tx.at
               q == tx.inTx
    <3>1. /\ h \in Int /\ q \in Nat /\ n \in 1 .. q /\ h + q = p + outgoing
          /\ p + outgoing <= Size /\ h = p + (a - unsent) /\ h >= 0
          /\ n \in 1 .. unsent /\ i \in 1 .. n
      BY <1>2, <1>3, <1>5, <1>6, <1>7
    <3>2. /\ Size \in Nat /\ a \in Nat /\ p \in Nat /\ unsent \in Nat
          /\ outgoing \in Nat /\ unsent <= a
      BY <1>3, <1>5
    <3> HIDE DEF h, q
    <3>3. /\ i \in 1 .. unsent /\ j \in 1 .. a
          /\ h + i - 1 = p + j - 1 /\ h + i - 1 \in 0 .. Size - 1
      BY <3>1, <3>2
    <3> QED
      BY <3>3 DEF h
  <2>2. k = Ahead(p, j, Size)
    BY <1>3, <2>1 DEF Ahead
  <2>3. buf.Data[k] = Number(i)
    <3>1. buf.Data[Ahead(p, j, Size)] = Number(i)
      BY <2>1, UnsentStand DEF a, p
    <3> QED
      BY <2>2, <3>1
  <2>4. chunk'.val[i] = buf.Data[k]
    BY <1>2, <2>1
  <2>5. (Number(1) + i - 1) % Bytes = Number(i)
    <3> DEFINE x == next - unsent
               y == i - 1
    <3>1. /\ x \in -Bytes .. 2 * Bytes - 1 /\ y \in Int
          /\ x + y \in -Bytes .. 2 * Bytes - 1
          /\ y \in 0 .. Bytes - 1
      BY <1>3, <2>1
    <3>2. Number(1) = x % Bytes
      <4>1. next - unsent + 1 - 1 = x
        BY <1>3
      <4> QED
        BY <4>1 DEF Number
    <3>3. Number(i) = (x + y) % Bytes
      <4>1. next - unsent + i - 1 = x + y
        BY <1>3, <2>1
      <4> QED
        BY <4>1 DEF Number
    <3> HIDE DEF x, y
    <3>4. x % Bytes \in 0 .. Bytes - 1
      BY <1>3, <3>1
    <3>5. (x % Bytes) + y \in -Bytes .. 2 * Bytes - 1
      <4> DEFINE z == x % Bytes
      <4> HIDE DEF z
      <4>1. z \in 0 .. Bytes - 1
        BY <3>4 DEF z
      <4>2. z + y \in -Bytes .. 2 * Bytes - 1
        BY <1>3, <3>1, <4>1
      <4> QED
        BY <4>2 DEF z
    <3>6. ((x % Bytes) + y) % Bytes = (x + y) % Bytes
      BY <1>3, <3>1, <3>5, ReducedEarly
    <3> DEFINE g == Number(1)
    <3>7. g \in Int
      BY <3>2, <3>4
    <3>8. g + i - 1 = g + y
      <4> HIDE DEF g
      <4> QED
        BY <2>1, <3>7 DEF y
    <3> QED
      BY <3>2, <3>3, <3>6, <3>8
  <2> QED
    BY <2>3, <2>4, <2>5
<1>8. /\ chunk'.first = Number(1) /\ chunk'.due = unsent
      /\ DOMAIN chunk'.val = 1 .. n /\ Len(chunk'.val) = n
  <2> DEFINE v == [i \in 1 .. n |-> IF tx.at + i - 1 \in 0 .. Size - 1
                                    THEN buf.Data[tx.at + i - 1] ELSE other]
  <2>1. chunk'.first = Number(1) /\ chunk'.due = unsent /\ chunk'.val = v
    BY <1>2
  <2>2. DOMAIN v = 1 .. n /\ Len(v) = n
    BY <1>6
  <2> QED
    BY <2>1, <2>2
<1> QED
  BY <1>6, <1>7, <1>8

LEMMA SentInOrderStep ==
  ASSUME TxIInv, [Next]_vars
  PROVE  SentInOrder'
<1>1. CASE Send
  BY <1>1, SendIsInOrder
<1>2. ASSUME chunk' = chunk, failures' = failures
      PROVE  SentInOrder'
  BY <1>2 DEF TxIInv, SentInOrder
<1>3. CASE SendFailed
  <2>1. failures' = failures + 1 /\ failures \in Nat
    BY <1>3, Numbers DEF SendFailed
  <2>2. failures' # 0
    BY <2>1
  <2> QED
    BY <2>2 DEF SentInOrder
<1> USE DEF bytes, rest
<1>4. ASSUME NEW t \in Threads, OStream_flush(t) \/ RequestBytes(t) \/ socketTransmit(t)
      PROVE  SentInOrder'
  BY <1>2, <1>4 DEF OStream_flush, RequestBytes, socketTransmit
<1>5. CASE Write \/ Lock \/ Test \/ Wake
  BY <1>2, <1>5 DEF Write, Lock, Test, Wake
<1>6. CASE Unlock
  <2>1. chunk'.val = <<>> /\ chunk'.due = 0
    BY <1>6 DEF Unlock, NothingSent
  <2> QED
    BY <2>1 DEF SentInOrder
<1>7. CASE txHandle \/ OStream_handle \/ HandleAdvance
  BY <1>2, <1>7 DEF txHandle, OStream_handle, HandleAdvance
<1>8. CASE SpuriousWake \/ Exit \/ UNCHANGED vars
  BY <1>2, <1>8 DEF SpuriousWake, Exit, vars
<1>9. L \in Threads /\ T \in Threads
  BY DEF Threads
<1> QED
  BY <1>1, <1>3, <1>4, <1>5, <1>6, <1>7, <1>8, <1>9 DEF Next, LoopFlushes, Sender
-----------------------------------------------------------------------------
(* The invariant. *)

LEMMA TxInit ==
  ASSUME Init
  PROVE  TxIInv
<1>1. Size \in 1 .. MaxLen /\ Size \in Nat \ {0} /\ MaxFailures \in Nat
  BY SizeAssumption, MaxLenAssumption, FailuresAssumption
<1>2. 0 \in Byte
  BY BytesAssumption DEF Byte
<1>3. Sound(buf, Size) /\ NoLimits(buf) /\ ~ buf.InTransmit
      /\ Stream_availableReal(buf) = 0
  <2> DEFINE d == [i \in 0 .. Size - 1 |-> 0]
  <2>1. d \in [0 .. Size - 1 -> Byte]
    BY <1>2
  <2>2. buf = Stream_init(d, Size)
    BY DEF Init
  <2> HIDE DEF d
  <2>3. Sound(buf, Size)
    BY <1>1, <2>1, <2>2, InitSound
  <2>4. /\ buf.WriteLimit = NoLimit /\ buf.ReadLimit = NoLimit /\ ~ buf.InTransmit
        /\ buf.WPos = 0 /\ buf.RPos = 0 /\ buf.Overflow = 0
    BY <2>2 DEF Stream_init
  <2>5. Stream_availableReal(buf) = 0
    BY <1>1, <2>3, <2>4, Filled DEF Sound
  <2> QED
    BY <2>3, <2>4, <2>5 DEF NoLimits
<1>4. Typed /\ Exclusive
  <2>1. Placed /\ Exclusive
    BY DEF Init, Placed, Exclusive, Overlapping, Handling, Threads, L, T, None, LoopPlaces, SenderPlaces
  <2>2. /\ 0 \in 0 .. Size /\ 0 \in 0 .. Size - 1 /\ 0 \in -MaxFailures .. Size
        /\ 0 \in 0 .. Size + MaxFailures /\ 0 \in 0 .. MaxFailures
    BY <1>1
  <2> QED
    BY <1>2, <1>3, <2>1, <2>2 DEF Init, Typed, Placed, Threads, None
<1>5. OneRequest /\ Counts /\ Exact /\ Pending /\ NoLostSignal
  BY <1>1, <1>3
  DEF Init, OneRequest, Counts, Exact, Pending, NoLostSignal, Asking, Asked, Finished,
      Threads, L, T
<1>6. InOrder /\ SentInOrder
  BY DEF Init, InOrder, SentInOrder, NothingSent
<1> QED
  BY <1>4, <1>5, <1>6 DEF TxIInv

LEMMA TxNext ==
  ASSUME TxIInv, [Next]_vars, ~ overlapped'
  PROVE  TxIInv'
<1>1. InOrder'
  BY WriteKeepsOrder, SendKeepsOrder, HandleKeepsOrder, OthersKeepOrder
<1>2. NoLostSignal'
  BY PlacedStep DEF TxIInv, Typed, PlacedInv, Placed
<1> QED
  BY <1>1, <1>2, TypedStep, ExclusiveStep, OneRequestStep, CountsStep, ExactStep,
     SentInOrderStep, PendingStep
  DEF TxIInv

\* Until calls overlap the invariant holds.
LEMMA TxInvariant == Spec => [](overlapped \/ TxIInv)
<1>1. Init => TxIInv
  BY TxInit
<1>2. (overlapped \/ TxIInv) /\ [Next]_vars => overlapped' \/ TxIInv'
  BY TxNext, OverlapStays
<1> QED
  BY <1>1, <1>2, PTL DEF Spec

-----------------------------------------------------------------------------
(* What follows from the invariant. *)

\* Until calls overlap, what send takes is, until a send has failed, the oldest
\* bytes that were not sent, each once and in order; and whether or not one has
\* failed, the loop writes over no unsent byte.
THEOREM TransmitPathIsSound == Spec => []TxInv
<1>1. ASSUME TxIInv PROVE TypeOK
  BY <1>1 DEF TxIInv, Typed, TypeOK, Sound
<1>2. ASSUME TxIInv PROVE UnsentIntact
  <2> DEFINE a == Stream_availableReal(buf)
  <2>1. /\ Size \in 1 .. MaxLen /\ Sound(buf, Size) /\ Size \in Nat \ {0}
        /\ a \in 0 .. Size /\ unsent \in 0 .. Size /\ unsent <= a
        /\ buf.RPos \in 0 .. Size - 1 /\ buf.WPos \in 0 .. Size - 1
    BY <1>2, Numbers DEF TxIInv, Counts
  <2>2. Further(buf.RPos, a, buf.WPos, Size)
    BY <2>1, WriterIsBehind
  <2>3. ASSUME NEW i \in 1 .. unsent
        PROVE  buf.Data[(buf.WPos - unsent + i - 1) % Size] = Number(i)
    <3> DEFINE j == a - unsent + i
    <3>1. buf.Data[Ahead(buf.RPos, j, Size)] = Number(i)
      BY <1>2, UnsentStand
    <3>2. (buf.WPos - unsent + i - 1) % Size = Ahead(buf.RPos, j, Size)
      <4> HIDE DEF a
      <4>1. unsent \in 0 .. a
        BY <2>1
      <4> QED
        BY <2>1, <2>2, <4>1, BackFromWriter
    <3> QED
      BY <3>1, <3>2
  <2> QED
    BY <2>3 DEF UnsentIntact
<1>3. overlapped \/ TxIInv => TxInv
  BY <1>1, <1>2 DEF TxInv, TxIInv
<1> QED
  BY <1>3, TxInvariant, PTL

\* OStream_flush transmits again after a flush completes, so that, until calls
\* overlap, no byte is pending with the sender idle and the loop back from its
\* flush (OutputStream.h).
THEOREM FlushLeavesNothing == Spec => []FlushedUntilOverlap
<1>1. ASSUME TxIInv PROVE Flushed
  BY <1>1, Numbers
  DEF TxIInv, Typed, OneRequest, Pending, Flushed, Asking, Asked, Finished, L, T
<1>2. overlapped \/ TxIInv => FlushedUntilOverlap
  BY <1>1 DEF FlushedUntilOverlap
<1> QED
  BY <1>2, TxInvariant, PTL
=============================================================================
