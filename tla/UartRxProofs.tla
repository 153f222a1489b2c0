---------------------------- MODULE UartRxProofs ----------------------------
(***************************************************************************)
(* Theorems about UartRx: that no signal is lost, whatever overlaps; and,   *)
(* until the calls of the two threads overlap, that every byte the stream  *)
(* counts as available was received, that the receiver writes only into    *)
(* space, that a request is never replaced, that the loop does not wait    *)
(* for the peer, and that reception stops only when the buffer is full.    *)
(*                                                                         *)
(* The argument is that there is one request, and one party that has it:   *)
(* a thread about to make it, the receiver receiving it, or the receiver   *)
(* that finished it and has not handled it yet.  RxIInv says so, and says  *)
(* how the counts stand to one another in each of these places.  A step    *)
(* keeps it unless it is the one at which calls overlap.                   *)
(***************************************************************************)
EXTENDS UartRx, StreamLemmas

-----------------------------------------------------------------------------
(* The inductive invariant. *)

\* The places of each thread.
LoopPlaces     == {"setup", "loop", "checkRx", "checkIn", "take", "charge", "receive",
                   "request", "arm", "count", "read"}
ReceiverPlaces == {"lock", "test", "waiting", "recv", "unlock", "complete", "handle",
                   "advance", "receive", "request", "arm"}

\* The variables have their types; the ring is sound and nothing limits it.
Typed ==
  /\ Sound(buf, Size) /\ NoLimits(buf)
  /\ incoming \in 0 .. Size
  /\ rx \in [at : 0 .. Size, inRx : 0 .. Size]
  /\ mutex \in {None, R} /\ signalled \in BOOLEAN
  /\ pc \in [Threads -> LoopPlaces \cup ReceiverPlaces]
  /\ pc[L] \in LoopPlaces /\ pc[R] \in ReceiverPlaces
  /\ len \in [Threads -> -Size .. Size] /\ at \in [Threads -> 0 .. Size]
  /\ wire \in 0 .. MaxWire /\ next \in Byte /\ unread \in 0 .. Size
  /\ caller \in {"setup", "if", "use"} /\ overlapped \in BOOLEAN
  /\ running \in BOOLEAN

\* The parts of the calls that must not overlap do not, and who holds the mutex
\* of the request.
Exclusive ==
  /\ ~ Overlapping
  /\ mutex = R <=> pc[R] \in {"test", "recv", "unlock"}
  /\ pc[R] = "recv" => rx.inRx > 0

\* The one request: a thread is about to make it, the receiver has it, or has
\* finished it and not yet handled it.
Asking(t) == pc[t] = "arm"
Asked     == rx.inRx > 0
Finished  == pc[R] \in {"unlock", "complete", "handle"}

OneRequest ==
  /\ buf.InReceive <=> Asking(L) \/ Asking(R) \/ Asked \/ Finished
  /\ Asking(L) => ~ Asking(R)
  /\ Asking(L) \/ Asking(R) => ~ Asked /\ ~ Finished
  /\ Asked => ~ Finished
  /\ \A t \in Threads : pc[t] = "request" => ~ buf.InReceive
  /\ pc[R] \in {"advance", "receive"} => ~ buf.InReceive

\* How many bytes of the request the stream has not moved over: the loop moves
\* before it charges.
Part == incoming - (IF pc[L] = "charge" THEN len[L] ELSE 0)

Counts ==
  LET a == Stream_availableReal(buf) IN
  /\ Asking(L) => len[L] = incoming /\ at[L] = buf.WPos /\ incoming > 0
  /\ Asking(R) => len[R] = incoming /\ at[R] = buf.WPos /\ incoming > 0
  /\ buf.InReceive \/ pc[R] = "advance" =>
       /\ buf.WPos + Part <= Size /\ a + Part <= Size
       /\ rx.inRx <= Part
  /\ Asked => rx.at + rx.inRx = buf.WPos + Part
  /\ Asked \/ Finished \/ pc[R] = "advance" => unread = a + Part - rx.inRx
  /\ ~ (Asked \/ Finished \/ pc[R] = "advance") => unread = a
  /\ ~ buf.InReceive /\ pc[R] \notin {"advance", "receive", "request"} =>
       incoming = 0
  /\ pc[R] = "handle" => len[R] >= incoming
  /\ pc[R] = "advance" => len[R] = incoming
  /\ pc[L] = "checkRx" => len[L] = incoming
  /\ pc[L] = "checkIn" => rx.inRx <= len[L] /\ len[L] <= incoming
  /\ pc[L] = "take" => 0 <= len[L] /\ len[L] <= incoming - rx.inRx
  /\ pc[L] = "charge" => 0 < len[L] /\ (Asked \/ Finished)
  /\ pc[L] = "read" => 0 <= len[L]

InOrder ==
  \A i \in 1 .. unread : buf.Data[Ahead(buf.RPos, i, Size)] = Number(i)

RxIInv == Typed /\ Exclusive /\ OneRequest /\ Counts /\ InOrder /\ NoLostSignal

-----------------------------------------------------------------------------
(* The wakeup. *)

\* Where the threads are, whether or not the calls exclude one another.
Placed == /\ pc \in [Threads -> LoopPlaces \cup ReceiverPlaces]
          /\ pc[L] \in LoopPlaces /\ pc[R] \in ReceiverPlaces

PlacedInv == Placed /\ NoLostSignal

LEMMA PlacedStep ==
  ASSUME PlacedInv, [Next]_vars
  PROVE  PlacedInv'
<1> USE DEF PlacedInv, Placed, NoLostSignal, LoopPlaces, ReceiverPlaces,
            Threads, L, R, At, Goto, socket
<1>1. CASE Setup
  BY <1>1 DEF Setup
<1>2. CASE CheckFirst
  BY <1>2 DEF CheckFirst
<1>3. CASE CheckSecond
  BY <1>3 DEF CheckSecond
<1>4. CASE TakeReceived
  BY <1>4 DEF TakeReceived
<1>5. CASE ChargeIncoming
  BY <1>5 DEF ChargeIncoming
<1>6. CASE Count
  BY <1>6 DEF Count
<1>7. CASE Read
  BY <1>7 DEF Read
<1>8. CASE ReadRefused
  BY <1>8 DEF ReadRefused
<1>9. ASSUME NEW t \in Threads, IStream_receive(t)
      PROVE  PlacedInv'
  BY <1>9 DEF IStream_receive, Return
<1>10. ASSUME NEW t \in Threads, RequestSpace(t)
       PROVE  PlacedInv'
  BY <1>10 DEF RequestSpace, Return
<1>11. ASSUME NEW t \in Threads, socketReceive(t)
       PROVE  PlacedInv'
  BY <1>11 DEF socketReceive, Return
<1>12. CASE Lock
  BY <1>12 DEF Lock
<1>13. CASE Test
  BY <1>13 DEF Test
<1>14. CASE Wake
  BY <1>14 DEF Wake
<1>15. CASE Recv
  BY <1>15 DEF Recv
<1>16. CASE Unlock
  BY <1>16 DEF Unlock
<1>17. CASE rxHandle
  BY <1>17 DEF rxHandle
<1>18. CASE IStream_handle
  BY <1>18 DEF IStream_handle
<1>19. CASE HandleAdvance
  BY <1>19 DEF HandleAdvance
<1>20. CASE Send
  BY <1>20 DEF Send
<1>21. CASE SpuriousWake
  BY <1>21 DEF SpuriousWake
<1>22. CASE Disconnect
  BY <1>22 DEF Disconnect
<1>23. CASE UNCHANGED vars
  BY <1>23 DEF vars
<1>24. L \in Threads /\ R \in Threads
  OBVIOUS
<1> QED
  BY <1>1, <1>2, <1>3, <1>4, <1>5, <1>6, <1>7, <1>8, <1>9, <1>10, <1>11, <1>12,
     <1>13, <1>14, <1>15, <1>16, <1>17, <1>18, <1>19, <1>20, <1>21, <1>22, <1>23,
     <1>24
  DEF Next, Loop, Poll, Receiver

\* ReceiveThread waits on rxCond only while there is no request, and the thread
\* that leaves one (socketReceive) signals: the receiver is never left waiting
\* with a request it was not told of, however the threads interleave.
THEOREM SignalIsNotLost == Spec => []NoLostSignal
<1>1. Init => PlacedInv
  BY DEF Init, PlacedInv, Placed, NoLostSignal, LoopPlaces, ReceiverPlaces, Threads, L, R
<1>2. PlacedInv /\ [Next]_vars => PlacedInv'
  BY PlacedStep
<1>3. PlacedInv => NoLostSignal
  BY DEF PlacedInv
<1> QED
  BY <1>1, <1>2, <1>3, PTL DEF Spec
-----------------------------------------------------------------------------
(* What the steps that touch the ring do to it, when calls exclude another. *)

\* The types, as numbers.
LEMMA Numbers ==
  ASSUME RxIInv
  PROVE  /\ Size \in 1 .. MaxLen /\ Size \in Nat \ {0} /\ MaxLen \in Nat
         /\ Stream_availableReal(buf) \in 0 .. Size
         /\ buf.WPos \in 0 .. Size - 1 /\ buf.RPos \in 0 .. Size - 1
         /\ buf.Data \in [0 .. Size - 1 -> Byte]
         /\ buf.InReceive \in BOOLEAN
         /\ incoming \in 0 .. Size /\ unread \in 0 .. Size
         /\ rx \in [at : 0 .. Size, inRx : 0 .. Size]
         /\ rx.at \in 0 .. Size /\ rx.inRx \in 0 .. Size
         /\ len[L] \in -Size .. Size /\ len[R] \in -Size .. Size
         /\ at[L] \in 0 .. Size /\ at[R] \in 0 .. Size
<1>1. Size \in 1 .. MaxLen /\ Size \in Nat \ {0} /\ MaxLen \in Nat
  BY SizeAssumption, MaxLenAssumption
<1>2. Sound(buf, Size) /\ buf \in Stream(Size)
  BY DEF RxIInv, Typed, Sound
<1>3. Stream_availableReal(buf) \in 0 .. Size
  BY <1>1, <1>2, WriterIsBehind
<1>4. buf.InReceive \in BOOLEAN
  BY <1>2 DEF Stream
<1>5. L \in Threads /\ R \in Threads
  BY DEF Threads
<1> QED
  BY <1>1, <1>2, <1>3, <1>4, <1>5, Types DEF RxIInv, Typed

\* The rest of a request lies in the space, behind what was received.
LEMMA RequestLies ==
  ASSUME RxIInv
  PROVE  /\ Part \in Int
         /\ pc[L] # "charge" => Part = incoming
         /\ pc[L] = "charge" => Part = incoming - len[L]
         /\ Asked => /\ rx.at + rx.inRx = buf.WPos + Part
                     /\ unread = Stream_availableReal(buf) + Part - rx.inRx
                     /\ rx.inRx <= Part
                     /\ buf.WPos + Part <= Size
                     /\ Stream_availableReal(buf) + Part <= Size
         /\ Stream_availableReal(buf) <= unread
<1> USE Numbers DEF RxIInv, Counts, OneRequest
<1>1. /\ Part \in Int
      /\ pc[L] # "charge" => Part = incoming
      /\ pc[L] = "charge" => Part = incoming - len[L]
  BY DEF Part
<1> HIDE DEF Part
<1>2. Asked => /\ rx.at + rx.inRx = buf.WPos + Part
               /\ unread = Stream_availableReal(buf) + Part - rx.inRx
               /\ rx.inRx <= Part
               /\ buf.WPos + Part <= Size
               /\ Stream_availableReal(buf) + Part <= Size
  OBVIOUS
<1>3. Stream_availableReal(buf) <= unread
  <2>1. CASE Asked \/ Finished \/ pc[R] = "advance"
    BY <1>1, <2>1, SMTT(30)
  <2>2. CASE ~ (Asked \/ Finished \/ pc[R] = "advance")
    BY <2>2
  <2> QED
    BY <2>1, <2>2
<1> QED
  BY <1>1, <1>2, <1>3

\* Nothing about the ring changes but the flag.
Flagged(b) == /\ Sound(buf', Size) /\ NoLimits(buf') /\ buf'.InReceive = b
              /\ buf'.WPos = buf.WPos /\ buf'.RPos = buf.RPos
              /\ buf'.Data = buf.Data
              /\ Stream_availableReal(buf') = Stream_availableReal(buf)

LEMMA FlagStep ==
  ASSUME RxIInv, NEW b \in BOOLEAN, buf' = [buf EXCEPT !.InReceive = b]
  PROVE  Flagged(b)
<1>1. Size \in 1 .. MaxLen /\ Sound(buf, Size) /\ NoLimits(buf)
  BY Numbers DEF RxIInv, Typed
<1>2. buf' \in Stream(Size) /\ SameRing(buf, buf') /\ buf'.Data = buf.Data
  BY <1>1, FlagSet
<1>3. buf'.InReceive = b
  BY <1>1, ReceiveSet
<1>4. /\ Sound(buf', Size) /\ NoLimits(buf')
      /\ Stream_availableReal(buf') = Stream_availableReal(buf)
  BY <1>1, <1>2, RingIsSame
<1> QED
  BY <1>2, <1>3, <1>4 DEF Flagged, SameRing

\* The writer moves over n bytes of the request.
MovedOver(n) == /\ Sound(buf', Size) /\ NoLimits(buf')
                /\ buf'.InReceive = buf.InReceive
                /\ buf.WPos + n < Size => buf'.WPos = buf.WPos + n
                /\ buf.WPos + n >= Size => buf'.WPos = 0
                /\ buf'.RPos = buf.RPos /\ buf'.Data = buf.Data
                /\ Stream_availableReal(buf') = Stream_availableReal(buf) + n

LEMMA MoveStep ==
  ASSUME RxIInv, NEW n \in Nat, buf.WPos + n <= Size,
         Stream_availableReal(buf) + n <= Size,
         buf' = Stream_moveWritePos(buf, n).s
  PROVE  MovedOver(n) /\ Stream_moveWritePos(buf, n).res = "Stream_Ok"
<1> DEFINE r == Stream_moveWritePos(buf, n)
<1>1. Size \in 1 .. MaxLen /\ Sound(buf, Size) /\ NoLimits(buf)
  BY Numbers DEF RxIInv, Typed
<1>2. /\ r.res = "Stream_Ok"
      /\ Sound(r.s, Size) /\ NoLimits(r.s)
      /\ r.s.Data = buf.Data /\ r.s.RPos = buf.RPos /\ Aside(r.s) = Aside(buf)
      /\ Stream_availableReal(r.s) = Stream_availableReal(buf) + n
      /\ buf.WPos + n < Size => r.s.WPos = buf.WPos + n
      /\ buf.WPos + n >= Size => r.s.WPos = 0
  BY <1>1, WriterMovesOver
<1> QED
  BY <1>2 DEF MovedOver, Aside

\* IStream_available moves over what the request has got.
LEMMA TakeIs ==
  ASSUME RxIInv, TakeReceived
  PROVE  \/ len[L] <= 0 /\ buf' = buf /\ len' = len /\ pc' = [pc EXCEPT ![L] = "count"]
         \/ /\ len[L] > 0 /\ MovedOver(len[L]) /\ len' = [len EXCEPT ![L] = len[L]]
            /\ pc' = [pc EXCEPT ![L] = "charge"]
            /\ Asked \/ Finished
<1> USE Numbers
<1>1. CASE len[L] <= 0
  BY <1>1 DEF TakeReceived, Goto
<1>2. CASE len[L] > 0
  <2>1. pc[L] = "take" /\ len[L] <= incoming - rx.inRx
    BY <1>2 DEF TakeReceived, At, RxIInv, Counts
  <2>2. ~ Handling /\ pc[L] # "charge" /\ ~ Asking(L) /\ ~ Asking(R)
    BY <2>1 DEF RxIInv, Exclusive, Overlapping, Polling, Handling, L, R, Asking
  <2>3. buf.InReceive /\ (Asked \/ Finished)
    <3>1. incoming > 0
      BY <1>2, <2>1
    <3> QED
      BY <2>2, <3>1 DEF RxIInv, Counts, OneRequest, Handling
  <2>4. Min2(len[L], incoming) = len[L]
    BY <2>1 DEF Min2
  <2>5. buf.WPos + Part <= Size /\ Stream_availableReal(buf) + Part <= Size
        /\ rx.inRx <= Part
    BY <2>3 DEF RxIInv, Counts
  <2>6. Part = incoming
    BY <2>2, RequestLies
  <2>7. buf.WPos + len[L] <= Size /\ Stream_availableReal(buf) + len[L] <= Size
    BY <2>1, <2>5, <2>6, SMTT(30)
  <2>8. buf' = Stream_moveWritePos(buf, len[L]).s
    BY <1>2, <2>4 DEF TakeReceived
  <2>9. MovedOver(len[L])
    BY <1>2, <2>7, <2>8, MoveStep
  <2> QED
    BY <1>2, <2>3, <2>4, <2>9 DEF TakeReceived, Goto
<1> QED
  BY <1>1, <1>2

\* IStream_handle moves over what the call of the loop left of the request.
LEMMA AdvanceIs ==
  ASSUME RxIInv, HandleAdvance
  PROVE  /\ MovedOver(incoming) /\ len[R] = incoming
         /\ pc' = [pc EXCEPT ![R] = "receive"]
         /\ Part = incoming
<1> USE Numbers
<1>1. pc[R] = "advance"
  BY DEF HandleAdvance, At
<1>2. pc[L] # "charge" /\ len[R] = incoming
  BY <1>1 DEF RxIInv, Exclusive, Overlapping, Polling, Handling, L, R, Counts
<1>3. Part = incoming
  BY <1>2, RequestLies
<1>4. buf.WPos + incoming <= Size /\ Stream_availableReal(buf) + incoming <= Size
  BY <1>1, <1>3 DEF RxIInv, Counts
<1>5. buf' = Stream_moveWritePos(buf, incoming).s
  BY <1>2 DEF HandleAdvance
<1>6. MovedOver(incoming) /\ Stream_moveWritePos(buf, incoming).res = "Stream_Ok"
  BY <1>4, <1>5, MoveStep, SMTT(30)
<1> QED
  BY <1>2, <1>3, <1>6 DEF HandleAdvance, Goto

\* A read takes the oldest bytes.
LEMMA ReadIs ==
  ASSUME RxIInv, Read
  PROVE  \E k \in 0 .. Stream_availableReal(buf) :
           /\ Sound(buf', Size) /\ NoLimits(buf')
           /\ buf'.InReceive = buf.InReceive
           /\ buf'.Data = buf.Data /\ buf'.WPos = buf.WPos
           /\ Stream_availableReal(buf') = Stream_availableReal(buf) - k
           /\ Further(buf.RPos, k, buf'.RPos, Size)
           /\ unread' = unread - k
<1> DEFINE r == Stream_readBytes(buf, len[L])
<1>1. Size \in 1 .. MaxLen /\ Sound(buf, Size) /\ NoLimits(buf)
  BY Numbers DEF RxIInv, Typed
<1>2. len[L] \in Nat
  BY Numbers DEF Read, At, RxIInv, Counts
<1>3. /\ Sound(r.s, Size) /\ NoLimits(r.s)
      /\ r.s.Data = buf.Data /\ r.s.WPos = buf.WPos /\ Aside(r.s) = Aside(buf)
      /\ Len(r.val) \in 0 .. Stream_availableReal(buf)
      /\ Stream_availableReal(r.s) = Stream_availableReal(buf) - Len(r.val)
      /\ Further(buf.RPos, Len(r.val), r.s.RPos, Size)
  BY <1>1, <1>2, ReadMovesOver
<1>4. buf' = r.s /\ unread' = unread - Len(r.val)
  BY DEF Read
<1> QED
  BY <1>3, <1>4 DEF Aside

\* The bytes of one recv.
Arrived(n) == [i \in 1 .. n |-> (next + i - 1) % Bytes]

\* recv stores n bytes where the request stands.
LEMMA RecvIs ==
  ASSUME RxIInv, Recv
  PROVE  \E n \in 1 .. rx.inRx :
           /\ n <= wire /\ Arrived(n) \in Seq(Byte) /\ Len(Arrived(n)) = n
           /\ Sound(buf', Size) /\ NoLimits(buf')
           /\ buf'.InReceive = buf.InReceive
           /\ buf'.WPos = buf.WPos /\ buf'.RPos = buf.RPos
           /\ Stream_availableReal(buf') = Stream_availableReal(buf)
           /\ buf'.Data = memCopy(buf.Data, rx.at, Arrived(n))
           /\ rx' = [at |-> rx.at + n, inRx |-> rx.inRx - n]
           /\ wire' = wire - n /\ next' = (next + n) % Bytes /\ unread' = unread + n
           /\ pc' = [pc EXCEPT ![R] = IF rx.inRx = n THEN "unlock" ELSE "recv"]
<1> USE Numbers
<1>0. wire \in Nat /\ Bytes \in Nat \ {0} /\ next \in Byte
  BY WireAssumption, BytesAssumption DEF RxIInv, Typed
<1>1. PICK n \in 1 .. Min2(rx.inRx, wire) :
        /\ buf' = [buf EXCEPT !.Data = memCopy(@, rx.at, Arrived(n))]
        /\ rx' = [at |-> rx.at + n, inRx |-> rx.inRx - n]
        /\ wire' = wire - n
        /\ next' = (next + n) % Bytes
        /\ unread' = unread + n
        /\ Goto(R, IF rx.inRx = n THEN "unlock" ELSE "recv")
  BY DEF Recv, Arrived
<1>2. n \in 1 .. rx.inRx /\ n <= wire
  BY <1>0 DEF Min2
<1>3. Arrived(n) \in Seq(Byte) /\ Len(Arrived(n)) = n
  <2>1. \A i \in 1 .. n : (next + i - 1) % Bytes \in Byte
    <3> TAKE i \in 1 .. n
    <3> DEFINE s == next + i - 1
    <3>1. s \in Int
      BY <1>0 DEF Byte
    <3> HIDE DEF s
    <3>2. s % Bytes \in 0 .. Bytes - 1
      BY <1>0, <3>1, SMTT(30)
    <3> QED
      BY <3>2 DEF s, Byte
  <2> QED
    BY <1>2, <2>1 DEF Arrived
<1>4. Size \in 1 .. MaxLen /\ Sound(buf, Size) /\ NoLimits(buf) /\ rx.at \in Nat
  BY DEF RxIInv, Typed
<1>5. /\ buf' \in Stream(Size) /\ SameRing(buf, buf') /\ Aside(buf') = Aside(buf)
      /\ buf'.Data = memCopy(buf.Data, rx.at, Arrived(n))
  BY <1>1, <1>3, <1>4, DataSet, SMTT(30)
<1>6. /\ Sound(buf', Size) /\ NoLimits(buf')
      /\ Stream_availableReal(buf') = Stream_availableReal(buf)
  BY <1>4, <1>5, RingIsSame
<1> QED
  BY <1>1, <1>2, <1>3, <1>5, <1>6 DEF Goto, SameRing, Aside

\* IStream_receive asks for the whole piece of space.
LEMMA RequestIs ==
  ASSUME RxIInv, NEW t \in Threads, RequestSpace(t)
  PROVE  \E n \in 0 .. Size :
           /\ buf.WPos + n <= Size /\ Stream_availableReal(buf) + n <= Size
           /\ incoming' = n /\ len' = [len EXCEPT ![t] = n]
           /\ at' = [at EXCEPT ![t] = buf.WPos]
           /\ \/ /\ n > 0 /\ Flagged(TRUE)
                 /\ pc' = [pc EXCEPT ![t] = "arm"]
              \/ /\ n = 0 /\ buf' = buf /\ Return(t)
                 /\ Stream_availableReal(buf) = Size
<1> DEFINE n == Stream_directSpace(buf)
<1> USE Numbers
<1>1. /\ n \in 0 .. Size /\ buf.WPos + n <= Size
      /\ Stream_availableReal(buf) + n <= Size
      /\ n = 0 => Stream_availableReal(buf) = Size
  BY DirectSpaceIs DEF RxIInv, Typed
<1>2. /\ incoming' = n /\ len' = [len EXCEPT ![t] = n]
      /\ at' = [at EXCEPT ![t] = buf.WPos]
      /\ \/ n > 0 /\ buf' = [buf EXCEPT !.InReceive = TRUE] /\ Goto(t, "arm")
         \/ n <= 0 /\ UNCHANGED buf /\ Return(t)
  BY DEF RequestSpace
<1> HIDE DEF n
<1>3. buf' = [buf EXCEPT !.InReceive = TRUE] => Flagged(TRUE)
  BY FlagStep
<1>4. \/ /\ n > 0 /\ Flagged(TRUE)
         /\ pc' = [pc EXCEPT ![t] = "arm"]
      \/ /\ n = 0 /\ buf' = buf /\ Return(t)
         /\ Stream_availableReal(buf) = Size
  <2>1. n <= 0 => n = 0
    BY <1>1
  <2> QED
    BY <1>1, <1>2, <1>3, <2>1 DEF Goto
<1>5. n \in 0 .. Size
  BY <1>1
<1> WITNESS n \in 0 .. Size
<1> QED
  BY <1>1, <1>2, <1>4
-----------------------------------------------------------------------------
(* Who is in a call, and who has the request. *)

LEMMA ExclusiveStep ==
  ASSUME RxIInv, [Next]_vars, ~ overlapped'
  PROVE  Exclusive'
<1>0. Placed /\ Exclusive /\ mutex \in {None, R}
      /\ rx.inRx \in Nat
  BY Numbers DEF RxIInv, Typed, Placed
<1> USE <1>0 DEF Placed, Exclusive, Overlapping, Handling, Polling, LoopPlaces, ReceiverPlaces,
            Threads, L, R, None, At, Goto, socket, rest
<1>1. CASE Setup
  BY <1>1 DEF Setup
<1>2. CASE CheckFirst
  BY <1>2 DEF CheckFirst
<1>3. CASE CheckSecond
  BY <1>3 DEF CheckSecond
<1>4. CASE TakeReceived
  BY <1>4 DEF TakeReceived
<1>5. CASE ChargeIncoming
  BY <1>5 DEF ChargeIncoming
<1>6. CASE Count
  BY <1>6 DEF Count
<1>7. CASE Read
  BY <1>7 DEF Read
<1>8. CASE ReadRefused
  BY <1>8 DEF ReadRefused
<1>9. ASSUME NEW t \in Threads, IStream_receive(t)
     PROVE  Exclusive'
  BY <1>9 DEF IStream_receive, Return
<1>10. ASSUME NEW t \in Threads, RequestSpace(t)
      PROVE  Exclusive'
  BY <1>10 DEF RequestSpace, Return
<1>11. ASSUME NEW t \in Threads, socketReceive(t)
      PROVE  Exclusive'
  BY <1>11 DEF socketReceive, Return
<1>12. CASE Lock
  BY <1>12 DEF Lock
<1>13. CASE Test
  BY <1>13 DEF Test
<1>14. CASE Wake
  BY <1>14 DEF Wake
<1>15. CASE Recv
  <2>1. PICK n \in 1 .. rx.inRx :
          /\ rx' = [at |-> rx.at + n, inRx |-> rx.inRx - n]
          /\ pc' = [pc EXCEPT ![R] = IF rx.inRx = n THEN "unlock" ELSE "recv"]
    BY <1>15, RecvIs
  <2>2. mutex' = mutex /\ pc[R] = "recv"
    BY <1>15 DEF Recv
  <2>3. rx'.inRx = rx.inRx - n /\ (rx.inRx # n => rx.inRx - n > 0)
    BY <2>1
  <2>4. CASE rx.inRx = n
    BY <2>1, <2>2, <2>4
  <2>5. CASE rx.inRx # n
    BY <2>1, <2>2, <2>3, <2>5
  <2> QED
    BY <2>4, <2>5
<1>16. CASE Unlock
  BY <1>16 DEF Unlock
<1>17. CASE rxHandle
  BY <1>17 DEF rxHandle
<1>18. CASE IStream_handle
  BY <1>18 DEF IStream_handle
<1>19. CASE HandleAdvance
  BY <1>19 DEF HandleAdvance
<1>20. CASE Send
  BY <1>20 DEF Send
<1>21. CASE SpuriousWake
  BY <1>21 DEF SpuriousWake
<1>22. CASE Disconnect
  BY <1>22 DEF Disconnect
<1>23. CASE UNCHANGED vars
  BY <1>23 DEF vars
<1>24. L \in Threads /\ R \in Threads
  BY DEF Threads
<1> QED
  BY <1>1, <1>2, <1>3, <1>4, <1>5, <1>6, <1>7, <1>8, <1>9, <1>10, <1>11, <1>12,
     <1>13, <1>14, <1>15, <1>16, <1>17, <1>18, <1>19, <1>20, <1>21, <1>22, <1>23,
     <1>24
  DEF Next, Loop, Poll, Receiver

LEMMA OneRequestStep ==
  ASSUME RxIInv, [Next]_vars, ~ overlapped'
  PROVE  OneRequest'
<1>0. Placed /\ Exclusive /\ OneRequest
      /\ mutex \in {None, R} /\ rx.inRx \in Nat /\ buf.InReceive \in BOOLEAN
  BY Numbers DEF RxIInv, Typed, Placed
<1> USE <1>0 DEF Placed, Exclusive, Overlapping, Handling, Polling, OneRequest, Asking, Asked, Finished, LoopPlaces,
            ReceiverPlaces, Threads, L, R, None, At, Goto,
            stream, socket, rest
<1>1. CASE Setup
  BY <1>1 DEF Setup
<1>2. CASE CheckFirst
  BY <1>2 DEF CheckFirst
<1>3. CASE CheckSecond
  BY <1>3 DEF CheckSecond
<1>4. CASE TakeReceived
  <2>1. buf'.InReceive = buf.InReceive
    BY <1>4, TakeIs DEF MovedOver
  <2> QED
    BY <1>4, <2>1 DEF TakeReceived
<1>5. CASE ChargeIncoming
  BY <1>5 DEF ChargeIncoming
<1>6. CASE Count
  BY <1>6 DEF Count
<1>7. CASE Read
  <2>1. buf'.InReceive = buf.InReceive
    BY <1>7, ReadIs
  <2> QED
    BY <1>7, <2>1 DEF Read
<1>8. CASE ReadRefused
  BY <1>8 DEF ReadRefused
<1>9. ASSUME NEW t \in Threads, IStream_receive(t)
     PROVE  OneRequest'
  BY <1>9 DEF IStream_receive, Return
<1>10. ASSUME NEW t \in Threads, RequestSpace(t)
      PROVE  OneRequest'
  <2>1. /\ pc[t] = "request" /\ rx' = rx /\ mutex' = mutex
        /\ \/ /\ buf'.InReceive = TRUE
              /\ pc' = [pc EXCEPT ![t] = "arm"]
           \/ buf' = buf /\ Return(t)
    BY <1>10, RequestIs DEF RequestSpace, Flagged
  <2>2. ~ buf.InReceive
    BY <2>1
  <2> QED
    BY <2>1, <2>2 DEF Return
<1>11. ASSUME NEW t \in Threads, socketReceive(t)
      PROVE  OneRequest'
  <2>1. rx'.inRx = len[t] /\ pc[t] = "arm" /\ mutex = None
    BY <1>11 DEF socketReceive
  <2>2. len[t] > 0
    BY <2>1 DEF RxIInv, Counts
  <2> QED
    BY <1>11, <2>1, <2>2 DEF socketReceive, Return
<1>12. CASE Lock
  BY <1>12 DEF Lock
<1>13. CASE Test
  BY <1>13 DEF Test
<1>14. CASE Wake
  BY <1>14 DEF Wake
<1>15. CASE Recv
  <2>1. PICK n \in 1 .. rx.inRx :
          /\ buf'.InReceive = buf.InReceive
          /\ rx' = [at |-> rx.at + n, inRx |-> rx.inRx - n]
          /\ pc' = [pc EXCEPT ![R] = IF rx.inRx = n THEN "unlock" ELSE "recv"]
    BY <1>15, RecvIs
  <2>2. mutex' = mutex /\ pc[R] = "recv"
    BY <1>15 DEF Recv
  <2>3. /\ rx'.inRx = rx.inRx - n /\ rx.inRx > 0
        /\ rx.inRx = n => rx'.inRx = 0
        /\ rx.inRx # n => rx'.inRx > 0
    BY <2>1
  <2>4. CASE rx.inRx = n
    BY <2>1, <2>2, <2>3, <2>4
  <2>5. CASE rx.inRx # n
    BY <2>1, <2>2, <2>3, <2>5
  <2> QED
    BY <2>4, <2>5
<1>16. CASE Unlock
  BY <1>16 DEF Unlock
<1>17. CASE rxHandle
  BY <1>17 DEF rxHandle
<1>18. CASE IStream_handle
  <2>1. /\ pc[R] = "handle" /\ rx' = rx
        /\ buf.InReceive => buf'.InReceive = FALSE
    BY <1>18, FlagStep DEF IStream_handle, Flagged
  <2> QED
    BY <1>18, <2>1 DEF IStream_handle
<1>19. CASE HandleAdvance
  <2>1. /\ buf'.InReceive = buf.InReceive /\ pc[R] = "advance" /\ rx' = rx
        /\ pc' = [pc EXCEPT ![R] = "receive"]
    BY <1>19, AdvanceIs DEF HandleAdvance, MovedOver
  <2> QED
    BY <2>1
<1>20. CASE Send
  BY <1>20 DEF Send
<1>21. CASE SpuriousWake
  BY <1>21 DEF SpuriousWake
<1>22. CASE Disconnect
  BY <1>22 DEF Disconnect
<1>23. CASE UNCHANGED vars
  BY <1>23 DEF vars
<1>24. L \in Threads /\ R \in Threads
  BY DEF Threads
<1> QED
  BY <1>1, <1>2, <1>3, <1>4, <1>5, <1>6, <1>7, <1>8, <1>9, <1>10, <1>11, <1>12,
     <1>13, <1>14, <1>15, <1>16, <1>17, <1>18, <1>19, <1>20, <1>21, <1>22, <1>23,
     <1>24
  DEF Next, Loop, Poll, Receiver
-----------------------------------------------------------------------------
(* The types and the counts. *)

\* What has overlapped stays so.
LEMMA OverlapStays ==
  ASSUME [Next]_vars
  PROVE  /\ overlapped => overlapped'
         /\ overlapped \in BOOLEAN => overlapped' \in BOOLEAN
<1>1. (overlapped' = (overlapped \/ Overlapping')) \/ overlapped' = overlapped
  BY DEF Next, Loop, Poll, Receiver, Goto, Setup, CheckFirst, CheckSecond,
         TakeReceived, ChargeIncoming, Count, Read, ReadRefused, IStream_receive,
         RequestSpace, socketReceive, Return, Lock, Test, Wake, Recv, Unlock, rxHandle,
         IStream_handle, HandleAdvance, Send, SpuriousWake, Disconnect, vars
<1>2. (overlapped \/ Overlapping') \in BOOLEAN
  OBVIOUS
<1> HIDE DEF Overlapping
<1>3. overlapped \in BOOLEAN => overlapped' \in BOOLEAN
  <2>1. CASE overlapped' = (overlapped \/ Overlapping')
    BY <1>2, <2>1
  <2>2. CASE overlapped' = overlapped
    BY <2>2
  <2> QED
    BY <1>1, <2>1, <2>2
<1>4. ASSUME overlapped PROVE overlapped'
  <2>1. CASE overlapped' = (overlapped \/ Overlapping')
    BY <1>4, <2>1, Zenon
  <2>2. CASE overlapped' = overlapped
    BY <1>4, <2>2
  <2> QED
    BY <1>1, <2>1, <2>2
<1> QED
  BY <1>3, <1>4

LEMMA TypedStep ==
  ASSUME RxIInv, [Next]_vars
  PROVE  Typed'
<1>0. Typed /\ PlacedInv
  BY DEF RxIInv, Typed, Placed, PlacedInv
<1>25. Placed'
  BY <1>0, PlacedStep DEF PlacedInv
<1>26. /\ Size \in Nat \ {0} /\ rx.at \in 0 .. Size /\ rx.inRx \in 0 .. Size
       /\ Stream_availableReal(buf) \in 0 .. Size
       /\ len[L] \in -Size .. Size /\ len[R] \in -Size .. Size
  BY Numbers
<1>27. overlapped' \in BOOLEAN
  BY <1>0, OverlapStays DEF Typed
<1> USE <1>0, <1>25, <1>26, <1>27
    DEF Typed, Placed, Threads, L, R, None, At, Goto, stream, socket, rest
<1>1. CASE Setup
  BY <1>1 DEF Setup
<1>2. CASE CheckFirst
  BY <1>2 DEF CheckFirst
<1>3. CASE CheckSecond
  <2>1. pc[L] = "checkRx" => len[L] - rx.inRx \in -Size .. Size
    BY DEF RxIInv, Counts
  <2>2. pc[L] = "checkIn" => incoming - len[L] \in -Size .. Size
    BY DEF RxIInv, Counts
  <2> QED
    BY <1>3, <2>1, <2>2 DEF CheckSecond
<1>4. CASE TakeReceived
  <2>1. Sound(buf', Size) /\ NoLimits(buf')
    BY <1>4, TakeIs DEF MovedOver
  <2>2. len' \in [Threads -> -Size .. Size]
    BY <1>4, TakeIs
  <2> QED
    BY <1>4, <2>1, <2>2 DEF TakeReceived
<1>5. CASE ChargeIncoming
  <2>1. pc[L] = "charge" /\ len[L] > 0 /\ (Asked \/ Finished)
    BY <1>5 DEF ChargeIncoming, RxIInv, Counts
  <2>2. rx.inRx <= Part
    BY <2>1 DEF RxIInv, Counts, OneRequest
  <2>3. incoming - len[L] \in 0 .. Size
    BY <2>1, <2>2, RequestLies
  <2> QED
    BY <1>5, <2>3 DEF ChargeIncoming
<1>6. CASE Count
  <2>1. Stream_available(buf) \in -Size .. Size
    BY NoLimitCounts
  <2>2. len' \in [Threads -> -Size .. Size]
    BY <1>6, <2>1 DEF Count
  <2>3. caller' \in {"setup", "if", "use"}
    BY <1>6 DEF Count
  <2> QED
    BY <1>6, <2>2, <2>3 DEF Count
<1>7. CASE Read
  <2>1. PICK k \in 0 .. Stream_availableReal(buf) :
          Sound(buf', Size) /\ NoLimits(buf') /\ unread' = unread - k
    BY <1>7, ReadIs
  <2>2. unread' \in 0 .. Size
    BY <2>1, RequestLies
  <2> QED
    BY <1>7, <2>1, <2>2 DEF Read
<1>8. CASE ReadRefused
  BY <1>8 DEF ReadRefused
<1>9. ASSUME NEW t \in Threads, IStream_receive(t)
     PROVE  Typed'
  BY <1>9 DEF IStream_receive, Return
<1>10. ASSUME NEW t \in Threads, RequestSpace(t)
      PROVE  Typed'
  <2>1. PICK n \in 0 .. Size :
          /\ buf.WPos + n <= Size
          /\ incoming' = n /\ len' = [len EXCEPT ![t] = n]
          /\ at' = [at EXCEPT ![t] = buf.WPos]
          /\ \/ Flagged(TRUE)
             \/ buf' = buf /\ Return(t)
    BY <1>10, RequestIs
  <2>2. Sound(buf', Size) /\ NoLimits(buf')
    BY <2>1 DEF Flagged
  <2>3. n \in -Size .. Size /\ buf.WPos \in 0 .. Size
    BY Numbers
  <2>4. len' \in [Threads -> -Size .. Size] /\ at' \in [Threads -> 0 .. Size]
    BY <2>1, <2>3
  <2> QED
    BY <1>10, <2>1, <2>2, <2>4 DEF RequestSpace
<1>11. ASSUME NEW t \in Threads, socketReceive(t)
      PROVE  Typed'
  <2>1. len[t] \in 0 .. Size /\ at[t] \in 0 .. Size
    BY <1>11, Numbers DEF socketReceive, RxIInv, Counts, Asking
  <2>2. rx' \in [at : 0 .. Size, inRx : 0 .. Size]
    BY <1>11, <2>1 DEF socketReceive
  <2>3. signalled' \in BOOLEAN
    BY <1>11 DEF socketReceive, Return
  <2> QED
    BY <1>11, <2>2, <2>3 DEF socketReceive
<1>12. CASE Lock
  BY <1>12 DEF Lock
<1>13. CASE Test
  BY <1>13 DEF Test
<1>14. CASE Wake
  BY <1>14 DEF Wake
<1>15. CASE Recv
  <2>1. PICK n \in 1 .. rx.inRx :
          /\ n <= wire
          /\ Sound(buf', Size) /\ NoLimits(buf')
          /\ rx' = [at |-> rx.at + n, inRx |-> rx.inRx - n]
          /\ wire' = wire - n /\ next' = (next + n) % Bytes /\ unread' = unread + n
    BY <1>15, RecvIs
  <2>2. Asked
    BY <2>1 DEF Asked
  <2>3. rx.at + n \in 0 .. Size /\ rx.inRx - n \in 0 .. Size /\ unread' \in 0 .. Size
    <3>1. /\ rx.at + rx.inRx = buf.WPos + Part /\ buf.WPos + Part <= Size
          /\ unread = Stream_availableReal(buf) + Part - rx.inRx
          /\ Stream_availableReal(buf) + Part <= Size /\ Part \in Int
      BY <2>2, RequestLies
    <3>2. buf.WPos \in 0 .. Size
      BY Numbers
    <3> QED
      BY <2>1, <3>1, <3>2
  <2>4. wire' \in 0 .. MaxWire
    BY <2>1, WireAssumption
  <2>5. next' \in Byte
    <3> DEFINE s == next + n
    <3>1. s \in Int
      BY BytesAssumption DEF Byte
    <3> HIDE DEF s
    <3>2. s % Bytes \in 0 .. Bytes - 1
      BY <3>1, BytesAssumption
    <3> QED
      BY <2>1, <3>2 DEF s, Byte
  <2> QED
    BY <1>15, <2>1, <2>3, <2>4, <2>5 DEF Recv
<1>16. CASE Unlock
  BY <1>16 DEF Unlock
<1>17. CASE rxHandle
  <2>1. incoming \in -Size .. Size
    BY Numbers
  <2>2. len' \in [Threads -> -Size .. Size]
    BY <1>17, <2>1 DEF rxHandle
  <2> QED
    BY <1>17, <2>2 DEF rxHandle
<1>18. CASE IStream_handle
  <2>1. Sound(buf', Size) /\ NoLimits(buf')
    BY <1>18, FlagStep DEF IStream_handle, Flagged
  <2>2. Min2(len[R], incoming) \in -Size .. Size
    BY DEF Min2
  <2>3. len' \in [Threads -> -Size .. Size]
    BY <1>18, <2>2 DEF IStream_handle
  <2> QED
    BY <1>18, <2>1, <2>3 DEF IStream_handle
<1>19. CASE HandleAdvance
  <2>1. Sound(buf', Size) /\ NoLimits(buf')
    BY <1>19, AdvanceIs DEF MovedOver
  <2> QED
    BY <1>19, <2>1 DEF HandleAdvance
<1>20. CASE Send
  BY <1>20, WireAssumption DEF Send
<1>21. CASE SpuriousWake
  BY <1>21 DEF SpuriousWake
<1>22. CASE Disconnect
  BY <1>22 DEF Disconnect
<1>23. CASE UNCHANGED vars
  BY <1>23 DEF vars
<1>24. L \in Threads /\ R \in Threads
  BY DEF Threads
<1> QED
  BY <1>1, <1>2, <1>3, <1>4, <1>5, <1>6, <1>7, <1>8, <1>9, <1>10, <1>11, <1>12,
     <1>13, <1>14, <1>15, <1>16, <1>17, <1>18, <1>19, <1>20, <1>21, <1>22, <1>23,
     <1>24
  DEF Next, Loop, Poll, Receiver
LEMMA CountsStep ==
  ASSUME RxIInv, [Next]_vars, ~ overlapped'
  PROVE  Counts'
<1>0. Placed /\ Exclusive /\ OneRequest /\ Counts
      /\ len \in [Threads -> -Size .. Size] /\ at \in [Threads -> 0 .. Size]
  BY DEF RxIInv, Typed, Placed
<1>25. Exclusive' /\ OneRequest'
  BY ExclusiveStep, OneRequestStep
<1>26. /\ Size \in Nat \ {0} /\ rx.at \in 0 .. Size /\ rx.inRx \in 0 .. Size
       /\ Stream_availableReal(buf) \in 0 .. Size
       /\ len[L] \in -Size .. Size /\ len[R] \in -Size .. Size
       /\ incoming \in 0 .. Size /\ unread \in 0 .. Size
       /\ buf.WPos \in 0 .. Size - 1 /\ buf.InReceive \in BOOLEAN
  BY Numbers
<1> USE <1>0, <1>26
    DEF Placed, Exclusive, Overlapping, Handling, Polling, OneRequest, Counts, Part, Asking, Asked, Finished,
        LoopPlaces, ReceiverPlaces, Threads, L, R, None, At,
        Goto, stream, socket, rest
<1>1. CASE Setup
  BY <1>1 DEF Setup
<1>2. CASE CheckFirst
  BY <1>2 DEF CheckFirst
<1>3. CASE CheckSecond
  BY <1>3 DEF CheckSecond
<1>4. CASE TakeReceived
  <2>1. /\ pc[L] = "take" /\ incoming' = incoming /\ rx' = rx /\ unread' = unread
        /\ at' = at /\ ~ Handling
    BY <1>4 DEF TakeReceived
  <2>2. CASE /\ len[L] <= 0 /\ buf' = buf /\ len' = len
             /\ pc' = [pc EXCEPT ![L] = "count"]
    BY <2>1, <2>2
  <2>3. CASE /\ len[L] > 0 /\ MovedOver(len[L]) /\ len' = [len EXCEPT ![L] = len[L]]
             /\ pc' = [pc EXCEPT ![L] = "charge"]
             /\ Asked \/ Finished
    <3> DEFINE a == Stream_availableReal(buf)
               b == Stream_availableReal(buf')
               w == buf.WPos
               v == buf'.WPos
               f == buf'.InReceive
    <3>1. /\ b = a + len[L] /\ f = buf.InReceive
          /\ w + len[L] < Size => v = w + len[L]
          /\ w + len[L] >= Size => v = 0
      BY <2>3 DEF MovedOver
    <3>2. /\ a \in 0 .. Size /\ w \in 0 .. Size - 1
      OBVIOUS
    <3> HIDE DEF a, b, w, v, f
    <3> QED
      BY <2>1, <2>3, <3>1, <3>2 DEF a, b, w, v, f
  <2> QED
    BY <1>4, <2>2, <2>3, TakeIs
<1>5. CASE ChargeIncoming
  BY <1>5 DEF ChargeIncoming
<1>6. CASE Count
  <2>1. /\ pc[L] = "count" /\ buf' = buf /\ incoming' = incoming /\ rx' = rx
        /\ unread' = unread /\ at' = at
        /\ len' = [len EXCEPT ![L] = Stream_availableReal(buf)]
    BY <1>6, NoLimitCounts DEF Count, RxIInv, Typed
  <2>2. pc' = [pc EXCEPT ![L] = "loop"] \/ pc' = [pc EXCEPT ![L] = "read"]
    BY <1>6 DEF Count
  <2>3. CASE pc' = [pc EXCEPT ![L] = "loop"]
    BY <2>1, <2>3
  <2>4. CASE pc' = [pc EXCEPT ![L] = "read"]
    BY <2>1, <2>4
  <2> QED
    BY <2>2, <2>3, <2>4
<1>7. CASE Read
  <2>1. /\ pc[L] = "read" /\ incoming' = incoming /\ rx' = rx /\ at' = at /\ len' = len
        /\ pc' = [pc EXCEPT ![L] = "loop"] 
    BY <1>7 DEF Read
  <2> DEFINE a == Stream_availableReal(buf)
             b == Stream_availableReal(buf')
  <2>2. PICK k \in 0 .. a :
          /\ buf'.InReceive = buf.InReceive /\ buf'.WPos = buf.WPos
          /\ b = a - k /\ unread' = unread - k
    BY <1>7, ReadIs
  <2>3. a \in 0 .. Size
    OBVIOUS
  <2> HIDE DEF a, b
  <2> QED
    BY <2>1, <2>2, <2>3 DEF a, b
<1>8. CASE ReadRefused
  BY <1>8 DEF ReadRefused
<1>9. ASSUME NEW t \in Threads, IStream_receive(t)
     PROVE  Counts'
  BY <1>9 DEF IStream_receive, Return
<1>10. ASSUME NEW t \in Threads, RequestSpace(t)
      PROVE  Counts'
  <2>1. /\ pc[t] = "request" /\ rx' = rx /\ unread' = unread
    BY <1>10 DEF RequestSpace
  <2> DEFINE a == Stream_availableReal(buf)
             b == Stream_availableReal(buf')
  <2>2. PICK n \in 0 .. Size :
          /\ buf.WPos + n <= Size /\ a + n <= Size
          /\ incoming' = n /\ len' = [len EXCEPT ![t] = n]
          /\ at' = [at EXCEPT ![t] = buf.WPos]
          /\ \/ /\ n > 0 /\ Flagged(TRUE)
                /\ pc' = [pc EXCEPT ![t] = "arm"]
             \/ /\ n = 0 /\ buf' = buf /\ Return(t)
    BY <1>10, RequestIs
  <2>3. a \in 0 .. Size /\ ~ buf.InReceive
    BY <2>1
  <2>4. CASE /\ n > 0 /\ Flagged(TRUE)
             /\ pc' = [pc EXCEPT ![t] = "arm"]
    <3>1. b = a /\ buf'.WPos = buf.WPos /\ buf'.InReceive = TRUE
      BY <2>4 DEF Flagged
    <3> HIDE DEF a, b
    <3>2. CASE t = L
      BY <2>1, <2>2, <2>3, <2>4, <3>1, <3>2 DEF a, b
    <3>3. CASE t = R
      BY <2>1, <2>2, <2>3, <2>4, <3>1, <3>3 DEF a, b
    <3> QED
      BY <3>2, <3>3
  <2>5. CASE n = 0 /\ buf' = buf /\ Return(t)
    <3>1. CASE t = L
      BY <2>1, <2>2, <2>3, <2>5, <3>1 DEF Return
    <3>2. CASE t = R
      BY <2>1, <2>2, <2>3, <2>5, <3>2 DEF Return
    <3> QED
      BY <3>1, <3>2
  <2> QED
    BY <2>2, <2>4, <2>5
<1>11. ASSUME NEW t \in Threads, socketReceive(t)
      PROVE  Counts'
  BY <1>11 DEF socketReceive, Return
<1>12. CASE Lock
  BY <1>12 DEF Lock
<1>13. CASE Test
  BY <1>13 DEF Test
<1>14. CASE Wake
  BY <1>14 DEF Wake
<1>15. CASE Recv
  <2>1. /\ pc[R] = "recv" /\ incoming' = incoming /\ at' = at /\ len' = len
    BY <1>15 DEF Recv
  <2> DEFINE a == Stream_availableReal(buf)
             b == Stream_availableReal(buf')
  <2>2. PICK n \in 1 .. rx.inRx :
          /\ buf'.InReceive = buf.InReceive
          /\ buf'.WPos = buf.WPos /\ b = a
          /\ rx' = [at |-> rx.at + n, inRx |-> rx.inRx - n]
          /\ unread' = unread + n
          /\ pc' = [pc EXCEPT ![R] = IF rx.inRx = n THEN "unlock" ELSE "recv"]
    BY <1>15, RecvIs
  <2>3. a \in 0 .. Size /\ rx'.at = rx.at + n /\ rx'.inRx = rx.inRx - n
    BY <2>2
  <2> HIDE DEF a, b
  <2>4. CASE rx.inRx = n
    BY <2>1, <2>2, <2>3, <2>4 DEF a, b
  <2>5. CASE rx.inRx # n
    BY <2>1, <2>2, <2>3, <2>5 DEF a, b
  <2> QED
    BY <2>4, <2>5
<1>16. CASE Unlock
  BY <1>16 DEF Unlock
<1>17. CASE rxHandle
  BY <1>17 DEF rxHandle
<1>18. CASE IStream_handle
  <2>1. /\ pc[R] = "handle" /\ rx' = rx /\ incoming' = incoming /\ at' = at
        /\ unread' = unread /\ buf.InReceive /\ Flagged(FALSE)
        /\ pc' = [pc EXCEPT ![R] = "advance"]
        /\ len' = [len EXCEPT ![R] = incoming]
    <3>1. len[R] >= incoming /\ len[R] \in Int
      BY <1>18 DEF IStream_handle
    <3>2. Min2(len[R], incoming) = incoming
      BY <3>1 DEF Min2
    <3> QED
      BY <1>18, <3>2, FlagStep DEF IStream_handle
  <2>3. ~ Polling
    BY <1>18, <2>1 DEF IStream_handle
  <2> DEFINE a == Stream_availableReal(buf)
             b == Stream_availableReal(buf')
  <2>2. /\ b = a /\ buf'.WPos = buf.WPos /\ buf'.InReceive = FALSE
    BY <2>1 DEF Flagged
  <2> HIDE DEF a, b
  <2> QED
    BY <2>1, <2>2, <2>3 DEF a, b
<1>19. CASE HandleAdvance
  <2>1. /\ pc[R] = "advance" /\ rx' = rx /\ incoming' = incoming /\ at' = at
        /\ unread' = unread /\ len' = len
    BY <1>19 DEF HandleAdvance
  <2> DEFINE a == Stream_availableReal(buf)
             b == Stream_availableReal(buf')
  <2>2. /\ b = a + incoming /\ buf'.InReceive = buf.InReceive
        /\ pc' = [pc EXCEPT ![R] = "receive"]
    BY <1>19, AdvanceIs DEF MovedOver
  <2>3. unread = a + incoming /\ rx.inRx = 0 /\ ~ buf.InReceive
    BY <2>1, RequestLies
  <2> HIDE DEF a, b
  <2> QED
    BY <2>1, <2>2, <2>3 DEF a, b
<1>20. CASE Send
  BY <1>20 DEF Send
<1>21. CASE SpuriousWake
  BY <1>21 DEF SpuriousWake
<1>22. CASE Disconnect
  BY <1>22 DEF Disconnect
<1>23. CASE UNCHANGED vars
  BY <1>23 DEF vars
<1>24. L \in Threads /\ R \in Threads
  BY DEF Threads
<1> QED
  BY <1>1, <1>2, <1>3, <1>4, <1>5, <1>6, <1>7, <1>8, <1>9, <1>10, <1>11, <1>12,
     <1>13, <1>14, <1>15, <1>16, <1>17, <1>18, <1>19, <1>20, <1>21, <1>22, <1>23,
     <1>24
  DEF Next, Loop, Poll, Receiver
-----------------------------------------------------------------------------
(* The bytes stand in the order in which they were sent. *)

\* A read takes the oldest bytes: the others keep their slots and their numbers.
LEMMA ReadKeepsOrder ==
  ASSUME RxIInv, Read
  PROVE  InOrder'
<1> DEFINE r == buf.RPos
           q == buf'.RPos
<1>1. PICK k \in 0 .. Stream_availableReal(buf) :
        /\ buf'.Data = buf.Data /\ Further(r, k, q, Size)
        /\ unread' = unread - k /\ Sound(buf', Size)
  BY ReadIs
<1>2. /\ Size \in Nat \ {0} /\ r \in 0 .. Size - 1 /\ unread \in 0 .. Size
      /\ k \in 0 .. unread /\ k \in 0 .. Size
  BY Numbers, RequestLies
<1>3. q \in 0 .. Size - 1
  BY <1>1, Numbers, Types DEF Sound
<1>4. next' = next /\ next \in Int
  BY DEF Read, RxIInv, Typed, Byte
<1> HIDE DEF r, q
<1>5. ASSUME NEW i \in 1 .. unread'
      PROVE  buf'.Data[Ahead(q, i, Size)] = Number(i)'
  <2>1. k + i \in 1 .. unread /\ i \in 1 .. Size /\ k + i <= Size
    BY <1>1, <1>2
  <2>2. Ahead(q, i, Size) = Ahead(r, k + i, Size)
    BY <1>1, <1>2, <1>3, <2>1, AheadAdds
  <2>3. buf.Data[Ahead(r, k + i, Size)] = Number(k + i)
    BY <2>1 DEF RxIInv, InOrder, r
  <2>4. next' - unread' + i - 1 = next - unread + (k + i) - 1
    BY <1>1, <1>2, <1>4, <2>1
  <2>5. Number(i)' = Number(k + i)
    BY <2>4 DEF Number
  <2> QED
    BY <1>1, <2>2, <2>3, <2>5
<1> QED
  BY <1>5 DEF InOrder, q

\* recv puts its bytes behind those received before.
LEMMA RecvKeepsOrder ==
  ASSUME RxIInv, Recv
  PROVE  InOrder'
<1> DEFINE r == buf.RPos
           w == buf.WPos
           a == Stream_availableReal(buf)
           p == rx.at
<1>1. PICK n \in 1 .. rx.inRx :
        /\ n <= wire /\ Arrived(n) \in Seq(Byte) /\ Len(Arrived(n)) = n
        /\ buf'.RPos = r
        /\ buf'.Data = memCopy(buf.Data, p, Arrived(n))
        /\ next' = (next + n) % Bytes /\ unread' = unread + n
  BY RecvIs
<1>2. /\ Size \in Nat \ {0} /\ r \in 0 .. Size - 1 /\ w \in 0 .. Size - 1
      /\ a \in 0 .. Size /\ p \in Nat /\ rx.inRx \in 0 .. Size /\ unread \in 0 .. Size
      /\ buf.Data \in [0 .. Size - 1 -> Byte]
  BY Numbers
<1>3. Further(r, a, w, Size)
  BY WriterIsBehind, Numbers DEF RxIInv, Typed
<1>4. /\ unread \in a .. Size
      /\ unread + n <= Size
      /\ p = w + (unread - a) /\ p + n <= Size
  <2>1. Asked
    BY <1>1, <1>2 DEF Asked
  <2>2. /\ p + rx.inRx = w + Part /\ unread = a + Part - rx.inRx
        /\ w + Part <= Size /\ a + Part <= Size /\ Part \in Int
        /\ rx.inRx <= Part
    BY <2>1, RequestLies
  <2>3. /\ rx.inRx \in Int /\ n \in Int /\ n >= 1 /\ n <= rx.inRx
        /\ w \in Int /\ a \in Int /\ p \in Int /\ unread \in Int /\ Size \in Int
    BY <1>2
  <2> HIDE DEF a, w, p
  <2> QED
    BY <2>2, <2>3
<1>5. /\ next \in 0 .. Bytes - 1 /\ Bytes \in Nat \ {0} /\ unread + n < Bytes
      /\ n \in Nat
  <2>1. wire \in 0 .. MaxWire /\ next \in 0 .. Bytes - 1
    BY DEF RxIInv, Typed, Byte
  <2> QED
    BY <1>1, <1>2, <2>1, NumberAssumption, WireAssumption, BytesAssumption
<1> HIDE DEF r, w, a, p
<1>6. ASSUME NEW i \in 1 .. unread'
      PROVE  Number(i)' = (next - unread + i - 1) % Bytes
  <2>1. i \in 1 .. unread + n /\ n + unread < Bytes /\ unread \in Nat
    BY <1>1, <1>2, <1>5
  <2>2. (((next + n) % Bytes) - (unread + n) + i - 1) % Bytes
          = (next - unread + i - 1) % Bytes
    BY <1>5, <2>1, NumbersKept
  <2> QED
    BY <1>1, <2>2 DEF Number
<1>7. ASSUME NEW m \in 1 .. n
      PROVE  Ahead(r, unread + m, Size) = w + (unread - a) + m - 1
  <2>1. /\ unread \in Int /\ a \in Int /\ r \in Int /\ w \in Int
        /\ m \in Int /\ Size \in Int /\ 1 <= m
        /\ a <= unread /\ a <= Size
        /\ 0 <= r /\ r < Size /\ 0 <= w /\ w < Size
        /\ w + (unread - a) + m <= Size /\ unread + m <= Size
    BY <1>2, <1>4
  <2> QED
    BY <1>3, <2>1 DEF Ahead, Further
<1>8. ASSUME NEW i \in 1 .. unread'
      PROVE  buf'.Data[Ahead(r, i, Size)] = Number(i)'
  <2> DEFINE j == Ahead(r, i, Size)
  <2>1. i \in 1 .. Size /\ i \in 1 .. unread + n
    BY <1>1, <1>2, <1>4, <1>5
  <2>2. j \in 0 .. Size - 1
    BY <1>2, <2>1, AheadIs
  <2>3. CASE i <= unread
    <3>1. j < p \/ j >= p + n
      <4>1. ASSUME NEW m \in 1 .. n
            PROVE  j # p + m - 1
        <5>1. unread + m \in 1 .. Size /\ m \in 1 .. Size /\ w + (unread - a) + m <= Size
              /\ i # unread + m /\ unread + m <= Size
          BY <1>2, <1>4, <1>5, <2>3
        <5>2. Ahead(r, unread + m, Size) = w + (unread - a) + m - 1
          BY <1>7
        <5>3. j # Ahead(r, unread + m, Size)
          BY <1>2, <2>1, <5>1, AheadDiffers
        <5> QED
          BY <1>4, <5>2, <5>3
      <4> HIDE DEF j
      <4>2. CASE j >= p /\ j < p + n
        <5>1. j - p + 1 \in 1 .. n /\ p + (j - p + 1) - 1 = j
          BY <1>2, <1>5, <2>2, <4>2
        <5> QED
          BY <4>1, <5>1
      <4> QED
        BY <1>2, <1>5, <2>2, <4>2
    <3> HIDE DEF j
    <3>2. buf'.Data[j] = buf.Data[j]
      BY <1>1, <1>2, <2>2, <3>1, CopyIs
    <3>3. buf.Data[j] = Number(i)
      <4>1. i \in 1 .. unread
        BY <1>2, <2>1, <2>3
      <4> QED
        BY <4>1 DEF RxIInv, InOrder, j, r
    <3> QED
      BY <1>6, <3>2, <3>3 DEF Number, j
  <2>4. CASE i > unread
    <3> DEFINE m == i - unread
    <3>1. /\ m \in 1 .. n /\ m \in 1 .. Size /\ unread + m = i /\ unread + m <= Size
          /\ w + (unread - a) + m <= Size
      BY <1>2, <1>4, <1>5, <2>1, <2>4
    <3>2. j = w + (unread - a) + m - 1
      <4> HIDE DEF m
      <4>1. Ahead(r, unread + m, Size) = w + (unread - a) + m - 1
        BY <1>7, <3>1
      <4> QED
        BY <3>1, <4>1
    <3>3. j = p + m - 1
      BY <1>4, <3>2
    <3>4. j >= p /\ j < p + n /\ j - p + 1 = m
      <4> HIDE DEF j, m
      <4> QED
        BY <1>2, <1>5, <3>1, <3>3
    <3> HIDE DEF j
    <3>5. buf'.Data[j] = Arrived(n)[m]
      <4>1. memCopy(buf.Data, p, Arrived(n))[j] = Arrived(n)[j - p + 1]
        <5>1. PICK v \in Seq(Byte) : v = Arrived(n)
          BY <1>1
        <5>2. PICK d \in [0 .. Size - 1 -> Byte] : d = buf.Data
          BY <1>2
        <5>3. Len(v) = n
          BY <1>1, <5>1
        <5> HIDE DEF j, m
        <5>4. j \in p .. p + Len(v) - 1
          BY <1>2, <1>5, <2>2, <3>4, <5>3
        <5>5. memCopy(d, p, v)[j] = v[j - p + 1]
          BY <2>2, <5>4 DEF memCopy
        <5> QED
          BY <5>1, <5>2, <5>5
      <4> HIDE DEF m
      <4> QED
        BY <1>1, <3>4, <4>1
    <3>6. Arrived(n)[m] = (next + m - 1) % Bytes
      <4> HIDE DEF m
      <4> QED
        BY <3>1 DEF Arrived
    <3>7. next + m - 1 = next - unread + i - 1
      BY <1>2, <1>5, <2>1
    <3> HIDE DEF m
    <3> QED
      BY <1>6, <3>5, <3>6, <3>7 DEF j
  <2> QED
    BY <1>2, <2>1, <2>3, <2>4
<1> QED
  BY <1>1, <1>8 DEF InOrder, r

\* No other step touches the bytes, the reader's position or the numbers.
LEMMA OthersKeepOrder ==
  ASSUME RxIInv, [Next]_vars, ~ Read, ~ Recv
  PROVE  InOrder'
<1>1. buf'.Data = buf.Data /\ buf'.RPos = buf.RPos /\ next' = next /\ unread' = unread
  <2> USE DEF stream, rest
  <2>1. CASE TakeReceived
    BY <2>1, TakeIs DEF TakeReceived, MovedOver
  <2>2. CASE \E t \in Threads : RequestSpace(t)
    BY <2>2, RequestIs DEF RequestSpace, Flagged
  <2>3. CASE IStream_handle
    BY <2>3, FlagStep DEF IStream_handle, Flagged
  <2>4. CASE HandleAdvance
    BY <2>4, AdvanceIs DEF HandleAdvance, MovedOver
  <2>5. CASE \/ Setup \/ CheckFirst \/ CheckSecond \/ ChargeIncoming \/ ReadRefused
    BY <2>5 DEF Setup, CheckFirst, CheckSecond, ChargeIncoming, ReadRefused
  <2>6. CASE \/ Lock \/ Test \/ Wake \/ Unlock \/ rxHandle \/ Count
    BY <2>6 DEF Lock, Test, Wake, Unlock, rxHandle, Count
  <2>7. CASE \E t \in Threads : IStream_receive(t) \/ socketReceive(t)
    BY <2>7 DEF IStream_receive, socketReceive
  <2>8. CASE Send \/ SpuriousWake \/ Disconnect \/ UNCHANGED vars
    BY <2>8 DEF Send, SpuriousWake, Disconnect, vars
  <2>9. L \in Threads /\ R \in Threads
    BY DEF Threads
  <2> QED
    BY <2>1, <2>2, <2>3, <2>4, <2>5, <2>6, <2>7, <2>8, <2>9 DEF Next, Loop, Poll, Receiver
<1> QED
  BY <1>1 DEF RxIInv, InOrder, Number

\* The invariant.
LEMMA RxInit ==
  ASSUME Init
  PROVE  RxIInv
<1>1. Size \in 1 .. MaxLen /\ MaxWire \in Nat
  BY SizeAssumption, WireAssumption
<1>2. 0 \in Byte
  BY BytesAssumption DEF Byte
<1>3. Sound(buf, Size) /\ NoLimits(buf) /\ ~ buf.InReceive
      /\ Stream_availableReal(buf) = 0 /\ buf.WPos = 0
  <2> DEFINE d == [i \in 0 .. Size - 1 |-> 0]
  <2>1. d \in [0 .. Size - 1 -> Byte]
    BY <1>2
  <2>2. buf = Stream_init(d, Size)
    BY DEF Init
  <2> HIDE DEF d
  <2>3. Sound(buf, Size)
    BY <1>1, <2>1, <2>2, InitSound
  <2>4. /\ buf.WriteLimit = NoLimit /\ buf.ReadLimit = NoLimit /\ ~ buf.InReceive
        /\ buf.WPos = 0 /\ buf.RPos = 0 /\ buf.Overflow = 0
    BY <2>2 DEF Stream_init
  <2>5. Stream_availableReal(buf) = 0
    BY <1>1, <2>3, <2>4, Filled DEF Sound
  <2> QED
    BY <2>3, <2>4, <2>5 DEF NoLimits
<1>4. Typed /\ Exclusive
  <2>1. Placed /\ Exclusive
    BY DEF Init, Placed, Exclusive, Overlapping, Handling, Threads, L, R, None, LoopPlaces, ReceiverPlaces
  <2>2. 0 \in 0 .. Size /\ 0 \in -Size .. Size /\ 0 \in 0 .. MaxWire
    BY <1>1, MaxLenAssumption
  <2> QED
    BY <1>2, <1>3, <2>1, <2>2 DEF Init, Typed, Placed, Threads, None
<1>5. OneRequest /\ Counts /\ NoLostSignal
  BY <1>1, <1>3, MaxLenAssumption
  DEF Init, OneRequest, Counts, Part, NoLostSignal, Asking, Asked, Finished,
      Threads, L, R
<1>6. InOrder
  BY DEF Init, InOrder
<1> QED
  BY <1>4, <1>5, <1>6 DEF RxIInv

LEMMA RxNext ==
  ASSUME RxIInv, [Next]_vars, ~ overlapped'
  PROVE  RxIInv'
<1>1. InOrder'
  BY ReadKeepsOrder, RecvKeepsOrder, OthersKeepOrder
<1>2. NoLostSignal'
  BY PlacedStep DEF RxIInv, Typed, PlacedInv, Placed
<1> QED
  BY <1>1, <1>2, TypedStep, ExclusiveStep, OneRequestStep, CountsStep DEF RxIInv

-----------------------------------------------------------------------------
(* What follows from the invariant. *)

\* Until calls overlap the invariant holds.
LEMMA RxInvariant == Spec => [](overlapped \/ RxIInv)
<1>1. Init => RxIInv
  BY RxInit
<1>2. (overlapped \/ RxIInv) /\ [Next]_vars => overlapped' \/ RxIInv'
  BY RxNext, OverlapStays
<1> QED
  BY <1>1, <1>2, PTL DEF Spec

\* Until calls overlap, the receiver writes only into space and, between calls,
\* every byte that was received and not read is available or is one of the
\* IncomingBytes: for every size of the buffer.
THEOREM ReceivePathIsSound == Spec => []RxInv
<1>1. ASSUME RxIInv PROVE TypeOK
  BY <1>1 DEF RxIInv, Typed, TypeOK, Sound
<1>2. ASSUME RxIInv PROVE ReceivesIntoSpace
  <2> DEFINE a == Stream_availableReal(buf)
  <2>1. SUFFICES ASSUME Asked
                 PROVE  rx.at + rx.inRx <= Size /\ unread + rx.inRx <= Size
    BY DEF ReceivesIntoSpace, Asked
  <2>2. /\ rx.at + rx.inRx = buf.WPos + Part /\ unread = a + Part - rx.inRx
        /\ buf.WPos + Part <= Size /\ a + Part <= Size /\ Part \in Int
    BY <1>1, <1>2, <2>1, RequestLies
  <2>3. /\ Size \in Int /\ rx.at \in Int /\ rx.inRx \in Int /\ a \in Int
        /\ buf.WPos \in Int /\ unread \in Int
    BY <1>2, Numbers
  <2> HIDE DEF a
  <2> QED
    BY <2>2, <2>3
<1>3. ASSUME RxIInv PROVE EveryByteAccounted
  <2> SUFFICES ASSUME ~ Polling, ~ Handling, caller # "setup"
               PROVE  unread = Stream_availableReal(buf) + (incoming - rx.inRx)
    BY DEF EveryByteAccounted
  <2>2. pc[L] # "charge" /\ ~ Asking(L) /\ ~ Asking(R)
    BY DEF Polling, Handling, Asking
  <2>3. pc[R] \notin {"advance", "receive", "request"}
    BY DEF Handling
  <2>4. Part = incoming
    BY <1>3, <2>2, RequestLies
  <2>5. CASE Asked \/ Finished
    BY <1>3, <2>4, <2>5, Numbers DEF RxIInv, Counts
  <2>6. CASE ~ (Asked \/ Finished)
    <3>1. ~ buf.InReceive
      BY <1>3, <2>2, <2>6 DEF RxIInv, OneRequest
    <3>2. incoming = 0 /\ unread = Stream_availableReal(buf)
      BY <1>3, <2>3, <2>6, <3>1 DEF RxIInv, Counts
    <3>3. rx.inRx = 0
      BY <1>3, <2>6, Numbers DEF Asked
    <3> QED
      BY <1>3, <3>2, <3>3, Numbers
  <2> QED
    BY <2>5, <2>6
<1>4. overlapped \/ RxIInv => RxInv
  BY <1>1, <1>2, <1>3 DEF RxInv
<1> QED
  BY <1>4, RxInvariant, PTL

\* Until calls overlap, IStream_available reports no byte that was not received,
\* and what it reports stands in the ring in the order in which it was sent.
THEOREM AvailableBytesWereReceived == Spec => []ReceivedUntilOverlap
<1>1. ASSUME RxIInv PROVE AvailableIsReceived
  <2> DEFINE a == Stream_availableReal(buf)
  <2>1. /\ a <= unread /\ a \in 0 .. Size /\ unread \in 0 .. Size
        /\ Size \in Nat \ {0} /\ buf.RPos \in 0 .. Size - 1
    BY <1>1, Numbers, RequestLies
  <2> HIDE DEF a
  <2>2. ASSUME NEW i \in 1 .. a
        PROVE  buf.Data[(buf.RPos + i - 1) % Size] = Number(i)
    <3>1. i \in 1 .. unread /\ i \in 1 .. Size
      BY <2>1
    <3>2. (buf.RPos + i - 1) % Size = Ahead(buf.RPos, i, Size)
      BY <2>1, <3>1, AheadIs
    <3> QED
      BY <1>1, <3>1, <3>2 DEF RxIInv, InOrder
  <2> QED
    BY <2>1, <2>2 DEF AvailableIsReceived, a
<1>2. overlapped \/ RxIInv => ReceivedUntilOverlap
  BY <1>1 DEF ReceivedUntilOverlap
<1> QED
  BY <1>2, RxInvariant, PTL

\* No signal is lost, whatever overlaps.  Until calls overlap, the thread that
\* makes a request (socketReceive) never finds rxMutex held by a recv that waits
\* for the peer: there is no request while a thread makes one.
THEOREM ReceiveLeavesNoThreadWaiting == Spec => []NoThreadLeftWaiting
<1>1. ASSUME RxIInv PROVE NeverWaitsForPeer
  BY <1>1 DEF RxIInv, Exclusive, OneRequest, Asking, Asked, NeverWaitsForPeer, Threads
<1>2. NoLostSignal /\ (overlapped \/ RxIInv) => NoThreadLeftWaiting
  BY <1>1 DEF NoThreadLeftWaiting
<1> QED
  BY <1>2, SignalIsNotLost, RxInvariant, PTL

\* No step replaces a request that is still being received.
LEMMA KeptStep ==
  ASSUME RxIInv, [Next]_vars, rx.inRx # 0
  PROVE  ~ (rx'.inRx > rx.inRx)
<1>0. rx.inRx \in Nat /\ rx.inRx > 0 /\ Asked
  BY Numbers DEF Asked
<1> USE DEF socket
<1>1. CASE Recv
  <2>1. PICK n \in 1 .. rx.inRx : rx' = [at |-> rx.at + n, inRx |-> rx.inRx - n]
    BY <1>1, RecvIs
  <2>2. rx'.inRx = rx.inRx - n
    BY <2>1
  <2> QED
    BY <1>0, <2>2
<1>2. ASSUME NEW t \in Threads, socketReceive(t)
      PROVE  FALSE
  BY <1>0, <1>2 DEF socketReceive, At, RxIInv, OneRequest, Asking, Threads
<1>3. ASSUME rx' = rx
      PROVE  ~ (rx'.inRx > rx.inRx)
  BY <1>0, <1>3
<1>4. CASE TakeReceived \/ HandleAdvance \/ IStream_handle \/ Read
  BY <1>3, <1>4 DEF TakeReceived, HandleAdvance, IStream_handle, Read
<1>5. CASE Setup \/ CheckFirst \/ CheckSecond \/ ChargeIncoming \/ ReadRefused
  BY <1>3, <1>5 DEF Setup, CheckFirst, CheckSecond, ChargeIncoming, ReadRefused
<1>6. CASE Lock \/ Test \/ Wake \/ Unlock \/ rxHandle \/ Count
  BY <1>3, <1>6 DEF Lock, Test, Wake, Unlock, rxHandle, Count
<1>7. CASE \E t \in Threads : IStream_receive(t) \/ RequestSpace(t)
  BY <1>3, <1>7 DEF IStream_receive, RequestSpace
<1>8. CASE Send \/ SpuriousWake \/ Disconnect \/ UNCHANGED vars
  BY <1>3, <1>8 DEF Send, SpuriousWake, Disconnect, vars
<1>9. L \in Threads /\ R \in Threads
  BY DEF Threads
<1> QED
  BY <1>1, <1>2, <1>4, <1>5, <1>6, <1>7, <1>8, <1>9 DEF Next, Loop, Poll, Receiver

\* Until calls overlap, IStream_receive's test of InReceive is enough:
\* socketReceive never overwrites the pointer and the length of a request of which
\* bytes are still to come.
THEOREM RequestIsKept == Spec => RequestKept
<1>1. (overlapped \/ RxIInv) /\ [Next]_vars =>
        [overlapped' \/ (rx'.inRx > rx.inRx => rx.inRx = 0)]_vars
  BY KeptStep, OverlapStays
<1> QED
  BY <1>1, RxInvariant, PTL DEF Spec, RequestKept
-----------------------------------------------------------------------------
(* Reception stops only when the buffer is full, and then for good. *)

\* Where a stalled reception stands.
Idle == /\ ~ buf.InReceive /\ incoming = 0 /\ rx.inRx = 0
        /\ pc[R] \in {"lock", "test", "waiting"}
        /\ pc[L] \in {"loop", "checkRx", "checkIn", "take", "count", "read"}

LEMMA StalledIsIdle ==
  ASSUME RxIInv
  PROVE  Stalled <=> running /\ Idle
<1>0. /\ Placed /\ Exclusive /\ OneRequest /\ rx.inRx \in Nat
      /\ pc[L] = "charge" => Asked \/ Finished
      /\ ~ buf.InReceive /\ pc[R] \notin {"advance", "receive", "request"} =>
           incoming = 0
  BY Numbers DEF RxIInv, Typed, Placed, Counts
<1>1. ASSUME Stalled PROVE running /\ Idle
  BY <1>0, <1>1
  DEF Stalled, Idle, Placed, Exclusive, OneRequest, Asking, Asked, Finished, LoopPlaces,
      ReceiverPlaces, Threads
<1>2. ASSUME running, Idle PROVE Stalled
  BY <1>2 DEF Stalled, Idle, Threads, L, R
<1> QED
  BY <1>1, <1>2

LEMMA IdleStays ==
  ASSUME RxIInv, running, Idle, [Next]_vars
  PROVE  running' /\ Idle'
<1>0. /\ Placed /\ rx.inRx = 0 /\ incoming = 0 /\ len[L] \in Int
      /\ pc[L] = "take" => len[L] <= 0
  BY Numbers DEF RxIInv, Typed, Placed, Idle, Counts
<1> USE <1>0 DEF Placed, Idle, Threads, L, R, At, Goto, stream, socket, rest
<1>1. CASE Setup
  BY <1>1 DEF Setup
<1>2. CASE CheckFirst
  BY <1>2 DEF CheckFirst
<1>3. CASE CheckSecond
  BY <1>3 DEF CheckSecond
<1>4. CASE TakeReceived
  <2>1. \/ len[L] <= 0 /\ buf' = buf /\ pc' = [pc EXCEPT ![L] = "count"]
        \/ len[L] > 0
    BY <1>4, TakeIs
  <2>2. pc[L] = "take" /\ incoming' = incoming /\ rx' = rx /\ running' = running
    BY <1>4 DEF TakeReceived
  <2> QED
    BY <2>1, <2>2
<1>5. CASE ChargeIncoming
  BY <1>5 DEF ChargeIncoming
<1>6. CASE Count
  BY <1>6 DEF Count
<1>7. CASE Read
  <2>1. buf'.InReceive = buf.InReceive
    BY <1>7, ReadIs
  <2> QED
    BY <1>7, <2>1 DEF Read
<1>8. CASE ReadRefused
  BY <1>8 DEF ReadRefused
<1>9. ASSUME NEW t \in Threads, IStream_receive(t)
     PROVE  running' /\ Idle'
  BY <1>9 DEF IStream_receive, Return
<1>10. ASSUME NEW t \in Threads, RequestSpace(t)
      PROVE  running' /\ Idle'
  BY <1>10 DEF RequestSpace, Return
<1>11. ASSUME NEW t \in Threads, socketReceive(t)
      PROVE  running' /\ Idle'
  BY <1>11 DEF socketReceive, Return
<1>12. CASE Lock
  BY <1>12 DEF Lock
<1>13. CASE Test
  BY <1>13 DEF Test
<1>14. CASE Wake
  BY <1>14 DEF Wake
<1>15. CASE Recv
  BY <1>15 DEF Recv
<1>16. CASE Unlock
  BY <1>16 DEF Unlock
<1>17. CASE rxHandle
  BY <1>17 DEF rxHandle
<1>18. CASE IStream_handle
  BY <1>18 DEF IStream_handle
<1>19. CASE HandleAdvance
  BY <1>19 DEF HandleAdvance
<1>20. CASE Send
  BY <1>20 DEF Send
<1>21. CASE SpuriousWake
  BY <1>21 DEF SpuriousWake
<1>22. CASE Disconnect
  BY <1>22 DEF Disconnect
<1>23. CASE UNCHANGED vars
  BY <1>23 DEF vars
<1>24. L \in Threads /\ R \in Threads
  BY DEF Threads
<1> QED
  BY <1>1, <1>2, <1>3, <1>4, <1>5, <1>6, <1>7, <1>8, <1>9, <1>10, <1>11, <1>12,
     <1>13, <1>14, <1>15, <1>16, <1>17, <1>18, <1>19, <1>20, <1>21, <1>22, <1>23,
     <1>24
  DEF Next, Loop, Poll, Receiver

\* A step after which reception is stalled, and was not before, is a request
\* that finds no space.
LEMMA StopsWhenFull ==
  ASSUME RxIInv, [Next]_vars, running, ~ Idle, Idle'
  PROVE  unread' = Size
<1>0. /\ Placed /\ Exclusive /\ OneRequest /\ rx.inRx \in Nat /\ buf.InReceive \in BOOLEAN
      /\ incoming \in Nat /\ len[L] \in Int
      /\ pc[L] = "charge" => Asked \/ Finished
      /\ ~ buf.InReceive /\ pc[R] \notin {"advance", "receive", "request"} =>
           incoming = 0
  BY Numbers DEF RxIInv, Typed, Placed, Counts
<1> USE <1>0 DEF Placed, Idle, Exclusive, OneRequest, Asking, Asked, Finished,
            LoopPlaces, ReceiverPlaces, Threads, L, R, None,
            At, Goto, stream, socket, rest
<1>1. CASE Setup
  BY <1>1 DEF Setup
<1>2. CASE CheckFirst
  BY <1>2 DEF CheckFirst
<1>3. CASE CheckSecond
  BY <1>3 DEF CheckSecond
<1>4. CASE TakeReceived
  <2>1. buf'.InReceive = buf.InReceive
    BY <1>4, TakeIs DEF MovedOver
  <2> QED
    BY <1>4, <2>1 DEF TakeReceived
<1>5. CASE ChargeIncoming
  BY <1>5 DEF ChargeIncoming
<1>6. CASE Count
  BY <1>6 DEF Count
<1>7. CASE Read
  <2>1. buf'.InReceive = buf.InReceive
    BY <1>7, ReadIs
  <2> QED
    BY <1>7, <2>1 DEF Read
<1>8. CASE ReadRefused
  BY <1>8 DEF ReadRefused
<1>9. ASSUME NEW t \in Threads, IStream_receive(t)
     PROVE  unread' = Size
  BY <1>9 DEF IStream_receive, Return
<1>10. ASSUME NEW t \in Threads, RequestSpace(t)
      PROVE  unread' = Size
  <2> DEFINE a == Stream_availableReal(buf)
             b == Stream_availableReal(buf')
  <2>1. PICK n \in 0 .. Size :
          \/ n > 0 /\ Flagged(TRUE)
          \/ n = 0 /\ buf' = buf /\ a = Size
    BY <1>10, RequestIs
  <2>2. buf' = buf /\ a = Size
    BY <2>1 DEF Flagged
  <2>3. a <= unread /\ unread \in 0 .. Size /\ a \in 0 .. Size
    BY Numbers, RequestLies
  <2>4. unread' = unread
    BY <1>10 DEF RequestSpace
  <2> HIDE DEF a, b
  <2> QED
    BY <2>2, <2>3, <2>4
<1>11. ASSUME NEW t \in Threads, socketReceive(t)
      PROVE  unread' = Size
  BY <1>11 DEF socketReceive, Return
<1>12. CASE Lock
  BY <1>12 DEF Lock
<1>13. CASE Test
  BY <1>13 DEF Test
<1>14. CASE Wake
  BY <1>14 DEF Wake
<1>15. CASE Recv
  <2>1. buf'.InReceive = buf.InReceive
    BY <1>15, RecvIs
  <2> QED
    BY <1>15, <2>1 DEF Recv
<1>16. CASE Unlock
  BY <1>16 DEF Unlock
<1>17. CASE rxHandle
  BY <1>17 DEF rxHandle
<1>18. CASE IStream_handle
  <2>1. pc[R] = "handle" /\ buf.InReceive /\ pc' = [pc EXCEPT ![R] = "advance"]
    BY <1>18 DEF IStream_handle
  <2> QED
    BY <2>1
<1>19. CASE HandleAdvance
  <2>1. pc' = [pc EXCEPT ![R] = "receive"]
    BY <1>19, AdvanceIs
  <2> QED
    BY <2>1
<1>20. CASE Send
  BY <1>20 DEF Send
<1>21. CASE SpuriousWake
  BY <1>21 DEF SpuriousWake
<1>22. CASE Disconnect
  BY <1>22 DEF Disconnect
<1>23. CASE UNCHANGED vars
  BY <1>23 DEF vars
<1>24. L \in Threads /\ R \in Threads
  BY DEF Threads
<1> QED
  BY <1>1, <1>2, <1>3, <1>4, <1>5, <1>6, <1>7, <1>8, <1>9, <1>10, <1>11, <1>12,
     <1>13, <1>14, <1>15, <1>16, <1>17, <1>18, <1>19, <1>20, <1>21, <1>22, <1>23,
     <1>24
  DEF Next, Loop, Poll, Receiver

\* A process that has ended does not come back.
LEMMA RunningBefore ==
  ASSUME [Next]_vars, running'
  PROVE  running
  BY DEF Next, Loop, Poll, Receiver, At, Setup, CheckFirst, CheckSecond, TakeReceived,
         ChargeIncoming, Count, Read, ReadRefused, IStream_receive, RequestSpace,
         socketReceive, Lock, Test, Wake, Recv, Unlock, rxHandle, IStream_handle,
         HandleAdvance, Send, SpuriousWake, Disconnect, vars

\* Until calls overlap, reception stops only when a request filled the buffer,
\* and then nothing starts it again: IStream_available asks for more only after
\* it moved over bytes of an earlier request.
THEOREM ReceptionStopsWhenFull == Spec => StopsWhenFilledForGood
<1> DEFINE IdleInv == overlapped \/ (RxIInv /\ (Stalled <=> running /\ Idle))
<1>1. overlapped \/ RxIInv => IdleInv
  BY StalledIsIdle
<1>2. ASSUME IdleInv, IdleInv', [Next]_vars, ~ overlapped'
      PROVE  StopStep
  <2>1. RxIInv /\ (Stalled <=> running /\ Idle) /\ (Stalled' <=> running' /\ Idle')
    BY <1>2, OverlapStays
  <2>2. ASSUME Stalled
        PROVE  Stalled'
    BY <1>2, <2>1, <2>2, IdleStays
  <2>3. ASSUME Stalled', ~ Stalled
        PROVE  unread' = Size
    <3>1. running' /\ Idle'
      BY <2>1, <2>3
    <3>2. running
      BY <1>2, <3>1, RunningBefore
    <3> QED
      BY <1>2, <2>1, <2>3, <3>1, <3>2, StopsWhenFull
  <2> QED
    BY <2>2, <2>3 DEF StopStep
<1>3. IdleInv /\ IdleInv' /\ [Next]_vars => [overlapped' \/ StopStep]_vars
  BY <1>2
<1> QED
  BY <1>1, <1>3, RxInvariant, PTL DEF Spec, StopsWhenFilledForGood
=============================================================================
