------------------------------- MODULE UartRx -------------------------------
(***************************************************************************)
(* The receive path: the peer of the socket, ReceiveThread of uart_sock.c, *)
(* and the loop of userCodes.c that calls IStream_available and reads what *)
(* it reports.  The two threads share the IStream (its Buffer and its      *)
(* IncomingBytes) and the request that socketReceive leaves for the        *)
(* receiver (a pointer and a length, under rxMutex and rxCond).            *)
(*                                                                         *)
(* One action is one statement, or the statements between two accesses to  *)
(* what the threads share.  The moves and the read of StreamBuffer.c are   *)
(* one action each, so the model has fewer interleavings than the machine. *)
(*                                                                         *)
(* No lock keeps the calls of the two threads apart, and what goes wrong   *)
(* when they meet is shown by a run of its own.  The history variable      *)
(* overlapped becomes TRUE when the two are for the first time in the      *)
(* parts of their calls that change what the other relies on; the          *)
(* properties say what the program guarantees until then.  (On a micro-    *)
(* controller IStream_handle is an interrupt routine, and a program that   *)
(* masks it during its own calls is never there.)                          *)
(***************************************************************************)
EXTENDS StreamBuffer

CONSTANTS
  Size,         \* bytes in the receive buffer (64 in userCodes.c)
  MaxWire       \* bound: bytes sent and not yet received

ASSUME SizeAssumption == Size \in 1 .. MaxLen
ASSUME WireAssumption == MaxWire \in Nat \ {0}
\* A byte is its number in the order of sending; all that are about differ.
ASSUME NumberAssumption == Bytes > Size + MaxWire

VARIABLES
  buf,        \* IStream.Buffer
  incoming,   \* IStream.IncomingBytes
  rx,         \* [at, inRx]: the request, rxBuffer as an index of Data
  mutex,      \* who holds rxMutex
  signalled,  \* rxCond was signalled while the receiver waited
  pc, len,    \* of each thread: where it is, its local variable len
  at,         \* of each thread: the pointer it passes to socketReceive
  wire,       \* how many bytes are sent and not received
  next,       \* the number of the next byte to be received
  unread,     \* how many bytes are received and not read
  caller,     \* which call of IStream_receive or IStream_available the loop is in
  overlapped, \* history: Overlapping has been true
  running     \* the process has not called exit

vars == <<buf, incoming, rx, mutex, signalled, pc, len, at, wire, next, unread,
          caller, overlapped, running>>

stream  == <<buf, incoming>>
socket  == <<rx, mutex, signalled>>
rest    == <<wire, next, unread, caller, running>>

L == "loop"      \* LoopThread
R == "receiver"  \* ReceiveThread
None == "none"
Threads == {L, R}

Min2(a, b) == IF a < b THEN a ELSE b

\* The number of the i-th oldest byte that is received and not read.
Number(i) == (next - unread + i - 1) % Bytes

Init ==
  /\ buf = Stream_init([i \in 0 .. Size - 1 |-> 0], Size)
  /\ incoming = 0
  /\ rx = [at |-> 0, inRx |-> 0]
  /\ mutex = None /\ signalled = FALSE
  /\ pc = [t \in Threads |-> IF t = L THEN "setup" ELSE "lock"]
  /\ len = [t \in Threads |-> 0] /\ at = [t \in Threads |-> 0]
  /\ wire = 0 /\ next = 0 /\ unread = 0
  /\ caller = "setup" /\ overlapped = FALSE /\ running = TRUE

\* IStream_handle has cleared InReceive and not returned yet, and IStream_available
\* is between its first look at the request and its last change: nothing keeps
\* the two threads from being there at the same time.
Handling    == pc[R] \in {"advance", "receive", "request", "arm"}
Polling     == pc[L] \in {"checkRx", "checkIn", "take", "charge", "receive",
                          "request", "arm"}
Overlapping == Handling /\ Polling

At(t, here) == running /\ pc[t] = here

Goto(t, there) == /\ pc' = [pc EXCEPT ![t] = there]
                  /\ overlapped' = (overlapped \/ Overlapping')

-----------------------------------------------------------------------------
(* The peer. *)

Send == /\ running /\ wire < MaxWire
        /\ wire' = wire + 1
        /\ UNCHANGED <<stream, socket, pc, len, at, next, unread, caller, overlapped,
                       running>>

-----------------------------------------------------------------------------
(* IStream_receive and socketReceive, called by either thread. *)

\* A thread comes back from IStream_receive: the receiver to its mutex, the loop
\* to the end of the call it is in.
Return(t) == Goto(t, IF t = R THEN "lock" ELSE "count")

\* The call of setup(), on the thread that becomes the loop.
Setup == /\ At(L, "setup")
         /\ Goto(L, "receive")
         /\ UNCHANGED <<stream, socket, len, at, rest>>

\* Mutants: plausible bugs, each the code of the definition that follows it but
\* for one slip.  The name of a mutant ends in Mutant.
ReceiveAnywayMutant(t) ==
  /\ At(t, "receive")
  /\ Goto(t, "request")
  /\ UNCHANGED <<stream, socket, len, at, rest>>

\* "if (!InReceive)": the flag and the request are not set in one step.
IStream_receive(t) ==
  /\ At(t, "receive")
  /\ IF buf.InReceive THEN Return(t)
                      ELSE Goto(t, "request")
  /\ UNCHANGED <<stream, socket, len, at, rest>>

RequestSpace(t) ==
  /\ At(t, "request")
  /\ LET n == Stream_directSpace(buf) IN
     /\ incoming' = n
     /\ len' = [len EXCEPT ![t] = n]
     /\ at' = [at EXCEPT ![t] = buf.WPos]
     /\ \/ /\ n > 0
           /\ buf' = [buf EXCEPT !.InReceive = TRUE]
           /\ Goto(t, "arm")
        \/ /\ n <= 0                            \* Stream_NoSpace
           /\ UNCHANGED buf
           /\ Return(t)
  /\ UNCHANGED <<socket, rest>>

ReceiveUnsignalledMutant(t) ==
  /\ At(t, "arm") /\ mutex = None
  /\ rx' = [at |-> at[t], inRx |-> len[t]]
  /\ Return(t)
  /\ UNCHANGED <<stream, mutex, signalled, len, at, rest>>

socketReceive(t) ==
  /\ At(t, "arm") /\ mutex = None
  /\ rx' = [at |-> at[t], inRx |-> len[t]]
  /\ signalled' = (signalled \/ pc[R] = "waiting")
  /\ Return(t)
  /\ UNCHANGED <<stream, mutex, len, at, rest>>

-----------------------------------------------------------------------------
(* ReceiveThread. *)

Lock == /\ At(R, "lock") /\ mutex = None
        /\ mutex' = R
        /\ Goto(R, "test")
        /\ UNCHANGED <<stream, rx, signalled, len, at, rest>>

\* "while (inRx == 0) pthread_cond_wait": waiting gives the mutex back.
Test == /\ At(R, "test")
        /\ IF rx.inRx = 0 THEN mutex' = None /\ Goto(R, "waiting")
                          ELSE UNCHANGED mutex /\ Goto(R, "recv")
        /\ UNCHANGED <<stream, rx, signalled, len, at, rest>>

Wake == /\ At(R, "waiting") /\ signalled
        /\ signalled' = FALSE
        /\ Goto(R, "lock")
        /\ UNCHANGED <<stream, rx, mutex, len, at, rest>>

\* A condition variable may wake without a signal.
SpuriousWake == /\ At(R, "waiting") /\ ~ signalled
                /\ Goto(R, "lock")
                /\ UNCHANGED <<stream, socket, len, at, rest>>

\* recv returns some of the bytes asked for, holding rxMutex all the while.
Recv ==
  /\ At(R, "recv")
  /\ \E n \in 1 .. Min2(rx.inRx, wire) :
     /\ buf' = [buf EXCEPT !.Data =
                  memCopy(@, rx.at, [i \in 1 .. n |-> (next + i - 1) % Bytes])]
     /\ rx' = [at |-> rx.at + n, inRx |-> rx.inRx - n]
     /\ wire' = wire - n
     /\ next' = (next + n) % Bytes
     /\ unread' = unread + n
     /\ Goto(R, IF rx.inRx = n THEN "unlock" ELSE "recv")
  /\ UNCHANGED <<incoming, mutex, signalled, len, at, caller, running>>

\* The peer closes, or the connection fails: "Exiting...".
Disconnect == /\ At(R, "recv") /\ wire = 0
              /\ running' = FALSE
              /\ UNCHANGED <<stream, socket, pc, len, at, wire, next, unread, caller,
                             overlapped>>

Unlock == /\ At(R, "unlock")
          /\ mutex' = None
          /\ Goto(R, "complete")
          /\ UNCHANGED <<stream, rx, signalled, len, at, rest>>

\* UARTStream_rxHandle reads IncomingBytes for the argument of IStream_handle.
rxHandle == /\ At(R, "complete")
            /\ len' = [len EXCEPT ![R] = incoming]
            /\ Goto(R, "handle")
            /\ UNCHANGED <<stream, socket, at, rest>>

HandleKeepsInReceiveMutant ==
  /\ At(R, "handle")
  /\ IF ~ buf.InReceive
     THEN Goto(R, "lock") /\ UNCHANGED len
     ELSE /\ len' = [len EXCEPT ![R] = Min2(@, incoming)]
          /\ Goto(R, "advance")
  /\ UNCHANGED <<stream, socket, at, rest>>

IStream_handle ==
  /\ At(R, "handle")
  /\ IF ~ buf.InReceive                         \* Stream_NoReceive
     THEN Goto(R, "lock") /\ UNCHANGED <<buf, len>>
     ELSE /\ len' = [len EXCEPT ![R] = Min2(@, incoming)]
          /\ buf' = [buf EXCEPT !.InReceive = FALSE]
          /\ Goto(R, "advance")
  /\ UNCHANGED <<incoming, socket, at, rest>>

HandleDoesNotReceiveMutant ==
  /\ At(R, "advance")
  /\ buf' = Stream_moveWritePos(buf, len[R]).s
  /\ Goto(R, "lock")
  /\ UNCHANGED <<incoming, socket, len, at, rest>>

HandleAdvance ==
  /\ At(R, "advance")
  /\ LET r == Stream_moveWritePos(buf, len[R]) IN
     /\ buf' = r.s
     /\ IF r.res = "Stream_Ok" THEN Goto(R, "receive")
                               ELSE Goto(R, "lock")
  /\ UNCHANGED <<incoming, socket, len, at, rest>>

-----------------------------------------------------------------------------
(* The loop: if IStream_available says there is something, then              *)
(* OStream_writeStream of as much as a second IStream_available says.        *)

\* UARTStream_checkReceive subtracts two shared counts; C leaves the order in
\* which it reads them open.
CheckFirst ==
  /\ At(L, "loop")
  /\ \/ len' = [len EXCEPT ![L] = incoming] /\ Goto(L, "checkRx")
     \/ len' = [len EXCEPT ![L] = rx.inRx] /\ Goto(L, "checkIn")
  /\ UNCHANGED <<stream, socket, at, rest>>

CheckMissingMutant ==
  /\ At(L, "checkRx") \/ At(L, "checkIn")
  /\ len' = [len EXCEPT ![L] = rx.inRx]
  /\ Goto(L, "take")
  /\ UNCHANGED <<stream, socket, at, rest>>

CheckSecond ==
  /\ \/ At(L, "checkRx") /\ len' = [len EXCEPT ![L] = @ - rx.inRx]
     \/ At(L, "checkIn") /\ len' = [len EXCEPT ![L] = incoming - @]
  /\ Goto(L, "take")
  /\ UNCHANGED <<stream, socket, at, rest>>

TakeMoreThanOneMutant ==
  /\ At(L, "take")
  /\ LET n == Min2(len[L], incoming) IN
     IF len[L] > 1
     THEN /\ len' = [len EXCEPT ![L] = n]
          /\ buf' = Stream_moveWritePos(buf, n).s
          /\ Goto(L, "charge")
     ELSE Goto(L, "count") /\ UNCHANGED <<buf, len>>
  /\ UNCHANGED <<incoming, socket, at, rest>>

TakeReceived ==
  /\ At(L, "take")
  /\ LET n == Min2(len[L], incoming) IN
     IF len[L] > 0
     THEN /\ len' = [len EXCEPT ![L] = n]
          /\ buf' = Stream_moveWritePos(buf, n).s
          /\ Goto(L, "charge")
     ELSE Goto(L, "count") /\ UNCHANGED <<buf, len>>
  /\ UNCHANGED <<incoming, socket, at, rest>>

ChargeNothingMutant ==
  /\ At(L, "charge")
  /\ Goto(L, IF buf.WPos = 0 THEN "receive" ELSE "count")
  /\ UNCHANGED <<stream, socket, len, at, rest>>

ChargeIncoming ==
  /\ At(L, "charge")
  /\ incoming' = incoming - len[L]
  /\ Goto(L, IF buf.WPos = 0 THEN "receive" ELSE "count")
  /\ UNCHANGED <<buf, socket, len, at, rest>>

\* The end of the call: Stream_available is its result.  The first call decides
\* whether there is a second one, and that one's result is what is read.
Count ==
  /\ At(L, "count")
  /\ LET n == Stream_available(buf) IN
     /\ len' = [len EXCEPT ![L] = n]
     /\ \/ caller = "setup" /\ caller' = "if" /\ Goto(L, "loop")
        \/ caller = "if" /\ n # 0 /\ caller' = "use" /\ Goto(L, "loop")
        \/ caller = "if" /\ n = 0 /\ UNCHANGED caller /\ Goto(L, "loop")
        \/ caller = "use" /\ caller' = "if" /\ Goto(L, "read")
  /\ UNCHANGED <<stream, socket, at, wire, next, unread, running>>

\* The read is one step.
Read ==
  /\ At(L, "read")
  /\ LET r == Stream_readBytes(buf, len[L]) IN
     buf' = r.s /\ unread' = unread - Len(r.val)
  /\ Goto(L, "loop")
  /\ UNCHANGED <<incoming, socket, len, at, wire, next, caller, running>>

\* The OStream has no room: Stream_writeStream refuses and nothing is read.
ReadRefused ==
  /\ At(L, "read") /\ Goto(L, "loop")
  /\ UNCHANGED <<stream, socket, len, at, rest>>

-----------------------------------------------------------------------------
Poll == \/ Setup \/ CheckFirst \/ CheckSecond \/ TakeReceived \/ ChargeIncoming
        \/ Count
        \/ IStream_receive(L) \/ RequestSpace(L) \/ socketReceive(L)

Loop == Poll \/ Read \/ ReadRefused

Receiver == \/ Lock \/ Test \/ Wake \/ Recv \/ Unlock
            \/ rxHandle \/ IStream_handle \/ HandleAdvance
            \/ IStream_receive(R) \/ RequestSpace(R) \/ socketReceive(R)

Next == Loop \/ Receiver \/ Send \/ SpuriousWake \/ Disconnect

Spec == Init /\ [][Next]_vars

\* The scheduler runs both threads, and a thread that waits for a mutex which
\* is free again and again gets it.  The transmit half is assumed not to refuse
\* for ever.  Nothing is promised of the peer.
FairSpec == Spec /\ SF_vars(Loop) /\ SF_vars(Receiver) /\ SF_vars(Read)

-----------------------------------------------------------------------------
TypeOK ==
  /\ buf \in Stream(Size)
  /\ incoming \in 0 .. Size
  /\ rx \in [at : 0 .. Size, inRx : 0 .. Size]
  /\ mutex \in {None, R} /\ signalled \in BOOLEAN
  /\ len \in [Threads -> -Size .. Size]
  /\ wire \in 0 .. MaxWire /\ next \in Byte /\ unread \in 0 .. Size
  /\ caller \in {"setup", "if", "use"} /\ overlapped \in BOOLEAN /\ running \in BOOLEAN

\* "return available bytes in buffer to read" (InputStream.c:128): every byte
\* that the stream counts as available was received and not read, and the
\* bytes stand in the order in which they were sent.
AvailableIsReceived ==
  /\ Stream_availableReal(buf) <= unread
  /\ \A i \in 1 .. Stream_availableReal(buf) :
       buf.Data[(buf.RPos + i - 1) % Size] = Number(i)

\* ... which it keeps to until the calls of the two threads have overlapped.
ReceivedUntilOverlap == overlapped \/ AvailableIsReceived

\* Between calls no received byte is unaccounted for: it is available, or it is
\* one of the IncomingBytes that the request has already got.
EveryByteAccounted ==
  ~ Polling /\ ~ Handling /\ caller # "setup" =>
    unread = Stream_availableReal(buf) + (incoming - rx.inRx)

\* The receiver writes only into space: the rest of its request never overlaps
\* a byte that is received and not read.
ReceivesIntoSpace ==
  mutex = R /\ rx.inRx > 0 =>
    /\ rx.at + rx.inRx <= Size
    /\ unread + rx.inRx <= Size

\* The bookkeeping of the receive path, until calls overlap: types, a request
\* that stays in the space of the ring, and counts that account for every byte.
RxInv == overlapped \/ (TypeOK /\ ReceivesIntoSpace /\ EveryByteAccounted)

\* Until calls overlap, a new request never replaces one that is still being
\* received.
RequestKept == [][overlapped' \/ (rx'.inRx > rx.inRx => rx.inRx = 0)]_vars

\* recv holds rxMutex for as long as the peer is silent; a thread that has a
\* request to leave under that mutex never comes while it does, so that the loop
\* does not wait for the peer (socketReceive, ReceiveThread).
NeverWaitsForPeer == \A t \in Threads : pc[t] = "arm" => pc[R] # "recv"

\* The receiver is never left waiting with a request it was not told of.
NoLostSignal == pc[R] = "waiting" /\ rx.inRx > 0 => signalled

\* No thread is left waiting: the receiver, whatever overlaps, for a signal that
\* does not come, and the loop, until calls overlap, for a peer that does not
\* send.
NoThreadLeftWaiting == NoLostSignal /\ (overlapped \/ NeverWaitsForPeer)

\* Reception has stopped: there is no request, and no thread about to make one.
Stalled == /\ running /\ ~ buf.InReceive
           /\ \A t \in Threads :
                pc[t] \notin {"setup", "receive", "request", "handle", "advance"}

\* Reception stops only when a request filled the last free byte before the
\* loop read any, never with room left in the buffer; and once it has stopped
\* nothing starts it again, however much the loop reads: IStream_available makes
\* a request only after bytes of an earlier one.  So it is until calls overlap.
StopStep == /\ Stalled' /\ ~ Stalled => unread' = Size
            /\ Stalled => Stalled'

StopsWhenFilledForGood == [][overlapped' \/ StopStep]_vars

\* Every byte on the wire is received, and every byte received is read,
\* as long as reception has not stopped and calls have not overlapped.
OnWire(k)   == \E i \in 1 .. wire : k = (next + i - 1) % Bytes
Unread(k)   == \E i \in 1 .. unread : k = Number(i)
BytesAreReceived ==
  \A k \in Byte : OnWire(k) ~> (~ OnWire(k) \/ Stalled \/ ~ running \/ overlapped)
BytesAreRead ==
  \A k \in Byte : Unread(k) ~> (~ Unread(k) \/ ~ running \/ overlapped)

\* What the passing run explores: up to and with the first overlap, behind which
\* its properties say nothing.
UntilOverlap == ~ overlapped
=============================================================================
