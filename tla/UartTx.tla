------------------------------- MODULE UartTx -------------------------------
(***************************************************************************)
(* The transmit path: the loop of userCodes.c, which writes into the       *)
(* OStream and flushes it, SendThread of uart_sock.c, which sends the      *)
(* request that socketTransmit left for it and then calls OStream_handle,  *)
(* and the peer, which sees only the bytes that arrive.                    *)
(*                                                                         *)
(* One action is one statement, or the statements between two accesses to  *)
(* what the threads share; a write of the loop into the ring is one step.  *)
(* overlapped has the meaning it has in UartRx.  The flush mode is         *)
(* Stream_FlushMode_Continue, the default of OutputStream.h.               *)
(***************************************************************************)
EXTENDS StreamBuffer

CONSTANTS
  Size,         \* bytes in the transmit buffer (64 in userCodes.c)
  MaxFailures   \* bound: how many calls of send fail

ASSUME SizeAssumption == Size \in 1 .. MaxLen
ASSUME FailuresAssumption == MaxFailures \in Nat
\* A byte is its number in the order of writing; all that are unsent differ.
ASSUME NumberAssumption == Bytes > Size

VARIABLES
  buf,        \* OStream.Buffer
  outgoing,   \* OStream.OutgoingBytes
  tx,         \* [at, inTx]: the request, txBuffer as an index of Data
  mutex,      \* who holds txMutex
  signalled,  \* txCond was signalled while the sender waited
  pc, len,    \* of each thread: where it is, its local variable len
  at,         \* of each thread: the pointer it passes to socketTransmit
  next,       \* the number of the next byte to be written
  unsent,     \* how many bytes are written and were not yet sent
  chunk,      \* [first, due, val]: the last bytes sent, and what was unsent then
  failures,   \* how many calls of send have failed
  overlapped, \* history: Overlapping has been true
  running     \* the process has not called exit

vars == <<buf, outgoing, tx, mutex, signalled, pc, len, at, next, unsent, chunk,
          failures, overlapped, running>>

stream == <<buf, outgoing>>
socket == <<tx, mutex, signalled>>
bytes  == <<next, unsent, chunk>>
rest   == <<failures, running>>

L == "loop"    \* LoopThread
T == "sender"  \* SendThread
None == "none"
Threads == {L, T}

Min2(a, b) == IF a < b THEN a ELSE b

NothingSent == [first |-> 0, due |-> 0, val |-> <<>>]

\* The number of the i-th oldest byte that is written and not sent.
Number(i) == (next - unsent + i - 1) % Bytes

Init ==
  /\ buf = Stream_init([i \in 0 .. Size - 1 |-> 0], Size)
  /\ outgoing = 0
  /\ tx = [at |-> 0, inTx |-> 0]
  /\ mutex = None /\ signalled = FALSE
  /\ pc = [t \in Threads |-> IF t = L THEN "loop" ELSE "lock"]
  /\ len = [t \in Threads |-> 0] /\ at = [t \in Threads |-> 0]
  /\ next = 0 /\ unsent = 0 /\ chunk = NothingSent
  /\ failures = 0 /\ overlapped = FALSE /\ running = TRUE

\* OStream_handle has cleared InTransmit and not returned yet, and OStream_flush
\* of the loop has found it clear: nothing keeps the two threads from being there
\* at the same time.
Handling    == pc[T] \in {"advance", "flush", "request", "arm"}
Requesting  == pc[L] \in {"request", "arm"}
Overlapping == Handling /\ Requesting

At(t, here) == running /\ pc[t] = here

Goto(t, there) == /\ pc' = [pc EXCEPT ![t] = there]
                  /\ overlapped' = (overlapped \/ Overlapping')

-----------------------------------------------------------------------------
(* The loop: OStream_writeStream of n received bytes, then OStream_flush. *)

Write ==
  /\ At(L, "loop")
  /\ \E n \in 1 .. Size :
       LET r == Stream_writeBytes(buf, [i \in 1 .. n |-> (next + i - 1) % Bytes])
       IN  /\ buf' = r.s
           /\ IF r.res = "Stream_Ok"
              THEN next' = (next + n) % Bytes /\ unsent' = unsent + n
              ELSE UNCHANGED <<next, unsent>>
  /\ Goto(L, "flush")
  /\ UNCHANGED <<outgoing, socket, len, at, chunk, rest>>

-----------------------------------------------------------------------------
(* OStream_flush and socketTransmit, called by either thread. *)

\* A thread comes back from OStream_flush.
Return(t) == Goto(t, IF t = T THEN "lock" ELSE "loop")

\* Mutants: plausible bugs, each the code of the definition that follows it but
\* for one slip.  The name of a mutant ends in Mutant.
FlushAnywayMutant(t) ==
  /\ At(t, "flush")
  /\ Goto(t, "request")
  /\ UNCHANGED <<stream, socket, len, at, bytes, rest>>

\* "if (!InTransmit)": the flag and the request are not set in one step.
OStream_flush(t) ==
  /\ At(t, "flush")
  /\ IF buf.InTransmit THEN Return(t)
                       ELSE Goto(t, "request")
  /\ UNCHANGED <<stream, socket, len, at, bytes, rest>>

RequestStraightMutant(t) ==
  /\ At(t, "request")
  /\ LET n == buf.WPos - buf.RPos IN
     /\ outgoing' = n
     /\ len' = [len EXCEPT ![t] = n]
     /\ at' = [at EXCEPT ![t] = buf.RPos]
     /\ \/ /\ n > 0
           /\ buf' = [buf EXCEPT !.InTransmit = TRUE]
           /\ Goto(t, "arm")
        \/ /\ n <= 0
           /\ UNCHANGED buf
           /\ Return(t)
  /\ UNCHANGED <<socket, bytes, rest>>

RequestBytes(t) ==
  /\ At(t, "request")
  /\ LET n == Stream_directAvailable(buf) IN
     /\ outgoing' = n
     /\ len' = [len EXCEPT ![t] = n]
     /\ at' = [at EXCEPT ![t] = buf.RPos]
     /\ \/ /\ n > 0
           /\ buf' = [buf EXCEPT !.InTransmit = TRUE]
           /\ Goto(t, "arm")
        \/ /\ n <= 0                            \* Stream_NoAvailable
           /\ UNCHANGED buf
           /\ Return(t)
  /\ UNCHANGED <<socket, bytes, rest>>

TransmitUnsignalledMutant(t) ==
  /\ At(t, "arm") /\ mutex = None
  /\ tx' = [at |-> at[t], inTx |-> len[t]]
  /\ Return(t)
  /\ UNCHANGED <<stream, mutex, signalled, len, at, bytes, rest>>

socketTransmit(t) ==
  /\ At(t, "arm") /\ mutex = None
  /\ tx' = [at |-> at[t], inTx |-> len[t]]
  /\ signalled' = (signalled \/ pc[T] = "waiting")
  /\ Return(t)
  /\ UNCHANGED <<stream, mutex, len, at, bytes, rest>>

-----------------------------------------------------------------------------
(* SendThread. *)

Lock == /\ At(T, "lock") /\ mutex = None
        /\ mutex' = T
        /\ Goto(T, "test")
        /\ UNCHANGED <<stream, tx, signalled, len, at, bytes, rest>>

\* "while (inTx == 0) pthread_cond_wait": waiting gives the mutex back.
Test == /\ At(T, "test")
        /\ IF tx.inTx = 0 THEN mutex' = None /\ Goto(T, "waiting")
                          ELSE UNCHANGED mutex /\ Goto(T, "send")
        /\ UNCHANGED <<stream, tx, signalled, len, at, bytes, rest>>

Wake == /\ At(T, "waiting") /\ signalled
        /\ signalled' = FALSE
        /\ Goto(T, "lock")
        /\ UNCHANGED <<stream, tx, mutex, len, at, bytes, rest>>

\* A condition variable may wake without a signal.
SpuriousWake == /\ At(T, "waiting") /\ ~ signalled
                /\ Goto(T, "lock")
                /\ UNCHANGED <<stream, socket, len, at, bytes, rest>>

\* send takes some of the bytes, from wherever txBuffer points, holding txMutex.
\* What lies outside the buffer may be anything.
Send ==
  /\ At(T, "send")
  /\ \E n \in 1 .. tx.inTx, other \in Byte :
     /\ chunk' = [first |-> Number(1), due |-> unsent,
                  val |-> [i \in 1 .. n |->
                             IF tx.at + i - 1 \in 0 .. Size - 1
                             THEN buf.Data[tx.at + i - 1] ELSE other]]
     /\ unsent' = unsent - Min2(n, unsent)
     /\ tx' = [at |-> tx.at + n, inTx |-> tx.inTx - n]
     /\ Goto(T, IF tx.inTx = n THEN "unlock" ELSE "send")
  /\ UNCHANGED <<stream, mutex, signalled, len, at, next, rest>>

\* send returns -1.  "if (send < 0)" compares the function, not its result, so
\* the count and the pointer take the -1 like any other result.
SendFailed ==
  /\ At(T, "send") /\ failures < MaxFailures
  /\ failures' = failures + 1
  /\ tx' = [at |-> tx.at - 1, inTx |-> tx.inTx + 1]
  /\ UNCHANGED <<stream, mutex, signalled, pc, len, at, bytes, overlapped, running>>

Unlock == /\ At(T, "unlock")
          /\ mutex' = None
          /\ Goto(T, "complete")
          /\ chunk' = NothingSent
          /\ UNCHANGED <<stream, tx, signalled, len, at, next, unsent, rest>>

\* UARTStream_txHandle reads OutgoingBytes for the argument of OStream_handle.
txHandle == /\ At(T, "complete")
            /\ len' = [len EXCEPT ![T] = outgoing]
            /\ Goto(T, "handle")
            /\ UNCHANGED <<stream, socket, at, bytes, rest>>

OStream_handle ==
  /\ At(T, "handle")
  /\ IF ~ buf.InTransmit                        \* Stream_NoTransmit
     THEN Return(T) /\ UNCHANGED <<buf, len>>
     ELSE /\ len' = [len EXCEPT ![T] = Min2(@, outgoing)]
          /\ buf' = [buf EXCEPT !.InTransmit = FALSE]
          /\ Goto(T, "advance")
  /\ UNCHANGED <<outgoing, socket, at, bytes, rest>>

HandleDoesNotFlushMutant ==
  /\ At(T, "advance")
  /\ buf' = Stream_moveReadPos(buf, len[T]).s
  /\ Return(T)
  /\ UNCHANGED <<outgoing, socket, len, at, bytes, rest>>

HandleAdvance ==
  /\ At(T, "advance")
  /\ LET r == Stream_moveReadPos(buf, len[T]) IN
     /\ buf' = r.s
     /\ IF r.res = "Stream_Ok" THEN Goto(T, "flush")
                               ELSE Return(T)
  /\ UNCHANGED <<outgoing, socket, len, at, bytes, rest>>

-----------------------------------------------------------------------------
\* The receiving thread finds the connection closed: exit(0).
Exit == /\ running /\ running' = FALSE
        /\ UNCHANGED <<stream, socket, pc, len, at, bytes, failures,
                       overlapped>>

LoopFlushes == OStream_flush(L) \/ RequestBytes(L) \/ socketTransmit(L)

Sender == \/ Lock \/ Test \/ Wake \/ Send \/ Unlock
          \/ txHandle \/ OStream_handle \/ HandleAdvance
          \/ OStream_flush(T) \/ RequestBytes(T) \/ socketTransmit(T)

Next == Write \/ LoopFlushes \/ Sender \/ SpuriousWake \/ SendFailed \/ Exit

Spec == Init /\ [][Next]_vars

\* The scheduler runs both threads, and a thread that waits for a mutex which
\* is free again and again gets it.  The peer takes what is sent, and no byte
\* need ever arrive that the loop could write.
FairSpec == Spec /\ SF_vars(LoopFlushes) /\ SF_vars(Sender)

-----------------------------------------------------------------------------
TypeOK ==
  /\ buf \in Stream(Size)
  /\ outgoing \in 0 .. Size
  /\ tx \in [at : -MaxFailures .. Size, inTx : 0 .. Size + MaxFailures]
  /\ mutex \in {None, T} /\ signalled \in BOOLEAN
  /\ len \in [Threads -> 0 .. Size] /\ at \in [Threads -> 0 .. Size - 1]
  /\ next \in Byte /\ unsent \in 0 .. Size
  /\ failures \in 0 .. MaxFailures
  /\ overlapped \in BOOLEAN /\ running \in BOOLEAN

\* The peer gets every byte once and in the order of writing: until a send has
\* failed, what send takes is always the oldest bytes that were not yet sent.
SentInOrder ==
  failures = 0 =>
    /\ Len(chunk.val) <= chunk.due
    /\ \A i \in DOMAIN chunk.val : chunk.val[i] = (chunk.first + i - 1) % Bytes

\* The loop never writes over a byte that is not sent: the unsent bytes are
\* the last ones before WPos, untouched.
UnsentIntact ==
  \A i \in 1 .. unsent : buf.Data[(buf.WPos - unsent + i - 1) % Size] = Number(i)

\* The bookkeeping of the transmit path, until calls overlap: types, what was
\* sent and what is still to be sent.
TxInv == overlapped \/ (TypeOK /\ SentInOrder /\ UnsentIntact)

\* The sender is never left waiting with a request it was not told of, whatever
\* overlaps.
NoLostSignal == pc[T] = "waiting" /\ tx.inTx > 0 => signalled

\* "after flush complete if there is any pending bytes transmit pending bytes
\* again" (OutputStream.h:43): with the sender idle and the loop back from its
\* flush, no byte is pending.
Flushed ==
  running /\ pc[T] = "waiting" /\ ~ signalled /\ tx.inTx = 0 /\ pc[L] = "loop" =>
    Stream_availableReal(buf) = 0

\* ... which the program keeps to until the calls of the two threads overlap.
FlushedUntilOverlap == overlapped \/ Flushed

\* Every byte that is written is sent, unless the process ends or calls overlap.
Unsent(k) == \E i \in 1 .. unsent : k = Number(i)
BytesAreSent ==
  \A k \in Byte : Unsent(k) ~> (~ Unsent(k) \/ ~ running \/ overlapped)

\* What the passing run explores: up to and with the first overlap, behind which
\* its properties say nothing.
UntilOverlap == ~ overlapped
=============================================================================
