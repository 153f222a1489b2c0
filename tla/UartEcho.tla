------------------------------ MODULE UartEcho -------------------------------
(***************************************************************************)
(* The whole client: UartRx and UartTx, statement by statement, with the   *)
(* loop of userCodes.c that is a thread of both.  The loop echoes what     *)
(* comes in; the transfer of a turn is refused while the output has no     *)
(* room for all of it.                                                     *)
(*                                                                         *)
(* The properties say what the client does for its peer until, in either   *)
(* direction, the unlocked calls of two threads overlap or a send fails.   *)
(* The runs of UartRx and UartTx with the threads as they are show what    *)
(* may happen from there.                                                  *)
(***************************************************************************)
EXTENDS StreamBuffer

CONSTANTS
  SizeIn, SizeOut,  \* bytes of the two buffers (64 and 64 in userCodes.c)
  MaxWire,          \* bound: bytes sent by the peer and not yet received
  MaxFailures       \* bound: how many calls of send fail

ASSUME SizesAssumption    == SizeIn \in 1 .. MaxLen /\ SizeOut \in SizeIn .. MaxLen
ASSUME WireAssumption     == MaxWire \in Nat \ {0}
ASSUME FailuresAssumption == MaxFailures \in Nat
\* A byte is its number in the order of sending; all that are about differ.
ASSUME NumberAssumption   == Bytes > SizeIn + SizeOut + MaxWire

VARIABLES
  inBuf, incoming, rx, rxMutex, rxSignalled, rxPc, rxLen, rxAt, wire, next,
  unread, caller, rxOverlapped,       \* UartRx
  outBuf, outgoing, tx, txMutex, txSignalled, txPc, txLen, txAt, unsent, chunk,
  failures, txOverlapped,             \* UartTx
  running                             \* both

\* The next byte that the loop writes is the oldest one that it has not read.
Rx == INSTANCE UartRx WITH
  Size <- SizeIn, buf <- inBuf, mutex <- rxMutex, signalled <- rxSignalled,
  pc <- rxPc, len <- rxLen, at <- rxAt, overlapped <- rxOverlapped
Tx == INSTANCE UartTx WITH
  Size <- SizeOut, buf <- outBuf, mutex <- txMutex, signalled <- txSignalled,
  pc <- txPc, len <- txLen, at <- txAt, overlapped <- txOverlapped,
  next <- (next - unread) % Bytes

L == "loop"

input  == <<inBuf, incoming, rx, rxMutex, rxSignalled, rxPc, rxLen, rxAt, wire, next,
            unread, caller, rxOverlapped>>
output == <<outBuf, outgoing, tx, txMutex, txSignalled, txPc, txLen, txAt, unsent,
            chunk, failures, txOverlapped>>
vars   == <<input, output, running>>

Init == Rx!Init /\ Tx!Init

-----------------------------------------------------------------------------
(* loop(): if (IStream_available) writeStream(IStream_available); flush.  *)

Poll == /\ txPc[L] = "loop" /\ Rx!Poll
        /\ UNCHANGED output

\* The transfer is one step of the loop, and its result is not looked at.
WriteStream ==
  /\ Rx!At(L, "read") /\ Rx!Goto(L, "loop")
  /\ Tx!At(L, "loop") /\ Tx!Goto(L, "flush")
  /\ LET r == Stream_writeStream(outBuf, inBuf, rxLen[L])
         n == IF r.res = "Stream_Ok" THEN rxLen[L] ELSE 0
     IN  /\ inBuf' = r.in /\ outBuf' = r.out
         /\ unread' = unread - n /\ unsent' = unsent + n
  /\ UNCHANGED <<incoming, rx, rxMutex, rxSignalled, rxLen, rxAt, wire, next, caller,
                 outgoing, tx, txMutex, txSignalled, txLen, txAt, chunk, failures,
                 running>>

\* OStream_flush, a statement at a time.
Flush == /\ UNCHANGED input
         /\ Tx!LoopFlushes

Loop == Poll \/ WriteStream \/ Flush

-----------------------------------------------------------------------------
(* The two threads of the socket, and the peer. *)

Receiver == /\ Rx!Receiver
            /\ UNCHANGED output

Sender == /\ UNCHANGED input
          /\ Tx!Sender

SendFailed == /\ UNCHANGED input
              /\ Tx!SendFailed

SpuriousWake == \/ Rx!SpuriousWake /\ UNCHANGED output
                \/ UNCHANGED input /\ Tx!SpuriousWake

\* The peer sends a byte; it closes the connection, or the connection fails.
PeerSends == /\ Rx!Send
             /\ UNCHANGED output

Disconnect == /\ Rx!Disconnect
              /\ UNCHANGED output

Next == Loop \/ Receiver \/ Sender \/ SendFailed \/ SpuriousWake \/ PeerSends
        \/ Disconnect

Spec == Init /\ [][Next]_vars

\* The scheduler runs the three threads, and a thread that waits for a mutex
\* which is free again and again gets it.  The peer takes what is sent; it need
\* not send.
FairSpec == Spec /\ SF_vars(Loop) /\ SF_vars(Receiver) /\ SF_vars(Sender)

-----------------------------------------------------------------------------
\* No unlocked calls of two threads have overlapped, and no send has failed.
Undisturbed == ~ rxOverlapped /\ ~ txOverlapped /\ failures = 0

\* What the peer has sent and not got back, oldest first, by the number of the
\* bytes: those written and not sent, then those received and not read.
Inside == [i \in 1 .. unsent + unread |-> (next - unread - unsent + i - 1) % Bytes]

\* To the peer the client is a queue of bytes: what a send gives away are the
\* oldest bytes inside, every byte once and in order; nothing is added but what
\* a recv gets, and no more is inside than the two buffers hold (loop() of
\* userCodes.c, with both streams and the threads of uart_sock.c below it), as
\* long as the client is undisturbed.
EchoesInOrder ==
  [][Undisturbed' =>
       \/ Tx!Send /\ Inside = chunk'.val \o Inside'
       \/ /\ ~ Tx!Send
          /\ Inside' = Inside \o [i \in 1 .. wire - wire' |-> (next + i - 1) % Bytes]
          /\ Len(Inside') <= SizeIn + SizeOut]_vars

\* Every byte that is inside goes back to the peer, however many turns of the
\* loop have their transfer refused, because what the output holds is sent
\* meanwhile (the ignored result of OStream_writeStream): a client that is never
\* empty sends again and again, and by EchoesInOrder the oldest bytes first.
EveryByteEchoed ==
  []<>(Inside = <<>> \/ ~ running \/ ~ Undisturbed) \/ []<><<unsent' < unsent>>_vars

\* A transfer that moves nothing meets an output whose transmission is under way,
\* or whose completion is about to flush the rest: room will be made, though
\* loop() flushes only in turns with input (userCodes.c:34).
RefusalIsTemporary ==
  [][WriteStream /\ inBuf' = inBuf /\ Undisturbed' =>
       outBuf.InTransmit \/ Tx!Handling]_vars

\* The peer gets on: its bytes wait for ever only before an empty client whose
\* reception has stopped (InputStream.c:77).
WireServed ==
  []<>(wire = 0 \/ (Rx!Stalled /\ Inside = <<>>) \/ ~ running \/ ~ Undisturbed)
    \/ []<><<wire' < wire>>_vars
=============================================================================
