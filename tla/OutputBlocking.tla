--------------------------- MODULE OutputBlocking ---------------------------
(***************************************************************************)
(* An OStream used without callbacks: the program writes, and sends with   *)
(* OStream_transmitByte, OStream_transmitBytes (a loop, one action for     *)
(* each turn) or OStream_flushBlocking.  The transmit function returns     *)
(* when the bytes it was given are gone.  Nothing else touches the stream. *)
(***************************************************************************)
EXTENDS StreamBuffer

CONSTANT Size   \* bytes in the transmit buffer

ASSUME SizeAssumption == Size \in 1 .. MaxLen
\* A byte is its number in the order of writing; all in the buffer differ.
ASSUME NumberAssumption == Bytes > Size

VARIABLES
  buf,     \* OStream.Buffer
  len,     \* the argument that transmitBytes counts down
  op,      \* the last call
  inside,  \* transmitBytes has not returned
  next,    \* the number of the next byte to be written
  before,  \* the bytes in the stream when the call began
  asked,   \* the bytes that the call is to transmit
  sent     \* the bytes that it gave to the transmit function

outputVars == <<buf, len, op, inside, next, before, asked, sent>>

Min2(a, b) == IF a < b THEN a ELSE b

OutputInit ==
  /\ buf = Stream_init([i \in 0 .. Size - 1 |-> 0], Size)
  /\ len = 0 /\ op = "init" /\ inside = FALSE /\ next = 0
  /\ before = <<>> /\ asked = <<>> /\ sent = <<>>

Begin(name, n) ==
  /\ ~ inside
  /\ op' = name
  /\ before' = Contents(buf)
  /\ asked' = SubSeq(Contents(buf), 1, n)

Write(n) ==
  /\ n <= Stream_space(buf)
  /\ Begin("write", 0)
  /\ buf' = Stream_writeBytes(buf, [i \in 1 .. n |-> (next + i - 1) % Bytes]).s
  /\ next' = (next + n) % Bytes
  /\ sent' = <<>>
  /\ UNCHANGED <<len, inside>>

\* Mutant of the definition that follows it: the byte is sent and kept.
ByteKeptMutant ==
  /\ Begin("transmitByte", Min2(1, Stream_directAvailable(buf)))
  /\ sent' = slice(buf.Data, buf.RPos, Min2(1, Stream_directAvailable(buf)))
  /\ UNCHANGED <<buf, len, inside, next>>

OStream_transmitByte ==
  /\ Begin("transmitByte", Min2(1, Stream_directAvailable(buf)))
  /\ IF Stream_directAvailable(buf) > 0
     THEN /\ sent' = slice(buf.Data, buf.RPos, 1)
          /\ buf' = Stream_moveReadPos(buf, 1).s
     ELSE sent' = <<>> /\ UNCHANGED buf          \* Stream_NoAvailable
  /\ UNCHANGED <<len, inside, next>>

\* OStream_pendingBytes is Stream_available of the buffer.
OStream_transmitBytes(n) ==
  /\ len' = Min2(n, Stream_available(buf))
  /\ Begin("transmitBytes", len')
  /\ sent' = <<>> /\ inside' = TRUE
  /\ UNCHANGED <<buf, next>>

\* Mutant of the definition that follows it: moves on by more than it sends.
SkipMutant ==
  /\ inside /\ len > 0 /\ Stream_directAvailable(buf) > 0
  /\ sent' = sent \o slice(buf.Data, buf.RPos, 1)
  /\ buf' = Stream_moveReadPos(buf, Min2(Stream_directAvailable(buf), len)).s
  /\ len' = len - 1
  /\ UNCHANGED <<op, inside, next, before, asked>>

\* A turn of the loop: a piece is sent, and the stream moves on by one byte.
TransmitPiece ==
  /\ inside /\ len > 0 /\ Stream_directAvailable(buf) > 0
  /\ LET dirLen == Min2(Stream_directAvailable(buf), len) IN
     /\ sent' = sent \o slice(buf.Data, buf.RPos, dirLen)
     /\ len' = len - dirLen
  /\ buf' = Stream_moveReadPos(buf, 1).s
  /\ UNCHANGED <<op, inside, next, before, asked>>

\* The loop ends, or finds nothing to send.
TransmitReturn ==
  /\ inside /\ (len = 0 \/ Stream_directAvailable(buf) = 0)
  /\ inside' = FALSE
  /\ UNCHANGED <<buf, len, op, next, before, asked, sent>>

\* "while (OStream_pendingBytes(stream) == 0)": with bytes pending it returns at
\* once, a result that was never set; with none, OStream_flush has nothing to do
\* and the loop breaks.  Either way nothing is sent.
OStream_flushBlocking ==
  /\ Begin("flushBlocking", Stream_available(buf))
  /\ sent' = <<>>
  /\ UNCHANGED <<buf, len, inside, next>>

OutputNext ==
  \/ \E n \in 1 .. Size : Write(n)
  \/ OStream_transmitByte
  \/ \E n \in 0 .. Size + 1 : OStream_transmitBytes(n)
  \/ TransmitPiece \/ TransmitReturn
  \/ OStream_flushBlocking

OutputSpec == OutputInit /\ [][OutputNext]_outputVars

-----------------------------------------------------------------------------
\* A byte leaves the stream only when the transmit function has had it: nothing
\* is lost, in one piece or in two, wherever the ring wraps.
RemovedWereSent ==
  op # "write" =>
    \A i \in 1 .. Len(before) - Stream_availableReal(buf) :
      \E j \in DOMAIN sent : sent[j] = before[i]

\* No call hands over more bytes than it is asked for, or than there are.
NeverMoreThanAsked == Len(sent) <= Len(asked)

\* OStream_transmitByte takes the oldest byte and sends it once.
ByteSentOnce ==
  op = "transmitByte" => sent = asked /\ before = sent \o Contents(buf)

\* No call sends more than it is asked for, and a call for one byte sends the
\* oldest one once and removes it (transmitByte, transmitBytes).
SentAsAsked == NeverMoreThanAsked /\ ByteSentOnce

\* "blocking transmit n byte" (OutputStream.c:132): when the call returns it has
\* sent the n oldest bytes, each once.
BytesSentOnce == op = "transmitBytes" /\ ~ inside => sent = asked
=============================================================================
