---------------------------- MODULE SerialProofs ----------------------------
(***************************************************************************)
(* Theorems about SerialServer, for any number of clients and bytes: there *)
(* is one session at a time, what the port gets is what was sent, no byte  *)
(* of the port is delivered twice or to a client whose session is over,    *)
(* and an open connection is served.                                       *)
(*                                                                         *)
(* The inductive invariant follows the main thread: what it has opened and *)
(* whom it has started at each place, who can close what it opened, and    *)
(* where the bytes are that a thread holds between two of its calls.       *)
(***************************************************************************)
EXTENDS SerialServer, FiniteSetTheorems, SequenceTheorems, TLAPS

-----------------------------------------------------------------------------
(* The inductive invariant. *)

Served == main \in {"startReader", "startReceiver", "join", "closeConn", "closePort"}

Typed ==
  /\ conn \in 0 .. MaxClients /\ serial_port \in 0 .. MaxClients
  /\ connOpen \subseteq Clients /\ portOpen \subseteq Clients
  /\ left \subseteq Clients /\ survivors \subseteq Clients
  /\ main \in {"accept", "open", "startReader", "startReceiver", "join",
               "closeConn", "closePort", "ended"}
  /\ reader \in [Clients -> {"unborn", "read", "reading", "send", "except", "done"}]
  /\ receiver \in [Clients -> {"unborn", "recv", "write", "done"}]
  /\ serial_data \in [Clients -> Seq(Nat)] /\ got \in [Clients -> Seq(Nat)]
  /\ data \in [Clients -> Seq(Clients \X Nat)] /\ written \in Seq(Clients \X Nat)
  /\ sent \in [Clients -> Nat] /\ received \in [Clients -> Nat]
  /\ arrived \in 0 .. MaxArrived /\ read \in 0 .. arrived

\* What the main thread has opened, and whom it has started, at each place.
Session ==
  /\ portOpen = IF Served THEN {conn} ELSE {}
  /\ Served => serial_port = conn
  /\ connOpen \subseteq {conn}
  /\ main \in {"accept", "closePort"} => connOpen = {}
  /\ main # "accept" => conn \in Clients
  /\ main \in {"open", "startReader"} => reader[conn] = "unborn"
  /\ main \in {"startReceiver", "join"} => reader[conn] # "unborn"
  /\ main \in {"open", "startReader", "startReceiver"} => receiver[conn] = "unborn"
  /\ main = "join" => receiver[conn] # "unborn"
  /\ \A c \in Clients :
       /\ Alive(receiver[c]) => c = conn /\ main = "join"
       /\ c > conn => reader[c] = "unborn" /\ receiver[c] = "unborn"

\* A client that began without a survivor has its reader for itself, and only that
\* one closes the connection.
Alone ==
  /\ \A c \in survivors : c <= conn
  /\ conn \notin survivors =>
       /\ \A c \in Clients : c # conn => ~ Alive(reader[c])
       /\ main \in {"open", "startReader"} => conn \in connOpen
       /\ main \in {"startReceiver", "join"} /\ conn \notin connOpen =>
            reader[conn] = "done"
  /\ main \in {"startReceiver", "join"} /\ reader[conn] = "done" => conn \notin connOpen

\* So much of what the present client sent is written: its first k bytes.
Upto(k) == IF k = 0 THEN \A i \in DOMAIN written : written[i][1] < conn
                    ELSE /\ Len(written) > 0
                         /\ written[Len(written)] = <<conn, k>>

\* The bytes that the receiver has in its hands are the next ones.
Inward ==
  /\ \A c \in Clients : received[c] <= sent[c] /\ (c > conn => received[c] = 0)
  /\ \A i \in DOMAIN written : written[i][1] <= conn
  /\ main \in {"open", "startReader", "startReceiver"} => received[conn] = 0
  /\ main \in {"open", "startReader", "startReceiver"} => Upto(0)
  /\ \A c \in Clients :
       /\ receiver[c] = "recv" => Upto(received[c])
       /\ receiver[c] = "write" =>
            \E k \in 0 .. received[c] :
              /\ Upto(k) /\ Len(data[c]) = received[c] - k
              /\ \A i \in 1 .. received[c] - k : data[c][i] = <<c, k + i>>

\* A reader holds bytes only on its way to send them, each of them for itself,
\* and none that was sent.
Outward ==
  /\ \A c \in Clients : reader[c] # "send" => serial_data[c] = <<>>
  /\ \A c \in Clients : \A i \in DOMAIN serial_data[c] : serial_data[c][i] <= read
  /\ \A c \in Clients : \A i \in DOMAIN got[c] : got[c][i] <= read
  /\ \A c, d \in Clients : \A i \in DOMAIN serial_data[c], j \in DOMAIN serial_data[d] :
       /\ serial_data[c][i] = serial_data[d][j] => c = d /\ i = j
       /\ c = d /\ i < j => serial_data[c][i] < serial_data[c][j]
  /\ \A c, d \in Clients : \A i \in DOMAIN got[c], j \in DOMAIN serial_data[d] :
       /\ got[c][i] # serial_data[d][j]
       /\ c = d /\ c = conn /\ c \notin survivors => got[c][i] < serial_data[d][j]

SIInv == /\ Typed /\ Session /\ Alone /\ Inward /\ Outward
         /\ PortGetsWhatWasSent /\ DeliveredOnce
-----------------------------------------------------------------------------
(* The session. *)

LEMMA SessionStep ==
  ASSUME SIInv, [Next]_vars
  PROVE  Session'
<1>0. /\ Session /\ conn \in 0 .. MaxClients /\ serial_port \in 0 .. MaxClients
      /\ MaxClients \in Nat \ {0}
      /\ connOpen \subseteq Clients /\ portOpen \subseteq Clients
      /\ reader \in [Clients -> {"unborn", "read", "reading", "send", "except", "done"}]
      /\ receiver \in [Clients -> {"unborn", "recv", "write", "done"}]
      /\ main \in {"accept", "open", "startReader", "startReceiver", "join",
                   "closeConn", "closePort", "ended"}
  BY ClientsAssumption DEF SIInv, Typed
<1> USE <1>0 DEF Session, Served, Alive, Clients, Nobody, names, opened, reading,
                 writing
<1>1. CASE ClientSends
  BY <1>1 DEF ClientSends
<1>2. CASE ClientLeaves
  BY <1>2 DEF ClientLeaves
<1>3. CASE DeviceSends
  BY <1>3 DEF DeviceSends
<1>4. CASE Accept
  BY <1>4 DEF Accept
<1>5. CASE OpenPort
  BY <1>5 DEF OpenPort
<1>6. CASE StartReader
  BY <1>6 DEF StartReader
<1>7. CASE StartReceiver
  BY <1>7 DEF StartReceiver
<1>8. CASE Join
  BY <1>8 DEF Join
<1>9. CASE CloseConn
  BY <1>9 DEF CloseConn
<1>10. CASE ClosePort
  BY <1>10 DEF ClosePort
<1>11. ASSUME NEW c \in Clients, ReadBegins(c)
      PROVE  Session'
  BY <1>11 DEF ReadBegins, ReaderGoes
<1>12. ASSUME NEW c \in Clients, ReadTimesOut(c)
      PROVE  Session'
  BY <1>12 DEF ReadTimesOut, ReaderGoes
<1>13. ASSUME NEW c \in Clients, ReadReturns(c)
      PROVE  Session'
  BY <1>13 DEF ReadReturns, ReaderGoes
<1>14. ASSUME NEW c \in Clients, ReadFails(c)
      PROVE  Session'
  BY <1>14 DEF ReadFails, ReaderGoes
<1>15. ASSUME NEW c \in Clients, Send(c)
      PROVE  Session'
  BY <1>15 DEF Send, ReaderGoes
<1>16. ASSUME NEW c \in Clients, SendFails(c)
      PROVE  Session'
  BY <1>16 DEF SendFails, ReaderGoes
<1>17. ASSUME NEW c \in Clients, Except(c)
      PROVE  Session'
  BY <1>17 DEF Except, ReaderGoes
<1>18. ASSUME NEW c \in Clients, Recv(c)
      PROVE  Session'
  BY <1>18 DEF Recv, ReceiverGoes
<1>19. ASSUME NEW c \in Clients, RecvEnds(c)
      PROVE  Session'
  BY <1>19 DEF RecvEnds, ReceiverGoes
<1>20. ASSUME NEW c \in Clients, Write(c)
      PROVE  Session'
  BY <1>20 DEF Write, ReceiverGoes
<1>21. ASSUME NEW c \in Clients, WriteFails(c)
      PROVE  Session'
  BY <1>21 DEF WriteFails, ReceiverGoes
<1>22. CASE UNCHANGED vars
  BY <1>22 DEF vars
<1> QED
  BY <1>1, <1>2, <1>3, <1>4, <1>5, <1>6, <1>7, <1>8, <1>9, <1>10, <1>11, <1>12,
     <1>13, <1>14, <1>15, <1>16, <1>17, <1>18, <1>19, <1>20, <1>21, <1>22
  DEF Next, Main, Reader, Receiver
\* The first bytes of a sequence.
LEMMA PrefixIn ==
  ASSUME NEW S, NEW s \in Seq(S), NEW n \in 0 .. Len(s)
  PROVE  /\ SubSeq(s, 1, n) \in Seq(S) /\ Len(SubSeq(s, 1, n)) = n
         /\ \A i \in 1 .. n : SubSeq(s, 1, n)[i] = s[i]
  OBVIOUS

LEMMA TypedStep ==
  ASSUME SIInv, [Next]_vars
  PROVE  Typed'
<1>0. /\ Typed /\ MaxArrived \in Nat
      /\ conn \in Clients => conn \in 0 .. MaxClients
      /\ conn # Nobody => conn \in Clients
      /\ main # "accept" => conn \in Clients
      /\ conn < MaxClients => conn + 1 \in Clients /\ conn + 1 \in 0 .. MaxClients
  <2>1. Typed /\ MaxArrived \in Nat /\ MaxClients \in Nat
    BY ClientsAssumption, ArrivedAssumption DEF SIInv
  <2>2. conn \in 0 .. MaxClients
    BY <2>1 DEF Typed
  <2>3. main # "accept" => conn \in Clients
    BY DEF SIInv, Session
  <2> QED
    BY <2>1, <2>2, <2>3 DEF Clients, Nobody
<1> USE <1>0 DEF Typed, names, opened, reading, writing, inward, outward
<1>1. CASE ClientSends
  <2>1. conn # Nobody /\ sent' = [sent EXCEPT ![conn] = sent[conn] + 1]
    BY <1>1 DEF ClientSends
  <2>2. sent' \in [Clients -> Nat]
    BY <2>1
  <2> QED
    BY <1>1, <2>2 DEF ClientSends
<1>2. CASE ClientLeaves
  BY <1>2 DEF ClientLeaves
<1>3. CASE DeviceSends
  BY <1>3 DEF DeviceSends
<1>4. CASE Accept
  <2>1. /\ conn' = conn + 1 /\ conn + 1 \in Clients /\ conn + 1 \in 0 .. MaxClients
        /\ connOpen' = connOpen \cup {conn + 1} /\ main' = "open"
        /\ survivors' = survivors \cup {conn + 1} \/ survivors' = survivors
    BY <1>4 DEF Accept
  <2> QED
    BY <1>4, <2>1 DEF Accept
<1>5. CASE OpenPort
  BY <1>5 DEF OpenPort
<1>6. CASE StartReader
  <2>1. reader' = [reader EXCEPT ![conn] = "read"] /\ main' = "startReceiver"
    BY <1>6 DEF StartReader
  <2>2. /\ reader' \in [Clients -> {"unborn", "read", "reading", "send", "except", "done"}]
        /\ main' \in {"accept", "open", "startReader", "startReceiver", "join",
                      "closeConn", "closePort", "ended"}
    BY <2>1
  <2>3. UNCHANGED <<names, opened, left, readsFrom, serial_data, writing, inward,
                    outward, survivors>>
    BY <1>6 DEF StartReader
  <2> QED
    BY <2>2, <2>3
<1>7. CASE StartReceiver
  BY <1>7 DEF StartReceiver
<1>8. CASE Join
  BY <1>8 DEF Join
<1>9. CASE CloseConn
  BY <1>9 DEF CloseConn
<1>10. CASE ClosePort
  BY <1>10 DEF ClosePort
<1>11. ASSUME NEW c \in Clients, ReadBegins(c)
      PROVE  Typed'
  BY <1>11 DEF ReadBegins, ReaderGoes
<1>12. ASSUME NEW c \in Clients, ReadTimesOut(c)
      PROVE  Typed'
  BY <1>12 DEF ReadTimesOut, ReaderGoes
<1>13. ASSUME NEW c \in Clients, ReadReturns(c)
      PROVE  Typed'
  <2>1. PICK n \in 1 .. arrived - read :
          /\ serial_data' = [serial_data EXCEPT ![c] = [i \in 1 .. n |-> read + i]]
          /\ read' = read + n
    BY <1>13 DEF ReadReturns
  <2> DEFINE v == [i \in 1 .. n |-> read + i]
  <2>2. v \in Seq(Nat)
    OBVIOUS
  <2>3. serial_data' = [serial_data EXCEPT ![c] = v]
    BY <2>1
  <2> HIDE DEF v
  <2>4. serial_data' \in [Clients -> Seq(Nat)]
    BY <2>2, <2>3
  <2>5. read' \in 0 .. arrived
    BY <2>1
  <2> QED
    BY <1>13, <2>4, <2>5 DEF ReadReturns, ReaderGoes
<1>14. ASSUME NEW c \in Clients, ReadFails(c)
      PROVE  Typed'
  BY <1>14 DEF ReadFails, ReaderGoes
<1>15. ASSUME NEW c \in Clients, Send(c)
      PROVE  Typed'
  <2>1. PICK n \in 1 .. Len(serial_data[c]) :
          got' = [got EXCEPT ![conn] =
                    IF conn \in left THEN @ ELSE @ \o SubSeq(serial_data[c], 1, n)]
    BY <1>15 DEF Send
  <2>2. conn \in Clients
    BY <1>15 DEF Send
  <2>3. got[conn] \in Seq(Nat) /\ serial_data[c] \in Seq(Nat)
    BY <2>2
  <2> DEFINE g == IF conn \in left THEN got[conn]
                  ELSE got[conn] \o SubSeq(serial_data[c], 1, n)
  <2>4. g \in Seq(Nat)
    BY <2>1, <2>3, PrefixIn, SMTT(30)
  <2>5. got' = [got EXCEPT ![conn] = g]
    BY <2>1
  <2> HIDE DEF g
  <2>6. got' \in [Clients -> Seq(Nat)]
    BY <2>4, <2>5
  <2>7. serial_data' \in [Clients -> Seq(Nat)]
    BY <1>15 DEF Send
  <2> QED
    BY <1>15, <2>6, <2>7 DEF Send, ReaderGoes
<1>16. ASSUME NEW c \in Clients, SendFails(c)
      PROVE  Typed'
  BY <1>16 DEF SendFails, ReaderGoes
<1>17. ASSUME NEW c \in Clients, Except(c)
      PROVE  Typed'
  BY <1>17 DEF Except, ReaderGoes
<1>18. ASSUME NEW c \in Clients, Recv(c)
      PROVE  Typed'
  <2>1. PICK n \in 1 .. sent[conn] - received[conn] :
          /\ data' = [data EXCEPT ![c] = [i \in 1 .. n |-> <<conn, received[conn] + i>>]]
          /\ received' = [received EXCEPT ![conn] = @ + n]
    BY <1>18 DEF Recv
  <2>2. conn \in Clients
    BY <1>18 DEF Recv
  <2> DEFINE v == [i \in 1 .. n |-> <<conn, received[conn] + i>>]
  <2>3. v \in Seq(Clients \X Nat)
    <3>1. n \in Nat /\ received[conn] \in Nat
      BY <2>1, <2>2
    <3> QED
      BY <2>2, <3>1, SMTT(30)
  <2>4. data' = [data EXCEPT ![c] = v]
    BY <2>1
  <2> HIDE DEF v
  <2>5. data' \in [Clients -> Seq(Clients \X Nat)]
    BY <2>3, <2>4
  <2>6. received' \in [Clients -> Nat]
    <3>1. received[conn] \in Nat /\ received[conn] + n \in Nat
      BY <2>1, <2>2, SMTT(30)
    <3> QED
      BY <2>1, <3>1
  <2> QED
    BY <1>18, <2>5, <2>6 DEF Recv, ReceiverGoes
<1>19. ASSUME NEW c \in Clients, RecvEnds(c)
      PROVE  Typed'
  BY <1>19 DEF RecvEnds, ReceiverGoes
<1>20. ASSUME NEW c \in Clients, Write(c)
      PROVE  Typed'
  <2>1. written' \in Seq(Clients \X Nat)
    <3>1. data[c] \in Seq(Clients \X Nat) /\ written' = written \o data[c]
      BY <1>20 DEF Write
    <3> QED
      BY <3>1
  <2>2. data' \in [Clients -> Seq(Clients \X Nat)]
    <3>1. <<>> \in Seq(Clients \X Nat)
      OBVIOUS
    <3> QED
      BY <1>20, <3>1 DEF Write
  <2> QED
    BY <1>20, <2>1, <2>2 DEF Write, ReceiverGoes
<1>21. ASSUME NEW c \in Clients, WriteFails(c)
      PROVE  Typed'
  <2>1. written' \in Seq(Clients \X Nat)
    <3>1. PICK n \in 0 .. Len(data[c]) : written' = written \o SubSeq(data[c], 1, n)
      BY <1>21 DEF WriteFails
    <3>2. data[c] \in Seq(Clients \X Nat)
      OBVIOUS
    <3>3. SubSeq(data[c], 1, n) \in Seq(Clients \X Nat)
      BY <3>1, <3>2, PrefixIn
    <3> QED
      BY <3>1, <3>3
  <2>2. data' \in [Clients -> Seq(Clients \X Nat)]
    <3>1. <<>> \in Seq(Clients \X Nat)
      OBVIOUS
    <3> QED
      BY <1>21, <3>1 DEF WriteFails
  <2> QED
    BY <1>21, <2>1, <2>2 DEF WriteFails, ReceiverGoes
<1>22. CASE UNCHANGED vars
  BY <1>22 DEF vars
<1> QED
  BY <1>1, <1>2, <1>3, <1>4, <1>5, <1>6, <1>7, <1>8, <1>9, <1>10, <1>11, <1>12,
     <1>13, <1>14, <1>15, <1>16, <1>17, <1>18, <1>19, <1>20, <1>21, <1>22
  DEF Next, Main, Reader, Receiver

LEMMA AloneStep ==
  ASSUME SIInv, [Next]_vars
  PROVE  Alone'
<1>0. /\ Session /\ Alone /\ conn \in 0 .. MaxClients /\ MaxClients \in Nat \ {0}
      /\ survivors \subseteq Clients /\ connOpen \subseteq Clients
      /\ reader \in [Clients -> {"unborn", "read", "reading", "send", "except", "done"}]
      /\ main \in {"accept", "open", "startReader", "startReceiver", "join",
                   "closeConn", "closePort", "ended"}
  BY ClientsAssumption DEF SIInv, Typed
<1> USE <1>0 DEF Session, Alone, Alive, Clients, Nobody, names, opened, reading
<1>1. CASE ClientSends
  BY <1>1 DEF ClientSends
<1>2. CASE ClientLeaves
  BY <1>2 DEF ClientLeaves
<1>3. CASE DeviceSends
  BY <1>3 DEF DeviceSends
<1>4. CASE Accept
  BY <1>4 DEF Accept
<1>5. CASE OpenPort
  BY <1>5 DEF OpenPort
<1>6. CASE StartReader
  BY <1>6 DEF StartReader
<1>7. CASE StartReceiver
  BY <1>7 DEF StartReceiver
<1>8. CASE Join
  BY <1>8 DEF Join
<1>9. CASE CloseConn
  BY <1>9 DEF CloseConn
<1>10. CASE ClosePort
  BY <1>10 DEF ClosePort
<1>11. ASSUME NEW c \in Clients, ReadBegins(c)
      PROVE  Alone'
  BY <1>11 DEF ReadBegins, ReaderGoes
<1>12. ASSUME NEW c \in Clients, ReadTimesOut(c)
      PROVE  Alone'
  BY <1>12 DEF ReadTimesOut, ReaderGoes
<1>13. ASSUME NEW c \in Clients, ReadReturns(c)
      PROVE  Alone'
  BY <1>13 DEF ReadReturns, ReaderGoes
<1>14. ASSUME NEW c \in Clients, ReadFails(c)
      PROVE  Alone'
  BY <1>14 DEF ReadFails, ReaderGoes
<1>15. ASSUME NEW c \in Clients, Send(c)
      PROVE  Alone'
  BY <1>15 DEF Send, ReaderGoes
<1>16. ASSUME NEW c \in Clients, SendFails(c)
      PROVE  Alone'
  BY <1>16 DEF SendFails, ReaderGoes
<1>17. ASSUME NEW c \in Clients, Except(c)
      PROVE  Alone'
  BY <1>17 DEF Except, ReaderGoes
<1>18. ASSUME NEW c \in Clients, Recv(c)
      PROVE  Alone'
  BY <1>18 DEF Recv, ReceiverGoes
<1>19. ASSUME NEW c \in Clients, RecvEnds(c)
      PROVE  Alone'
  BY <1>19 DEF RecvEnds, ReceiverGoes
<1>20. ASSUME NEW c \in Clients, Write(c)
      PROVE  Alone'
  BY <1>20 DEF Write, ReceiverGoes
<1>21. ASSUME NEW c \in Clients, WriteFails(c)
      PROVE  Alone'
  BY <1>21 DEF WriteFails, ReceiverGoes
<1>22. CASE UNCHANGED vars
  BY <1>22 DEF vars
<1> QED
  BY <1>1, <1>2, <1>3, <1>4, <1>5, <1>6, <1>7, <1>8, <1>9, <1>10, <1>11, <1>12,
     <1>13, <1>14, <1>15, <1>16, <1>17, <1>18, <1>19, <1>20, <1>21, <1>22
  DEF Next, Main, Reader, Receiver
-----------------------------------------------------------------------------
(* From the clients to the port. *)

\* Writing the next bytes of the present client keeps the order.
LEMMA Appended ==
  ASSUME SIInv, conn \in Clients, NEW k \in Nat, NEW v \in Seq(Clients \X Nat),
         Upto(k), k + Len(v) <= received[conn],
         \A i \in 1 .. Len(v) : v[i] = <<conn, k + i>>,
         written' = written \o v, conn' = conn, received' = received
  PROVE  /\ PortGetsWhatWasSent'
         /\ \A i \in DOMAIN written' : written'[i][1] <= conn
         /\ Upto(k + Len(v))'
<1> DEFINE n == Len(written)
           m == Len(v)
           u == written'
           top == received[conn]
<1>1. /\ written \in Seq(Clients \X Nat) /\ n \in Nat /\ m \in Nat
      /\ DOMAIN written = 1 .. n /\ conn \in Nat /\ top \in Nat
  <2>1. /\ written \in Seq(Clients \X Nat) /\ received \in [Clients -> Nat]
        /\ conn \in 0 .. MaxClients
    BY DEF SIInv, Typed
  <2>2. conn \in Nat
    BY <2>1, ClientsAssumption
  <2> QED
    BY <2>1, <2>2
<1>2. /\ Len(u) = n + m /\ DOMAIN u = 1 .. n + m
      /\ \A i \in 1 .. n : u[i] = written[i]
      /\ \A i \in 1 .. m : u[n + i] = v[i]
  <2>1. u \in Seq(Clients \X Nat) /\ Len(u) = n + m
    BY <1>1
  <2>2. DOMAIN u = 1 .. n + m
    BY <2>1
  <2>3. \A i \in 1 .. n : u[i] = written[i]
    BY <1>1
  <2>4. \A i \in 1 .. m : u[n + i] = v[i]
    BY <1>1
  <2> QED
    BY <2>1, <2>2, <2>3, <2>4
<1>3. \A i \in 1 .. m : u[n + i] = <<conn, k + i>>
  BY <1>2
<1>4. \A i \in 1 .. n :
        /\ written[i][2] \in 1 .. received[written[i][1]]
        /\ written[i][2] > 1 =>
             i > 1 /\ written[i - 1] = <<written[i][1], written[i][2] - 1>>
        /\ written[i][2] = 1 => \A j \in 1 .. i - 1 : written[j][1] < written[i][1]
        /\ written[i][1] <= conn
  BY <1>1 DEF SIInv, PortGetsWhatWasSent, Inward
<1>5. /\ k = 0 => \A i \in 1 .. n : written[i][1] < conn
      /\ k > 0 => n > 0 /\ written[n] = <<conn, k>>
  <2>1. CASE k = 0
    <3>1. \A i \in DOMAIN written : written[i][1] < conn
      BY <2>1, Zenon DEF Upto
    <3>2. \A i \in 1 .. n : written[i][1] < conn
      BY <1>1, <3>1, Zenon
    <3>3. ~ (k > 0)
      BY <2>1
    <3> QED
      BY <3>2, <3>3, Zenon
  <2>2. CASE k # 0
    <3>1. Len(written) > 0 /\ written[Len(written)] = <<conn, k>>
      BY <2>2, Zenon DEF Upto
    <3> QED
      BY <2>2, <3>1
  <2> QED
    BY <2>1, <2>2
<1>6. k + m <= top
  OBVIOUS
<1> HIDE DEF n, m, u, top
<1>7. ASSUME NEW i \in 1 .. n + m
      PROVE  /\ u[i][2] \in 1 .. received[u[i][1]]
             /\ u[i][2] > 1 => i > 1 /\ u[i - 1] = <<u[i][1], u[i][2] - 1>>
             /\ u[i][2] = 1 => \A j \in 1 .. i - 1 : u[j][1] < u[i][1]
             /\ u[i][1] <= conn
  <2>1. CASE i \in 1 .. n
    <3>1. u[i] = written[i] /\ (i > 1 => u[i - 1] = written[i - 1])
          /\ \A j \in 1 .. i - 1 : u[j] = written[j]
      BY <1>1, <1>2, <2>1
    <3> QED
      BY <1>4, <2>1, <3>1
  <2>2. CASE i \notin 1 .. n
    <3> DEFINE p == i - n
    <3>1. p \in 1 .. m /\ i = n + p
      BY <1>1, <2>2
    <3>2. u[i] = <<conn, k + p>>
      BY <1>3, <3>1
    <3>3. u[i][1] = conn /\ u[i][2] = k + p
      BY <3>2
    <3> HIDE DEF p
    <3>4. u[i][2] \in 1 .. received[u[i][1]] /\ u[i][1] <= conn
      BY <1>1, <1>6, <3>1, <3>3 DEF top
    <3>5. ASSUME k + p > 1
          PROVE  i > 1 /\ u[i - 1] = <<conn, k + p - 1>>
      <4>1. CASE p > 1
        <5> DEFINE q == p - 1
        <5>1. q \in 1 .. m /\ i - 1 = n + q /\ k + q = k + p - 1 /\ i > 1
          BY <1>1, <3>1, <4>1
        <5> HIDE DEF q
        <5> QED
          BY <1>3, <5>1
      <4>2. CASE p = 1
        <5>1. k > 0 /\ i - 1 = n /\ n > 0 /\ k + p - 1 = k
          BY <1>1, <1>5, <3>1, <3>5, <4>2
        <5>2. u[n] = written[n]
          BY <1>1, <1>2, <5>1
        <5> QED
          BY <1>1, <1>5, <5>1, <5>2
      <4> QED
        BY <3>1, <4>1, <4>2
    <3>6. ASSUME k + p = 1
          PROVE  \A j \in 1 .. i - 1 : u[j][1] < conn
      <4>1. k = 0 /\ i - 1 = n
        BY <1>1, <3>1, <3>6
      <4> QED
        BY <1>2, <1>5, <4>1
    <3>7. u[i][2] > 1 => i > 1 /\ u[i - 1] = <<u[i][1], u[i][2] - 1>>
      <4>1. SUFFICES ASSUME u[i][2] > 1
                     PROVE  i > 1 /\ u[i - 1] = <<u[i][1], u[i][2] - 1>>
        OBVIOUS
      <4>2. i > 1 /\ u[i - 1] = <<conn, k + p - 1>>
        BY <3>3, <3>5, <4>1, Zenon
      <4>3. k + p = u[i][2] /\ conn = u[i][1]
        BY <3>3, Zenon
      <4>4. k + p - 1 = u[i][2] - 1
        <5>1. k \in Int /\ p \in Int
          BY <1>1, <3>1
        <5> QED
          BY <4>3, <5>1
      <4>5. <<conn, k + p - 1>> = <<u[i][1], u[i][2] - 1>>
        BY <4>3, <4>4, Zenon
      <4> QED
        BY <4>2, <4>5, Zenon
    <3>8. u[i][2] = 1 => \A j \in 1 .. i - 1 : u[j][1] < u[i][1]
      BY <3>3, <3>6
    <3> QED
      BY <3>4, <3>7, <3>8
  <2> QED
    BY <2>1, <2>2
<1>8. PortGetsWhatWasSent'
  BY <1>2, <1>7 DEF PortGetsWhatWasSent, u
<1>9. Upto(k + m)'
  <2>1. CASE m = 0
    <3>1. k + m = k /\ n + m = n
      BY <1>1, <2>1
    <3> QED
      BY <1>1, <1>2, <1>5, <3>1 DEF Upto, u
  <2>2. CASE m > 0
    <3>1. u[n + m] = <<conn, k + m>> /\ k + m # 0 /\ n + m > 0
      BY <1>1, <1>3, <2>2
    <3> QED
      BY <1>2, <3>1 DEF Upto, u
  <2> QED
    BY <1>1, <2>1, <2>2
<1> QED
  BY <1>2, <1>7, <1>8, <1>9 DEF u, m
\* What the receiver writes, all of it or a part, are the next bytes of its client.
LEMMA WritesNext ==
  ASSUME SIInv, NEW c \in Clients, Write(c) \/ WriteFails(c)
  PROVE  /\ c = conn /\ conn' = conn /\ received' = received
         /\ receiver[c] = "write"
         /\ PortGetsWhatWasSent'
         /\ \A i \in DOMAIN written' : written'[i][1] <= conn
         /\ Write(c) => Upto(received[c])'
<1>1. /\ receiver[c] = "write" /\ conn' = conn /\ received' = received
  BY DEF Write, WriteFails, names
<1>2. c = conn
  BY <1>1 DEF SIInv, Session, Alive
<1>3. /\ data[c] \in Seq(Clients \X Nat) /\ received[c] \in Nat
  BY DEF SIInv, Typed
<1>4. PICK k \in 0 .. received[c] :
        /\ Upto(k) /\ Len(data[c]) = received[c] - k
        /\ \A i \in 1 .. received[c] - k : data[c][i] = <<c, k + i>>
  BY <1>1 DEF SIInv, Inward
<1>5. k \in Nat /\ k + Len(data[c]) = received[c]
  BY <1>3, <1>4
<1>6. CASE Write(c)
  <2>1. PICK v \in Seq(Clients \X Nat) : v = data[c]
    BY <1>3
  <2>2. /\ written' = written \o v
        /\ k + Len(v) = received[c]
        /\ \A i \in 1 .. Len(v) : v[i] = <<c, k + i>>
    <3>1. written' = written \o v
      BY <1>6, <2>1 DEF Write
    <3>2. k + Len(v) = received[c] /\ Len(v) = received[c] - k
      BY <1>4, <1>5, <2>1
    <3> QED
      BY <1>4, <2>1, <3>1, <3>2
  <2>3. k + Len(v) <= received[c]
    BY <1>3, <2>2
  <2>4. /\ PortGetsWhatWasSent'
        /\ \A i \in DOMAIN written' : written'[i][1] <= conn
        /\ Upto(k + Len(v))'
    BY <1>1, <1>2, <1>4, <1>5, <2>2, <2>3, Appended
  <2>5. Upto(received[c])'
    <3>1. PICK top \in Nat : top = k + Len(v)
      BY <1>5, <2>1
    <3>2. Upto(top)'
      BY <2>4, <3>1
    <3>3. received'[c] = top
      BY <1>1, <2>2, <3>1
    <3> QED
      BY <3>2, <3>3
  <2> QED
    BY <1>1, <1>2, <2>4, <2>5
<1>7. CASE WriteFails(c)
  <2>1. PICK n \in 0 .. Len(data[c]) : written' = written \o SubSeq(data[c], 1, n)
    BY <1>7 DEF WriteFails
  <2>2. PICK v \in Seq(Clients \X Nat) : v = SubSeq(data[c], 1, n)
    BY <1>3, <2>1, PrefixIn
  <2>3. Len(v) = n /\ \A i \in 1 .. n : v[i] = data[c][i]
    BY <1>3, <2>1, <2>2, PrefixIn
  <2>4. n \in Nat /\ n <= received[c] - k
    BY <1>3, <1>4, <2>1
  <2>5. \A i \in 1 .. n : i \in 1 .. received[c] - k
    BY <1>3, <1>5, <2>4
  <2>6. k + Len(v) <= received[c]
    BY <1>3, <1>5, <2>3, <2>4
  <2>7. \A i \in 1 .. Len(v) : v[i] = <<c, k + i>>
    BY <1>4, <2>3, <2>5
  <2>8. written' = written \o v
    BY <2>1, <2>2
  <2>9. /\ PortGetsWhatWasSent'
        /\ \A i \in DOMAIN written' : written'[i][1] <= conn
    BY <1>1, <1>2, <1>4, <1>5, <2>6, <2>7, <2>8, Appended
  <2>10. ~ Write(c)
    BY <1>7 DEF Write, WriteFails, ReceiverGoes, SIInv, Typed
  <2> QED
    BY <1>1, <1>2, <2>9, <2>10
<1> QED
  BY <1>6, <1>7

LEMMA PortStep ==
  ASSUME SIInv, [Next]_vars
  PROVE  PortGetsWhatWasSent'
<1>0. /\ PortGetsWhatWasSent /\ received \in [Clients -> Nat]
      /\ written \in Seq(Clients \X Nat)
  BY DEF SIInv, Typed
<1>21. ASSUME written' = written, received' = received
       PROVE  PortGetsWhatWasSent'
  BY <1>0, <1>21 DEF PortGetsWhatWasSent
<1> USE DEF inward
<1>1. CASE ClientSends \/ ClientLeaves \/ DeviceSends
  BY <1>1, <1>21 DEF ClientSends, ClientLeaves, DeviceSends
<1>2. CASE Main
  BY <1>2, <1>21 DEF Main, Accept, OpenPort, StartReader, StartReceiver, Join, CloseConn,
                     ClosePort
<1>3. ASSUME NEW c \in Clients, Reader(c)
      PROVE  PortGetsWhatWasSent'
  BY <1>3, <1>21 DEF Reader, ReadBegins, ReadTimesOut, ReadReturns, ReadFails, Send,
                     SendFails, Except
<1>4. ASSUME NEW c \in Clients, Recv(c)
      PROVE  PortGetsWhatWasSent'
  <2>1. written' = written
    BY <1>4 DEF Recv
  <2>2. \A d \in Clients : received'[d] >= received[d]
    <3>1. PICK n \in 1 .. sent[conn] - received[conn] :
            received' = [received EXCEPT ![conn] = received[conn] + n]
      BY <1>4 DEF Recv
    <3>2. conn \in Clients
      BY <1>4 DEF SIInv, Typed, Recv, Clients
    <3>3. received[conn] + n >= received[conn]
      BY <1>0, <3>1, <3>2 DEF SIInv, Typed
    <3>4. received'[conn] = received[conn] + n
      BY <1>0, <3>1, <3>2
    <3>5. \A d \in Clients : d # conn => received'[d] = received[d]
      BY <1>0, <3>1
    <3>6. \A d \in Clients : received[d] >= received[d]
      BY <1>0
    <3> QED
      BY <3>3, <3>4, <3>5, <3>6
  <2>3. \A d \in Clients : received'[d] \in Nat
    BY <1>4, TypedStep DEF Next, Receiver, Typed
  <2> QED
    <3>1. SUFFICES ASSUME NEW i \in DOMAIN written
                   PROVE  /\ written[i][2] \in 1 .. received'[written[i][1]]
                          /\ written[i][2] > 1 => i > 1
                               /\ written[i - 1] = <<written[i][1], written[i][2] - 1>>
                          /\ written[i][2] = 1 =>
                               \A j \in 1 .. i - 1 : written[j][1] < written[i][1]
      BY <2>1 DEF PortGetsWhatWasSent
    <3>2. /\ written[i][2] \in 1 .. received[written[i][1]]
          /\ written[i][2] > 1 => i > 1
               /\ written[i - 1] = <<written[i][1], written[i][2] - 1>>
          /\ written[i][2] = 1 =>
               \A j \in 1 .. i - 1 : written[j][1] < written[i][1]
      BY <1>0 DEF PortGetsWhatWasSent
    <3>3. written[i][1] \in Clients
      BY <1>0
    <3> DEFINE x == written[i][2]
               y == received[written[i][1]]
               z == received'[written[i][1]]
    <3>4. x \in 1 .. y /\ y \in Nat /\ z \in Nat /\ z >= y
      BY <1>0, <2>2, <2>3, <3>2, <3>3
    <3> HIDE DEF x, y, z
    <3>5. x \in 1 .. z
      BY <3>4
    <3> QED
      BY <3>2, <3>5 DEF x, z
<1>5. ASSUME NEW c \in Clients, RecvEnds(c)
      PROVE  PortGetsWhatWasSent'
  BY <1>5, <1>21 DEF RecvEnds
<1>6. ASSUME NEW c \in Clients, Write(c) \/ WriteFails(c)
      PROVE  PortGetsWhatWasSent'
  BY <1>6, WritesNext
<1>7. CASE UNCHANGED vars
  BY <1>7, <1>21 DEF vars
<1> QED
  BY <1>1, <1>2, <1>3, <1>4, <1>5, <1>6, <1>7 DEF Next, Receiver
LEMMA InwardStep ==
  ASSUME SIInv, [Next]_vars
  PROVE  Inward'
<1>0. /\ Inward /\ conn \in 0 .. MaxClients /\ conn \in Nat /\ MaxClients \in Nat
      /\ \A c \in Clients : c \in Nat
      /\ conn # Nobody => conn \in Clients
      /\ conn < MaxClients => conn + 1 \in Clients
      /\ receiver \in [Clients -> {"unborn", "recv", "write", "done"}]
      /\ sent \in [Clients -> Nat] /\ received \in [Clients -> Nat]
      /\ written \in Seq(Clients \X Nat) /\ data \in [Clients -> Seq(Clients \X Nat)]
  <2>1. /\ Inward /\ conn \in 0 .. MaxClients /\ MaxClients \in Nat
        /\ receiver \in [Clients -> {"unborn", "recv", "write", "done"}]
        /\ sent \in [Clients -> Nat] /\ received \in [Clients -> Nat]
        /\ written \in Seq(Clients \X Nat) /\ data \in [Clients -> Seq(Clients \X Nat)]
    BY ClientsAssumption DEF SIInv, Typed
  <2> QED
    BY <2>1 DEF Clients, Nobody
<1> USE <1>0 DEF Inward, names, opened, reading, writing, inward
<1>23. ASSUME conn' = conn, received' = received, written' = written, data' = data,
              receiver' = receiver, sent' = sent \/ \A c \in Clients : received[c] <= sent'[c],
              main' \in {"open", "startReader", "startReceiver"} =>
                main \in {"open", "startReader", "startReceiver"}
       PROVE  Inward'
  <2>1. \A k : Upto(k)' = Upto(k)
    BY <1>23 DEF Upto
  <2>2. \A c \in Clients : received'[c] <= sent'[c] /\ (c > conn' => received'[c] = 0)
    BY <1>23
  <2> QED
    BY <1>23, <2>1, <2>2
<1>1. CASE ClientSends
  <2>1. conn \in Clients /\ sent' = [sent EXCEPT ![conn] = sent[conn] + 1]
    BY <1>1 DEF ClientSends
  <2>2. \A c \in Clients : received[c] <= sent'[c]
    <3>1. SUFFICES ASSUME NEW c \in Clients
                   PROVE  received[c] <= sent'[c]
      OBVIOUS
    <3>2. sent'[c] = sent[c] \/ sent'[c] = sent[c] + 1
      BY <1>0, <2>1
    <3>3. received[c] \in Nat /\ sent[c] \in Nat /\ received[c] <= sent[c]
      BY <1>0
    <3> QED
      BY <3>2, <3>3
  <2> QED
    BY <1>1, <1>23, <2>2 DEF ClientSends
<1>2. CASE ClientLeaves
  BY <1>2, <1>23 DEF ClientLeaves
<1>3. CASE DeviceSends
  BY <1>3, <1>23 DEF DeviceSends
<1>4. CASE Accept
  <2>1. /\ main = "accept" /\ main' = "open" /\ conn' = conn + 1 /\ conn' \in Clients
        /\ UNCHANGED <<sent, received, written, receiver, data>>
    BY <1>4 DEF Accept
  <2>2. \A c \in Clients : received'[c] <= sent'[c] /\ (c > conn' => received'[c] = 0)
    BY <1>0, <2>1
  <2>3. received'[conn'] = 0
    BY <1>0, <2>1
  <2>4. \A i \in DOMAIN written' : written'[i][1] < conn'
    <3>1. \A i \in DOMAIN written : written[i][1] \in Nat /\ written[i][1] <= conn
      BY <1>0
    <3> QED
      BY <1>0, <2>1, <3>1
  <2>5. \A i \in DOMAIN written' : written'[i][1] <= conn'
    <3>1. \A i \in DOMAIN written : written[i][1] \in Nat
      BY <1>0
    <3> QED
      BY <1>0, <2>1, <2>4, <3>1
  <2>6. \A c \in Clients : receiver'[c] \notin {"recv", "write"}
    BY <2>1 DEF SIInv, Session, Alive
  <2> QED
    BY <2>1, <2>2, <2>3, <2>4, <2>5, <2>6 DEF Upto
<1>5. CASE OpenPort
  BY <1>5, <1>23 DEF OpenPort
<1>6. CASE StartReader
  BY <1>6, <1>23 DEF StartReader
<1>7. CASE StartReceiver
  <2>1. /\ main = "startReceiver" /\ main' = "join" /\ conn' = conn /\ conn \in Clients
        /\ receiver' = [receiver EXCEPT ![conn] = "recv"]
        /\ UNCHANGED <<sent, received, written, data>>
    BY <1>7 DEF StartReceiver, SIInv, Session
  <2>2. Upto(0)' /\ received'[conn] = 0
    BY <2>1 DEF Upto
  <2>3. \A c \in Clients : receiver'[c] # "write"
    BY <1>0, <2>1 DEF SIInv, Session, Alive
  <2>4. \A c \in Clients : receiver'[c] = "recv" => c = conn
    BY <1>0, <2>1 DEF SIInv, Session, Alive
  <2>5. Upto(received[conn])'
    <3>1. received'[conn'] = 0
      BY <2>1, <2>2
    <3> QED
      BY <2>2, <3>1
  <2>6. \A c \in Clients : receiver'[c] = "recv" => Upto(received[c])'
    BY <2>1, <2>4, <2>5
  <2> QED
    BY <2>1, <2>3, <2>6
<1>8. CASE Join
  BY <1>8, <1>23 DEF Join
<1>9. CASE CloseConn
  BY <1>9, <1>23 DEF CloseConn
<1>10. CASE ClosePort
  BY <1>10, <1>23 DEF ClosePort
<1>11. ASSUME NEW c \in Clients, ReadBegins(c)
      PROVE  Inward'
  BY <1>11, <1>23 DEF ReadBegins
<1>12. ASSUME NEW c \in Clients, ReadTimesOut(c)
      PROVE  Inward'
  BY <1>12, <1>23 DEF ReadTimesOut
<1>13. ASSUME NEW c \in Clients, ReadReturns(c)
      PROVE  Inward'
  BY <1>13, <1>23 DEF ReadReturns
<1>14. ASSUME NEW c \in Clients, ReadFails(c)
      PROVE  Inward'
  BY <1>14, <1>23 DEF ReadFails
<1>15. ASSUME NEW c \in Clients, Send(c)
      PROVE  Inward'
  BY <1>15, <1>23 DEF Send
<1>16. ASSUME NEW c \in Clients, SendFails(c)
      PROVE  Inward'
  BY <1>16, <1>23 DEF SendFails
<1>17. ASSUME NEW c \in Clients, Except(c)
      PROVE  Inward'
  BY <1>17, <1>23 DEF Except
<1>18. ASSUME NEW c \in Clients, Recv(c)
      PROVE  Inward'
  <2>1. PICK n \in 1 .. sent[conn] - received[conn] :
          /\ data' = [data EXCEPT ![c] = [i \in 1 .. n |-> <<conn, received[conn] + i>>]]
          /\ received' = [received EXCEPT ![conn] = received[conn] + n]
    BY <1>18 DEF Recv
  <2>2. /\ receiver[c] = "recv" /\ c = conn /\ main = "join"
        /\ receiver' = [receiver EXCEPT ![c] = "write"]
        /\ UNCHANGED <<main, conn, sent, written>>
    BY <1>18 DEF Recv, ReceiverGoes, SIInv, Session, Alive
  <2>3. PICK k \in Nat : k = received[c]
    BY <1>0
  <2>4. Upto(k)'
    <3>1. Upto(k)
      BY <2>2, <2>3
    <3> QED
      BY <2>2, <3>1 DEF Upto
  <2>5. received'[c] = k + n /\ n \in Nat /\ sent[c] \in Nat /\ k + n <= sent[c]
    BY <1>0, <2>1, <2>2, <2>3
  <2>6. data'[c] = [i \in 1 .. n |-> <<c, k + i>>]
    BY <1>0, <2>1, <2>2, <2>3
  <2>7. /\ Len(data'[c]) = received'[c] - k
        /\ \A i \in 1 .. received'[c] - k : data'[c][i] = <<c, k + i>>
    <3>1. received'[c] - k = n
      BY <2>3, <2>5
    <3> QED
      BY <2>5, <2>6, <3>1, SMTT(30)
  <2>8. k \in 0 .. received'[c]
    BY <2>3, <2>5
  <2>9. \A d \in Clients : d # c => /\ receiver'[d] \notin {"recv", "write"}
                                    /\ received'[d] = received[d]
    BY <1>0, <2>1, <2>2 DEF SIInv, Session, Alive
  <2>10. receiver'[c] = "write"
    BY <1>0, <2>2
  <2>11. \A d \in Clients : received'[d] <= sent'[d] /\ (d > conn => received'[d] = 0)
    <3>1. \A d \in Clients : d # c => received'[d] <= sent'[d] /\ (d > conn => received'[d] = 0)
      BY <2>2, <2>9
    <3>2. received'[c] <= sent'[c]
      BY <2>2, <2>5
    <3>3. ~ (c > conn)
      BY <1>0, <2>2
    <3> QED
      BY <3>1, <3>2, <3>3, Zenon
  <2>12. \A d \in Clients : receiver'[d] # "recv"
    BY <2>9, <2>10
  <2>13. \A d \in Clients : receiver'[d] = "write" => d = c
    BY <2>9
  <2>14. \A i \in DOMAIN written' : written'[i][1] <= conn'
    BY <2>2
  <2>15. main' \notin {"open", "startReader", "startReceiver"}
    BY <2>2
  <2>16. \A d \in Clients : receiver'[d] = "write" =>
           \E p \in 0 .. received'[d] :
              /\ Upto(p)' /\ Len(data'[d]) = received'[d] - p
              /\ \A i \in 1 .. received'[d] - p : data'[d][i] = <<d, p + i>>
    BY <2>4, <2>7, <2>8, <2>13
  <2> QED
    BY <2>2, <2>11, <2>12, <2>14, <2>15, <2>16
<1>19. ASSUME NEW c \in Clients, RecvEnds(c)
      PROVE  Inward'
  <2>1. /\ receiver' = [receiver EXCEPT ![c] = "done"]
        /\ UNCHANGED <<main, conn, sent, received, written, data>>
    BY <1>19 DEF RecvEnds, ReceiverGoes
  <2>2. \A d \in Clients : receiver'[d] \in {"recv", "write"} => receiver'[d] = receiver[d]
    BY <1>0, <2>1
  <2>3. \A k : Upto(k)' = Upto(k)
    BY <2>1 DEF Upto
  <2>4. ASSUME NEW d \in Clients, receiver'[d] = "recv"
        PROVE  Upto(received[d])'
    <3>1. Upto(received[d]) /\ received'[d] = received[d]
      BY <2>1, <2>2, <2>4
    <3> QED
      BY <2>1, <3>1 DEF Upto
  <2>5. ASSUME NEW d \in Clients, receiver'[d] = "write"
        PROVE  \E k \in 0 .. received'[d] :
                 /\ Upto(k)' /\ Len(data'[d]) = received'[d] - k
                 /\ \A i \in 1 .. received'[d] - k : data'[d][i] = <<d, k + i>>
    <3>1. receiver[d] = "write"
      BY <2>2, <2>5
    <3> QED
      BY <2>1, <2>3, <3>1
  <2>6. \A d \in Clients : received'[d] <= sent'[d] /\ (d > conn' => received'[d] = 0)
    BY <1>0, <2>1
  <2>7. \A i \in DOMAIN written' : written'[i][1] <= conn'
    BY <1>0, <2>1
  <2>8. main' \in {"open", "startReader", "startReceiver"} =>
          received'[conn'] = 0 /\ Upto(0)'
    BY <1>0, <2>1, <2>3
  <2> QED
    BY <2>4, <2>5, <2>6, <2>7, <2>8
<1>20. ASSUME NEW c \in Clients, Write(c)
      PROVE  Inward'
  <2>1. /\ c = conn /\ conn' = conn /\ received' = received
        /\ \A i \in DOMAIN written' : written'[i][1] <= conn
        /\ Upto(received[c])'
    BY <1>20, WritesNext
  <2>2. /\ receiver' = [receiver EXCEPT ![c] = "recv"] /\ main = "join"
        /\ UNCHANGED <<main, conn, sent, received>>
    BY <1>20 DEF Write, ReceiverGoes, SIInv, Session, Alive
  <2>3. \A d \in Clients : d # c => receiver'[d] \notin {"recv", "write"}
    BY <1>0, <2>1, <2>2 DEF SIInv, Session, Alive
  <2>4. receiver'[c] = "recv"
    BY <1>0, <2>2
  <2>5. \A d \in Clients : receiver'[d] # "write"
    BY <2>3, <2>4
  <2>6. \A i \in DOMAIN written' : written'[i][1] <= conn'
    BY <2>1
  <2>7. \A d \in Clients : receiver'[d] = "recv" => Upto(received[d])'
    BY <2>1, <2>3
  <2> QED
    BY <2>2, <2>5, <2>6, <2>7
<1>21. ASSUME NEW c \in Clients, WriteFails(c)
      PROVE  Inward'
  <2>1. /\ c = conn /\ conn' = conn /\ received' = received
        /\ \A i \in DOMAIN written' : written'[i][1] <= conn
    BY <1>21, WritesNext
  <2>2. /\ receiver' = [receiver EXCEPT ![c] = "done"] /\ main = "join"
        /\ UNCHANGED <<main, conn, sent, received>>
    BY <1>21 DEF WriteFails, ReceiverGoes, SIInv, Session, Alive
  <2>3. \A d \in Clients : d # c => receiver'[d] \notin {"recv", "write"}
    BY <1>0, <2>1, <2>2 DEF SIInv, Session, Alive
  <2>4. receiver'[c] = "done"
    BY <1>0, <2>2
  <2>5. \A d \in Clients : receiver'[d] # "write"
    BY <2>3, <2>4
  <2>6. \A i \in DOMAIN written' : written'[i][1] <= conn'
    BY <2>1
  <2>7. \A d \in Clients : receiver'[d] # "recv"
    BY <2>3, <2>4
  <2> QED
    BY <2>2, <2>5, <2>6, <2>7
<1>22. CASE UNCHANGED vars
  BY <1>22, <1>23 DEF vars
<1> QED
  BY <1>1, <1>2, <1>3, <1>4, <1>5, <1>6, <1>7, <1>8, <1>9, <1>10, <1>11, <1>12,
     <1>13, <1>14, <1>15, <1>16, <1>17, <1>18, <1>19, <1>20, <1>21, <1>22
  DEF Next, Main, Reader, Receiver
-----------------------------------------------------------------------------
(* From the port to the clients. *)

\* A reader that sends the first n bytes of what it read to the present client.
LEMMA Delivered ==
  ASSUME SIInv, NEW c \in Clients, conn \in Clients, reader[c] = "send",
         NEW n \in 1 .. Len(serial_data[c]),
         got' = [got EXCEPT ![conn] = got[conn] \o SubSeq(serial_data[c], 1, n)],
         serial_data' = [serial_data EXCEPT ![c] = <<>>],
         reader' = [reader EXCEPT ![c] = "read"],
         UNCHANGED <<read, survivors, conn>>
  PROVE  Outward' /\ DeliveredOnce'
<1>0. /\ Outward /\ DeliveredOnce /\ read \in Nat /\ arrived \in Nat
      /\ conn \in 0 .. MaxClients /\ MaxClients \in Nat
      /\ reader \in [Clients -> {"unborn", "read", "reading", "send", "except", "done"}]
      /\ serial_data \in [Clients -> Seq(Nat)] /\ got \in [Clients -> Seq(Nat)]
      /\ \A d \in Clients : /\ serial_data[d] \in Seq(Nat) /\ got[d] \in Seq(Nat)
                            /\ \A i \in DOMAIN serial_data[d] : serial_data[d][i] \in Nat
                            /\ \A i \in DOMAIN got[d] : got[d][i] \in Nat
  <2>1. /\ Outward /\ DeliveredOnce /\ read \in 0 .. arrived /\ arrived \in 0 .. MaxArrived
        /\ conn \in 0 .. MaxClients /\ MaxClients \in Nat
        /\ reader \in [Clients -> {"unborn", "read", "reading", "send", "except", "done"}]
        /\ serial_data \in [Clients -> Seq(Nat)] /\ got \in [Clients -> Seq(Nat)]
    BY ClientsAssumption DEF SIInv, Typed
  <2>2. arrived \in Nat
    BY <2>1, ArrivedAssumption
  <2>3. read \in Nat
    BY <2>1, <2>2
  <2>4. \A d \in Clients : serial_data[d] \in Seq(Nat) /\ got[d] \in Seq(Nat)
    BY <2>1
  <2>5. \A d \in Clients : /\ \A i \in DOMAIN serial_data[d] : serial_data[d][i] \in Nat
                           /\ \A i \in DOMAIN got[d] : got[d][i] \in Nat
    <3>1. ASSUME NEW z \in Seq(Nat), NEW i \in DOMAIN z
          PROVE  z[i] \in Nat
      OBVIOUS
    <3> QED
      BY <2>4, <3>1
  <2> QED
    BY <2>1, <2>2, <2>3, <2>4, <2>5, Zenon
<1> DEFINE s == serial_data[c]
           old == got[conn]
           l == Len(got[conn])
           new == got'[conn]
<1>1. /\ s \in Seq(Nat) /\ n \in 1 .. Len(s) /\ DOMAIN s = 1 .. Len(s)
      /\ n \in Nat /\ n \in 0 .. Len(s)
      /\ old \in Seq(Nat) /\ l \in Nat /\ DOMAIN old = 1 .. l
  <2>1. s \in Seq(Nat) /\ n \in 1 .. Len(s) /\ old \in Seq(Nat)
    BY <1>0
  <2> HIDE DEF s, old
  <2> QED
    BY <2>1 DEF old
<1>2. /\ DOMAIN new = 1 .. l + n
      /\ \A i \in 1 .. l : new[i] = old[i]
      /\ \A i \in 1 .. n : i \in DOMAIN s /\ new[l + i] = s[i]
  <2>1. PICK v \in Seq(Nat) : v = SubSeq(s, 1, n)
    <3>1. SubSeq(s, 1, n) \in Seq(Nat)
      <4> HIDE DEF s
      <4> QED
        BY <1>1, PrefixIn
    <3> QED
      BY <3>1
  <2>2. Len(v) = n /\ \A i \in 1 .. n : v[i] = s[i] /\ i \in DOMAIN s
    BY <1>1, <2>1, PrefixIn
  <2>3. new = old \o v
    BY <1>0, <2>1
  <2> HIDE DEF s, old, l, new
  <2>4. n \in Nat /\ new \in Seq(Nat) /\ Len(new) = l + n
    <3>1. new \in Seq(Nat) /\ Len(new) = Len(old) + Len(v)
      BY <1>1, <2>3
    <3> QED
      BY <1>1, <2>2, <3>1 DEF l, old
  <2>5. \A i \in 1 .. l : new[i] = old[i]
    BY <1>1, <2>2, <2>3 DEF l
  <2>6. \A i \in 1 .. n : new[l + i] = v[i]
    <3>1. \A i \in 1 .. Len(v) : (old \o v)[Len(old) + i] = v[i]
      BY <1>1
    <3> QED
      BY <2>2, <2>3, <3>1 DEF l, old
  <2>7. DOMAIN new = 1 .. l + n
    BY <2>4
  <2>8. \A i \in 1 .. n : i \in DOMAIN s /\ new[l + i] = s[i]
    BY <2>2, <2>6
  <2> QED
    BY <2>5, <2>7, <2>8
<1>3. \A d \in Clients : d # conn => got'[d] = got[d]
  BY <1>0
<1>4. \A d \in Clients : d # c => reader'[d] = reader[d] /\ serial_data'[d] = serial_data[d]
  BY <1>0
<1>5. reader'[c] = "read" /\ serial_data'[c] = <<>>
  BY <1>0
<1>6. conn \notin survivors => c = conn
  BY DEF SIInv, Alone, Alive
\* Each byte delivered so far, old or new, and where it was.
<1>7. ASSUME NEW a \in Clients, NEW i \in DOMAIN got'[a]
      PROVE  \/ i \in DOMAIN got[a] /\ got'[a][i] = got[a][i]
             \/ \E p \in DOMAIN s : /\ a = conn /\ i = l + p /\ i \notin DOMAIN got[a]
                                    /\ got'[a][i] = s[p]
  <2>1. CASE a # conn
    BY <1>3, <2>1
  <2>2. CASE a = conn /\ i \in 1 .. l
    BY <1>1, <1>2, <2>2
  <2>3. CASE a = conn /\ i \notin 1 .. l
    <3> HIDE DEF s, old, l, new
    <3>1. i \in 1 .. l + n
      BY <1>2, <2>3 DEF new
    <3>2. PICK p \in 1 .. n : i = l + p
      BY <1>1, <2>3, <3>1
    <3>3. p \in DOMAIN s /\ new[i] = s[p]
      BY <1>2, <3>2
    <3>4. i \notin DOMAIN got[a]
      BY <1>1, <2>3 DEF old
    <3> QED
      BY <2>3, <3>2, <3>3, <3>4 DEF new
  <2> QED
    BY <2>1, <2>2, <2>3
<1> HIDE DEF s, old, l, new
<1>8. \A d \in Clients : reader'[d] # "send" => serial_data'[d] = <<>>
  BY <1>0, <1>4, <1>5 DEF Outward
<1>9. /\ \A d \in Clients : \A i \in DOMAIN serial_data'[d] : serial_data'[d][i] <= read'
      /\ \A a, b \in Clients : \A i \in DOMAIN serial_data'[a], j \in DOMAIN serial_data'[b] :
           /\ serial_data'[a][i] = serial_data'[b][j] => a = b /\ i = j
           /\ a = b /\ i < j => serial_data'[a][i] < serial_data'[b][j]
  <2>1. \A d \in Clients : \A i \in DOMAIN serial_data'[d] :
          /\ d # c /\ i \in DOMAIN serial_data[d]
          /\ serial_data'[d] = serial_data[d]
    <3>1. DOMAIN serial_data'[c] = {}
      BY <1>5
    <3> QED
      BY <1>4, <3>1
  <2>2. /\ \A d \in Clients : \A i \in DOMAIN serial_data[d] : serial_data[d][i] <= read
        /\ \A a, b \in Clients : \A i \in DOMAIN serial_data[a], j \in DOMAIN serial_data[b] :
             /\ serial_data[a][i] = serial_data[b][j] => a = b /\ i = j
             /\ a = b /\ i < j => serial_data[a][i] < serial_data[a][j]
    <3>1. Outward
      BY <1>0
    <3> QED
      BY <3>1, Zenon DEF Outward
  <2>3. \A d \in Clients : \A i \in DOMAIN serial_data'[d] : serial_data'[d][i] <= read'
    BY <2>1, <2>2
  <2>4. ASSUME NEW a \in Clients, NEW b \in Clients,
               NEW i \in DOMAIN serial_data'[a], NEW j \in DOMAIN serial_data'[b]
        PROVE  /\ serial_data'[a][i] = serial_data'[b][j] => a = b /\ i = j
               /\ a = b /\ i < j => serial_data'[a][i] < serial_data'[b][j]
    <3>1. /\ serial_data'[a] = serial_data[a] /\ i \in DOMAIN serial_data[a]
          /\ serial_data'[b] = serial_data[b] /\ j \in DOMAIN serial_data[b]
      BY <2>1
    <3> QED
      BY <2>2, <3>1
  <2> QED
    BY <2>3, <2>4
<1>10. \A d \in Clients : \A i \in DOMAIN got'[d] : got'[d][i] <= read'
  <2>1. SUFFICES ASSUME NEW d \in Clients, NEW i \in DOMAIN got'[d]
                 PROVE  got'[d][i] <= read
    OBVIOUS
  <2>2. CASE i \in DOMAIN got[d] /\ got'[d][i] = got[d][i]
    BY <1>0, <2>2 DEF Outward
  <2>3. CASE \E p \in DOMAIN s : got'[d][i] = s[p]
    BY <1>0, <2>3 DEF Outward, s
  <2> QED
    BY <1>7, <2>2, <2>3
<1>11. ASSUME NEW a \in Clients, NEW d \in Clients,
              NEW i \in DOMAIN got'[a], NEW j \in DOMAIN serial_data'[d]
       PROVE  /\ got'[a][i] # serial_data'[d][j]
              /\ a = d /\ a = conn' /\ a \notin survivors' =>
                   got'[a][i] < serial_data'[d][j]
  <2>1. d # c
    <3>1. DOMAIN serial_data'[c] = {}
      BY <1>5
    <3> QED
      BY <3>1
  <2>2. serial_data'[d] = serial_data[d] /\ j \in DOMAIN serial_data[d]
    BY <1>4, <2>1
  <2>3. CASE i \in DOMAIN got[a] /\ got'[a][i] = got[a][i]
    <3>1. /\ got[a][i] # serial_data[d][j]
          /\ a = d /\ a = conn /\ a \notin survivors => got[a][i] < serial_data[d][j]
      BY <1>0, <2>2, <2>3, Zenon DEF Outward
    <3> QED
      BY <2>2, <2>3, <3>1
  <2>4. CASE \E p \in DOMAIN s : /\ a = conn /\ i = l + p /\ i \notin DOMAIN got[a]
                                 /\ got'[a][i] = s[p]
    <3>1. PICK p \in DOMAIN s : a = conn /\ got'[a][i] = s[p]
      BY <2>4
    <3>2. s[p] # serial_data[d][j]
      BY <1>0, <2>1, <2>2 DEF Outward, s
    <3>3. ~ (a = d /\ a = conn' /\ a \notin survivors')
      BY <1>6, <2>1
    <3> QED
      BY <2>2, <3>1, <3>2, <3>3
  <2> QED
    BY <1>7, <2>3, <2>4
<1>12. Outward'
  BY <1>8, <1>9, <1>10, <1>11 DEF Outward
<1>13. ASSUME NEW a \in Clients, NEW b \in Clients,
              NEW i \in DOMAIN got'[a], NEW j \in DOMAIN got'[b]
       PROVE  /\ got'[a][i] = got'[b][j] => a = b /\ i = j
              /\ a = b /\ a \notin survivors' /\ i < j => got'[a][i] < got'[a][j]
  <2>0. SUFFICES /\ got'[a][i] = got'[b][j] => a = b /\ i = j
                 /\ a = b /\ a \notin survivors' /\ i < j => got'[a][i] < got'[b][j]
    <3>1. a = b => got'[a][j] = got'[b][j]
      BY Zenon
    <3> QED
      BY <2>0, <3>1
  <2>1. CASE /\ i \in DOMAIN got[a] /\ got'[a][i] = got[a][i]
             /\ j \in DOMAIN got[b] /\ got'[b][j] = got[b][j]
    <3>1. /\ got[a][i] = got[b][j] => a = b /\ i = j
          /\ a = b /\ a \notin survivors /\ i < j => got[a][i] < got[b][j]
      <4>1. DeliveredOnce
        BY <1>0
      <4>2. i \in DOMAIN got[a] /\ j \in DOMAIN got[b]
        BY <2>1
      <4>3. \A g \in DOMAIN got[a], h \in DOMAIN got[b] :
              /\ got[a][g] = got[b][h] => a = b /\ g = h
              /\ a = b /\ a \notin survivors /\ g < h => got[a][g] < got[a][h]
        BY <4>1, Zenon DEF DeliveredOnce
      <4>4. /\ got[a][i] = got[b][j] => a = b /\ i = j
            /\ a = b /\ a \notin survivors /\ i < j => got[a][i] < got[a][j]
        BY <4>2, <4>3, Zenon
      <4>5. a = b => got[a][j] = got[b][j]
        BY Zenon
      <4> QED
        BY <4>4, <4>5, Zenon
    <3> QED
      BY <2>1, <3>1
  <2>2. CASE /\ i \in DOMAIN got[a] /\ got'[a][i] = got[a][i]
             /\ \E q \in DOMAIN s : /\ b = conn /\ j = l + q /\ got'[b][j] = s[q]
    <3>1. PICK q \in DOMAIN s : b = conn /\ got'[b][j] = s[q]
      BY <2>2
    <3>2. got[a][i] # s[q] /\ (a = c /\ c = conn /\ c \notin survivors => got[a][i] < s[q])
      <4>1. q \in DOMAIN serial_data[c] /\ s[q] = serial_data[c][q]
        BY <3>1 DEF s
      <4>2. Outward /\ i \in DOMAIN got[a]
        BY <1>0, <2>2
      <4>3. /\ got[a][i] # serial_data[c][q]
            /\ a = c /\ a = conn /\ a \notin survivors => got[a][i] < serial_data[c][q]
        BY <4>1, <4>2, Zenon DEF Outward
      <4> QED
        BY <4>1, <4>3
    <3> QED
      BY <1>6, <2>2, <3>1, <3>2
  <2>3. CASE /\ \E p \in DOMAIN s : /\ a = conn /\ i = l + p /\ got'[a][i] = s[p]
             /\ j \in DOMAIN got[b] /\ got'[b][j] = got[b][j]
    <3>1. PICK p \in DOMAIN s : a = conn /\ i = l + p /\ got'[a][i] = s[p]
      BY <2>3
    <3>2. got[b][j] # s[p]
      BY <1>0, <2>3 DEF Outward, s
    <3>3. ~ (a = b /\ i < j)
      BY <1>1, <2>3, <3>1 DEF old
    <3> QED
      BY <2>3, <3>1, <3>2, <3>3
  <2>4. CASE /\ \E p \in DOMAIN s : /\ a = conn /\ i = l + p /\ got'[a][i] = s[p]
             /\ \E q \in DOMAIN s : /\ b = conn /\ j = l + q /\ got'[b][j] = s[q]
    <3>1. PICK p \in DOMAIN s : a = conn /\ i = l + p /\ got'[a][i] = s[p]
      BY <2>4
    <3>2. PICK q \in DOMAIN s : b = conn /\ j = l + q /\ got'[b][j] = s[q]
      BY <2>4
    <3>3. /\ s[p] = s[q] => p = q
          /\ p < q => s[p] < s[q]
      <4>1. \A x, y \in Clients :
              \A g \in DOMAIN serial_data[x], h \in DOMAIN serial_data[y] :
                /\ serial_data[x][g] = serial_data[y][h] => x = y /\ g = h
                /\ x = y /\ g < h => serial_data[x][g] < serial_data[x][h]
        BY <1>0, Zenon DEF Outward
      <4>2. \A g, h \in DOMAIN serial_data[c] :
              /\ serial_data[c][g] = serial_data[c][h] => g = h
              /\ g < h => serial_data[c][g] < serial_data[c][h]
        BY <4>1, Zenon
      <4>3. p \in DOMAIN serial_data[c] /\ q \in DOMAIN serial_data[c]
        BY <3>1, <3>2 DEF s
      <4> QED
        BY <4>2, <4>3, Zenon DEF s
    <3>4. i < j => p < q
      BY <1>1, <3>1, <3>2
    <3> QED
      BY <3>1, <3>2, <3>3, <3>4
  <2> QED
    BY <1>7, <2>1, <2>2, <2>3, <2>4, ZenonT(30)
<1>14. DeliveredOnce'
  BY <1>13, Zenon DEF DeliveredOnce
<1> QED
  BY <1>12, <1>14

LEMMA OutwardStep ==
  ASSUME SIInv, [Next]_vars
  PROVE  Outward' /\ DeliveredOnce'
<1>0. /\ Outward /\ DeliveredOnce /\ read \in Nat /\ arrived \in Nat
      /\ conn \in 0 .. MaxClients /\ MaxClients \in Nat
      /\ reader \in [Clients -> {"unborn", "read", "reading", "send", "except", "done"}]
      /\ serial_data \in [Clients -> Seq(Nat)] /\ got \in [Clients -> Seq(Nat)]
      /\ \A d \in Clients : /\ serial_data[d] \in Seq(Nat) /\ got[d] \in Seq(Nat)
                            /\ \A i \in DOMAIN serial_data[d] : serial_data[d][i] \in Nat
                            /\ \A i \in DOMAIN got[d] : got[d][i] \in Nat
  <2>1. /\ Outward /\ DeliveredOnce /\ read \in 0 .. arrived /\ arrived \in 0 .. MaxArrived
        /\ conn \in 0 .. MaxClients /\ MaxClients \in Nat
        /\ reader \in [Clients -> {"unborn", "read", "reading", "send", "except", "done"}]
        /\ serial_data \in [Clients -> Seq(Nat)] /\ got \in [Clients -> Seq(Nat)]
    BY ClientsAssumption DEF SIInv, Typed
  <2>2. arrived \in Nat
    BY <2>1, ArrivedAssumption
  <2>3. read \in Nat
    BY <2>1, <2>2
  <2>4. \A d \in Clients : serial_data[d] \in Seq(Nat) /\ got[d] \in Seq(Nat)
    BY <2>1
  <2>5. \A d \in Clients : /\ \A i \in DOMAIN serial_data[d] : serial_data[d][i] \in Nat
                           /\ \A i \in DOMAIN got[d] : got[d][i] \in Nat
    <3>1. ASSUME NEW z \in Seq(Nat), NEW i \in DOMAIN z
          PROVE  z[i] \in Nat
      OBVIOUS
    <3> QED
      BY <2>4, <3>1
  <2> QED
    BY <2>1, <2>2, <2>3, <2>4, <2>5, Zenon
<1>23. ASSUME serial_data' = serial_data, got' = got, read' = read,
              survivors \subseteq survivors',
              conn' = conn \/ serial_data[conn'] = <<>>,
              reader' = reader \/ \A d \in Clients : reader'[d] # "send" => reader[d] # "send"
       PROVE  Outward' /\ DeliveredOnce'
  <2>1. DeliveredOnce'
    BY <1>0, <1>23 DEF DeliveredOnce
  <2>2. \A d \in Clients : reader'[d] # "send" => serial_data'[d] = <<>>
    BY <1>0, <1>23 DEF Outward
  <2>3. ASSUME NEW a \in Clients, NEW b \in Clients,
               NEW i \in DOMAIN got'[a], NEW j \in DOMAIN serial_data'[b]
        PROVE  /\ got'[a][i] # serial_data'[b][j]
               /\ a = b /\ a = conn' /\ a \notin survivors' =>
                    got'[a][i] < serial_data'[b][j]
    <3>1. /\ got[a][i] # serial_data[b][j]
          /\ a = b /\ a = conn /\ a \notin survivors => got[a][i] < serial_data[b][j]
      BY <1>0, <1>23 DEF Outward
    <3>2. CASE conn' = conn
      BY <1>23, <3>1, <3>2
    <3>3. CASE serial_data[conn'] = <<>>
      <4>1. DOMAIN serial_data[conn'] = {}
        BY <3>3
      <4>2. b # conn'
        BY <1>23, <4>1
      <4> QED
        BY <1>23, <3>1, <4>2
    <3> QED
      BY <1>23, <3>2, <3>3
  <2>4. /\ \A d \in Clients : \A i \in DOMAIN serial_data'[d] : serial_data'[d][i] <= read'
        /\ \A d \in Clients : \A i \in DOMAIN got'[d] : got'[d][i] <= read'
        /\ \A a, b \in Clients : \A i \in DOMAIN serial_data'[a], j \in DOMAIN serial_data'[b] :
             /\ serial_data'[a][i] = serial_data'[b][j] => a = b /\ i = j
             /\ a = b /\ i < j => serial_data'[a][i] < serial_data'[b][j]
    BY <1>0, <1>23 DEF Outward
  <2> QED
    BY <2>1, <2>2, <2>3, <2>4 DEF Outward
<1>24. ASSUME NEW c \in Clients, got' = got, UNCHANGED <<read, survivors, conn>>,
              serial_data' = [serial_data EXCEPT ![c] = <<>>],
              \E there : reader' = [reader EXCEPT ![c] = there]
       PROVE  Outward' /\ DeliveredOnce'
  <2>1. DeliveredOnce'
    BY <1>0, <1>24 DEF DeliveredOnce
  <2>2. \A d \in Clients : /\ d # c => reader'[d] = reader[d]
                                       /\ serial_data'[d] = serial_data[d]
                           /\ d = c => serial_data'[d] = <<>> /\ DOMAIN serial_data'[d] = {}
    BY <1>0, <1>24
  <2>3. \A d \in Clients : \A i \in DOMAIN serial_data'[d] :
          i \in DOMAIN serial_data[d] /\ serial_data'[d][i] = serial_data[d][i]
    BY <2>2
  <2>4. \A d \in Clients : reader'[d] # "send" => serial_data'[d] = <<>>
    BY <1>0, <2>2 DEF Outward
  <2>5. /\ \A d \in Clients : \A i \in DOMAIN serial_data'[d] : serial_data'[d][i] <= read'
        /\ \A d \in Clients : \A i \in DOMAIN got'[d] : got'[d][i] <= read'
        /\ \A a, b \in Clients : \A i \in DOMAIN serial_data'[a], j \in DOMAIN serial_data'[b] :
             /\ serial_data'[a][i] = serial_data'[b][j] => a = b /\ i = j
             /\ a = b /\ i < j => serial_data'[a][i] < serial_data'[b][j]
    BY <1>0, <1>24, <2>3 DEF Outward
  <2>6. \A a, b \in Clients : \A i \in DOMAIN got'[a], j \in DOMAIN serial_data'[b] :
           /\ got'[a][i] # serial_data'[b][j]
           /\ a = b /\ a = conn' /\ a \notin survivors' => got'[a][i] < serial_data'[b][j]
    BY <1>0, <1>24, <2>3 DEF Outward
  <2> QED
    BY <2>1, <2>4, <2>5, <2>6 DEF Outward
<1> USE DEF names, reading, outward
<1>1. CASE ClientSends
  BY <1>1, <1>23 DEF ClientSends
<1>2. CASE ClientLeaves
  BY <1>2, <1>23 DEF ClientLeaves
<1>3. CASE DeviceSends
  BY <1>3, <1>23 DEF DeviceSends
<1>4. CASE Accept
  <2>1. /\ UNCHANGED <<reader, serial_data, got, read>> /\ survivors \subseteq survivors'
        /\ conn' = conn + 1 /\ conn + 1 \in Clients /\ conn + 1 > conn
    BY <1>0, <1>4 DEF Accept, Clients
  <2>2. serial_data[conn'] = <<>>
    BY <1>0, <2>1 DEF SIInv, Session, Outward
  <2> QED
    BY <1>23, <2>1, <2>2
<1>5. CASE OpenPort
  BY <1>5, <1>23 DEF OpenPort
<1>6. CASE StartReader
  <2>1. /\ UNCHANGED <<serial_data, got, read, survivors, conn>>
        /\ reader' = [reader EXCEPT ![conn] = "read"] /\ reader[conn] = "unborn"
    BY <1>6 DEF StartReader, SIInv, Session
  <2>2. \A d \in Clients : reader'[d] # "send" => reader[d] # "send"
    BY <1>0, <2>1
  <2> QED
    BY <1>23, <2>1, <2>2
<1>7. CASE StartReceiver
  BY <1>7, <1>23 DEF StartReceiver
<1>8. CASE Join
  BY <1>8, <1>23 DEF Join
<1>9. CASE CloseConn
  BY <1>9, <1>23 DEF CloseConn
<1>10. CASE ClosePort
  BY <1>10, <1>23 DEF ClosePort
<1>11. ASSUME NEW c \in Clients, ReadBegins(c)
      PROVE  Outward' /\ DeliveredOnce'
  <2>1. /\ UNCHANGED <<serial_data, got, read, survivors, conn>> /\ reader[c] # "send"
        /\ \E there : reader' = [reader EXCEPT ![c] = there]
    BY <1>11 DEF ReadBegins, ReaderGoes
  <2>2. \A d \in Clients : reader'[d] # "send" => reader[d] # "send"
    BY <1>0, <2>1
  <2> QED
    BY <1>23, <2>1, <2>2
<1>12. ASSUME NEW c \in Clients, ReadTimesOut(c)
      PROVE  Outward' /\ DeliveredOnce'
  <2>1. /\ UNCHANGED <<serial_data, got, read, survivors, conn>> /\ reader[c] # "send"
        /\ \E there : reader' = [reader EXCEPT ![c] = there]
    BY <1>12 DEF ReadTimesOut, ReaderGoes
  <2>2. \A d \in Clients : reader'[d] # "send" => reader[d] # "send"
    BY <1>0, <2>1
  <2> QED
    BY <1>23, <2>1, <2>2
<1>13. ASSUME NEW c \in Clients, ReadReturns(c)
      PROVE  Outward' /\ DeliveredOnce'
  <2>1. PICK n \in 1 .. arrived - read :
          /\ serial_data' = [serial_data EXCEPT ![c] = [i \in 1 .. n |-> read + i]]
          /\ read' = read + n
    BY <1>13 DEF ReadReturns
  <2>2. /\ reader' = [reader EXCEPT ![c] = "send"]
        /\ UNCHANGED <<got, survivors, conn>>
    BY <1>13 DEF ReadReturns, ReaderGoes
  <2>3. \A d \in Clients : d # c => /\ reader'[d] = reader[d]
                                    /\ serial_data'[d] = serial_data[d]
    BY <1>0, <2>1, <2>2
  <2>4. /\ reader'[c] = "send" /\ DOMAIN serial_data'[c] = 1 .. n
        /\ \A i \in 1 .. n : serial_data'[c][i] = read + i
    BY <1>0, <2>1, <2>2
  <2>5. n \in Nat /\ read' = read + n /\ read' >= read
    BY <1>0, <2>1
  <2>6. \A i \in DOMAIN serial_data'[c] : /\ i \in Nat /\ serial_data'[c][i] = read + i
                                          /\ serial_data'[c][i] > read
                                          /\ serial_data'[c][i] <= read'
    BY <1>0, <2>4, <2>5
  <2>7. \A d \in Clients : d # c =>
          \A i \in DOMAIN serial_data'[d] : /\ serial_data'[d][i] \in Nat
                                            /\ serial_data'[d][i] <= read
    BY <1>0, <2>3 DEF Outward
  <2>8. \A d \in Clients : \A i \in DOMAIN got'[d] : got'[d][i] \in Nat /\ got'[d][i] <= read
    BY <1>0, <2>2 DEF Outward
  <2>9. \A d \in Clients : reader'[d] # "send" => serial_data'[d] = <<>>
    BY <1>0, <2>3, <2>4 DEF Outward
  <2>10. \A d \in Clients : \A i \in DOMAIN serial_data'[d] : serial_data'[d][i] <= read'
    <3>1. SUFFICES ASSUME NEW d \in Clients, NEW i \in DOMAIN serial_data'[d]
                   PROVE  serial_data'[d][i] <= read'
      OBVIOUS
    <3>2. CASE d = c
      BY <2>6, <3>2
    <3>3. CASE d # c
      <4>1. serial_data'[d][i] \in Nat /\ serial_data'[d][i] <= read
        BY <2>7, <3>3
      <4> QED
        BY <1>0, <2>5, <4>1
    <3> QED
      BY <3>2, <3>3
  <2>11. \A d \in Clients : \A i \in DOMAIN got'[d] : got'[d][i] <= read'
    <3>1. SUFFICES ASSUME NEW d \in Clients, NEW i \in DOMAIN got'[d]
                   PROVE  got'[d][i] <= read'
      OBVIOUS
    <3>2. got'[d][i] \in Nat /\ got'[d][i] <= read
      BY <2>8
    <3> QED
      BY <1>0, <2>5, <3>2
  <2>12. ASSUME NEW a \in Clients, NEW b \in Clients,
                NEW i \in DOMAIN serial_data'[a], NEW j \in DOMAIN serial_data'[b]
         PROVE  /\ serial_data'[a][i] = serial_data'[b][j] => a = b /\ i = j
                /\ a = b /\ i < j => serial_data'[a][i] < serial_data'[b][j]
    <3>1. CASE a = c /\ b = c
      <4>1. /\ i \in Nat /\ serial_data'[a][i] = read + i
            /\ j \in Nat /\ serial_data'[b][j] = read + j
        BY <2>6, <3>1
      <4> QED
        BY <1>0, <3>1, <4>1
    <3>2. CASE a = c /\ b # c
      <4>1. /\ serial_data'[a][i] = read + i /\ i \in Nat /\ read + i > read
            /\ serial_data'[b][j] \in Nat /\ serial_data'[b][j] <= read
        BY <2>6, <2>7, <3>2
      <4> QED
        BY <1>0, <3>2, <4>1
    <3>3. CASE a # c /\ b = c
      <4>1. /\ serial_data'[b][j] = read + j /\ j \in Nat /\ read + j > read
            /\ serial_data'[a][i] \in Nat /\ serial_data'[a][i] <= read
        BY <2>6, <2>7, <3>3
      <4> QED
        BY <1>0, <3>3, <4>1
    <3>4. CASE a # c /\ b # c
      BY <1>0, <2>3, <3>4, SMTT(30) DEF Outward
    <3> QED
      BY <3>1, <3>2, <3>3, <3>4
  <2>13. ASSUME NEW a \in Clients, NEW b \in Clients,
                NEW i \in DOMAIN got'[a], NEW j \in DOMAIN serial_data'[b]
         PROVE  /\ got'[a][i] # serial_data'[b][j]
                /\ a = b /\ a = conn' /\ a \notin survivors' =>
                     got'[a][i] < serial_data'[b][j]
    <3>1. CASE b = c
      <4>1. /\ serial_data'[b][j] = read + j /\ j \in Nat /\ read + j > read
            /\ got'[a][i] \in Nat /\ got'[a][i] <= read
        BY <2>6, <2>8, <3>1
      <4> QED
        BY <1>0, <4>1
    <3>2. CASE b # c
      BY <1>0, <2>2, <2>3, <3>2 DEF Outward
    <3> QED
      BY <3>1, <3>2
  <2>14. DeliveredOnce'
    BY <1>0, <2>2 DEF DeliveredOnce
  <2> QED
    BY <2>9, <2>10, <2>11, <2>12, <2>13, <2>14 DEF Outward
<1>14. ASSUME NEW c \in Clients, ReadFails(c)
      PROVE  Outward' /\ DeliveredOnce'
  <2>1. /\ UNCHANGED <<serial_data, got, read, survivors, conn>> /\ reader[c] # "send"
        /\ \E there : reader' = [reader EXCEPT ![c] = there]
    BY <1>14 DEF ReadFails, ReaderGoes
  <2>2. \A d \in Clients : reader'[d] # "send" => reader[d] # "send"
    BY <1>0, <2>1
  <2> QED
    BY <1>23, <2>1, <2>2
<1>15. ASSUME NEW c \in Clients, Send(c)
      PROVE  Outward' /\ DeliveredOnce'
  <2>0. /\ conn \in Clients /\ reader[c] = "send" /\ UNCHANGED <<read, survivors, conn>>
        /\ serial_data' = [serial_data EXCEPT ![c] = <<>>]
        /\ reader' = [reader EXCEPT ![c] = "read"]
    BY <1>15 DEF Send, ReaderGoes, SIInv, Typed
  <2>1. PICK n \in 1 .. Len(serial_data[c]) :
          got' = [got EXCEPT ![conn] =
                    IF conn \in left THEN @ ELSE @ \o SubSeq(serial_data[c], 1, n)]
    BY <1>15 DEF Send
  <2>2. CASE conn \in left
    <3>1. got' = got
      BY <1>0, <2>0, <2>1, <2>2
    <3> QED
      BY <1>24, <2>0, <3>1
  <2>3. CASE conn \notin left
    BY <2>0, <2>1, <2>3, Delivered
  <2> QED
    BY <2>2, <2>3
<1>16. ASSUME NEW c \in Clients, SendFails(c)
      PROVE  Outward' /\ DeliveredOnce'
  <2>1. /\ UNCHANGED <<got, read, survivors, conn>>
        /\ serial_data' = [serial_data EXCEPT ![c] = <<>>]
        /\ \E there : reader' = [reader EXCEPT ![c] = there]
    BY <1>16 DEF SendFails, ReaderGoes
  <2> QED
    BY <1>24, <2>1
<1>17. ASSUME NEW c \in Clients, Except(c)
      PROVE  Outward' /\ DeliveredOnce'
  <2>1. /\ UNCHANGED <<serial_data, got, read, survivors, conn>> /\ reader[c] # "send"
        /\ \E there : reader' = [reader EXCEPT ![c] = there]
    BY <1>17 DEF Except, ReaderGoes
  <2>2. \A d \in Clients : reader'[d] # "send" => reader[d] # "send"
    BY <1>0, <2>1
  <2> QED
    BY <1>23, <2>1, <2>2
<1>18. ASSUME NEW c \in Clients, Recv(c)
      PROVE  Outward' /\ DeliveredOnce'
  BY <1>18, <1>23 DEF Recv, ReceiverGoes
<1>19. ASSUME NEW c \in Clients, RecvEnds(c)
      PROVE  Outward' /\ DeliveredOnce'
  BY <1>19, <1>23 DEF RecvEnds, ReceiverGoes
<1>20. ASSUME NEW c \in Clients, Write(c)
      PROVE  Outward' /\ DeliveredOnce'
  BY <1>20, <1>23 DEF Write, ReceiverGoes
<1>21. ASSUME NEW c \in Clients, WriteFails(c)
      PROVE  Outward' /\ DeliveredOnce'
  BY <1>21, <1>23 DEF WriteFails, ReceiverGoes
<1>22. CASE UNCHANGED vars
  BY <1>22, <1>23 DEF vars
<1> QED
  BY <1>1, <1>2, <1>3, <1>4, <1>5, <1>6, <1>7, <1>8, <1>9, <1>10, <1>11, <1>12,
     <1>13, <1>14, <1>15, <1>16, <1>17, <1>18, <1>19, <1>20, <1>21, <1>22
  DEF Next, Main, Reader, Receiver
-----------------------------------------------------------------------------
(* The invariant, and what follows from it. *)

LEMMA SerialInit == ASSUME Init PROVE SIInv
<1> USE DEF Init
<1>0. MaxClients \in Nat \ {0} /\ MaxArrived \in Nat
  BY ClientsAssumption, ArrivedAssumption
<1>1. Typed
  <2>1. <<>> \in Seq(Nat) /\ <<>> \in Seq(Clients \X Nat)
    OBVIOUS
  <2> QED
    BY <1>0, <2>1 DEF Typed, Nobody
<1>2. Session /\ Alone
  BY <1>0 DEF Session, Alone, Served, Alive, Nobody, Clients
<1>3. Inward
  BY <1>0 DEF Inward, Clients, Nobody
<1>4. Outward /\ PortGetsWhatWasSent /\ DeliveredOnce
  <2>1. DOMAIN <<>> = {}
    OBVIOUS
  <2> QED
    BY <2>1 DEF Outward, PortGetsWhatWasSent, DeliveredOnce
<1> QED
  BY <1>1, <1>2, <1>3, <1>4 DEF SIInv

LEMMA SerialNext == ASSUME SIInv, [Next]_vars PROVE SIInv'
  BY TypedStep, SessionStep, AloneStep, InwardStep, OutwardStep, PortStep DEF SIInv

\* The inductive invariant holds in every state.
THEOREM SerialInvariant == Spec => []SIInv
<1> QED
  BY SerialInit, SerialNext, PTL DEF Spec

\* One client is served at a time: one receiver, one open port, no open connection
\* but that of the name conn, whatever the readers that outlive their session do.
THEOREM OneSessionAtATime == Spec => []OneSession
<1>1. ASSUME SIInv PROVE OneSession
  <2>1. Typed /\ Session /\ Inward
    BY <1>1 DEF SIInv
  <2>2. TypeOK
    <3>1. conn \in Clients \cup {Nobody} /\ serial_port \in Clients \cup {Nobody}
      BY <2>1, ClientsAssumption DEF Typed, Clients, Nobody
    <3>2. \A c \in Clients :
            /\ reader[c] \in {"unborn", "read", "reading", "send", "except", "done"}
            /\ receiver[c] \in {"unborn", "recv", "write", "done"}
            /\ sent[c] \in Nat /\ received[c] \in Nat /\ received[c] <= sent[c]
      BY <2>1 DEF Typed, Inward
    <3>3. read <= arrived /\ arrived <= MaxArrived
      BY <2>1, ArrivedAssumption DEF Typed
    <3> QED
      BY <2>1, <3>1, <3>2, <3>3, SMTT(30) DEF Typed, TypeOK
  <2>3. Cardinality({c \in Clients : Alive(receiver[c])}) <= 1
    <3>1. {c \in Clients : Alive(receiver[c])} \subseteq {conn}
      BY <2>1 DEF Session
    <3>2. IsFiniteSet({conn}) /\ Cardinality({conn}) = 1
      BY FS_Singleton
    <3>3. /\ IsFiniteSet({c \in Clients : Alive(receiver[c])})
          /\ Cardinality({c \in Clients : Alive(receiver[c])}) <= Cardinality({conn})
      BY <3>1, <3>2, FS_Subset
    <3> QED
      BY <3>2, <3>3
  <2>4. /\ portOpen \subseteq {serial_port} /\ connOpen \subseteq {conn}
        /\ main = "accept" => connOpen \cup portOpen = {}
    BY <2>1 DEF Session, Served
  <2> QED
    BY <2>2, <2>3, <2>4 DEF OneSession
<1> QED
  BY <1>1, SerialInvariant, PTL

\* What is written to the port is, in order and without a gap, what each client in
\* turn has sent: a receiver has ended before the next one begins, because the main
\* thread joins it.
THEOREM PortGetsAllInOrder == Spec => []PortGetsWhatWasSent
<1>1. SIInv => PortGetsWhatWasSent
  BY DEF SIInv
<1> QED
  BY <1>1, SerialInvariant, PTL

\* No byte of the port is delivered twice, and a client that began without a survivor
\* gets its bytes in order.
THEOREM EachByteOnce == Spec => []DeliveredOnce
<1>1. SIInv => DeliveredOnce
  BY DEF SIInv
<1> QED
  BY <1>1, SerialInvariant, PTL

\* An open connection has its reader, and without a survivor a closed one has lost
\* it by an exception of its own.
THEOREM OpenConnectionsAreServed == Spec => []OpenMeansServed
<1>1. ASSUME SIInv PROVE OpenMeansServed
  <2>1. Session /\ Alone
    BY <1>1 DEF SIInv
  <2> QED
    BY <2>1 DEF Session, Alone, OpenMeansServed, Alive
<1> QED
  BY <1>1, SerialInvariant, PTL

\* What the port delivers goes to the client of the moment: between two sessions no
\* connection is open, so that a survivor sends nothing.
THEOREM NothingForThePast == Spec => OnlyToThePresent
<1>1. ASSUME SIInv, [Next]_vars
      PROVE  [\A c \in Clients : got'[c] # got[c] =>
                c = conn /\ main \notin {"accept", "closePort"}]_vars
  <2> SUFFICES ASSUME NEW c \in Clients, got'[c] # got[c]
               PROVE  c = conn /\ main \notin {"accept", "closePort"}
    OBVIOUS
  <2>1. PICK d \in Clients : Send(d)
    BY <1>1 DEF Next, Main, Reader, Receiver, ClientSends, ClientLeaves, DeviceSends,
                Accept, OpenPort, StartReader, StartReceiver, Join, CloseConn, ClosePort,
                ReadBegins, ReadTimesOut, ReadReturns, ReadFails, SendFails, Except,
                Recv, RecvEnds, Write, WriteFails, outward, vars
  <2>2. conn \in connOpen
    BY <2>1 DEF Send
  <2>3. main \notin {"accept", "closePort"}
    BY <1>1, <2>2 DEF SIInv, Session
  <2>4. c = conn
    <3>1. \E g : got' = [got EXCEPT ![conn] = g]
      BY <2>1 DEF Send
    <3>2. got \in [Clients -> Seq(Nat)]
      BY <1>1 DEF SIInv, Typed
    <3> QED
      BY <3>1, <3>2
  <2> QED
    BY <2>3, <2>4
<1> QED
  BY <1>1, SerialInvariant, PTL DEF Spec, OnlyToThePresent
=============================================================================
