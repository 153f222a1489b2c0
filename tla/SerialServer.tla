---------------------------- MODULE SerialServer ----------------------------
(***************************************************************************)
(* serial_server.py, the server at the other end of the socket.  For each  *)
(* client it opens the serial port and starts two threads: a reader, which *)
(* sends what the port delivers to the client, and a receiver, which       *)
(* writes what the client sends to the port.  When the receiver ends, the  *)
(* main thread closes both and waits for the next client; it does not wait *)
(* for the reader.                                                         *)
(*                                                                         *)
(* The threads use the global names conn and serial_port, which the main   *)
(* thread binds anew for each client: a reader of an earlier client that   *)
(* is still alive, a survivor, works with the connection and the port of   *)
(* the present one.  Clients, their connections, ports and threads are     *)
(* numbered in the order in which they are accepted.                       *)
(*                                                                         *)
(* A read of the port takes two steps, so that the main thread can close   *)
(* the port meanwhile; every other call is one.  A call on a connection or *)
(* a port that this process has closed raises an exception.  The dumps of  *)
(* the traffic into files, which are off by default, are left out.         *)
(***************************************************************************)
EXTENDS Integers, Sequences, SequencesExt, FiniteSets

CONSTANTS
  MaxClients,   \* bound: clients that come
  MaxSent,      \* bound: bytes they send altogether
  MaxArrived    \* bound: bytes that arrive at the port from the device

ASSUME ClientsAssumption == MaxClients \in Nat \ {0}
ASSUME SentAssumption    == MaxSent \in Nat
ASSUME ArrivedAssumption == MaxArrived \in Nat

Clients == 1 .. MaxClients
Nobody  == 0

VARIABLES
  conn,        \* the client whose connection the name conn is bound to
  serial_port, \* the client for whom the port of that name was opened
  connOpen,    \* the connections this process has not closed
  portOpen,    \* the ports it has not closed
  left,        \* the clients that have disconnected
  main,        \* where the main thread is
  reader,      \* of each client's reading thread: where it is,
  readsFrom,   \*   the port whose read it is in, or Nobody, and
  serial_data, \*   what that returned
  receiver,    \* of each client's receiving thread: where it is,
  data,        \*   and what it received
  sent,        \* how many bytes each client has sent
  received,    \* how many of them the server has received
  written,     \* the bytes written to the port, <<client, number>>
  arrived,     \* how many bytes have arrived at the port,
  read,        \* how many of them were read,
  got,         \* and which of them each client got
  survivors    \* the clients who began their session beside a survivor

names   == <<conn, serial_port>>
opened  == <<connOpen, portOpen>>
reading == <<reader, readsFrom, serial_data>>
writing == <<receiver, data>>
inward  == <<sent, received, written>>
outward == <<arrived, read, got>>

vars == <<names, opened, left, main, reading, writing, inward, outward, survivors>>

Alive(thread) == thread \notin {"unborn", "done"}

Init ==
  /\ conn = Nobody /\ serial_port = Nobody
  /\ connOpen = {} /\ portOpen = {} /\ left = {}
  /\ main = "accept"
  /\ reader = [c \in Clients |-> "unborn"] /\ receiver = [c \in Clients |-> "unborn"]
  /\ readsFrom = [c \in Clients |-> Nobody]
  /\ serial_data = [c \in Clients |-> <<>>] /\ data = [c \in Clients |-> <<>>]
  /\ sent = [c \in Clients |-> 0] /\ received = [c \in Clients |-> 0]
  /\ written = <<>>
  /\ arrived = 0 /\ read = 0 /\ got = [c \in Clients |-> <<>>]
  /\ survivors = {}

-----------------------------------------------------------------------------
(* The clients and the device. *)

ClientSends == /\ conn \notin left \cup {Nobody} /\ FoldFunction(+, 0, sent) < MaxSent
               /\ sent' = [sent EXCEPT ![conn] = @ + 1]
               /\ UNCHANGED <<names, opened, left, main, reading, writing,
                              received, written, outward, survivors>>

ClientLeaves == /\ conn \notin left \cup {Nobody}
                /\ left' = left \cup {conn}
                /\ UNCHANGED <<names, opened, main, reading, writing, inward,
                               outward, survivors>>

DeviceSends == /\ arrived < MaxArrived
               /\ arrived' = arrived + 1
               /\ UNCHANGED <<names, opened, left, main, reading, writing, inward,
                              read, got, survivors>>

-----------------------------------------------------------------------------
(* The main thread. *)

Accept ==
  /\ main = "accept" /\ conn < MaxClients
  /\ conn' = conn + 1
  /\ connOpen' = connOpen \cup {conn + 1}
  /\ survivors' = IF \E c \in Clients : Alive(reader[c])
                  THEN survivors \cup {conn + 1} ELSE survivors
  /\ main' = "open"
  /\ UNCHANGED <<serial_port, portOpen, left, reading, writing, inward, outward>>

\* The exception of a port that cannot be opened ends the main thread.
OpenPort ==
  /\ main = "open"
  /\ \/ /\ serial_port' = conn /\ portOpen' = portOpen \cup {conn}
        /\ main' = "startReader"
     \/ /\ main' = "ended"
        /\ UNCHANGED <<serial_port, portOpen>>
  /\ UNCHANGED <<conn, connOpen, left, reading, writing, inward, outward, survivors>>

StartReader ==
  /\ main = "startReader"
  /\ reader' = [reader EXCEPT ![conn] = "read"]
  /\ main' = "startReceiver"
  /\ UNCHANGED <<names, opened, left, readsFrom, serial_data, writing, inward,
                 outward, survivors>>

StartReceiver ==
  /\ main = "startReceiver"
  /\ receiver' = [receiver EXCEPT ![conn] = "recv"]
  /\ main' = "join"
  /\ UNCHANGED <<names, opened, left, reading, data, inward, outward, survivors>>

\* Mutants: plausible bugs, each the code of the definition that follows it but
\* for one slip.  The name of a mutant ends in Mutant.
JoinNobodyMutant ==
  /\ main = "join"
  /\ main' = "closeConn"
  /\ UNCHANGED <<names, opened, left, reading, writing, inward, outward, survivors>>

\* receive_thread.join(): read_thread.join() is commented out.
Join ==
  /\ main = "join" /\ receiver[conn] = "done"
  /\ main' = "closeConn"
  /\ UNCHANGED <<names, opened, left, reading, writing, inward, outward, survivors>>

KeepConnMutant ==
  /\ main = "closeConn"
  /\ main' = "closePort"
  /\ UNCHANGED <<names, opened, left, reading, writing, inward, outward, survivors>>

CloseConn ==
  /\ main = "closeConn"
  /\ connOpen' = connOpen \ {conn}
  /\ main' = "closePort"
  /\ UNCHANGED <<names, portOpen, left, reading, writing, inward, outward, survivors>>

KeepPortMutant ==
  /\ main = "closePort"
  /\ main' = "accept"
  /\ UNCHANGED <<names, opened, left, reading, writing, inward, outward, survivors>>

ClosePort ==
  /\ main = "closePort"
  /\ portOpen' = portOpen \ {serial_port}
  /\ main' = "accept"
  /\ UNCHANGED <<names, connOpen, left, reading, writing, inward, outward, survivors>>

Main == Accept \/ OpenPort \/ StartReader \/ StartReceiver \/ Join \/ CloseConn
        \/ ClosePort

-----------------------------------------------------------------------------
(* read_serial_and_send of client c. *)

ReaderGoes(c, there) == reader' = [reader EXCEPT ![c] = there]

\* serial_port.read: the name is looked up, then the call waits.
ReadBegins(c) ==
  /\ reader[c] = "read"
  /\ IF serial_port \in portOpen
     THEN ReaderGoes(c, "reading") /\ readsFrom' = [readsFrom EXCEPT ![c] = serial_port]
     ELSE ReaderGoes(c, "except") /\ UNCHANGED readsFrom
  /\ UNCHANGED <<names, opened, left, main, serial_data, writing, inward, outward,
                 survivors>>

\* After its timeout of 1 ms it returns nothing.
ReadTimesOut(c) ==
  /\ reader[c] = "reading"
  /\ readsFrom' = [readsFrom EXCEPT ![c] = Nobody]
  /\ ReaderGoes(c, "read")
  /\ UNCHANGED <<names, opened, left, main, serial_data, writing,
                 inward, outward, survivors>>

ReadAgainMutant(c) ==
  /\ reader[c] = "reading" /\ readsFrom[c] \in portOpen
  /\ \E n \in 1 .. arrived - read :
       serial_data' = [serial_data EXCEPT ![c] = [i \in 1 .. n |-> read + i]]
  /\ readsFrom' = [readsFrom EXCEPT ![c] = Nobody]
  /\ ReaderGoes(c, "send")
  /\ UNCHANGED <<names, opened, left, main, writing, inward, outward, survivors>>

ReadReturns(c) ==
  /\ reader[c] = "reading" /\ readsFrom[c] \in portOpen
  /\ \E n \in 1 .. arrived - read :
       /\ serial_data' = [serial_data EXCEPT ![c] = [i \in 1 .. n |-> read + i]]
       /\ read' = read + n
  /\ readsFrom' = [readsFrom EXCEPT ![c] = Nobody]
  /\ ReaderGoes(c, "send")
  /\ UNCHANGED <<names, opened, left, main, writing, inward, arrived,
                 got, survivors>>

\* The port was closed, or the device is gone.
ReadFails(c) ==
  /\ reader[c] = "reading"
  /\ readsFrom' = [readsFrom EXCEPT ![c] = Nobody]
  /\ ReaderGoes(c, "except")
  /\ UNCHANGED <<names, opened, left, main, serial_data, writing,
                 inward, outward, survivors>>

\* conn.send may send a part; the rest is not sent again.
Send(c) ==
  /\ reader[c] = "send" /\ conn \in connOpen
  /\ \E n \in 1 .. Len(serial_data[c]) :
       got' = [got EXCEPT ![conn] =
                 IF conn \in left THEN @ ELSE @ \o SubSeq(serial_data[c], 1, n)]
  /\ serial_data' = [serial_data EXCEPT ![c] = <<>>]
  /\ ReaderGoes(c, "read")
  /\ UNCHANGED <<names, opened, left, main, readsFrom, writing, inward, arrived,
                 read, survivors>>

SendFails(c) ==
  /\ reader[c] = "send" /\ (conn \notin connOpen \/ conn \in left)
  /\ serial_data' = [serial_data EXCEPT ![c] = <<>>]
  /\ ReaderGoes(c, "except")
  /\ UNCHANGED <<names, opened, left, main, readsFrom, writing, inward, outward,
                 survivors>>

ExceptOnlyBreaksMutant(c) ==
  /\ reader[c] = "except"
  /\ ReaderGoes(c, "done")
  /\ UNCHANGED <<names, opened, left, main, readsFrom, serial_data, writing,
                 inward, outward, survivors>>

\* Whatever the exception was: the connection of that moment is closed.
Except(c) ==
  /\ reader[c] = "except"
  /\ connOpen' = connOpen \ {conn}
  /\ ReaderGoes(c, "done")
  /\ UNCHANGED <<names, portOpen, left, main, readsFrom, serial_data, writing,
                 inward, outward, survivors>>

Reader(c) == \/ ReadBegins(c) \/ ReadTimesOut(c) \/ ReadReturns(c) \/ ReadFails(c)
             \/ Send(c) \/ SendFails(c) \/ Except(c)

-----------------------------------------------------------------------------
(* receive_client_data of client c. *)

ReceiverGoes(c, there) == receiver' = [receiver EXCEPT ![c] = there]

Recv(c) ==
  /\ receiver[c] = "recv" /\ conn \in connOpen
  /\ \E n \in 1 .. sent[conn] - received[conn] :
       /\ data' = [data EXCEPT ![c] = [i \in 1 .. n |-> <<conn, received[conn] + i>>]]
       /\ received' = [received EXCEPT ![conn] = @ + n]
  /\ ReceiverGoes(c, "write")
  /\ UNCHANGED <<names, opened, left, main, reading, sent, written, outward, survivors>>

EmptyIsDataMutant(c) ==
  /\ receiver[c] = "recv" /\ (conn \notin connOpen \/ conn \in left)
  /\ ReceiverGoes(c, IF conn \in connOpen THEN "write" ELSE "done")
  /\ UNCHANGED <<names, opened, left, main, reading, data, inward, outward, survivors>>

\* No data, a connection that was reset or one that is closed here: break.
RecvEnds(c) ==
  /\ receiver[c] = "recv" /\ (conn \notin connOpen \/ conn \in left)
  /\ ReceiverGoes(c, "done")
  /\ UNCHANGED <<names, opened, left, main, reading, data, inward, outward, survivors>>

Write(c) ==
  /\ receiver[c] = "write" /\ serial_port \in portOpen
  /\ written' = written \o data[c]
  /\ data' = [data EXCEPT ![c] = <<>>]
  /\ ReceiverGoes(c, "recv")
  /\ UNCHANGED <<names, opened, left, main, reading, sent, received, outward, survivors>>

\* The exception may come when some of the bytes are written.
WriteFails(c) ==
  /\ receiver[c] = "write"
  /\ \E n \in 0 .. Len(data[c]) :
       /\ n > 0 => serial_port \in portOpen
       /\ written' = written \o SubSeq(data[c], 1, n)
  /\ data' = [data EXCEPT ![c] = <<>>]
  /\ ReceiverGoes(c, "done")
  /\ UNCHANGED <<names, opened, left, main, reading, sent, received, outward, survivors>>

Receiver(c) == Recv(c) \/ RecvEnds(c) \/ Write(c) \/ WriteFails(c)

-----------------------------------------------------------------------------
Next == \/ ClientSends \/ ClientLeaves \/ DeviceSends
        \/ Main
        \/ \E c \in Clients : Reader(c) \/ Receiver(c)

Spec == Init /\ [][Next]_vars

\* Every thread is run.  Nothing is promised of the clients and the device.
FairSpec == Spec /\ WF_vars(Main)
                 /\ \A c \in Clients : WF_vars(Reader(c)) /\ WF_vars(Receiver(c))

-----------------------------------------------------------------------------
TypeOK ==
  /\ conn \in Clients \cup {Nobody} /\ serial_port \in Clients \cup {Nobody}
  /\ connOpen \subseteq Clients /\ portOpen \subseteq Clients
  /\ left \subseteq Clients /\ survivors \subseteq Clients
  /\ main \in {"accept", "open", "startReader", "startReceiver", "join",
               "closeConn", "closePort", "ended"}
  /\ \A c \in Clients :
       /\ reader[c] \in {"unborn", "read", "reading", "send", "except", "done"}
       /\ receiver[c] \in {"unborn", "recv", "write", "done"}
       /\ sent[c] \in Nat /\ received[c] \in 0 .. sent[c]
  /\ read <= arrived /\ arrived <= MaxArrived

\* One client is served at a time, in states of the right types: there is one
\* receiver, one port is open (the operating system gives a serial port to one
\* owner), and no connection but the present one, whatever the survivors do and
\* however a session ends.
OneSession ==
  /\ TypeOK
  /\ Cardinality({c \in Clients : Alive(receiver[c])}) <= 1
  /\ portOpen \subseteq {serial_port} /\ connOpen \subseteq {conn}
  /\ main = "accept" => connOpen \cup portOpen = {}

\* "TCP server to pipe data between a TCP client and a serial port"
\* (serial_server.py:9): the port gets what a client sent from its first byte
\* on, none left out and none twice, and never mixed with that of another client:
\* before each byte comes its predecessor, before each first byte an earlier client.
PortGetsWhatWasSent ==
  \A i \in DOMAIN written :
    LET c == written[i][1]  n == written[i][2] IN
    /\ n \in 1 .. received[c]
    /\ n > 1 => i > 1 /\ written[i - 1] = <<c, n - 1>>
    /\ n = 1 => \A j \in 1 .. i - 1 : written[j][1] < c

\* No byte of the port is delivered twice, to one client or to two, and a client
\* that began without a survivor gets them in order.  Beside a survivor it may
\* not: two threads read and send in turns.
DeliveredOnce ==
  \A c, d \in Clients : \A i \in DOMAIN got[c], j \in DOMAIN got[d] :
    /\ got[c][i] = got[d][j] => c = d /\ i = j
    /\ c = d /\ c \notin survivors /\ i < j => got[c][i] < got[c][j]

\* What the port delivers goes to the client of the moment, never to one whose
\* session is over: the old connection is closed before the name conn changes.
OnlyToThePresent ==
  [][\A c \in Clients : got'[c] # got[c] => c = conn /\ main \notin {"accept", "closePort"}]_vars

\* A connection that looks alive to its client is served: while it is open, its
\* reader is there.  And only a reader's exception closes it before the end of
\* the session; that of its own, if it began without a survivor.
OpenMeansServed ==
  main = "join" =>
    /\ conn \in connOpen => Alive(reader[conn])
    /\ conn \notin connOpen /\ conn \notin survivors => reader[conn] = "done"

\* A session ends when its client leaves or its connection is closed, and the
\* server waits for the next client (or could not open the port).
ServerGoesOn ==
  \A c \in Clients :
    (conn = c /\ (c \in left \/ (main = "join" /\ c \notin connOpen)))
      ~> (main \in {"accept", "ended"})

\* A reader does not live for ever after the last client: the closed port stops it.
SurvivorsEnd ==
  (main = "accept") ~> (main # "accept" \/ \A c \in Clients : ~ Alive(reader[c]))

\* A session comes to its end, and so do the readers that outlive it.
SessionsEnd == ServerGoesOn /\ SurvivorsEnd
=============================================================================
