----------------------------- MODULE SensorClient -----------------------------
(***************************************************************************)
(* The sensor's program: the main thread connects, presents the token,     *)
(* reads what the server says and connects again when the connection ends  *)
(* (ClientsHandler with one Client); sensorThread takes a measurement      *)
(* after the other and sends it (main.cpp).  They share the Client's       *)
(* socket and outBuffer.                                                   *)
(***************************************************************************)
EXTENDS Integers, SequencesExt

CONSTANTS
  LengthBytes, MAX_MSG, Size(_),
  MaxMeasures,      \* bound: the measurements told apart; later ones are Rest
  MaxConnections    \* bound: the connections the client makes

ASSUME ClientAssumption ==
  MaxMeasures \in Nat /\ MaxConnections \in Nat /\ LengthBytes \in Nat \ {0}

INSTANCE Framing

Token == [kind |-> "i"]
Measure(n) == [kind |-> "m", n |-> n]
Rest == MaxMeasures + 1

NoSocket == 0

VARIABLES
  pc,             \* where the main thread is
  sensor,         \* where sensorThread is
  measure,        \* the measurement sensorThread has taken last
  socket,         \* Client::socket: the number of a connection, or NoSocket
  outBuffer,      \* Client::outBuffer, as messages
  reader,         \* Client::remainingIn, remainingInLen and inBuffer
  killed,         \* IClientsHandler::killed
  connection,     \* the connections made so far
  open,           \* the server has not closed the last one
  toServer, toClient,  \* the cells on their way over it
  serverReader,   \* the server's end, which reads with recvData too
  sent,           \* the messages sent over it                         (history)
  handed,         \* those the server has been handed                  (history)
  sentBefore,     \* the measurements sent over earlier ones           (history)
  overtaken       \* it was set before the token was in outBuffer, and
                  \* something was sent meanwhile                      (history)

client == <<socket, outBuffer, reader, killed>>
stream == <<open, toServer, toClient, serverReader>>
history == <<sent, handed, sentBefore, overtaken>>
vars == <<pc, sensor, measure, client, connection, stream, history>>

\* main() starts sensorThread before startHandling().
Init ==
  /\ pc = "connect" /\ sensor = "loop" /\ measure = 0
  /\ socket = NoSocket /\ outBuffer = <<>> /\ reader = NothingRead /\ killed = FALSE
  /\ connection = 0 /\ open = FALSE /\ toServer = <<>> /\ toClient = <<>>
  /\ serverReader = NothingRead
  /\ sent = <<>> /\ handed = <<>> /\ sentBefore = {} /\ overtaken = FALSE

Numbers(messages) == {messages[k].n : k \in {j \in DOMAIN messages : messages[j].kind = "m"}}

-----------------------------------------------------------------------------
(* The main thread: startHandling *)

\* tryConnect() tries until the server accepts.
TryConnect ==
  /\ pc = "connect" /\ connection < MaxConnections
  /\ connection' = connection + 1
  /\ open' = TRUE /\ toServer' = <<>> /\ toClient' = <<>> /\ serverReader' = NothingRead
  /\ sentBefore' = sentBefore \cup Numbers(sent)
  /\ sent' = <<>> /\ handed' = <<>> /\ overtaken' = FALSE
  /\ pc' = "connected"
  /\ UNCHANGED <<sensor, measure, client>>

\* connected(): the socket first, ...
SetSocket ==
  /\ pc = "connected" /\ pc' = "insert"
  /\ socket' = connection
  /\ UNCHANGED <<sensor, measure, outBuffer, reader, killed, connection, stream, history>>

\* Fault: the token goes to the end.
AppendToken ==
  /\ pc = "insert" /\ pc' = "loop"
  /\ outBuffer' = Append(outBuffer, Token)
  /\ UNCHANGED <<sensor, measure, socket, reader, killed, connection, stream, history>>

\* ... then what beforeFirstSend() returns, before all that waits.  Nothing is
\* sent: blockSendOnInit() keeps the loop from sending, so the token leaves with
\* the next measurement.
InsertToken ==
  /\ pc = "insert" /\ pc' = "loop"
  /\ outBuffer' = <<Token>> \o outBuffer
  /\ UNCHANGED <<sensor, measure, socket, reader, killed, connection, stream, history>>

\* onGotRequest: 'r' kills, 'a' sets the clock, '1' is logged.
Kills(got) == \E k \in DOMAIN got : got[k].kind = "r"

Pieces(r, cells) ==
  1 .. (IF toReceive(r) < Len(cells) THEN toReceive(r) ELSE Len(cells))

\* tryRecv, and the test that ends the loop
Receive ==
  /\ pc = "loop"
  /\ \E n \in Pieces(reader, toClient) :
       LET r == recvData(reader, SubSeq(toClient, 1, n)) IN
       /\ reader' = r.reader
       /\ toClient' = SubSeq(toClient, n + 1, Len(toClient))
       /\ killed' = Kills(r.got)
       /\ pc' = IF Kills(r.got) THEN "join" ELSE "loop"
  /\ UNCHANGED <<sensor, measure, socket, outBuffer, connection, open, toServer, serverReader,
                 history>>

\* recv() returns 0 or -1: disconnectHandler closes the socket, ...
ReceiveEnd ==
  /\ pc = "loop" /\ toClient = <<>> /\ ~open
  /\ pc' = "reset"
  /\ UNCHANGED <<sensor, measure, client, connection, stream, history>>

\* ... and reset() forgets it and then what it had to send.
ResetSocket ==
  /\ pc = "reset" /\ pc' = "clear"
  /\ socket' = NoSocket /\ reader' = NothingRead
  /\ UNCHANGED <<sensor, measure, outBuffer, killed, connection, stream, history>>

ClearBuffer ==
  /\ pc = "clear" /\ pc' = "connect"
  /\ outBuffer' = <<>>
  /\ UNCHANGED <<sensor, measure, socket, reader, killed, connection, stream, history>>

\* t.join()
Join ==
  /\ pc = "join" /\ sensor = "ended" /\ pc' = "ended"
  /\ UNCHANGED <<sensor, measure, client, connection, stream, history>>

Main ==
  \/ TryConnect \/ SetSocket \/ InsertToken \/ Receive \/ ReceiveEnd
  \/ ResetSocket \/ ClearBuffer \/ Join

-----------------------------------------------------------------------------
(* sensorThread *)

\* Fault: the loop does not look at killed.
MeasureForever ==
  /\ sensor = "loop" /\ sensor' = "append"
  /\ measure' = IF measure < Rest THEN measure + 1 ELSE Rest
  /\ UNCHANGED <<pc, client, connection, stream, history>>

\* while (!isKilled()), getMeasure() and the pause
TakeMeasure ==
  /\ sensor = "loop"
  /\ IF killed THEN sensor' = "ended" /\ UNCHANGED measure
     ELSE /\ sensor' = "append"
          /\ measure' = IF measure < Rest THEN measure + 1 ELSE Rest
  /\ UNCHANGED <<pc, client, connection, stream, history>>

\* addOutMsg() appends, ...  The measurements that are not told apart count as one.
AddOutMsg ==
  /\ sensor = "append" /\ sensor' = "check"
  /\ outBuffer' = IF measure = Rest /\ Rest \in Numbers(outBuffer) THEN outBuffer
                  ELSE Append(outBuffer, Measure(measure))
  /\ UNCHANGED <<pc, measure, socket, reader, killed, connection, stream, history>>

\* Fault: the test is the server's.
NeverConnected ==
  /\ sensor = "check" /\ sensor' = "loop"
  /\ UNCHANGED <<pc, measure, client, connection, stream, history>>

\* ... looks whether there is a connection, ...
CheckConnected ==
  /\ sensor = "check" /\ sensor' = IF socket = NoSocket THEN "loop" ELSE "send"
  /\ UNCHANGED <<pc, measure, client, connection, stream, history>>

\* ... and sends all that is in outBuffer ...
Sends == sensor = "send" /\ sensor' = "loop"
Usable == socket # NoSocket /\ pc # "reset"

\* ... of which Rest, which comes last, counts once ...
Unrepeated ==
  IF outBuffer # <<>> /\ Last(outBuffer) = Measure(Rest) /\ Rest \in Numbers(sent)
  THEN Front(outBuffer) ELSE outBuffer

\* Fault: what was sent stays in outBuffer.
SendKeeping ==
  /\ Sends /\ Usable /\ open
  /\ toServer' = toServer \o Frames(Unrepeated)
  /\ sent' = sent \o Unrepeated
  /\ overtaken' = (overtaken \/ pc = "insert")
  /\ UNCHANGED <<pc, measure, client, connection, open, toClient, serverReader, handed, sentBefore>>

Send ==
  /\ Sends /\ Usable /\ open
  /\ toServer' = toServer \o Frames(Unrepeated)
  /\ sent' = sent \o Unrepeated
  /\ outBuffer' = <<>>
  /\ overtaken' = (overtaken \/ pc = "insert")
  /\ UNCHANGED <<pc, measure, socket, reader, killed, connection, open, toClient, serverReader,
                 handed, sentBefore>>

\* The server has closed: the system still takes what nobody will read, ...
SendInVain ==
  /\ Sends /\ Usable /\ ~open
  /\ sent' = sent \o Unrepeated
  /\ outBuffer' = <<>>
  /\ overtaken' = (overtaken \/ pc = "insert")
  /\ UNCHANGED <<pc, measure, socket, reader, killed, connection, stream, handed, sentBefore>>

\* ... or the call fails, as it does without a socket, ...
SendFails ==
  /\ Sends /\ ~(Usable /\ open)
  /\ UNCHANGED <<pc, measure, client, connection, stream, history>>

\* ... or the signal SIGPIPE ends the program.
BrokenPipe ==
  /\ sensor = "send" /\ Usable /\ ~open
  /\ sensor' = "ended" /\ pc' = "ended"
  /\ UNCHANGED <<measure, client, connection, stream, history>>

SensorThread ==
  TakeMeasure \/ AddOutMsg \/ CheckConnected \/ Send \/ SendInVain \/ SendFails \/ BrokenPipe

-----------------------------------------------------------------------------
(* The server's end of the connection *)

Replies(got) ==
  IF got = <<>> THEN <<>>
  ELSE Frame([kind |-> IF Head(got).kind = "i" THEN "a" ELSE "1"])

ServerReads ==
  /\ open
  /\ \E n \in Pieces(serverReader, toServer) :
       LET r == recvData(serverReader, SubSeq(toServer, 1, n)) IN
       /\ serverReader' = r.reader
       /\ toServer' = SubSeq(toServer, n + 1, Len(toServer))
       /\ handed' = handed \o r.got
       /\ toClient' = toClient \o Replies(r.got)
  /\ UNCHANGED <<pc, sensor, measure, client, connection, open, sent, sentBefore, overtaken>>

\* The server closes for any reason, after it has told the sensor that it is
\* rejected or without.  What it has sent is lost when it leaves something unread.
ServerCloses ==
  /\ open /\ open' = FALSE /\ toServer' = <<>>
  /\ \E farewell \in {<<>>} \cup {Frame([kind |-> "r"]) : k \in {1} \cap DOMAIN handed} :
       toClient' \in {toClient \o farewell, <<>>}
  /\ UNCHANGED <<pc, sensor, measure, client, connection, serverReader, history>>

-----------------------------------------------------------------------------

Next == Main \/ SensorThread \/ ServerReads \/ ServerCloses

\* Both threads and the server run; whether a server is there to connect to is
\* not assumed.
Spec ==
  /\ Init /\ [][Next]_vars
  /\ WF_vars(Main /\ pc # "connect") /\ WF_vars(SensorThread) /\ WF_vars(ServerReads)

-----------------------------------------------------------------------------
(* Properties *)

Messages == {Token} \cup {Measure(n) : n \in 1 .. Rest}
Notices == {[kind |-> k] : k \in {"a", "1", "r"}}

\* Every message has a byte at least, its type, and neither it nor a length is longer
\* than MAX_MSG.
ASSUME SizeAssumption ==
  /\ MAX_MSG \in Nat /\ LengthBytes <= MAX_MSG
  /\ \A m \in Messages \cup Notices : Size(m) \in 1 .. MAX_MSG

ReaderOK(r) ==
  /\ r.remainingIn \in 0 .. MAX_MSG /\ r.remainingInLen \in 0 .. LengthBytes
  /\ Len(r.inBuffer) <= MAX_MSG

\* The type invariant; no reader ever waits for a negative number of bytes.
TypeOK ==
  /\ pc \in {"connect", "connected", "insert", "loop", "reset", "clear", "join", "ended"}
  /\ sensor \in {"loop", "append", "check", "send", "ended"}
  /\ measure \in 0 .. Rest /\ socket \in {NoSocket, connection}
  /\ outBuffer \in Seq(Messages) /\ killed \in BOOLEAN
  /\ ReaderOK(reader) /\ ReaderOK(serverReader)
  /\ connection \in 0 .. MaxConnections /\ open \in BOOLEAN /\ overtaken \in BOOLEAN
  /\ sent \in Seq(Messages) /\ sentBefore \subseteq 1 .. Rest

\* Whatever the pieces the stream arrives in, the server is handed the messages
\* that were sent, whole and in order.
FramesIntact == IsPrefix(handed, sent)

ToldApart(m) == m.kind = "m" /\ m.n # Rest

\* A measurement is sent once at most, over whatever connection, and after those
\* taken before it.
SentInOrder ==
  \A k \in DOMAIN sent : ToldApart(sent[k]) =>
    /\ \A n \in sentBefore : n < sent[k].n
    /\ \A l \in 1 .. (k - 1) : ToldApart(sent[l]) => sent[l].n < sent[k].n

\* A connection starts with the token and has no other, whatever had been waiting in
\* outBuffer; only a send between the setting of the socket and the insertion of
\* the token overtakes it.
TokenFirst ==
  \A k \in DOMAIN sent : ~overtaken => (sent[k] = Token <=> k = 1)

\* The documentation: measurements wait in the buffer while there is no connection
\* and are sent when there is one again.  So none leaves outBuffer but by being sent.
UnsentKept ==
  [][\A n \in Numbers(outBuffer) : n \in Numbers(outBuffer') \cup Numbers(sent')]_vars

\* The server is presented the token of a connection that lasts, although the main
\* thread never sends it: some measurement takes it along.
TokenPresented ==
  (pc = "loop" /\ open) ~> (Token \in ToSet(handed) \/ ~open)

\* A sensor that has been told it is rejected ends, both threads of it.
RejectedStops == killed ~> (pc = "ended" /\ sensor = "ended")

=============================================================================
