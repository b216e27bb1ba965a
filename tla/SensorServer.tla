----------------------------- MODULE SensorServer -----------------------------
(***************************************************************************)
(* The sensor side of the server: the network thread that serves every     *)
(* sensor connection (ClientsHandler and SensorListener), the executor of  *)
(* the sensors' requests, the executor of the administrator's commands     *)
(* (both in ServerModel) and the SENSORS table (DatabaseConnection).       *)
(*                                                                         *)
(* The three threads share the client slots of the ClientsHandler, the     *)
(* sensorRequestsQueue, the table, and the two unordered_maps of           *)
(* ServerModel.  No lock spans more than one operation on any of them, so  *)
(* each action below is one such operation and all of them interleave.     *)
(***************************************************************************)
EXTENDS Integers, Sequences

CONSTANTS
  CLIENTS,           \* number of client slots (100 in the code)
  Connections,       \* the TCP connections sensors open; one is one descriptor
  Sensors,           \* rows of SENSORS; a row has its token, so the id stands for both
  NoConnection,      \* the -1 of an unused socket field
  NoSensor,
  InitialStatuses,   \* statuses the table may hold when the server starts
  Observed,          \* the messages the history told records
  Faults,            \* which of "accept", "length", "type", "send" may happen
  MaxMeasures,       \* bound: measurements per connection
  MaxCommands,       \* bound: administrator commands
  MaxDbErrors        \* bound: statements that raise an SQLException

Slots == 0 .. (CLIENTS - 1)
NoSlot == -1

Statuses == {"ABSENT", "CREATED", "ACTIVE", "DISCONNECTED", "REVOKED"}

ASSUME ServerAssumption ==
  /\ CLIENTS \in Nat \ {0}
  /\ NoConnection \notin Connections
  /\ NoSensor \notin Sensors
  /\ InitialStatuses \subseteq Statuses
  /\ MaxMeasures \in Nat /\ MaxCommands \in Nat /\ MaxDbErrors \in Nat

Threads == {"network", "executor", "admin"}

Rejections == {"revoked", "disconnected", "incorrect", "active"}
Messages == Rejections \cup {"accepted", "ack"}
NoMessage == "none"

\* What a thread works on: a SensorRequest, or an AdministratorRequest.  from
\* is the connection it came over, which the code does not record.
RequestTypes == {"none", "connected", "measure", "disconnected", "revoke", "disconnect"}
Requests == [type : RequestTypes, client : Slots,
             token : Sensors \cup {NoSensor}, from : Connections \cup {NoConnection}]
Request(type, i, s, c) == [type |-> type, client |-> i, token |-> s, from |-> c]
NoRequest == Request("none", 0, NoSensor, NoConnection)

VARIABLES
  status,            \* status[s]: column STATUS of row s, "ABSENT" before the row exists
  socket,            \* socket[i]: the connection in slot i, or NoConnection
  listener,          \* listener[i]: slot i has a listener (the pointer is not null)
  out,               \* out[i]: the messages in outBuffer of slot i
  open,              \* connections accepted and not closed by the server
  accepted,          \* connections accepted so far
  queue,             \* sensorRequestsQueue
  clientToSensorId, sensorToClientId,
  pc,                \* pc[t]: where thread t is
  request,           \* request[t]: what it works on
  message,           \* message[t]: what it is sending
  freeHandler, readyIn, readyOut,   \* as in the ClientsHandler
  cursor,            \* first slot the current sweep has not passed
  resume,            \* the sweep the network thread returns to
  token,             \* token[c]: what connection c presented           (history)
  measures,          \* measures[c]: measurements received over c       (history)
  told,              \* told[c]: observed messages sent to c              (history)
  stored,            \* <<s, c>>: a measurement sent over c is stored as s's (history)
  commands,          \* administrator commands so far                   (history)
  commanded,         \* sensors a revocation or disconnection named     (history)
  killed,            \* an executor has closed a connection             (history)
  dbErrors           \* statements that raised                          (history)

slotVars    == <<socket, listener, out, open>>
loopVars    == <<freeHandler, readyIn, readyOut, cursor, resume>>
registry    == <<clientToSensorId, sensorToClientId>>
sensorVars  == <<accepted, token, measures>>
adminVars   == <<commands, commanded>>
vars == <<status, slotVars, queue, registry, pc, request, message, loopVars,
          sensorVars, told, stored, adminVars, killed, dbErrors>>

Labels == {"select", "accept", "receive", "send", "enqueue",
           "selectFailed", "acceptFailed", "lengthFailed",
           "check", "insert", "flush",
           "disconnect", "release", "clear", "report",
           "pop", "contains", "add", "register", "erase", "lookup", "respond"}

Init ==
  /\ status \in [Sensors -> InitialStatuses]
  /\ socket = [i \in Slots |-> NoConnection]
  /\ listener = [i \in Slots |-> FALSE]
  /\ out = [i \in Slots |-> {}]
  /\ open = {} /\ accepted = {}
  /\ queue = <<>>
  /\ clientToSensorId = [i \in Slots |-> NoSensor]
  /\ sensorToClientId = [s \in Sensors |-> NoSlot]
  /\ pc = [t \in Threads |-> IF t = "network" THEN "receive" ELSE "pop"]
  /\ request = [t \in Threads |-> NoRequest]
  /\ message = [t \in Threads |-> NoMessage]
  /\ freeHandler = NoSlot /\ readyIn = {} /\ readyOut = {}
  /\ cursor = 0 /\ resume = "receive"
  /\ token = [c \in Connections |-> NoSensor]
  /\ measures = [c \in Connections |-> 0]
  /\ told = [c \in Connections |-> {}]
  /\ stored = {} /\ commands = 0 /\ commanded = {} /\ killed = FALSE
  /\ dbErrors = 0

-----------------------------------------------------------------------------
(* Control of a thread *)

Goto(t, label) == pc' = [pc EXCEPT ![t] = label]

Work(t, r, m) == /\ request' = [request EXCEPT ![t] = r]
                 /\ message' = [message EXCEPT ![t] = m]

\* The thread is done with what it worked on.
Finish(t, label) == Goto(t, label) /\ Work(t, NoRequest, NoMessage)

Keep == UNCHANGED <<request, message>>

\* Where ClientsHandler::send() and killSensor() go on when the message is out.
AfterSend(t) ==
  IF t = "network" THEN Goto(t, "enqueue") /\ Keep
  ELSE IF message[t] = "accepted" THEN Finish(t, "pop")
  ELSE Goto(t, "disconnect") /\ Keep

AfterDisconnect(t) ==
  IF t = "network" THEN Finish(t, resume)
  ELSE IF t = "executor" THEN Finish(t, "pop")
  ELSE Goto(t, "respond") /\ Keep

\* A statement on the database: it works, or it raises an SQLException.
StatementWorks == UNCHANGED dbErrors
StatementRaises == dbErrors < MaxDbErrors /\ dbErrors' = dbErrors + 1

-----------------------------------------------------------------------------
(* Sending: Client::addOutMsg, by any thread, to the slot of its request *)

client(t) == request[t].client

\* The check of addOutMsg: a server drops a message for a free slot.
Check(t) ==
  /\ pc[t] = "check"
  /\ IF socket[client(t)] = NoConnection
     THEN AfterSend(t)
     ELSE Goto(t, "insert") /\ Keep
  /\ UNCHANGED <<status, slotVars, queue, registry, loopVars, sensorVars, told,
                 stored, adminVars, killed, dbErrors>>

\* Fault: the message is framed and then forgotten.
InsertForgotten(t) ==
  /\ pc[t] = "insert"
  /\ Goto(t, "flush")
  /\ UNCHANGED <<status, slotVars, queue, registry, request, message, loopVars, sensorVars,
                 told, stored, adminVars, killed, dbErrors>>

Insert(t) ==
  /\ pc[t] = "insert"
  /\ out' = [out EXCEPT ![client(t)] = @ \cup {message[t]}]
  /\ Goto(t, "flush")
  /\ UNCHANGED <<status, socket, listener, open, queue, registry, request, message,
                 loopVars, sensorVars, told, stored, adminVars, killed, dbErrors>>

\* sendData: a blocking socket takes the whole buffer.  A peer that is gone makes it
\* fail; that the signal it also raises may end the server, and that a peer that does
\* not read may keep it for ever, is left out.
Delivers(i) == socket[i] \in open
Deliver(i) ==
  /\ told' = [told EXCEPT ![socket[i]] = @ \cup (out[i] \cap Observed)]
  /\ out' = [out EXCEPT ![i] = {}]

\* addOutMsg ignores what sendData returns.
Flush(t) ==
  /\ pc[t] = "flush"
  /\ \/ Delivers(client(t)) /\ Deliver(client(t))
     \/ ~Delivers(client(t)) /\ UNCHANGED <<told, out>>
     \/ "send" \in Faults /\ UNCHANGED <<told, out>>
  /\ AfterSend(t)
  /\ UNCHANGED <<status, socket, listener, open, queue, registry, loopVars, sensorVars,
                 stored, adminVars, killed, dbErrors>>

-----------------------------------------------------------------------------
(* Disconnecting: disconnectClient and disconnectHandler, by any thread *)

\* Fault: the descriptor is never closed.
CloseSocketForgotten(i) == UNCHANGED open

\* socket_close of disconnectHandler
CloseSocket(i) == open' = open \ {socket[i]}

DisconnectClient(t) ==
  /\ pc[t] = "disconnect"
  /\ IF socket[client(t)] = NoConnection
     THEN AfterDisconnect(t) /\ UNCHANGED <<open, killed>>
     ELSE /\ CloseSocket(client(t)) /\ killed' = IF t = "network" THEN killed ELSE TRUE
          /\ Goto(t, "release") /\ Keep
  /\ UNCHANGED <<status, socket, listener, out, queue, registry, loopVars, sensorVars,
                 told, stored, adminVars, dbErrors>>

\* Client::reset, its first assignment ...
Release(t) ==
  /\ pc[t] = "release"
  /\ socket' = [socket EXCEPT ![client(t)] = NoConnection]
  /\ Goto(t, "clear")
  /\ UNCHANGED <<status, listener, out, open, queue, registry, request, message,
                 loopVars, sensorVars, told, stored, adminVars, killed, dbErrors>>

\* ... and the rest of it.
Clear(t) ==
  /\ pc[t] = "clear"
  /\ out' = [out EXCEPT ![client(t)] = {}]
  /\ listener' = [listener EXCEPT ![client(t)] = FALSE]
  /\ Goto(t, "report")
  /\ UNCHANGED <<status, socket, open, queue, registry, request, message,
                 loopVars, sensorVars, told, stored, adminVars, killed, dbErrors>>

\* Fault: the listener only writes its log.
ReportForgotten(t) ==
  /\ pc[t] = "report"
  /\ AfterDisconnect(t)
  /\ UNCHANGED <<status, slotVars, queue, registry, loopVars, sensorVars, told, stored,
                 adminVars, killed, dbErrors>>

\* Fault: the disconnection overtakes the measurements that wait.
ReportFirst(t) ==
  /\ pc[t] = "report"
  /\ queue' = <<Request("disconnected", client(t), NoSensor, NoConnection)>> \o queue
  /\ AfterDisconnect(t)
  /\ UNCHANGED <<status, slotVars, registry, loopVars, sensorVars, told, stored,
                 adminVars, killed, dbErrors>>

\* SensorListener::onClientDisconnected
Report(t) ==
  /\ pc[t] = "report"
  /\ queue' = Append(queue, Request("disconnected", client(t), NoSensor, NoConnection))
  /\ AfterDisconnect(t)
  /\ UNCHANGED <<status, slotVars, registry, loopVars, sensorVars, told, stored,
                 adminVars, killed, dbErrors>>

-----------------------------------------------------------------------------
(* The network thread: one turn of the loop of startHandling *)

FreeHandlers == {i \in Slots : socket[i] = NoConnection}

\* Faults: the end of the loop returns the wrong number.
getFreeHandlerSize ==
  IF FreeHandlers = {} THEN CLIENTS
  ELSE CHOOSE i \in FreeHandlers : \A j \in FreeHandlers : i <= j
getFreeHandlerFirst ==
  IF FreeHandlers = {} THEN 0
  ELSE CHOOSE i \in FreeHandlers : \A j \in FreeHandlers : i <= j

getFreeHandler ==
  IF FreeHandlers = {} THEN NoSlot
  ELSE CHOOSE i \in FreeHandlers : \A j \in FreeHandlers : i <= j

\* Fault: the set is not cleared before it is filled.
ReadableKept == readyIn \cup {socket[i] : i \in Slots \ FreeHandlers}

Readable == {socket[i] : i \in Slots \ FreeHandlers}
Writable == {socket[i] : i \in {j \in Slots \ FreeHandlers : out[j] # {}}}

\* A new turn: isSomethingToRecv and isSomethingToSend of every slot.  The
\* sweeps of the turn before are over.  The code reads a slot's socket twice, between
\* which only an executor that closes the connection could change it.
Prepare ==
  /\ pc["network"] \in {"receive", "send"}
  /\ freeHandler' = getFreeHandler
  /\ readyIn' = Readable /\ readyOut' = Writable
  /\ cursor' = 0 /\ resume' = "receive"
  /\ Goto("network", "select")
  /\ UNCHANGED <<status, slotVars, queue, registry, request, message, sensorVars, told,
                 stored, adminVars, killed, dbErrors>>

\* select() fails on a descriptor that was closed since Prepare, and the
\* exception ends the thread.  It says here whether a connection waits; which
\* slots are ready is decided when the sweeps reach them.
Select ==
  /\ pc["network"] = "select"
  /\ IF readyIn \cup readyOut \subseteq open
     THEN \/ Goto("network", "receive")
          \/ freeHandler # NoSlot /\ accepted # Connections /\ Goto("network", "accept")
     ELSE Goto("network", "selectFailed")
  /\ UNCHANGED <<status, slotVars, queue, registry, request, message, loopVars,
                 sensorVars, told, stored, adminVars, killed, dbErrors>>

\* Client::connected: beforeFirstSend of a SensorListener is empty.
Connected(i, c) == /\ socket' = [socket EXCEPT ![i] = c]
                   /\ listener' = [listener EXCEPT ![i] = TRUE]

\* tryAccept and bindHandler
Accept(c) ==
  /\ pc["network"] = "accept"
  /\ c \notin accepted
  /\ accepted' = accepted \cup {c}
  /\ open' = open \cup {c}
  /\ Connected(freeHandler, c)
  /\ Goto("network", "receive")
  /\ UNCHANGED <<status, out, queue, registry, request, message, loopVars, token,
                 measures, told, stored, adminVars, killed, dbErrors>>

AcceptFails ==
  /\ "accept" \in Faults /\ pc["network"] = "accept"
  /\ Goto("network", "acceptFailed")
  /\ UNCHANGED <<status, slotVars, queue, registry, request, message, loopVars,
                 sensorVars, told, stored, adminVars, killed, dbErrors>>

\* tryRecv reaches slot i and finds it ready.
Receives(i) == pc["network"] = "receive" /\ cursor <= i /\ socket[i] \in readyIn

Pass(i) == cursor' = i + 1 /\ UNCHANGED <<freeHandler, readyIn, readyOut>>

\* gotMsg: a slot without a listener drops the message.
Hand(i, r, m, label) ==
  /\ Pass(i)
  /\ resume' = "receive"
  /\ IF listener[i] THEN Goto("network", label) /\ Work("network", r, m)
     ELSE Goto("network", "receive") /\ Keep

\* SensorListener::handleInitMsg, up to the push.  The listener would take a second
\* token of the same connection; a sensor presents one (TokenFirst of SensorClient).
ReceiveInit(i, s) ==
  LET c == socket[i] IN
  /\ Receives(i) /\ c \in open /\ token[c] = NoSensor
  /\ token' = [token EXCEPT ![c] = s]
  /\ Hand(i, Request("connected", i, s, c), NoMessage, "enqueue")
  /\ UNCHANGED <<status, slotVars, queue, registry, accepted, measures, told, stored,
                 adminVars, killed, dbErrors>>

\* SensorListener::handleMeasureMsg: the answer first, then the push.
ReceiveMeasure(i) ==
  LET c == socket[i] IN
  /\ Receives(i) /\ c \in open /\ measures[c] < MaxMeasures
  /\ measures' = [measures EXCEPT ![c] = @ + 1]
  /\ Hand(i, Request("measure", i, NoSensor, c), "ack", "check")
  /\ UNCHANGED <<status, slotVars, queue, registry, accepted, token, told, stored,
                 adminVars, killed, dbErrors>>

\* The default of onGotRequest: disconnectClient.
ReceiveUnknown(i) ==
  /\ "type" \in Faults /\ Receives(i) /\ socket[i] \in open
  /\ Hand(i, Request("disconnected", i, NoSensor, NoConnection), NoMessage, "disconnect")
  /\ UNCHANGED <<status, slotVars, queue, registry, sensorVars, told, stored,
                 adminVars, killed, dbErrors>>

\* disconnectHandler, called by the network thread itself
Disconnects(i, sweep) ==
  /\ Pass(i) /\ resume' = sweep
  /\ CloseSocket(i)
  /\ Goto("network", "release")
  /\ Work("network", Request("disconnected", i, NoSensor, NoConnection), NoMessage)

\* recvData returns 0 or -1: the sensor is gone, or the socket already closed.
ReceiveEnd(i) ==
  /\ Receives(i)
  /\ Disconnects(i, "receive")
  /\ UNCHANGED <<status, socket, listener, out, queue, registry, sensorVars, told, stored,
                 adminVars, killed, dbErrors>>

\* recvData throws: a length of 0 or less, or above MAX_MSG.
ReceiveBadLength(i) ==
  /\ "length" \in Faults /\ Receives(i) /\ socket[i] \in open
  /\ Goto("network", "lengthFailed")
  /\ UNCHANGED <<status, slotVars, queue, registry, request, message, loopVars,
                 sensorVars, told, stored, adminVars, killed, dbErrors>>

\* onGotRequest ends with the push of its request.
Enqueue ==
  /\ pc["network"] = "enqueue"
  /\ queue' = Append(queue, request["network"])
  /\ Finish("network", "receive")
  /\ UNCHANGED <<status, slotVars, registry, loopVars, sensorVars, told, stored,
                 adminVars, killed, dbErrors>>

\* trySend reaches slot i and finds it writable.
Sends(i) ==
  /\ socket[i] \in readyOut
  /\ \/ pc["network"] = "receive"
     \/ pc["network"] = "send" /\ cursor <= i

SendPending(i) ==
  /\ Sends(i) /\ Delivers(i) /\ out[i] # {}
  /\ Deliver(i)
  /\ Pass(i) /\ Goto("network", "send")
  /\ UNCHANGED <<status, socket, listener, open, queue, registry, request, message,
                 resume, sensorVars, stored, adminVars, killed, dbErrors>>

\* sendData returns 0 (another thread has sent the buffer since) or -1.
SendNothing(i) ==
  /\ Sends(i) /\ (out[i] = {} \/ ~Delivers(i) \/ "send" \in Faults)
  /\ Disconnects(i, "send")
  /\ UNCHANGED <<status, socket, listener, out, queue, registry, sensorVars, told, stored,
                 adminVars, killed, dbErrors>>

-----------------------------------------------------------------------------
(* The executor of the sensors' requests: executeSensorRequests *)

Takes(type) ==
  /\ pc["executor"] = "pop"
  /\ queue # <<>> /\ Head(queue).type = type
  /\ queue' = Tail(queue)

\* executeSensorRequest(SensorMeasurementRequest).  A statement that raises
\* loses the request, here and below, whether or not the row is written.
ExecuteMeasurement ==
  LET r == Head(queue)
      s == clientToSensorId[r.client] IN
  /\ Takes("measure")
  /\ \/ s = NoSensor /\ StatementWorks /\ UNCHANGED stored
     \/ s # NoSensor /\ StatementWorks /\ stored' = stored \cup {<<s, r.from>>}
     \/ s # NoSensor /\ StatementRaises /\ stored' \in {stored, stored \cup {<<s, r.from>>}}
  /\ UNCHANGED <<status, slotVars, registry, pc, request, message, loopVars, sensorVars,
                 told, adminVars, killed>>

\* executeSensorRequest(SensorOnConnectedRequest): checkIfTokenIsWhitelisted,
\* which raises when the token has no row, ...
ExecuteConnected ==
  LET r == Head(queue) IN
  /\ Takes("connected")
  /\ \/ StatementRaises /\ UNCHANGED <<pc, request, message>>
     \/ /\ StatementWorks
        /\ \/ status[r.token] = "ABSENT" /\ UNCHANGED <<pc, request, message>>
           \/ /\ status[r.token] = "REVOKED"
              /\ Goto("executor", "check") /\ Work("executor", r, "incorrect")
           \/ /\ status[r.token] \notin {"ABSENT", "REVOKED"}
              /\ Goto("executor", "contains") /\ Work("executor", r, NoMessage)
  /\ UNCHANGED <<status, slotVars, registry, loopVars, sensorVars, told, stored,
                 adminVars, killed>>

\* Fault: slot 0 is taken for "not there".
IsActiveBeyondFirst(s) == sensorToClientId[s] > 0

\* Fault: the row is believed, which an earlier run of the server may have left.
IsActiveByStatus(s) == status[s] = "ACTIVE"

\* ... the look at sensorToClientId, ...
IsActive(s) == sensorToClientId[s] # NoSlot

CheckActive ==
  LET r == request["executor"] IN
  /\ pc["executor"] = "contains"
  /\ \/ StatementRaises /\ Finish("executor", "pop")
     \/ /\ StatementWorks
        /\ IF IsActive(r.token)
           THEN Goto("executor", "check") /\ Work("executor", r, "active")
           ELSE Goto("executor", "add") /\ Keep
  /\ UNCHANGED <<status, slotVars, queue, registry, loopVars, sensorVars, told, stored,
                 adminVars, killed>>

\* ... addSensor, whose UPDATE skips a row revoked meanwhile.  Its SELECT then
\* finds no row and raises, unless the row still has the address the sensor
\* comes from now, ...
MayActivateAny(s) == TRUE   \* Fault: the UPDATE has no condition on the status.
MayActivate(s) == status[s] # "REVOKED"

AddSensor ==
  LET s == request["executor"].token IN
  /\ pc["executor"] = "add"
  /\ IF MayActivate(s)
     THEN \/ /\ status' = [status EXCEPT ![s] = "ACTIVE"]
             /\ \/ StatementWorks /\ Goto("executor", "register") /\ Keep
                \/ StatementRaises /\ Finish("executor", "pop")
          \/ UNCHANGED status /\ StatementRaises /\ Finish("executor", "pop")
     ELSE /\ UNCHANGED <<status, dbErrors>>
          /\ Finish("executor", "pop") \/ (Goto("executor", "register") /\ Keep)
  /\ UNCHANGED <<slotVars, queue, registry, loopVars, sensorVars, told, stored,
                 adminVars, killed>>

\* ... the two maps, and the answer 'a'.
Register ==
  LET r == request["executor"] IN
  /\ pc["executor"] = "register"
  /\ clientToSensorId' = [clientToSensorId EXCEPT ![r.client] = r.token]
  /\ sensorToClientId' = [sensorToClientId EXCEPT ![r.token] = r.client]
  /\ Goto("executor", "check") /\ Work("executor", r, "accepted")
  /\ UNCHANGED <<status, slotVars, queue, loopVars, sensorVars, told, stored, adminVars,
                 killed, dbErrors>>

\* executeSensorRequest(SensorOnDisconnectedRequest): disconnectSensor, ...
MayDeactivate(s) == status[s] \notin {"ABSENT", "REVOKED"}
Deactivate(s) ==
  status' = IF MayDeactivate(s) THEN [status EXCEPT ![s] = "DISCONNECTED"] ELSE status

ExecuteDisconnected ==
  LET r == Head(queue)
      s == clientToSensorId[r.client] IN
  /\ Takes("disconnected")
  /\ \/ s = NoSensor /\ StatementWorks /\ UNCHANGED <<status, pc, request, message>>
     \/ /\ s # NoSensor /\ StatementWorks
        /\ Deactivate(s)
        /\ Goto("executor", "erase") /\ Work("executor", r, NoMessage)
     \/ /\ s # NoSensor /\ StatementRaises
        /\ Deactivate(s) \/ UNCHANGED status
        /\ UNCHANGED <<pc, request, message>>
  /\ UNCHANGED <<slotVars, registry, loopVars, sensorVars, told, stored, adminVars, killed>>

\* Faults: one of the two erases is missing.
EraseRegistrationOfClient ==
  LET i == client("executor") IN
  /\ pc["executor"] = "erase"
  /\ clientToSensorId' = [clientToSensorId EXCEPT ![i] = NoSensor]
  /\ Finish("executor", "pop")
  /\ UNCHANGED <<status, slotVars, queue, sensorToClientId, loopVars, sensorVars, told,
                 stored, adminVars, killed, dbErrors>>
EraseRegistrationOfSensor ==
  LET i == client("executor") IN
  /\ pc["executor"] = "erase"
  /\ sensorToClientId' = [sensorToClientId EXCEPT ![clientToSensorId[i]] = NoSlot]
  /\ Finish("executor", "pop")
  /\ UNCHANGED <<status, slotVars, queue, clientToSensorId, loopVars, sensorVars, told,
                 stored, adminVars, killed, dbErrors>>

\* ... then the two erases.
EraseRegistration ==
  LET i == client("executor") IN
  /\ pc["executor"] = "erase"
  /\ sensorToClientId' = [sensorToClientId EXCEPT ![clientToSensorId[i]] = NoSlot]
  /\ clientToSensorId' = [clientToSensorId EXCEPT ![i] = NoSensor]
  /\ Finish("executor", "pop")
  /\ UNCHANGED <<status, slotVars, queue, loopVars, sensorVars, told, stored, adminVars,
                 killed, dbErrors>>

-----------------------------------------------------------------------------
(* The executor of the administrator's commands: executeAdministratorRequests. *)
(* The next command is chosen when it is taken from its queue.                *)

TakesCommand ==
  /\ pc["admin"] = "pop"
  /\ commands < MaxCommands
  /\ commands' = commands + 1

\* GENERATE_TOKEN: a token no row has, and initializeSensor.
GenerateToken(s) ==
  /\ TakesCommand
  /\ status[s] = "ABSENT"
  /\ \/ status' = [status EXCEPT ![s] = "CREATED"] /\ (StatementWorks \/ StatementRaises)
     \/ UNCHANGED status /\ StatementRaises
  /\ UNCHANGED <<slotVars, queue, registry, pc, request, message, loopVars, sensorVars,
                 told, stored, commanded, killed>>

\* revokeSensor and disconnectSensor of DatabaseConnection: the UPDATE, and a
\* getSensor that raises when there is no such row.
CommandStatus(type, s) ==
  IF type = "revoke" THEN [status EXCEPT ![s] = "REVOKED"]
  ELSE IF MayDeactivate(s) THEN [status EXCEPT ![s] = "DISCONNECTED"] ELSE status

\* REVOKE_SENSOR and DISCONNECT_SENSOR
ExecuteCommand(type, s) ==
  /\ TakesCommand
  /\ \/ /\ status[s] = "ABSENT" /\ StatementWorks
        /\ UNCHANGED <<status, commanded, pc, request, message>>
     \/ /\ status[s] # "ABSENT" /\ StatementWorks
        /\ status' = CommandStatus(type, s)
        /\ commanded' = commanded \cup {s}
        /\ Goto("admin", "lookup")
        /\ Work("admin", Request(type, 0, s, NoConnection),
                IF type = "revoke" THEN "revoked" ELSE "disconnected")
     \/ /\ status[s] # "ABSENT" /\ StatementRaises
        /\ status' \in {status, CommandStatus(type, s)}
        /\ commanded' = commanded \cup {s}
        /\ UNCHANGED <<pc, request, message>>
  /\ UNCHANGED <<slotVars, queue, registry, loopVars, sensorVars, told, stored, killed>>

\* sensorToClientId[request.sensorId]: operator[] inserts a 0 for a sensor that
\* is not there.
LookUp ==
  LET s == request["admin"].token
      i == IF sensorToClientId[s] = NoSlot THEN 0 ELSE sensorToClientId[s] IN
  /\ pc["admin"] = "lookup"
  /\ sensorToClientId' = [sensorToClientId EXCEPT ![s] = i]
  /\ request' = [request EXCEPT !["admin"].client = i]
  /\ Goto("admin", "check")
  /\ UNCHANGED <<status, slotVars, queue, clientToSensorId, message, loopVars, sensorVars,
                 told, stored, adminVars, killed, dbErrors>>

\* sensorToClientId.erase.  The response pushed next goes to another thread,
\* which answers the administrator.
Respond ==
  /\ pc["admin"] = "respond"
  /\ sensorToClientId' = [sensorToClientId EXCEPT ![request["admin"].token] = NoSlot]
  /\ Finish("admin", "pop")
  /\ UNCHANGED <<status, slotVars, queue, clientToSensorId, loopVars, sensorVars, told,
                 stored, adminVars, killed, dbErrors>>

-----------------------------------------------------------------------------

\* send() and disconnectClient(), by whichever thread calls them
Calls(t) ==
  \/ Check(t) \/ Insert(t) \/ Flush(t)
  \/ DisconnectClient(t) \/ Release(t) \/ Clear(t) \/ Report(t)

Loop ==
  \/ Prepare \/ Select \/ AcceptFails \/ Enqueue
  \/ \E c \in Connections : Accept(c)
  \/ \E i \in Slots, s \in Sensors : ReceiveInit(i, s)
  \/ \E i \in Slots : \/ ReceiveMeasure(i) \/ ReceiveUnknown(i) \/ ReceiveEnd(i)
                      \/ ReceiveBadLength(i) \/ SendPending(i) \/ SendNothing(i)

SensorRequests ==
  \/ ExecuteMeasurement \/ ExecuteConnected \/ CheckActive \/ AddSensor \/ Register
  \/ ExecuteDisconnected \/ EraseRegistration

AdministratorRequests ==
  \/ \E s \in Sensors : GenerateToken(s)
  \/ \E s \in Sensors, type \in {"revoke", "disconnect"} : ExecuteCommand(type, s)
  \/ LookUp \/ Respond

Next ==
  \/ Loop \/ SensorRequests \/ AdministratorRequests
  \/ \E t \in Threads : Calls(t)

Spec == Init /\ [][Next]_vars

\* Every thread runs; what sensors and administrators do is theirs to choose.
FairSpec ==
  /\ Spec
  /\ WF_vars(Loop \/ Calls("network"))
  /\ WF_vars(SensorRequests \/ Calls("executor"))
  /\ WF_vars(LookUp \/ Respond \/ Calls("admin"))

-----------------------------------------------------------------------------
(* Properties *)

TableOK == status \in [Sensors -> Statuses]

SlotsOK ==
  /\ socket \in [Slots -> Connections \cup {NoConnection}]
  /\ listener \in [Slots -> BOOLEAN]
  /\ out \in [Slots -> SUBSET (Messages \cup {NoMessage})]
  /\ open \subseteq accepted /\ accepted \subseteq Connections

RegistryOK ==
  /\ clientToSensorId \in [Slots -> Sensors \cup {NoSensor}]
  /\ sensorToClientId \in [Sensors -> Slots \cup {NoSlot}]

ThreadsOK ==
  /\ pc \in [Threads -> Labels]
  /\ request \in [Threads -> Requests]
  /\ message \in [Threads -> Messages \cup {NoMessage}]

LoopOK ==
  /\ freeHandler \in Slots \cup {NoSlot}
  /\ readyIn \subseteq Connections /\ readyOut \subseteq Connections
  /\ cursor \in 0 .. CLIENTS /\ resume \in {"receive", "send"}

HistoryOK ==
  /\ token \in [Connections -> Sensors \cup {NoSensor}]
  /\ measures \in [Connections -> 0 .. MaxMeasures]
  /\ told \in [Connections -> SUBSET (Messages \cup {NoMessage})]
  /\ stored \subseteq Sensors \X (Connections \cup {NoConnection})
  /\ commands \in 0 .. MaxCommands /\ commanded \subseteq Sensors
  /\ killed \in BOOLEAN
  /\ dbErrors \in 0 .. MaxDbErrors

\* The type invariant: every variable of the server holds a value of its kind.
TypeOK ==
  /\ TableOK /\ SlotsOK /\ queue \in Seq(Requests) /\ RegistryOK
  /\ ThreadsOK /\ LoopOK /\ HistoryOK

\* Slot i is registered for sensor s.
Registered(i, s) == clientToSensorId[i] = s

\* The two maps agree: a slot whose measurements are stored for s is the slot
\* s is known by, unless an administrator's command on s is under way or done.
\* So no two slots feed the same sensor, and the slot that a command on s
\* reaches is the one that feeds s.
RegistryAgrees ==
  \A i \in Slots, s \in Sensors :
    Registered(i, s) /\ s \notin commanded => sensorToClientId[s] = i

\* While s is known to be connected its row says ACTIVE, which is what the
\* administrator is shown; the executor may be about to erase s.  A statement
\* that raises leaves the two apart.
StatusAgrees ==
  \A s \in Sensors :
    (dbErrors = 0 /\ s \notin commanded /\ sensorToClientId[s] # NoSlot) =>
       \/ status[s] = "ACTIVE"
       \/ pc["executor"] = "erase" /\ Registered(client("executor"), s)

\* A measurement is stored for the sensor whose token its connection presented,
\* although the request names only a slot and slots are used again.  It holds
\* while the executors have closed nothing and no statement raised.
MeasurementsAttributed ==
  (~killed /\ dbErrors = 0) => \A m \in stored : token[m[2]] = m[1]

\* A disconnection of slot i is on its way to the registry.
DisconnectionPending(i) ==
  \/ \E k \in 1 .. Len(queue) : queue[k].type = "disconnected" /\ queue[k].client = i
  \/ pc["network"] \in {"release", "clear", "report"} /\ client("network") = i
  \/ pc["executor"] = "erase" /\ client("executor") = i

\* A slot is never left registered for a sensor that is gone: either the
\* connection in it presented that sensor's token, or the executor will hear
\* that the slot was disconnected.
DeadSessionsReported ==
  (~killed /\ dbErrors = 0) =>
    \A i \in Slots, s \in Sensors :
      Registered(i, s) =>
        \/ socket[i] # NoConnection /\ token[socket[i]] = s
        \/ DisconnectionPending(i)

\* A sensor is refused as already active only while its token is in use over another
\* slot: by a connection that presented it, or by one that has gone and whose
\* disconnection the executor is yet to hear of.  A row that says ACTIVE since the
\* server was last stopped does not count.
Refusing(t, s) == message[t] = "active" /\ request[t].token = s
InUse(i, s) ==
  /\ Registered(i, s)
  /\ \/ socket[i] # NoConnection /\ token[socket[i]] = s
     \/ DisconnectionPending(i)
RefusedWhileInUse ==
  (~killed /\ dbErrors = 0) =>
    \A s \in Sensors \ commanded :
      Refusing("executor", s) => \E i \in Slots \ {client("executor")} : InUse(i, s)

\* A measurement is acknowledged before it is queued, and stored only if its slot is
\* still registered when the executor takes it.  Once one of a connection has been, none
\* that follows over it is dropped or stored for another sensor: the registration
\* outlasts the connection and what it has left in the queue.
SessionsHeld ==
  (~killed /\ dbErrors = 0) =>
    \A i \in Slots, s \in Sensors, c \in Connections :
      /\ <<s, c>> \in stored
      /\ \/ socket[i] = c
         \/ \E k \in 1 .. Len(queue) :
              queue[k].type = "measure" /\ queue[k].client = i /\ queue[k].from = c
      => Registered(i, s)

\* Every open connection is served: it is in one slot, and the slot hands its
\* messages on.  It may fail once an executor has closed a connection.
OpenConnectionsServed ==
  ~killed =>
    \A c \in open : \E i \in Slots :
      socket[i] = c /\ listener[i] /\ \A j \in Slots \ {i} : socket[j] # c

\* Only an executor that closes a descriptor behind its back can make select()
\* fail and end the network thread.
SelectFailsOnlyOnKill == pc["network"] = "selectFailed" => killed

\* A slot that is in use is not given to another connection: between the choice
\* of freeHandler and bindHandler nothing else takes the slot.
SlotsNotRebound ==
  [][\A i \in Slots : socket[i] # NoConnection => socket'[i] \in {socket[i], NoConnection}]_socket

\* What the table says of a sensor changes as SensorLifecycle allows, whichever
\* of the two executors writes it: a revocation is final.
Lifecycle == INSTANCE SensorLifecycle
               WITH status <- status, Sensors <- Sensors, InitialStatuses <- InitialStatuses
LifecycleSpec == Lifecycle!Spec

\* A sensor whose token has a row gets an answer to it, unless the server serves it no
\* more: an executor closed or released its slot.  Two requests are lost without a word,
\* and the sensor stays connected: one whose statement raises, and one whose row is
\* revoked between the look at the whitelist and addSensor.  A token revoked before
\* that is answered, however the executors interleave.
Queued(c) == \E k \in 1 .. Len(queue) : queue[k].type = "connected" /\ queue[k].from = c
Answered(c) == told[c] \ {"ack"} # {}
Served(c) == c \in open /\ \E i \in Slots : socket[i] = c /\ listener[i]
HasRow(c, statuses) == \E s \in Sensors : token[c] = s /\ status[s] \in statuses
TokenAnswered ==
  \A c \in Connections, n \in 0 .. MaxDbErrors :
    LET revoked == HasRow(c, {"REVOKED"})
        waiting == Queued(c) /\ dbErrors = n /\ HasRow(c, Statuses \ {"ABSENT"})
        settled == Answered(c) \/ ~Served(c) \/ dbErrors > n IN
    /\ waiting ~> (settled \/ revoked)
    /\ (waiting /\ revoked) ~> settled

\* A closed connection does not block its token for ever: the sensor becomes
\* unknown again, unless it has presented its token over another connection.  It may
\* fail once an executor has closed a connection or a statement has raised.
TokenReleased ==
  \A c \in Connections, s \in Sensors :
    (c \in accepted \ open /\ token[c] = s) ~>
      (\/ sensorToClientId[s] = NoSlot
       \/ \E d \in open : token[d] = s
       \/ killed \/ dbErrors > 0)

-----------------------------------------------------------------------------
(* What the code, its comments or its documents say, and the program does not do *)

\* "Revoked by admin" (NetworkListener::getKillReason) is said to a sensor that
\* an administrator has revoked.
RevokedReasonTrue ==
  \A c \in Connections : "revoked" \in told[c] => token[c] \in commanded

\* "Accepted by server" (NetworkListener::onGotRequest) is said to a sensor
\* that has presented a token.
AcceptedHasToken ==
  \A c \in Connections : "accepted" \in told[c] => token[c] # NoSensor

\* The server ends a connection over which it receives wrong data ("w przypadku
\* odebrania blednych danych [...] serwer zakonczy polaczenie").
WrongDataEndsConnection ==
  pc["network"] = "lengthFailed" ~> \E c \in accepted : c \notin open

=============================================================================
