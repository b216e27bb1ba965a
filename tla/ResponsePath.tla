----------------------------- MODULE ResponsePath -----------------------------
(***************************************************************************)
(* The administrator's port and the monitoring port of the server: a       *)
(* command is decoded by the listener, waits in a queue, is executed       *)
(* against the tables, its response waits in a second queue and is sent to *)
(* the slot the command came from.  Each port has an executor and a sender *)
(* of responses (ServerModel) beside its network loop (ClientsHandler).    *)
(*                                                                         *)
(* The sensors' executor changes the status of sensors meanwhile; it is    *)
(* here by what SensorServer promises, the module SensorLifecycle.         *)
(***************************************************************************)
EXTENDS Queue, Messages, FiniteSets

CONSTANTS
  CLIENTS,         \* slots of a port
  Connections,     \* connections clients open, on either port
  NoConnection,
  Sensors,         \* the ids of the rows
  Address,         \* Address[s]: columns IP and PORT
  Token,           \* Token[s]: column TOKEN
  Recorded,        \* Recorded[s]: rows of MEASUREMENTS, the oldest first
  InitialStatuses,
  FirstName, Names, \* the name of a new row, those administrators give
  Asks,            \* Asks[p]: the commands clients of port p give
  MaxAsked,        \* bound: commands over one connection
  MaxAskedInAll,   \* bound: commands over all of them
  MaxDbErrors,     \* bound: statements that raise an SQLException
  Mobile,          \* bound: the sensors that come and go
  MayQuit          \* bound: whether the operator stops the server

Ports == {"administrator", "monitoring"}
Slots == 0 .. (CLIENTS - 1)
Statuses == {"ABSENT", "CREATED", "ACTIVE", "DISCONNECTED", "REVOKED"}

ASSUME PathAssumption ==
  /\ CLIENTS \in Nat \ {0}
  /\ NoConnection \notin Connections
  /\ InitialStatuses \subseteq Statuses /\ Mobile \subseteq Sensors
  /\ MaxAsked \in Nat /\ MaxAskedInAll \in Nat /\ MaxDbErrors \in Nat
  /\ MayQuit \in BOOLEAN

\* Ids are ints.  A client names sensors it has seen and types names in ASCII, which
\* leave the message within MAX_MSG.  There is no apostrophe in a name: editSensor puts
\* it between two of them as it is, so with one the statement is another.
ASSUME AsksAssumption ==
  /\ Sensors \subseteq Int32 /\ IsFiniteSet(Sensors)
  /\ Names \subseteq Seq((0 .. 127) \ {39}) /\ \A text \in Names : Len(text) <= 492
  /\ Asks["administrator"] \subseteq AdministratorCommands(Sensors, Names)
  /\ Asks["monitoring"] \subseteq MonitoringCommands(Sensors)

VARIABLES
  status, name,    \* columns of SENSORS
  socket,          \* socket[p][i]: the connection in slot i of port p, or NoConnection
  out,             \* out[p][i]: the responses in outBuffer of the slot
  requests,        \* administratorRequestsQueue and monitoringRequestsQueue
  responses,       \* administratorResponsesQueue and monitoringResponsesQueue
  pc,              \* pc[p][t]: where thread t of port p is
  hand,            \* hand[p]: the response its sender is sending
  quit,            \* ServerModel::quit
  port,            \* port[c]: the port c was accepted on, or "none"
  asked,           \* asked[c]: the commands given over c, with the sensors known
                   \* to be revoked by then                         (history)
  got,             \* got[c]: the responses the client of c has been sent (history)
  raised,          \* <<c, n>>: the n-th command of c raised           (history)
  dbErrors

table == <<status, name>>
history == <<asked, got, raised, dbErrors>>
vars == <<table, socket, out, requests, responses, pc, hand, quit, port, history>>

Table == INSTANCE SensorLifecycle
           WITH status <- status, Sensors <- Sensors, InitialStatuses <- InitialStatuses

NoResponse == [client |-> -1, from |-> NoConnection, n |-> 0, response |-> [type |-> -1]]

\* The server has started: the four threads have found their queues empty.
Init ==
  /\ Table!Init /\ name = [s \in Sensors |-> FirstName]
  /\ socket = [p \in Ports |-> [i \in Slots |-> NoConnection]]
  /\ out = [p \in Ports |-> [i \in Slots |-> <<>>]]
  /\ requests = [p \in Ports |-> wait(EmptyQueue, "executor")]
  /\ responses = [p \in Ports |-> wait(EmptyQueue, "sender")]
  /\ pc = [p \in Ports |-> [t \in {"executor", "sender"} |-> "inside"]]
  /\ hand = [p \in Ports |-> NoResponse]
  /\ quit = FALSE /\ port = [c \in Connections |-> "none"]
  /\ asked = [c \in Connections |-> <<>>]
  /\ got = [c \in Connections |-> <<>>]
  /\ raised = {} /\ dbErrors = 0

-----------------------------------------------------------------------------
(* The network loop of a port *)

SlotOf(c) == {i \in Slots : port[c] # "none" /\ socket[port[c]][i] = c}
Open(c) == SlotOf(c) # {}

\* bindHandler, with the least free slot: connected() does not touch its outBuffer.
Accept(c, p) ==
  /\ port[c] = "none"
  /\ port' = [port EXCEPT ![c] = p]
  /\ \E i \in Slots :
       /\ socket[p][i] = NoConnection /\ \A j \in 0 .. (i - 1) : socket[p][j] # NoConnection
       /\ socket' = [socket EXCEPT ![p][i] = c]
  /\ UNCHANGED <<table, out, requests, responses, pc, hand, quit, history>>

\* disconnectHandler, when the client has closed.  socket_close and reset are one step,
\* as if nobody else were given the descriptor's number between the two.
Close(c) ==
  \E i \in SlotOf(c) :
    /\ socket' = [socket EXCEPT ![port[c]][i] = NoConnection]
    /\ out' = [out EXCEPT ![port[c]][i] = <<>>]
    /\ UNCHANGED <<table, requests, responses, pc, hand, quit, port, history>>

\* What the listener makes of each command
Understood == [p \in Ports |-> [command \in Asks[p] |-> CommandRead(p, command)]]

\* Fault: the queue never wakes who waits.
EnqueueQuietly(queues, p, element) ==
  {[queues EXCEPT ![p].items = Append(@, element)]}

Enqueue(queues, p, element) ==
  {[queues EXCEPT ![p] = q] : q \in push(queues[p], element)}

AskedInAll == MapThenSumSet(LAMBDA c : Len(asked[c]), Connections)

\* There is a row left for every token that is asked for.
TokensAsked ==
  MapThenSumSet(LAMBDA c : Cardinality({k \in DOMAIN asked[c] :
                  asked[c][k].command.type = Administrator!GENERATE_TOKEN}), Connections)
Absent == {s \in Sensors : status[s] = "ABSENT"}

\* The sensors whose revocation some administrator has been told of
RevocationsShown ==
  {s \in Sensors : \E c \in Connections : port[c] = "administrator" /\
     \E k \in DOMAIN got[c] : got[c][k].response = [type |-> Administrator!REVOKE_SENSOR, id |-> s]}

\* A client gives a command and the listener's onGotRequest queues it.  A client
\* names only sensors it has seen.
Ask(c, command) ==
  LET p == port[c] IN
  /\ Len(asked[c]) < MaxAsked /\ AskedInAll < MaxAskedInAll
  /\ "id" \in DOMAIN command => status[command.id] # "ABSENT"
  /\ command.type = Administrator!GENERATE_TOKEN => TokensAsked < Cardinality(Absent)
  /\ asked' = [asked EXCEPT ![c] = Append(@, [command |-> command, revoked |-> RevocationsShown])]
  /\ \E i \in SlotOf(c) :
       requests' \in Enqueue(requests, p, [client |-> i, from |-> c, n |-> Len(asked[c]) + 1,
                                           command |-> Understood[p][command]])
  /\ UNCHANGED <<table, socket, out, responses, pc, hand, quit, port, got, raised, dbErrors>>

-----------------------------------------------------------------------------
(* Threads and their queues.  At "pop" a thread is about to test quit and to  *)
(* call pop(), "inside" it has waited there.                                  *)

MayTake(p, t, queue) ==
  ((pc[p][t] = "pop" /\ ~quit) \/ pc[p][t] = "inside") /\ MayPop(queue, t)

\* pop() waits: a wake-up that finds nothing waits again.
Sleep(p, t, queue) == pc[p][t] = "pop" /\ ~quit /\ MayWait(queue, t)

SleepExecutor(p) ==
  /\ Sleep(p, "executor", requests[p])
  /\ requests' = [requests EXCEPT ![p] = wait(@, "executor")]
  /\ pc' = [pc EXCEPT ![p]["executor"] = "inside"]
  /\ UNCHANGED <<table, socket, out, responses, hand, quit, port, history>>

SleepSender(p) ==
  /\ Sleep(p, "sender", responses[p])
  /\ responses' = [responses EXCEPT ![p] = wait(@, "sender")]
  /\ pc' = [pc EXCEPT ![p]["sender"] = "inside"]
  /\ UNCHANGED <<table, socket, out, requests, hand, quit, port, history>>

\* Fault: the loop of the responses does not look at quit.
EndExecutor(p, t) ==
  /\ t = "executor" /\ quit /\ pc[p][t] = "pop"
  /\ pc' = [pc EXCEPT ![p][t] = "ended"]
  /\ UNCHANGED <<table, socket, out, requests, responses, hand, quit, port, history>>

\* while (!quit)
End(p, t) ==
  /\ quit /\ pc[p][t] = "pop"
  /\ pc' = [pc EXCEPT ![p][t] = "ended"]
  /\ UNCHANGED <<table, socket, out, requests, responses, hand, quit, port, history>>

\* gotSignal
Quit ==
  /\ MayQuit /\ ~quit /\ quit' = TRUE
  /\ UNCHANGED <<table, socket, out, requests, responses, pc, hand, port, history>>

-----------------------------------------------------------------------------
(* The executors: pop, the statements of a command, and the push of its        *)
(* response.  Each is the only thread that pops its queue and that pushes to   *)
(* the other, so what other threads do between the three can come before or    *)
(* after them.                                                                 *)

Current(p) == front(requests[p])

Executes(p, type) ==
  /\ MayTake(p, "executor", requests[p]) /\ Current(p).command.type = type
  /\ requests' = [requests EXCEPT ![p] = pop(@)]
  /\ pc' = [pc EXCEPT ![p]["executor"] = "pop"]
  /\ UNCHANGED <<socket, out, hand, quit, port, asked, got>>

\* Fault: the response does not name the slot of its request.
RespondsToFirst(p, response) ==
  /\ responses' \in Enqueue(responses, p,
       [client |-> 0, from |-> Current(p).from, n |-> Current(p).n, response |-> response])
  /\ UNCHANGED <<raised, dbErrors>>

Responds(p, response) ==
  /\ responses' \in Enqueue(responses, p,
       [client |-> Current(p).client, from |-> Current(p).from, n |-> Current(p).n,
        response |-> response])
  /\ UNCHANGED <<raised, dbErrors>>

\* An SQLException drops the command.
Raises(p) ==
  /\ dbErrors < MaxDbErrors /\ dbErrors' = dbErrors + 1
  /\ raised' = raised \cup {<<Current(p).from, Current(p).n>>}
  /\ UNCHANGED responses

\* An UPDATE or INSERT is committed, or raises; the SELECT behind it finds the
\* row, or raises.
Statement(p, update, response) ==
  \/ update /\ (Responds(p, response) \/ Raises(p))
  \/ UNCHANGED table /\ Raises(p)

\* The order of rows is the database's choice.
Rows(S) == SetToSeq(S)

SensorRow(s) == [id |-> s, name |-> name[s], ip |-> Address[s].ip, port |-> Address[s].port,
                 connected |-> status[s] = "ACTIVE"]

\* Fault: the condition on the status is missing.
getAllRows ==
  LET S == {s \in Sensors : status[s] # "ABSENT"} IN
  [i \in 1 .. Cardinality(S) |-> SensorRow(Rows(S)[i])]

getAllSensors ==
  LET S == {s \in Sensors : status[s] \in {"ACTIVE", "DISCONNECTED"}} IN
  [i \in 1 .. Cardinality(S) |-> SensorRow(Rows(S)[i])]

GetAllSensors(p) ==
  /\ Executes(p, Administrator!GET_ALL_SENSORS) /\ p = "administrator"
  /\ Statement(p, UNCHANGED table,
               [type |-> Administrator!GET_ALL_SENSORS, sensors |-> getAllSensors])

\* Fault: the update is not committed.
editNothing(id, new) == UNCHANGED table

editSensor(id, new) == name' = [name EXCEPT ![id] = new] /\ UNCHANGED status

UpdateSensorName(p) ==
  LET command == Current(p).command IN
  /\ Executes(p, Administrator!UPDATE_SENSOR_NAME) /\ p = "administrator"
  /\ Statement(p, editSensor(command.id, command.name), [type |-> command.type, id |-> command.id])

revokeSensor(id) == Table!Become(id, "REVOKED") /\ UNCHANGED name

\* Fault: the condition on the status is missing.
disconnectAny(id) == Table!Become(id, "DISCONNECTED") /\ UNCHANGED name

disconnectSensor(id) ==
  /\ IF Table!Usable(id) THEN Table!Become(id, "DISCONNECTED") ELSE UNCHANGED status
  /\ UNCHANGED name

\* The killing of the sensor's connection, between statement and response, is in
\* SensorServer.
RevokeSensor(p) ==
  LET command == Current(p).command IN
  /\ Executes(p, Administrator!REVOKE_SENSOR) /\ p = "administrator"
  /\ Statement(p, revokeSensor(command.id), [type |-> command.type, id |-> command.id])

DisconnectSensor(p) ==
  LET command == Current(p).command IN
  /\ Executes(p, Administrator!DISCONNECT_SENSOR) /\ p = "administrator"
  /\ Statement(p, disconnectSensor(command.id), [type |-> command.type, id |-> command.id])

\* generateToken until no row has the token, and initializeSensor
GenerateToken(p) ==
  /\ Executes(p, Administrator!GENERATE_TOKEN) /\ p = "administrator"
  /\ \E s \in Sensors :
       Statement(p, Table!Create(s) /\ UNCHANGED name,
                 [type |-> Administrator!GENERATE_TOKEN, token |-> Token[s]])

\* The connected sensors with a measurement, and the last one; a sensor has no other in
\* the second of its last, which would have given it a row more.
MonitoredRow(s) == [id |-> s, name |-> name[s], ip |-> Address[s].ip, port |-> Address[s].port,
                    current |-> Last(Recorded[s]).value]

getAllSensorsWithMeasurements ==
  LET S == {s \in Sensors : status[s] = "ACTIVE" /\ Recorded[s] # <<>>} IN
  [i \in 1 .. Cardinality(S) |-> MonitoredRow(Rows(S)[i])]

\* getLastHour, getLastDay, getLastMonth: the averages of the minutes, hours or
\* days in the span.  Every recorded measurement here is alone in its minute, hour
\* and day; its age says how long a span it takes to reach it (3: none does).
Since(id, span) ==
  LET recent == SelectSeq(Recorded[id], LAMBDA m : m.age <= span) IN
  [i \in DOMAIN recent |-> [value |-> recent[i].value, label |-> recent[i].label]]

\* What the tables hold of names, addresses, tokens and measurements: numbers are ints
\* and texts ASCII.  An address has 15 characters at most and a token 15, a label is
\* a date, and a span of minutes, hours or days has few averages.
ASSUME TablesAssumption ==
  /\ Cardinality(Sensors) <= LongestList /\ FirstName \in Short
  /\ \A s \in Sensors :
       /\ Address[s].ip \in Short /\ Address[s].port \in Int32 /\ Token[s] \in Short
       /\ Recorded[s] # <<>> => Last(Recorded[s]).value \in Int32
       /\ \A span \in 0 .. 2 :
            /\ Since(s, span) \in Seq([value : Int32, label : Short])
            /\ Len(Since(s, span)) <= LongestList

GetAllSensorsMonitoring(p) ==
  /\ Executes(p, Monitoring!GET_ALL_SENSORS_MONITORING) /\ p = "monitoring"
  /\ Statement(p, UNCHANGED table, [type |-> Monitoring!GET_ALL_SENSORS_MONITORING,
                                    sensors |-> getAllSensorsWithMeasurements])

GetSetOfMeasurements(p) ==
  LET command == Current(p).command IN
  /\ Executes(p, Monitoring!GET_SET_OF_MEASUREMENTS) /\ p = "monitoring"
  /\ Statement(p, UNCHANGED table, [type |-> command.type, id |-> command.id,
                                    measurements |-> Since(command.id, command.span)])

Execute(p) ==
  \/ GetAllSensors(p) \/ UpdateSensorName(p) \/ RevokeSensor(p) \/ DisconnectSensor(p)
  \/ GenerateToken(p) \/ GetAllSensorsMonitoring(p) \/ GetSetOfMeasurements(p)

-----------------------------------------------------------------------------
(* The senders: sendAdministratorResponse and sendMonitoringResponse *)

TakeResponse(p) ==
  /\ MayTake(p, "sender", responses[p])
  /\ hand' = [hand EXCEPT ![p] = front(responses[p])]
  /\ responses' = [responses EXCEPT ![p] = pop(@)]
  /\ pc' = [pc EXCEPT ![p]["sender"] = "check"]
  /\ UNCHANGED <<table, socket, out, requests, quit, port, history>>

\* addOutMsg drops a message for a free slot, ...
CheckSlot(p) ==
  /\ pc[p]["sender"] = "check"
  /\ IF socket[p][hand[p].client] = NoConnection
     THEN pc' = [pc EXCEPT ![p]["sender"] = "pop"] /\ hand' = [hand EXCEPT ![p] = NoResponse]
     ELSE pc' = [pc EXCEPT ![p]["sender"] = "flush"] /\ UNCHANGED hand
  /\ UNCHANGED <<table, socket, out, requests, responses, quit, port, history>>

\* Fault: what has been sent stays in the buffer.
DeliverAgain(p, i, sent) ==
  /\ out' = [out EXCEPT ![p][i] = sent]
  /\ IF socket[p][i] = NoConnection THEN UNCHANGED got
     ELSE got' = [got EXCEPT ![socket[p][i]] = @ \o sent]

\* ... and for any other fills the outBuffer and sends it whole to the connection
\* in the slot by now, if there is one.
Deliver(p, i, sent) ==
  IF socket[p][i] = NoConnection
  THEN out' = [out EXCEPT ![p][i] = sent] /\ UNCHANGED got
  ELSE /\ out' = [out EXCEPT ![p][i] = <<>>]
       /\ got' = [got EXCEPT ![socket[p][i]] = @ \o sent]

Flush(p) ==
  LET i == hand[p].client IN
  /\ pc[p]["sender"] = "flush"
  /\ Deliver(p, i, Append(out[p][i], hand[p]))
  /\ hand' = [hand EXCEPT ![p] = NoResponse]
  /\ pc' = [pc EXCEPT ![p]["sender"] = "pop"]
  /\ UNCHANGED <<table, socket, requests, responses, quit, port, asked, raised, dbErrors>>

\* trySend of the network loop
SendPending(p, i) ==
  /\ socket[p][i] # NoConnection /\ out[p][i] # <<>>
  /\ Deliver(p, i, out[p][i])
  /\ UNCHANGED <<table, socket, requests, responses, pc, hand, quit, port, asked, raised, dbErrors>>

-----------------------------------------------------------------------------

\* The sensors' executor, as the server promises it
SensorsComeAndGo ==
  /\ \E s \in Mobile : Table!Activate(s) \/ Table!Deactivate(s)
  /\ UNCHANGED <<name, socket, out, requests, responses, pc, hand, quit, port, history>>

Executor(p) == Execute(p) \/ SleepExecutor(p) \/ End(p, "executor")

Sender(p) ==
  TakeResponse(p) \/ CheckSlot(p) \/ Flush(p) \/ SleepSender(p) \/ End(p, "sender")

Next ==
  \/ \E c \in Connections : \/ Close(c) \/ \E p \in Ports : Accept(c, p)
                            \/ Open(c) /\ \E command \in Asks[port[c]] : Ask(c, command)
  \/ \E p \in Ports : Executor(p) \/ Sender(p) \/ \E i \in Slots : SendPending(p, i)
  \/ SensorsComeAndGo \/ Quit

\* The four threads run; clients, sensors and the operator are free.
Spec ==
  /\ Init /\ [][Next]_vars
  /\ \A p \in Ports : WF_vars(Executor(p)) /\ WF_vars(Sender(p))

-----------------------------------------------------------------------------
(* Properties *)

Requests(p) == [client : Slots, from : Connections, n : 1 .. MaxAsked, command : Asks[p]]

ResponseOK(p, r) ==
  r.client \in Slots /\ r.from \in Connections /\ port[r.from] = p /\ r.n \in 1 .. MaxAsked

\* The type invariant: every variable holds a value of its kind.  A request holds a
\* command that some client can give, so the server has decoded what was meant.
TypeOK ==
  /\ status \in [Sensors -> Statuses] /\ name \in [Sensors -> Names \cup {FirstName}]
  /\ socket \in [Ports -> [Slots -> Connections \cup {NoConnection}]]
  /\ \A p \in Ports :
       /\ requests[p] \in [items : Seq(Requests(p)), waiting : SUBSET {"executor"}]
       /\ responses[p].waiting \subseteq {"sender"}
       /\ \A k \in DOMAIN responses[p].items : ResponseOK(p, responses[p].items[k])
       /\ \A i \in Slots : \A k \in DOMAIN out[p][i] : ResponseOK(p, out[p][i][k])
       /\ hand[p] = NoResponse \/ ResponseOK(p, hand[p])
       /\ pc[p]["executor"] \in {"pop", "inside", "ended"}
       /\ pc[p]["sender"] \in {"pop", "inside", "check", "flush", "ended"}
  /\ quit \in BOOLEAN /\ port \in [Connections -> Ports \cup {"none"}]
  /\ raised \subseteq Connections \X (1 .. MaxAsked) /\ dbErrors \in 0 .. MaxDbErrors

\* The command an answer is to
Asked(a) == asked[a.from][a.n].command

Answers(p, command, response) ==
  /\ response.type = command.type
  /\ "id" \in DOMAIN command => response.id = command.id
  /\ "span" \in DOMAIN command => response.measurements = Since(command.id, command.span)

\* Answers are given to the right commands, in their order and once each: each of the
\* kind that was asked for, about the sensor and the span that were named.  Neither
\* the commands nor the answers carry a number; all rests on two queues, the buffer of
\* a slot that others use too, and the bytes of the commands.
AnswersCorrect ==
  \A c \in Connections : \A k \in DOMAIN got[c] :
    LET a == got[c][k] IN
    a.from = c =>
      /\ a.n \in DOMAIN asked[c] /\ Answers(port[c], Asked(a), a.response)
      /\ \A l \in 1 .. (k - 1) : got[c][l].from = c => got[c][l].n < a.n

\* What a client shows of a response: as the server meant it, and the monitoring
\* client notes at every point whose it is.
Meant(response) ==
  IF "measurements" \in DOMAIN response
  THEN LET points == response.measurements
       IN  [type |-> response.type,
            measurements |-> [k \in DOMAIN points |->
              [id |-> response.id, value |-> points[k].value, label |-> points[k].label]]]
  ELSE response

\* A client reads from the bytes what the server has put there: ids, rows, tokens and
\* points, numbers of either sign and texts of any length, and nothing of a neighbour.
ShownAsMeant ==
  \A c \in Connections : \A k \in DOMAIN got[c] :
    ResponseRead(port[c], got[c][k].response) = Meant(got[c][k].response)

\* A client is shown an answer to somebody else's command only when that client is
\* gone: responses are addressed by slot and slots are used again.  That both are of one
\* port rests on Close being one step.
ForeignOnlyAfterReuse ==
  \A c \in Connections : \A k \in DOMAIN got[c] :
    LET d == got[c][k].from IN
    d # c => port[d] = port[c] /\ ~Open(d)

Listed(response) == {response.sensors[k].id : k \in DOMAIN response.sensors}
IsList(a) == "sensors" \in DOMAIN a.response

\* Once an administrator has been told that a sensor is revoked, nobody who asks
\* for a list after that, on either port, is shown the sensor.
RevocationVisible ==
  \A c \in Connections : \A k \in DOMAIN got[c] :
    LET a == got[c][k] IN
    a.from = c /\ IsList(a) => Listed(a.response) \cap asked[c][a.n].revoked = {}

\* The n-th command of d renames s; the m-th of c is the only one that does.
Renames(d, n, s) ==
  /\ port[d] = "administrator"
  /\ asked[d][n].command.type = Administrator!UPDATE_SENSOR_NAME /\ asked[d][n].command.id = s

OnlyRename(c, m, s) ==
  \A d \in Connections : \A n \in DOMAIN asked[d] : Renames(d, n, s) <=> d = c /\ n = m

\* An administrator who is told that a sensor was renamed sees the new name in any
\* later list, even one it had asked for before that answer, unless the sensor was
\* renamed by more than this one command.
RenameVisible ==
  \A c \in Connections : \A l \in DOMAIN got[c] : \A k \in 1 .. (l - 1) :
    LET a == got[c][k]
        b == got[c][l] IN
    (/\ a.from = c /\ b.from = c /\ IsList(b)
     /\ "id" \in DOMAIN a.response /\ OnlyRename(c, a.n, a.response.id)) =>
      \A i \in DOMAIN b.response.sensors :
        LET row == b.response.sensors[i] IN
        row.id = a.response.id => row.name = Asked(a).name

\* The queues of both ports, each with its one consumer
RequestQueue(p) == INSTANCE QueueThreads
  WITH queue <- requests[p], Consumers <- {"executor"}, Elements <- Requests(p)

ResponseQueue(p) == INSTANCE QueueThreads
  WITH queue <- responses[p], Consumers <- {"sender"}, Elements <- {}

\* No thread sleeps while its queue has something for it.
NoneStranded == \A p \in Ports : RequestQueue(p)!NoneStranded /\ ResponseQueue(p)!NoneStranded

\* Administrators change the table as SensorLifecycle allows while sensors come and
\* go: what a revocation ends stays ended.
TableSpec == Table!Spec

Answered(c, n) ==
  \/ \E k \in DOMAIN got[c] : got[c][k].from = c /\ got[c][k].n = n
  \/ <<c, n>> \in raised

\* Every command is answered, unless its connection ends, its statement raised or
\* the server stops: no thread sleeps through a push.
EveryCommandAnswered ==
  \A c \in Connections, n \in 1 .. MaxAsked :
    n \in DOMAIN asked[c] ~> (Answered(c, n) \/ ~Open(c) \/ quit)

\* After gotSignal every thread ends but those that sleep in pop(), which only
\* another command would wake: until then init() waits to join them.
QuitStopsBusy ==
  quit ~> \A p \in Ports :
    /\ pc[p]["executor"] = "ended" \/ "executor" \in requests[p].waiting
    /\ pc[p]["sender"] = "ended" \/ "sender" \in responses[p].waiting

=============================================================================
