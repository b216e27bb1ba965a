---------------------------- MODULE ConsoleClient ----------------------------
(***************************************************************************)
(* The Java clients: the administrator's panel and the monitoring panel.   *)
(* Three threads share the state of either: JavaFX runs the handlers of    *)
(* clicks and what the others passed to runLater(), a timer asks for the   *)
(* list of sensors, and netty reads responses.  The server at the other    *)
(* end answers in order, as ResponsePath shows it does: all commands but   *)
(* those whose statement raises, and after the answers that were left over *)
(* for whoever had the connection's slot before.                           *)
(***************************************************************************)
EXTENDS Integers, SequencesExt, FiniteSetsExt, Functions

CONSTANTS
  Ids,           \* the sensors' ids
  None,          \* null
  Spans,         \* the spans of measurements to choose from
  MaxCommands,   \* bound: MaxCommands[p], clicks that give commands, by panel
  MaxChanges,    \* bound: answers to the slot's client before, commands that raise
                 \* and what happens to sensors meanwhile, in all
  MaxInFlight    \* bound: what is under way when the timer ticks

ASSUME ConsoleAssumption ==
  /\ None \notin Ids
  /\ MaxCommands \in [{"administrator", "monitoring"} -> Nat]
  /\ MaxChanges \in Nat /\ MaxInFlight \in Nat \ {0}

VARIABLES
  panel,          \* "administrator" or "monitoring"
  app,            \* "running", "alert" while isConnectionEstablished() shows its
                  \* alert, or "closed"
  alerted,        \* Controller.alertOccurred
  ready,          \* CommunicationManager.connectionReady
  active,         \* ClientHandler.ctx is set
  link,           \* the channel: "none", "up", "closed" by the server or "failed"
  bufferedMessages,
  toServer, toClient,  \* on their way over the channel
  buffer, split,  \* ClientHandler.buffer: whole responses, and a part of the next?
  later,          \* what waits in runLater()
  sensors,        \* the model's sensors, by id
  rows,           \* the items of sensorsTable, by id
  current,        \* the model's current sensor: an id, or the Sensor itself
  details,        \* the sensor the labels describe
  enabled,        \* the buttons that need a sensor
  editing,        \* isNameEditing
  measurementsType, measurements,
  chart,          \* the data lineChart shows and the span in its title
  table,          \* the sensors, as the server lists them
  given, changes,
  dropped         \* how many commands raised

model == <<sensors, current>>
view == <<rows, details, enabled, editing, chart>>
data == <<measurementsType, measurements>>
channel == <<link, toServer, toClient, buffer, split>>
bounds == <<given, changes, dropped>>
vars == <<panel, app, alerted, ready, active, channel, bufferedMessages, later, model, view, data,
          table, bounds>>

Row == IF panel = "administrator" THEN [name : {"old", "new"}, connected : BOOLEAN]
       ELSE [value : {0, 1}]
Lists == UNION {[S -> Row] : S \in SUBSET Ids}
NoChart == [data |-> None, title |-> None]

List == [type |-> "list"]

\* What a panel asks for
PanelCommands ==
  IF panel = "administrator"
  THEN {List, [type |-> "token"]} \cup [type : {"revoke", "disconnect", "rename"}, id : Ids]
  ELSE {List} \cup [type : {"data"}, id : Ids, span : Spans]

Answer(command) == IF command.type = "list" THEN [type |-> "list", sensors |-> table] ELSE command

\* initialize(): run() connects and says whether it could, the timer starts.  Answers to
\* commands of whoever had the slot before come first: the server had them before it
\* accepted this connection.
Init ==
  /\ panel \in {"administrator", "monitoring"} /\ app = "running" /\ alerted = FALSE
  /\ ready \in BOOLEAN /\ active = FALSE /\ link = IF ready THEN "up" ELSE "none"
  /\ bufferedMessages = <<>> /\ toServer = <<>>
  /\ buffer = <<>> /\ split = FALSE /\ later = <<>>
  /\ sensors = <<>> /\ rows = <<>> /\ current = None /\ details = None
  /\ enabled = FALSE /\ editing = FALSE
  /\ measurementsType = None /\ measurements = None /\ chart = NoChart
  /\ table \in [Ids -> {IF panel = "administrator" THEN [name |-> "old", connected |-> TRUE]
                        ELSE [value |-> 0]}]
  /\ toClient \in SeqOf({Answer(command) : command \in PanelCommands},
                         IF ready THEN MaxChanges ELSE 0)
  /\ given = 0 /\ changes = Len(toClient) /\ dropped = 0

-----------------------------------------------------------------------------
(* Sending: CommunicationManager and ClientHandler *)

\* sendMessage() of one command after the other.  Without ctx the first throws, and
\* what is written to a channel that is no more is lost.
Send(messages) ==
  IF ~ready
  THEN bufferedMessages' = bufferedMessages \o messages /\ UNCHANGED toServer
  ELSE IF ~active THEN UNCHANGED <<bufferedMessages, toServer>>
  ELSE /\ bufferedMessages' = <<>>
       /\ toServer' = IF link = "up" THEN toServer \o bufferedMessages \o messages ELSE toServer

\* Fault: a channel that is no more throws.
closeAppOver ==
  IF bufferedMessages # <<>> /\ link # "up"
  THEN /\ bufferedMessages' = Tail(bufferedMessages) /\ app' = "running"
       /\ UNCHANGED toServer
  ELSE /\ bufferedMessages' = <<>> /\ app' = "closed" /\ UNCHANGED toServer

\* closeApp(): closeConnection() sends what is buffered, and exit.  Without ctx it
\* throws, and the application goes on.
closeApp ==
  IF (bufferedMessages # <<>> \/ ready) /\ ~active
  THEN /\ bufferedMessages' = IF bufferedMessages = <<>> THEN <<>> ELSE Tail(bufferedMessages)
       /\ app' = "running" /\ UNCHANGED toServer
  ELSE /\ bufferedMessages' = <<>> /\ app' = "closed"
       /\ toServer' = IF link = "up" THEN toServer \o bufferedMessages ELSE toServer

-----------------------------------------------------------------------------
(* JavaFX: the clicks *)

Click ==
  /\ app = "running"
  /\ UNCHANGED <<panel, app, alerted, ready, active, link, toClient, buffer, split, later,
                 table, changes, dropped>>

ClickSelects == Click /\ UNCHANGED given

ClickCommands == Click /\ given < MaxCommands[panel] /\ given' = given + 1

\* Fault: the details of the sensor before stay until there are new ones.
SelectOver(s) ==
  /\ panel = "administrator" /\ s \in DOMAIN rows /\ ClickSelects
  /\ editing' = FALSE /\ current' = s
  /\ IF s \in DOMAIN sensors THEN details' = s /\ enabled' = TRUE ELSE UNCHANGED <<details, enabled>>
  /\ UNCHANGED <<sensors, rows, chart, data, bufferedMessages, toServer>>

\* tableClicked() clears the details before displaySensorDetails(), which throws
\* when the row's sensor has left the model.
SelectSensor(s) ==
  /\ panel = "administrator" /\ s \in DOMAIN rows /\ ClickSelects
  /\ editing' = FALSE /\ current' = s
  /\ IF s \in DOMAIN sensors THEN details' = s /\ enabled' = TRUE
     ELSE details' = None /\ enabled' = FALSE
  /\ UNCHANGED <<sensors, rows, chart, data, bufferedMessages, toServer>>

addNewSensorClicked ==
  /\ panel = "administrator" /\ ClickCommands
  /\ Send(<< [type |-> "token"] >>)
  /\ UNCHANGED <<model, view, data>>

\* revokeClicked and disconnectClicked; the latter's button needs a connected sensor,
\* as the view last knew it.
CommandClicked(type) ==
  /\ panel = "administrator" /\ enabled /\ current # None /\ ClickCommands
  /\ Send(<< [type |-> type, id |-> current], List >>)
  /\ UNCHANGED <<model, view, data>>

\* editNameClicked() at first: throws when the sensor has left the model.
EditName ==
  /\ panel = "administrator" /\ enabled /\ ~editing /\ ClickSelects
  /\ editing' = (current \in DOMAIN sensors)
  /\ UNCHANGED <<model, rows, details, enabled, chart, data, bufferedMessages, toServer>>

\* A click on the table, or an empty name, ends that and changes nothing.
StopEditing ==
  /\ panel = "administrator" /\ editing /\ ClickSelects
  /\ editing' = FALSE
  /\ UNCHANGED <<model, rows, details, enabled, chart, data, bufferedMessages, toServer>>

\* The second time the name is changed here and then on the server.
SaveName ==
  /\ panel = "administrator" /\ enabled /\ editing /\ ClickCommands
  /\ IF current \in DOMAIN sensors
     THEN /\ sensors' = [sensors EXCEPT ![current].name = "new"]
          /\ rows' = sensors'
          /\ Send(<< [type |-> "rename", id |-> current] >>)
          /\ editing' = FALSE
     ELSE UNCHANGED <<sensors, rows, bufferedMessages, toServer, editing>>
  /\ UNCHANGED <<current, details, enabled, chart, data>>

\* The monitoring panel keeps the Sensor it finds, if it does.
SensorOf(s) == [id |-> s, row |-> sensors[s]]

\* Fault: the row clicked stands for a sensor that is not found.
SelectRow(s) ==
  /\ panel = "monitoring" /\ s \in DOMAIN rows /\ ClickSelects
  /\ current' = IF s \in DOMAIN sensors THEN SensorOf(s) ELSE [id |-> s, row |-> None]
  /\ enabled' = TRUE
  /\ UNCHANGED <<sensors, rows, details, editing, chart, data, bufferedMessages, toServer>>

SelectMonitored(s) ==
  /\ panel = "monitoring" /\ s \in DOMAIN rows /\ ClickSelects
  /\ current' = IF s \in DOMAIN sensors THEN SensorOf(s) ELSE None
  /\ enabled' = TRUE
  /\ UNCHANGED <<sensors, rows, details, editing, chart, data, bufferedMessages, toServer>>

\* Fault: the span asked for is not kept for the title.
LoadUntitled(span) ==
  /\ panel = "monitoring" /\ enabled /\ ClickCommands
  /\ IF current = None
     THEN enabled' = FALSE /\ UNCHANGED <<bufferedMessages, toServer, measurementsType>>
     ELSE /\ Send(<< [type |-> "data", id |-> current.id, span |-> span] >>)
          /\ measurementsType' = IF measurementsType = None THEN span ELSE measurementsType
          /\ UNCHANGED enabled
  /\ UNCHANGED <<model, rows, details, editing, chart, measurements>>

LoadData(span) ==
  /\ panel = "monitoring" /\ enabled /\ ClickCommands
  /\ IF current = None
     THEN enabled' = FALSE /\ UNCHANGED <<bufferedMessages, toServer, measurementsType>>
     ELSE /\ Send(<< [type |-> "data", id |-> current.id, span |-> span] >>)
          /\ measurementsType' = span
          /\ UNCHANGED enabled
  /\ UNCHANGED <<model, rows, details, editing, chart, measurements>>

\* The window is closed, or the alert of isConnectionEstablished() dismissed.
Close ==
  /\ app # "closed" /\ closeApp
  /\ UNCHANGED <<panel, alerted, ready, active, link, toClient, buffer, split, later, model, view,
                 data, table, bounds>>

-----------------------------------------------------------------------------
(* JavaFX: what came by runLater() *)

RunsLater(task) ==
  /\ app # "closed" /\ later # <<>> /\ Head(later) = task /\ later' = Tail(later)
  /\ UNCHANGED <<panel, ready, active, link, toClient, buffer, split, table, bounds>>

sendRequestGetAllSensors ==
  /\ RunsLater("list") /\ Send(<< List >>)
  /\ UNCHANGED <<app, alerted, model, view, data>>

isConnectionEstablished ==
  /\ RunsLater("check")
  /\ IF ~ready /\ ~alerted THEN alerted' = TRUE /\ app' = "alert" ELSE UNCHANGED <<alerted, app>>
  /\ UNCHANGED <<bufferedMessages, toServer, model, view, data>>

\* Fault: the table is not refreshed with the details.
refreshDetails ==
  /\ RunsLater("refresh")
  /\ IF current \in DOMAIN sensors THEN details' = current /\ enabled' = TRUE
     ELSE details' = None /\ enabled' = FALSE
  /\ UNCHANGED <<rows, app, alerted, bufferedMessages, toServer, model, editing, chart, data>>

refreshAllViews ==
  /\ RunsLater("refresh")
  /\ IF current \in DOMAIN sensors THEN details' = current /\ enabled' = TRUE
     ELSE details' = None /\ enabled' = FALSE
  /\ rows' = sensors
  /\ UNCHANGED <<app, alerted, bufferedMessages, toServer, model, editing, chart, data>>

displayToken ==
  /\ RunsLater("token")
  /\ UNCHANGED <<app, alerted, bufferedMessages, toServer, model, view, data>>

showData ==
  /\ RunsLater("data")
  /\ chart' = [data |-> measurements, title |-> measurementsType]
  /\ UNCHANGED <<rows, details, enabled, editing, app, alerted, bufferedMessages, toServer, model,
                 data>>

RunLater ==
  sendRequestGetAllSensors \/ isConnectionEstablished \/ refreshAllViews \/ displayToken \/ showData

-----------------------------------------------------------------------------
(* The timer *)

InFlight == Len(later) + (IF link = "up" THEN Len(toServer) ELSE 0) + Len(toClient) + Len(buffer)

Tick ==
  /\ app # "closed" /\ InFlight < MaxInFlight
  /\ later' = Append(later, IF ready THEN "list" ELSE "check")
  /\ UNCHANGED <<panel, app, alerted, ready, active, channel, bufferedMessages, model, view, data,
                 table, bounds>>

-----------------------------------------------------------------------------
(* Netty *)

Netty ==
  /\ app # "closed"
  /\ UNCHANGED <<panel, app, alerted, bufferedMessages, toServer, editing, details, chart,
                 measurementsType, table, bounds>>

\* channelActive, some time after connect() has returned
channelActive ==
  /\ Netty /\ link = "up" /\ ~active /\ active' = TRUE
  /\ UNCHANGED <<ready, link, toClient, buffer, split, later, model, rows, enabled, measurements>>

\* channelRead0: bytes arrive in whatever pieces, so the last response may come in part.
channelRead ==
  /\ Netty /\ link \in {"up", "closed"} /\ active /\ buffer = <<>> /\ ~split
  /\ \E n \in 0 .. Len(toClient) :
       /\ buffer' = SubSeq(toClient, 1, n)
       /\ split' \in {n < Len(toClient) /\ part : part \in BOOLEAN}
       /\ buffer' # <<>> \/ split'
       /\ toClient' = SubSeq(toClient, n + 1, Len(toClient))
  /\ UNCHANGED <<ready, active, link, later, model, rows, enabled, measurements>>

Analyze(type) ==
  /\ Netty /\ buffer # <<>> /\ Head(buffer).type = type /\ buffer' = Tail(buffer)
  /\ UNCHANGED <<ready, active, link, toClient, split>>

executeResponseGetAllSensors ==
  /\ panel = "administrator" /\ Analyze("list")
  /\ sensors' = Head(buffer).sensors /\ later' = Append(later, "refresh")
  /\ UNCHANGED <<current, rows, enabled, measurements>>

\* The monitoring panel refreshes its table on this thread, ...
executeResponseGetAllMonitored ==
  /\ panel = "monitoring" /\ Netty /\ buffer # <<>> /\ Head(buffer).type = "list"
  /\ buffer' = << [type |-> "refresh"] >> \o Tail(buffer)
  /\ sensors' = Head(buffer).sensors
  /\ UNCHANGED <<ready, active, link, toClient, split, later, current, rows, enabled, measurements>>

\* ... and drops a selection that is not among the new sensors as it was, measurement
\* and all.  That JavaFX may run between the two is left out.
refreshSensorTable ==
  /\ Analyze("refresh")
  /\ rows' = sensors
  /\ IF current = None \/ current.id \notin DOMAIN sensors \/ sensors[current.id] # current.row
     THEN current' = None /\ enabled' = FALSE ELSE UNCHANGED <<current, enabled>>
  /\ UNCHANGED <<sensors, later, measurements>>

\* The responses to revocations and disconnections are only logged.
executeResponse ==
  \/ Analyze("revoke") /\ UNCHANGED <<later, model, rows, enabled, measurements>>
  \/ Analyze("disconnect") /\ UNCHANGED <<later, model, rows, enabled, measurements>>
  \/ Analyze("rename") /\ later' = Append(later, "refresh")
       /\ UNCHANGED <<model, rows, enabled, measurements>>
  \/ Analyze("token") /\ later' = Append(later, "token")
       /\ UNCHANGED <<model, rows, enabled, measurements>>

executeResponseGetSetOfMeasurements ==
  /\ Analyze("data")
  /\ measurements' = [id |-> Head(buffer).id, span |-> Head(buffer).span]
  /\ later' = Append(later, "data")
  /\ UNCHANGED <<model, rows, enabled>>

\* Fault: the exception is only logged.
exceptionLogged ==
  /\ Netty /\ buffer = <<>> /\ split
  /\ link' = "failed" /\ split' = FALSE /\ toClient' = <<>>
  /\ UNCHANGED <<ready, active, buffer, later, model, rows, enabled, measurements>>

\* analyzeBuffer() wants whole responses and throws at a part.
exceptionCaught ==
  /\ Netty /\ buffer = <<>> /\ split
  /\ ready' = FALSE /\ link' = "failed" /\ split' = FALSE /\ toClient' = <<>>
  /\ UNCHANGED <<active, buffer, later, model, rows, enabled, measurements>>

Reader ==
  \/ channelActive \/ channelRead \/ executeResponseGetAllSensors
  \/ executeResponseGetAllMonitored \/ refreshSensorTable \/ executeResponse
  \/ executeResponseGetSetOfMeasurements
  \/ exceptionCaught

-----------------------------------------------------------------------------
(* The server and its sensors *)

Served(command) ==
  CASE command.type = "rename" /\ command.id \in DOMAIN table ->
         [table EXCEPT ![command.id].name = "new"]
    [] command.type = "disconnect" /\ command.id \in DOMAIN table ->
         [table EXCEPT ![command.id].connected = FALSE]
    [] command.type = "revoke" -> Restrict(table, DOMAIN table \ {command.id})
    [] OTHER -> table

Serve ==
  /\ link = "up" /\ toServer # <<>>
  /\ table' = Served(Head(toServer))
  /\ toServer' = Tail(toServer) /\ toClient' = Append(toClient, Answer(Head(toServer)))
  /\ UNCHANGED <<panel, app, alerted, ready, active, link, buffer, split, bufferedMessages, later,
                 model, view, data, bounds>>

\* A statement raises, having changed the table or not: nobody answers.
Drop ==
  /\ link = "up" /\ toServer # <<>> /\ dropped' = dropped + 1
  /\ changes < MaxChanges /\ changes' = changes + 1
  /\ table' \in {table, Served(Head(toServer))}
  /\ toServer' = Tail(toServer)
  /\ UNCHANGED <<panel, app, alerted, ready, active, link, toClient, buffer, split,
                 bufferedMessages, later, model, view, data, given>>

\* A sensor leaves the list, or its row changes.
SensorChanges ==
  /\ changes < MaxChanges /\ changes' = changes + 1
  /\ \E s \in DOMAIN table :
       \/ table' = Restrict(table, DOMAIN table \ {s})
       \/ panel = "administrator" /\ table' = [table EXCEPT ![s].connected = ~@]
       \/ panel = "monitoring" /\ table' = [table EXCEPT ![s].value = 1 - @]
  /\ UNCHANGED <<panel, app, alerted, ready, active, channel, bufferedMessages, later, model, view,
                 data, given, dropped>>

\* The server closes: nothing in the handler looks for that.  Or the connection is
\* reset, which is an exception.
LinkEnds ==
  /\ link = "up" /\ toServer' = <<>>
  /\ \/ link' = "closed" /\ UNCHANGED <<ready, toClient>>
     \/ active /\ link' = "failed" /\ ready' = FALSE /\ toClient' = <<>>
  /\ UNCHANGED <<panel, app, alerted, active, buffer, split, bufferedMessages, later, model, view,
                 data, table, bounds>>

-----------------------------------------------------------------------------

Clicked ==
  \/ \E s \in Ids : SelectSensor(s) \/ SelectMonitored(s)
  \/ addNewSensorClicked \/ CommandClicked("revoke") \/ CommandClicked("disconnect")
  \/ EditName \/ StopEditing \/ SaveName \/ (\E span \in Spans : LoadData(span)) \/ Close

Next == Clicked \/ RunLater \/ Tick \/ Reader \/ Serve \/ Drop \/ SensorChanges \/ LinkEnds

\* The three threads and the server run; whoever clicks is free.
Spec ==
  /\ Init /\ [][Next]_vars
  /\ WF_vars(RunLater) /\ WF_vars(Tick) /\ WF_vars(Reader) /\ WF_vars(Serve)

-----------------------------------------------------------------------------
(* Properties *)

Commands ==
  {List, [type |-> "token"]} \cup [type : {"revoke", "disconnect", "rename"}, id : Ids]
    \cup [type : {"data"}, id : Ids, span : Spans]

Points == [id : Ids, span : Spans] \cup {None}

\* The type invariant
TypeOK ==
  /\ app \in {"running", "alert", "closed"} /\ ready \in BOOLEAN /\ active \in BOOLEAN
  /\ link \in {"none", "up", "closed", "failed"}
  /\ bufferedMessages \in Seq(Commands) /\ toServer \in Seq(Commands)
  /\ later \in Seq({"list", "check", "refresh", "token", "data"})
  /\ sensors \in Lists /\ rows \in Lists /\ table \in Lists
  /\ details \in Ids \cup {None} /\ enabled \in BOOLEAN /\ editing \in BOOLEAN
  /\ current \in IF panel = "administrator" THEN Ids \cup {None}
                 ELSE [id : Ids, row : Row] \cup {None}
  /\ measurementsType \in Spans \cup {None} /\ measurements \in Points
  /\ chart \in [data : Points, title : Spans \cup {None}]

\* The administrator's buttons work on the sensor whose details are shown, whatever
\* netty has done to the model since and whatever rows were clicked that are no more.
ButtonsAgree == (panel = "administrator" /\ enabled) => (current # None /\ details = current)

DataUnderWay ==
  \/ \E queue \in {bufferedMessages, toServer, toClient, buffer} :
       \E k \in DOMAIN queue : queue[k].type = "data"
  \/ "data" \in ToSet(later)

\* The title of the chart names the span of the data under it, once every request
\* has had its answer, although the span is taken from the last request and the data
\* from the last answer, whoever that was for.  It does not if a request raised, nor
\* for somebody else's data before anything was asked for.
ChartAgrees ==
  (/\ link = "up" /\ ~DataUnderWay /\ dropped = 0
   /\ measurementsType # None /\ chart # NoChart) => chart.title = chart.data.span

\* The application goes on after its alert only when it never had a connection, and
\* commands were given all the same.
GoesOnUnconnected == (alerted /\ app = "running") => (~active /\ given > 0)

\* The table comes to show what the server lists, as long as there is a connection:
\* renames made here first, rows of sensors that are gone, lists that crossed a
\* command, commands the server dropped and answers that were meant for others all
\* give way to the timer's next list.
ViewConverges == <>[](rows = table \/ link # "up" \/ ~ready \/ app = "closed")

\* A connection that could not be made, that was reset, or that delivered a response
\* in two parts is reported to the user.
FailureAlerts == link \in {"none", "failed"} ~> (alerted \/ app = "closed")

=============================================================================
