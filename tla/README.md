# SensorManager in TLA+

SensorManager collects measurements from sensors. A C++ server accepts sensors,
administrators and monitoring clients on three ports and keeps its data in an Oracle
database; a C++ program runs on each sensor; two Java programs are the administrator's and
the monitoring client. This directory specifies the server and the three clients in TLA+, checks
them with TLC and proves their invariants - of the server's three ports, its queues, the sensor, both
consoles and the messages between them - with TLAPS.

## 1. The system

| Component | State | Operations | Talks to |
|---|---|---|---|
| Network loop (`Common/ClientsHandler`) - one thread per port | 100 client slots (socket, in and out buffer, listener), `freeHandler`, the two fd_sets | accept, receive, send, disconnect; `send` and `disconnectClient` are called by other threads too | listener (callbacks) |
| `SensorListener`, `AdministratorListener`, `MonitoringListener` | none | parse a message, push a request | queues of `ServerModel` |
| Executor of sensor requests (`ServerModel`) | `clientToSensorId`, `sensorToClientId` (shared) | measurement, connected (token), disconnected | database, network loop |
| Executor of administrator commands (`ServerModel`) | `sensorToClientId` (shared) | list, rename, revoke, disconnect, generate a token | database, network loop, response queue |
| Executor of monitoring requests, two response senders | none | list, hour/day/month queries; serialise and send | database, network loop |
| `Queue` | FIFO, mutex, condition variable | push, pop | between the above |
| Database (`DatabaseConnection`) | tables SENSORS, MEASUREMENTS | statements, each committed | Oracle |
| Sensor client (`SensorClient`) | token, clock offset, one `ClientsHandler` in client mode | connect and reconnect, send token, send measurements, obey 'r' | server |
| Administrator and monitoring client (Java) | message buffer, frame buffer, table of sensors | commands, responses | server |

A sensor's session: it connects and gets a slot; it sends `i` + token; the listener queues a
`SensorOnConnectedRequest` with the *slot number*; the executor checks the token in the
table, looks whether the sensor is already active in `sensorToClientId`, sets the row ACTIVE,
enters both maps and answers `a`. Measurements (`m`) are acknowledged (`1`) by the network
thread and stored by the executor for the sensor that `clientToSensorId` names. When the
connection ends, the listener queues a `SensorOnDisconnectedRequest`. A refused sensor, or one
an administrator revokes or disconnects, gets `r` + reason and its slot is closed - by the
executor, from outside the network thread.

What is hard here: three threads share the slots and the two maps and no lock spans more than
one operation; requests and answers name slots, and slots are used again; sockets are
closed under the network thread's feet; an exception in the loop ends the service of all
sensors; a failing statement drops a request. `PROJECT.json` lists these hazards with
their lines.

What makes each component correct:
 * network loop: a slot in use is not given away; every open connection is in one slot that has
   a listener; `select` gets only open descriptors; every end of a connection is reported once;
 * sensor executor: the maps agree; a token is in use over one slot; a measurement is stored
   for the sensor that sent it; each token is answered;
 * administrator executor: a command reaches the sensor it names and no other;
 * table: revocation is final; ACTIVE matches the registry;
 * queue: no lost wake-up, and answers in the order of their commands;
 * responses: each goes to who asked, says what was done and arrives as it was meant, and none is
   forgotten while its client stays;
 * sensor client: the token is the first message of a connection, measurements are sent once and in
   order, a rejected sensor ends;
 * Java clients: buttons and chart belong to what is shown, the table comes to show what the server
   lists, a failed connection is reported.

## 2. Modules

    SensorLifecycle            what the server promises about a row of SENSORS
        ^ implemented by
    SensorServer               network loop + two executors + table (sensor port)
        ^ extended by
    MCSensorServer             for TLC: symmetry
    SensorServerProofs         types; lemmas on getFreeHandler, send, disconnect
    SensorRegistryProofs       maps, lifecycle refinement, status
    SensorConnectionProofs     slots and connections, sessions and the order of requests

    QueueThreads               a Queue<T> with any producers and consumers
        | uses                     ^ extended by QueueProofs
    Queue                      push, pop, notify_one as operators
        ^ extended by
    ResponsePath               administrator's and monitoring port: request, executor,
        |                      response, sender; uses SensorLifecycle, QueueThreads
        |                      (MCResponsePath for TLC, ResponsePathProofs)
        | extends
    Messages                   what is meant <-> bytes in a frame <-> what is read (MessagesProofs)
        | instantiates
    AdministratorCodec, MonitoringCodec
        ^ extend MessageFields, which extends Bytes

    Framing                    frames on a stream in pieces, the reader recvData
        ^ instantiated by
    SensorClient               both threads of a sensor + its connection (MCSensorClient)
        ^ extended by SensorClientProofs

    ConsoleClient              both Java panels: JavaFX, timer and netty threads (MCConsoleClient)
        ^ extended by ConsoleClientProofs

`ResponsePath` and `SensorServer` are two halves of one server that meet in the table and in
`sensorToClientId`: each half has the other's effect on the table by the promise `SensorLifecycle`,
which both are shown to keep (`LifecycleSpec`, `TableSpec`). The server at the other end of
`SensorClient` and of `ConsoleClient` is an environment that does what the server's modules say a
client may see: it may close at any time; it answers in order (`AnswersCorrect`), but for commands whose
statement raises, and may first send answers that were meant for whoever had the slot before
(`ForeignOnlyAfterReuse`).

### SensorServer

| Model | Code |
|---|---|
| `socket[i]`, `listener[i]`, `out[i]` | fields of `ClientsHandler::Client` i; `NoConnection` is -1 |
| `open`, `accepted` | descriptors the process holds, connections accepted so far |
| `queue` | `ServerModel::sensorRequestsQueue` |
| `clientToSensorId`, `sensorToClientId` | the `unordered_map`s; `NoSensor`, `NoSlot` for "not there" |
| `status` | column STATUS |
| `freeHandler`, `readyIn`, `readyOut` | the fields of `ClientsHandler` |
| `cursor`, `resume` | position of the loops of `tryRecv` and `trySend` |
| `pc`, `request`, `message` | where each thread is and its local variables |

Threads are `"network"`, `"executor"` (sensor requests) and `"admin"`. An action is one
operation on shared state, so all interleavings of the threads at such operations are
explored:

| Actions | Code |
|---|---|
| `Prepare`, `Select`, `Accept`, `AcceptFails` | `startHandling`, `setReadyHandlers`, `trySelect`, `tryAccept`, `bindHandler` |
| `ReceiveInit`, `ReceiveMeasure`, `ReceiveUnknown`, `ReceiveEnd`, `ReceiveBadLength`, `Enqueue` | `tryRecv`, `recvData`, `gotMsg` and `SensorListener` |
| `SendPending`, `SendNothing` | `trySend` |
| `Check`, `Insert`, `Flush` (any thread) | `send` -> `addOutMsg` -> `sendData` |
| `DisconnectClient`, `Release`, `Clear`, `Report` (any thread) | `disconnectClient` -> `disconnectHandler` -> `reset` -> `onClientDisconnected` |
| `ExecuteConnected`, `CheckActive`, `AddSensor`, `Register` | `executeSensorRequest(SensorOnConnectedRequest)` |
| `ExecuteMeasurement`, `ExecuteDisconnected`, `EraseRegistration` | the other two `executeSensorRequest` |
| `GenerateToken`, `ExecuteCommand`, `LookUp`, `Respond` | `executeAdministratorRequests` |

What is merged, and why nothing is lost:
 * A sweep over the slots may skip any slot ("not ready"): which slots are ready is decided when
   the sweep reaches them, not at `select()`. Only the readiness of the accepting socket is
   decided there.
 * `recv` and the listener's parsing touch nothing another thread can see; they are one step. So are
   the failed `recv`/`send` and the `socket_close` that follows at once in the same thread, and the
   check and the close of `disconnectClient`.
 * `pop` and the first database step of a request are one step: no one else pops that queue.
 * The two insertions of `Register`, and the two erases, are one step each. No other thread reads
   `clientToSensorId`.
 * Messages are whole (`MAX_MSG`, partial reads and writes are framing, see the plan). `out` is the
   set of buffered messages. A send on a blocking socket takes everything or fails.
 * `Prepare` is one step. The code reads a slot's socket twice, in `isSomethingToRecv` and in `getSocket`
   (`ClientsHandler.cpp:337-346`); an executor's `reset` between the two is left out. It would have to come
   after an executor's close, after which the properties of the loop claim nothing.

What is assumed of the peers and the system:
 * A sensor presents one token per connection. The listener would take a second
   (`SensorListener.cpp:48-54`); the sensor client of this repository sends its token from
   `beforeFirstSend` only (`TokenFirst`).
 * A connection's descriptor number is not used again. POSIX gives the lowest free number, so a connection accepted
   between `socket_close` and `reset` (`ClientsHandler.cpp:427-429`), on any port, may get the number that
   the slot still holds, and a sender of the slot then writes to it. The models have no such mixing of
   peers, and `ForeignOnlyAfterReuse` (its "same port" above all) rests on that.
 * A send to a peer that is gone fails. The server's sends have no `MSG_NOSIGNAL` (`IClientsHandler.cpp:94`)
   and nobody handles SIGPIPE, so in the code it may end the server; only `SensorClient` has the signal.
 * A peer reads what it is sent. One that does not keeps a sender in `::send` under `sendLock`
   (`ClientsHandler.cpp:135`), and all that send to the slot behind it; the fairness below rests on there
   being none.

What is assumed of the database and the library: reading a column of a row that does not exist raises an
`SQLException`; `initializeSensor` leaves the default status of the table, here called CREATED; reading a `ResultSet` after
`terminateStatement` yields the fetched row, as the code relies on. A statement may be raised
after it has taken effect or before (`StatementRaises`), also the insertion of a measurement. The SELECT of
`addSensor` filters by token, address and port and not by status, so a row revoked in between may still
be found (`AddSensor`). An `unordered_map` operation is atomic:
the data race of the two executors on `sensorToClientId` is a hazard the model does not explore.

The variables `told`, `stored`, `token`, `measures`, `accepted`, `commands`, `commanded`, `killed`
and `dbErrors` are history. `killed` becomes true when an executor closes a connection; several
properties are stated for `~killed`, because after it the code breaks them: the executor's `reset`
races with the network thread's `bindHandler`, which leaks descriptors and leaves slots without a
listener (hazard at `ClientsHandler.cpp:427`).

### Queue and QueueThreads

A `Queue<T>` is the record of its `items` and of the threads `waiting` in
`emptyQueue.wait()`; what happens under the mutex is one operator. `push` is a set of outcomes, since
`notify_one` chooses. `QueueThreads` lets any thread push and any consumer pop, sleep and wake up for no
reason (spurious wake-ups, which `pop`'s loop is there for).

### ResponsePath

| Model | Code |
|---|---|
| `requests[p]`, `responses[p]` | the four queues of `ServerModel` between listeners, executors and senders |
| `socket[p][i]`, `out[p][i]` | client slots of the two ports' handlers |
| `pc[p][t]`, `hand[p]`, `quit` | the four threads, `ServerModel::quit` |
| `status`, `name`, `Address`, `Token`, `Recorded` | tables SENSORS and MEASUREMENTS |
| `Accept`, `Close` | `bindHandler`, `disconnectHandler` |
| `Ask` | `onGotRequest` and `analyzeMessage` of the two listeners and serializers, `addRequestToExecute` |
| `GetAllSensors` ... `GenerateToken`, `GetAllSensorsMonitoring`, `GetSetOfMeasurements` | the branches of `executeAdministratorRequests` and `executeMonitoringRequests` with their statements |
| `TakeResponse`, `CheckSlot`, `Flush`, `SendPending` | `sendAdministratorResponse`, `sendMonitoringResponse`, `send`, `trySend` |
| `SleepExecutor`, `SleepSender`, `End`, `Quit` | `Queue::pop`, the loops' `while (!quit)`, `gotSignal` |

Commands and responses go through the bytes: `Ask` queues what the server's analysis makes of the
client's frame, and the properties compare what the client's analysis makes of the server's frame.
What is merged: pop, statement and push of a command (this thread alone pops the one queue and pushes
to the other); the insertion in `outBuffer` and the send (`SensorServer` has them apart). The
killing of a sensor's connection by a command is in `SensorServer`. `Close` has `socket_close` and `reset`
in one step; see the assumption on descriptors above. Names have no apostrophe (`AsksAssumption`): `editSensor`
concatenates the name into its UPDATE as it is (`DatabaseConnection.cpp:169`), so with one the statement
is a different one or raises. A sensor's averages:
the measurements of the instance lie in minutes, hours and days of their own, so grouping them is the
identity, and the selection by age is what is left of the SQL. The order of listed rows, which the code leaves to
the database, is by id. The monitoring list has one row per sensor: its join on the time of the
latest measurement (`DatabaseConnection.cpp:202-207`) gives two when two measurements were made in that
second, and the sensors of the instance have one. Spurious wake-ups are in `QueueThreads` only.

### Framing and SensorClient

A cell of the stream is one byte: the message it belongs to and its place in the frame. `recvData` is
given any number of cells up to `toReceive` and returns the reader's fields and the messages that
are complete. `SensorClient` has the main thread (`TryConnect`, `SetSocket`, `InsertToken` for `connected`;
`Receive`, `ReceiveEnd`, `ResetSocket`, `ClearBuffer` for `tryRecv`, `disconnectHandler` and
`reset`; `Join`), `sensorThread` (`TakeMeasure`, `AddOutMsg`, `CheckConnected`, `Send` and its
failures) and the server's end (`ServerReads`, `ServerCloses`). The two threads share `socket` and
`outBuffer` without a lock, so every access is a step. A send on the blocking socket takes
everything; on a connection the server has closed it is taken in vain, fails, or ends the program with
SIGPIPE (`BrokenPipe`). Measurements beyond `MaxMeasures` are one value, `Rest`. A measurement's number
and the clock are left out.

### ConsoleClient

Both panels have the same three threads and differ in what they show, so one module describes both: `panel`
is chosen at the start. A click handler is one step on the JavaFX thread (the dialog of `loadData` with the
request it makes); `later` is the queue of `runLater`; netty's handlers run between the clicks and write
the model (`sensors`, and in the monitoring panel `current`, rows and buttons too). `rows` may show sensors
the model has lost, so handlers that find nothing and throw are modelled by what they did before.
`channelRead` may end with part of a response, at which `analyzeBuffer` throws and
`exceptionCaught` closes the channel. The server lists `table`, which sensors change meanwhile; it drops
a command whose statement raises, with or without its effect (`Drop`), and what it sends first may be
answers to others (`Init`). `StopEditing` is a single click on the table or an empty name.
`refreshSensorTable` is one step on netty's thread; that JavaFX may run in the middle of it is left out. The
timer's `Tick` is held back while `MaxInFlight` things are under way.

## 3. Properties and runs

Properties, with what could break them:
 * `RegistryAgrees` - slot i registered for s implies s is known by i. Broken by an erase that
   forgets one map or by admitting a second session of an active token.
 * `StatusAgrees` - a known sensor's row says ACTIVE.
 * `OpenConnectionsServed`, `SlotsNotRebound`, `SelectFailsOnlyOnKill` - slots against
   connections, over the whole select loop.
 * `MeasurementsAttributed` - a stored measurement belongs to the sensor whose token its
   connection presented, although requests carry only slots: rests on the order of the queue.
 * `DeadSessionsReported` - a registered slot either holds a connection with that token or its
   disconnection is under way.
 * `SessionsHeld` - an acknowledged measurement is not lost for want of a registration: once one has been stored for
   a connection, the slot stays registered for that sensor while the connection is in it and while any
   of its measurements wait. The registration is changed by two kinds of requests that name only slots.
 * `RefusedWhileInUse` - a sensor told that it is already active is refused for a session that is there: another slot
   is registered for its token, and holds a connection that presented it or has its disconnection under way.
   Broken by believing the column STATUS, which a stopped server leaves ACTIVE, or by a registration that
   outlives its disconnection.
 * `LifecycleSpec` - the table refines `SensorLifecycle` (revocation is final).
 * `TokenAnswered` - a token with a row is answered, unless the server serves the sensor no more because an executor
   has closed or released its slot. Two requests are lost without a word in the code, and the property says so: one
   whose statement raises, and one whose row is revoked behind the look at the whitelist
   (`ServerModel.cpp:311-320`), while `addSensor` finds no row. One revoked before that look is answered.
 * `TokenReleased` - a closed connection frees its token, until an executor closes a connection or a statement raises.
 * `AnswersCorrect` - neither commands nor answers carry a number: that an answer belongs to the command
   the client takes it for rests on two queues and four threads. `ForeignOnlyAfterReuse` says when
   a client sees somebody else's answer, as it does (slots again).
 * `ShownAsMeant` - what a client reads from the bytes of an answer is what the server put there: two
   programs in two languages, with signed bytes, two byte orders and a length before every value.
 * `RevocationVisible`, `RenameVisible` - an answer given is true of every list after it, across clients and
   ports.
 * `NoneStranded` - nobody sleeps in `pop()` while there is something to pop. `TableSpec` - the table refines
   `SensorLifecycle`.
 * `EveryCommandAnswered`, `QuitStopsBusy` - liveness; a stopped server's threads that sleep in `pop()`
   stay there until another command comes (hazard at `ServerModel.cpp:105`).
 * `FramesIntact`, `SentInOrder`, `TokenFirst` - the sensor's stream, across reconnections. `TokenFirst`
   excepts a connection on which a measurement is sent between `connected()`'s two steps: there the code
   lets it overtake the token (hazard at `ClientsHandler.cpp:53`).
 * `TokenPresented`, `RejectedStops` - liveness of the sensor: the main thread never sends
   (`blockSendOnInit`), and the two threads wait for each other at the end.
 * `ButtonsAgree`, `ChartAgrees`, `GoesOnUnconnected` - what a click works on is what is shown. `ChartAgrees` is
   stated until a request is dropped and from the first request on; in the code a dropped request leaves the next
   title beside older data.
 * `ViewConverges`, `FailureAlerts` - liveness of the panels. A connection that is reset or fails is reported; one
   that the server closes is not, see below.

| Run | Instance | Checks | States |
|---|---|---|---|
| `sensor_admin` | 2 slots, 2 connections, 2 sensors, 1 command | `TypeOK` `RegistryAgrees` `StatusAgrees` `SelectFailsOnlyOnKill` `OpenConnectionsServed` | 2.6M |
| `sensor_sessions` | 1 slot, 3 connections, 2 sensors, 2 measurements each, all faults | `MeasurementsAttributed` `DeadSessionsReported` `SessionsHeld` `SlotsNotRebound` | 2.0M |
| `sensor_table` | 2 slots, 1 connection, 1 sensor, row ABSENT, CREATED, ACTIVE or REVOKED at first, 1 measurement, 1 command, 1 raising statement | `TokenAnswered` `LifecycleSpec` | 221k |
| `sensor_liveness` | 2 slots, 2 connections, 2 sensors, rows CREATED or ACTIVE at first, no faults | `RefusedWhileInUse` `TokenAnswered` `TokenReleased` | 117k |
| `response_path` | 2 connections on either port, 2 sensors, 2 commands, 1 raising statement, a sensor that comes and goes | `TypeOK` `AnswersCorrect` `ShownAsMeant` `ForeignOnlyAfterReuse` `RevocationVisible` `RenameVisible` `NoneStranded` `TableSpec` | 367k |
| `response_liveness` | 1 connection, 2 commands, stop at any time | `EveryCommandAnswered` `QuitStopsBusy` | 71k |
| `sensor_client` | 2 connections, 2 measurements and the rest, frames of 3 and 4 cells cut anywhere | `TypeOK` `FramesIntact` `SentInOrder` `TokenFirst` `TokenPresented` `RejectedStops` | 75k |
| `console_client` | either panel, 2 sensors, 1 command (administrator) or 2 (monitoring), and one of: a sensor that changes, a command that is dropped, an answer meant for others | `TypeOK` `ButtonsAgree` `ChartAgrees` `GoesOnUnconnected` `ViewConverges` `FailureAlerts` | 540k |
| `revoked_reason`, `stale_accept`, `lost_measurement`, `wrong_data` | smallest that shows it | one violated property each | |

Bounds. Two slots let one slot be freed and taken while the other is in use, and let a command hit
the wrong slot; one slot with three connections makes every reuse happen twice; two sensors let
tokens compete and be confused. Two measurements of a connection let one be stored while the other
waits. In `sensor_liveness` a token is refused while it is used over the other slot, or while the end of its
old connection is being reported. One connection is enough for `sensor_table`: it is in slot 0, which the
administrator's executor hits by its entry in the map and also without one; a row's lifecycle is its own, and the
theorem `LifecycleImplemented` has any number of rows and commands. `MaxMeasures`, `MaxCommands` and
`MaxDbErrors` bound what sensors, administrators and the database do. `Faults` names which failures the environment may
produce. Connections and sensors are interchangeable (symmetry), except where liveness is checked.
`CHECK_DEADLOCK` is off: every sensor may have come and gone, and the network thread may have died;
likewise clients have left, a sensor or an application has ended.

Two commands of two clients let answers cross, two of one let them be swapped, and a revocation be
followed by a list on the other port. Ids and numbers at the edges of their bytes (`1`, `70000`, `-3`,
`300`) and texts of length 0 to 3 make every field of a message differ in length or value;
`MCResponsePath` also has TLC evaluate `NumbersSurvive` and `ListsSurvive` over the edges of all four
bytes. Two connections of a sensor make one reconnection, with measurements of the first waiting in the
buffer; frames of three and four cells with a length of two can be cut in the length, at its end and in
the message. Two requests for data let the answer of the first meet the title of the second.
Names are ASCII in the instances: others are garbled, see the hazard at `ConnectionUtil.java:21`.

Fairness (`FairSpec`): weak fairness of each thread's steps. The threads run for ever and block only
in `select`, `pop` and a database call, so a step that stays enabled is taken; what sensors and
administrators send is not assumed to happen. `select` returns within 5 seconds.
`ResponsePath`: weak fairness of each executor and each sender, threads of their own that block only in
`pop` and in statements; clients, sensors and the operator do as they like. `SensorClient`: of the
main thread but for connecting (no server may be there to connect to), of `sensorThread`, whose
pauses end, and of the server's reading. `ConsoleClient`: of the `runLater` queue, the timer, netty and
the server; nobody has to click.
`TokenReleased` is stated up to `killed`: an executor that closes a descriptor may end the network thread
(`SelectFailsOnlyOnKill`), and then no disconnection is reported. `TokenAnswered` is not: the answer comes from the
executor, which goes on.

## 4. Findings

The documentation is `docs/TIN-dokuemntacja finalna.docx`; its paragraphs are counted from 1 over all of its
`document.xml`.

 * `revoked_reason`: `sensorToClientId[id]` inserts 0 for a sensor that is not connected, so revoking
   or disconnecting it kills the sensor in slot 0.
 * `stale_accept`: an answer goes to a slot, and reaches whoever is in it by then.
 * `lost_measurement`: the documentation (paragraphs 61, 132, 175, 226) has a sensor keep what it measures
   without a connection and send it afterwards; `reset()` (`ClientsHandler.cpp:28`) clears the buffer when a
   connection ends, with what was put there since the failed send.
 * `wrong_data`: the documentation (paragraph 131) has the server end a connection over which it receives wrong data.
   A length outside 1..512 is an exception (`ClientsHandler.cpp:169-172`) that ends the network thread: no
   connection is closed, and no sensor is served.

Met while modelling, and not checked by a run:
 * A token without a row raises in `checkIfTokenIsWhitelisted` (`DatabaseConnection.cpp:87`), and the executor drops the
   request: the sensor is neither told nor disconnected, as paragraphs 153-154 say it is. `TokenAnswered`
   therefore speaks of tokens with a row.
 * Paragraph 230 has both panels say that they lost the server, and close. When the server closes the connection
   nothing happens: `ClientHandler` has no `channelInactive`. `FailureAlerts` therefore leaves that case out.
 * Paragraphs 131 and 228 promise that silent clients are timed out, and no code does so.

## 5. Proofs

The theorems hold for every number of slots, connections and sensors, every set of faults and all bounds.
What they assume of the constants:

| Module | Assumption |
|---|---|
| `SensorServer` | `ServerAssumption`: a slot at least, the two "none" values are not members, initial statuses are statuses, bounds are naturals |
| `SensorClient` | `ClientAssumption`: bounds are naturals; `SizeAssumption`: the length and every message fit in `MAX_MSG`, no message is empty: `addOutMsg` takes no empty message and `recvData` raises on a length of 0 or less or above `MAX_MSG`; the messages of this program are far shorter |
| `ResponsePath` | `PathAssumption`, as for the server; `AsksAssumption`: ids are ints, names are ASCII without apostrophes and leave the command within `MAX_MSG`, clients name sensors; `TablesAssumption`: numbers are ints, the tables' texts ASCII and of at most 500 characters (tokens have 15, addresses at most 15, a name fits in a command, labels are dates), and a list has at most 500000 rows or points (`LongestList`), so that an int counts its bytes |
| `ConsoleClient` | `ConsoleAssumption`: bounds are naturals, `None` is no sensor |
| `Messages`, `Queue` | none; `NoWakeUpLost` has one consumer at least |

**Sensors' port** (`SensorServerProofs`, `SensorRegistryProofs`, `SensorConnectionProofs`).
 * `TypeCorrect`. `TypeOK` is not inductive: `LookUp` writes the request of the
   administrator's executor, whose token is a sensor only because `CommandNoted` says that
   the executor works on a command that is noted. `FreeHandlerLeast` shows that `getFreeHandler` returns the
   least free slot, by the well-foundedness of < on the naturals.
 * `RegistryCorrect`, `TokenExclusive`. The strengthening is `Reserved`: between the look at
   `sensorToClientId` and the insertions the sensor stays unknown, since only this executor
   inserts and the other one touches only sensors it has been commanded on.
 * `LifecycleImplemented` (`Spec => LifecycleSpec`), the refinement. `RowExists`: the row of the
   sensor being activated exists. Every step maps to a step of `SensorLifecycle` or stutters.
 * `StatusCorrect`. `ActiveFirst`: a sensor is registered after its row was set ACTIVE.
 * `ConnectionsServed`, `SelectSafe`, `SlotsKept`. `ConnectionInv` says where the network thread can be
   while a slot is bound to a closed connection (`Releasing`), that `freeHandler` is still free when
   it is used (`ChosenFree`, which needs no `~killed`: only `Accept` binds a slot), and that only an
   executor that has killed is about to release a slot (`ClosersKill`).
 * `AttributionCorrect` (`MeasurementsAttributed`) and `SessionsReported` (`DeadSessionsReported`). Requests
   carry slots only; what makes them belong to the right connection is the order of the queue. `SessionInv` is
   `ConnectionInv` and, while nothing was killed and no statement raised (`Calm`), `InOrder`: between
   requests of two connections of one slot lies the disconnection of the first (`Followed`), in the queue
   (`QueueInOrder`), between the queue and what the network thread is about to report (`NetworkInOrder`),
   between it and what the executor has in hand (`ExecutorInOrder`); and what is registered is of the
   connection whose requests come next (`SessionsInOrder`).
 * `RefusalsJustified` (`RefusedWhileInUse`). That a refused sensor is registered in some slot (`RefusedRegistered`)
   holds because the two maps also agree the other way (`KnownRegistered`): a slot is registered for whoever is known
   by it. A registration would break that if its slot still had the session of another sensor, so the slot of
   who is being registered or refused has none (`HandFree`); it has none because the end of a slot's session lies in
   the queue before the next request to register there (`QueueAsksFree`, and `NetworkAsksFree` for the one the
   network thread is about to push). A refusal lasts from the look at the map to the answer and the close
   (`RefusalUnderWay`), in which only the administrator's executor could erase what it was for. That the
   registration is of a session that is there, `SessionsReported` has shown.
 * `SessionsLast` (`SessionsHeld`). `HeldInv` adds what a connection leaves behind: it is in one slot, and so is all it
   has in the queue (`OneSlot`); once the queue has a disconnection of the slot behind a request of the connection,
   nothing of it comes later (`NoReturn`); a connection not yet accepted has left nothing (`HeardOf`). So what
   erases or overwrites the registration of a connection with a stored measurement comes only when nothing of
   it is left (`StoredHeld`): a disconnection because it is the first of the slot and ends it (`EndsOf`), a new
   registration because what follows it is of its own connection (`HeldIsNext`).

**Queues** (`QueueProofs`): `NoWakeUpLost`, `QueueTypeCorrect` for any elements and any number of
consumers. `NoneStranded` is inductive with the types: consumers fall asleep only while the queue is empty, and
the push that ends the emptiness wakes one if any sleeps (`PushOutcome`). It does not need
every push to notify: while the queue is not empty, somebody is awake already.

**Administrator's and monitoring port** (`ResponsePathProofs`): every safety property `response_path` checks.
 * `TypeCorrect`, `TableImplements`. `TypeInv` adds to `TypeOK` that what waits for an executor is a command that
   its client gave, read from the bytes as it was given (`RequestsInv`, which is where `MessagesProofs` comes
   in), that answers are of a kind the executor makes (`AnswersInv`), and that a slot's connection is of its port
   and in one slot only (`SocketsInv`). The table then takes only steps of `SensorLifecycle`.
 * `WakesCorrect`, from the queues' lemmas: only the thread a queue belongs to sleeps in it (`SleepInv`).
 * `AddressesCorrect`. An answer goes to a slot: whoever gets it held the slot when it was asked for or took it after
   that client had gone (`AddressInv`, `ForeignInv`).
 * `AnswersInOrder`. A command passes through the queue, the executor's hand, the second queue, the sender's
   hand, `outBuffer` and the connection. `RequestsOrder` and `OrderInv` say that along this way the commands of one
   connection are numbered in order (`Sorted`, `Earlier`, `InOrder`) and that each answer is of the kind its
   command asked for.
 * `RevocationsShow`. A list that was made before a revocation was answered was asked for before it too: `ToldInv`
   relates what an administrator has been told to the table, `KnownInv` what was known at the asking to the
   table at the answering, `ListedInv` what a list contains.
 * `RenamesShow`, likewise: `RaisedInv` (a statement that raised has answered nobody), `NamedInv`, `RowsInv`.
 * `ResponsesShown` (`ShownAsMeant`). Every answer under way is one that the tables can give: `AnswersInv` and the
   types bound its rows, texts and numbers, and `MessagesProofs` does the rest.

**Messages** (`MessagesProofs`).
 * `IntRoundTrip`, `LengthRoundTrip`, `FourBytes`: every 32-bit number is read back as it was
   written, although `char` and `Byte` are signed. `Quotients` and `Recomposed` are the arithmetic.
 * `AdministratorCommandRead`, `MonitoringCommandRead`: for every id of 32 bits and every ASCII text (that leaves
   the length in 32 bits) the server reads the command the client gave, with whatever lies behind a field
   (`ReadField`, `ReadText`).
 * `AdministratorResponseRead`, `MonitoringResponseRead`: a client reads every response as the server meant it, for
   every list of up to 500000 rows or points with ASCII texts of up to 500 characters. A message is the
   concatenation of its values, each behind its length (`FlattenSeq`), and the client's `Values` cuts it
   again: by `Induction` on the values that are still to be read, each length is found where the value before it
   ends.
 * `Induction` (a set of naturals that holds 0 and is closed under +1 holds them all) follows from the least
   element of its complement (`LeastNatural`). It is what results on `FlattenSeq` and on recursive
   functions rest on, here and in `SensorClientProofs`.

**Sensor** (`SensorClientProofs`), for any sizes of messages, any number of connections and measurements.
 * `TokenLeads` (`TokenFirst`). `TokenInv` says where the token is at each step: nowhere while the client connects, in
   front of `outBuffer` after `InsertToken`, in front of `sent` after the first send; and that nothing can
   be sent from `reset()` to `SetSocket`, since `socket` is unset.
 * `MeasurementsInOrder` (`SentInOrder`). `OrderInv` bounds every number in `outBuffer`, `sent` and
   earlier connections by `Fresh`, the least that no measurement has had, and has `outBuffer` follow what was
   sent. That `reset()` empties the buffer does not disturb the order; it loses measurements
   (`UnsentKept`).
 * `FramesCorrect` (`FramesIntact`), `TypeCorrect`. `StreamInv` says of either direction that what was sent and has not
   been handed over is on its way, whole: the cells before the reader are the rest of the frame it is in,
   followed by the frames of later messages (`Carries`). `Reading` says what `remainingIn`,
   `remainingInLen` and `inBuffer` are after k cells of a frame; a call of `recvData` takes the reader from one such
   state to another or to the end of the message (`CallReads`, `ReaderGoesOn`), wherever the piece
   is cut (`Cut`, `PieceReads`). So neither counter goes below zero, whatever the network delivers.

**Consoles** (`ConsoleClientProofs`): every safety property `console_client` checks.
 * `TypeCorrect`, with `TypeInv`.
 * `ButtonsCorrect`: enabled buttons have the sensor on display behind them, through every handler that runs between
   two clicks.
 * `AlertCorrect`: `LinkInv` and `ConnectionInv` say what the connection can be while the alert is shown or
   still to be shown.
 * `ChartCorrect`: wherever the last request for data, its answer or its data is - on the way to the server or back,
   in the frame buffer, in `later` - it is of the span chosen last, until a request is
   dropped (`DataInv`). An answer meant for others comes before those, so it is never the last. Before there is a channel
   nothing has
   been read, so that nothing can be selected (`Unread`).

Model-checked only: liveness, which is out of the prover's reach: `TokenAnswered`, `TokenReleased`, `EveryCommandAnswered`,
   `QuitStopsBusy`, `TokenPresented`, `RejectedStops`, `ViewConverges`, `FailureAlerts`. Every other property of
a passing run is a theorem.

## 6. Not modelled, and the plan

What comes next is the end of the server: `killHandler`, the joins of `init()` and of the network threads. A
thread asleep in `pop()` ends only after one more command (`QuitStopsBusy`), and `init()` waits for the four
and for the sensors' executor in turn before the handlers are killed.

Left out, with the reason:
 * TLS (`SslClientsHandler`): compiled out by `DISABLE_SSL`.
 * `UserPrefs`, which reads and writes a file at start, and the mock database, which the build does not use.
 * Wrappers of sockets and system calls: their outcomes are the choices of the actions above. The descriptors
   that `tryConnect` leaks are a hazard no property covers.
 * `LabelRefresher` of the administrator's panel (shows a text for some seconds), layout, charts' axes, logging.
 * SQL beyond what the properties tell apart: averages within a minute, hour or day, the sequence of ids.
 * A data race of the two executors inside `unordered_map`, and its outcomes.
