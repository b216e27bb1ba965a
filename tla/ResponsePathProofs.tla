-------------------------- MODULE ResponsePathProofs --------------------------
(***************************************************************************)
(* Answers reach who asked, in order, and show what was done: proofs about *)
(* ResponsePath, for any number of slots, connections, sensors and         *)
(* commands.                                                               *)
(***************************************************************************)
EXTENDS ResponsePath, MessagesProofs, FiniteSetTheorems

-----------------------------------------------------------------------------
(* Types *)

AllNames == Names \cup {FirstName}

SensorRows ==
  [id : Sensors, name : AllNames, ip : {Address[s].ip : s \in Sensors},
   port : {Address[s].port : s \in Sensors}, connected : BOOLEAN]

MonitoredRows ==
  [id : Sensors, name : AllNames, ip : {Address[s].ip : s \in Sensors},
   port : {Address[s].port : s \in Sensors}, current : {Last(Recorded[s]).value : s \in {s \in Sensors : Recorded[s] # <<>>}}]

\* What is answered on either port
AdministratorReplies ==
  [type : {Administrator!GET_ALL_SENSORS}, sensors : Lists(SensorRows)]
    \cup [type : {Administrator!UPDATE_SENSOR_NAME, Administrator!REVOKE_SENSOR,
                  Administrator!DISCONNECT_SENSOR}, id : Sensors]
    \cup [type : {Administrator!GENERATE_TOKEN}, token : {Token[s] : s \in Sensors}]

MonitoringReplies ==
  [type : {Monitoring!GET_ALL_SENSORS_MONITORING}, sensors : Lists(MonitoredRows)]
    \cup [type : {Monitoring!GET_SET_OF_MEASUREMENTS}, id : Sensors,
          measurements : {Since(s, d) : s \in Sensors, d \in 0 .. 2}]

AllCommands == Asks["administrator"] \cup Asks["monitoring"]

Questions == [command : AllCommands, revoked : SUBSET Sensors]

Waiting == [client : Slots, from : Connections, n : 1 .. MaxAsked, command : AllCommands]

Entries ==
  [client : Slots, from : Connections, n : 1 .. MaxAsked,
   response : AdministratorReplies \cup MonitoringReplies]

Queues(E, t) == [items : Seq(E), waiting : SUBSET {t}]

RequestQueues == Queues(Waiting, "executor")
ResponseQueues == Queues(Entries, "sender")

TypeInv ==
  /\ status \in [Sensors -> Statuses] /\ name \in [Sensors -> AllNames]
  /\ socket \in [Ports -> [Slots -> Connections \cup {NoConnection}]]
  /\ out \in [Ports -> [Slots -> Seq(Entries)]]
  /\ requests \in [Ports -> RequestQueues] /\ \A p \in Ports : requests[p].items \in Seq(Requests(p))
  /\ responses \in [Ports -> ResponseQueues]
  /\ pc \in [Ports -> [{"executor", "sender"} -> {"pop", "inside", "check", "flush", "ended"}]]
  /\ \A p \in Ports : pc[p]["executor"] \notin {"check", "flush"}
  /\ hand \in [Ports -> Entries \cup {NoResponse}]
  /\ \A p \in Ports : hand[p] = NoResponse <=> pc[p]["sender"] \notin {"check", "flush"}
  /\ quit \in BOOLEAN /\ port \in [Connections -> Ports \cup {"none"}]
  /\ asked \in [Connections -> Seq(Questions)]
  /\ \A c \in Connections : Len(asked[c]) <= MaxAsked
  /\ got \in [Connections -> Seq(Entries)]
  /\ raised \subseteq Connections \X (1 .. MaxAsked) /\ dbErrors \in 0 .. MaxDbErrors

\* wait() and pop() change what they say of a queue.
LEMMA Waited ==
  ASSUME NEW E, NEW t, NEW q \in Queues(E, t)
  PROVE  wait(q, t) \in Queues(E, t) /\ wait(q, t).items = q.items
BY DEF wait, Queues

LEMMA Popped ==
  ASSUME NEW E, NEW t, NEW q \in Queues(E, t)
  PROVE  pop(q).items = Tail(q.items) /\ pop(q).waiting = q.waiting
BY DEF pop, Queues

\* push() puts the element last, and wakes the one consumer if it was asleep on an
\* empty queue.
LEMMA Pushed ==
  ASSUME NEW E, NEW t, NEW q \in Queues(E, t), NEW e \in E,
         NEW r \in push(q, e)
  PROVE  /\ r \in Queues(E, t)
         /\ r.items = Append(q.items, e)
         /\ r.waiting = {} \/ (q.items # <<>> /\ r.waiting = q.waiting)
<1> DEFINE added == [q EXCEPT !.items = Append(@, e)]
<1>1. /\ added \in [items : Seq(E), waiting : SUBSET {t}]
      /\ added.items = Append(q.items, e) /\ added.waiting = q.waiting
  BY SMTT(30) DEF Queues
<1>2. Len(added.items) # 1 => q.items # <<>>
  BY <1>1 DEF Queues
<1>3. CASE Len(added.items) # 1
  <2>1. r = added
    BY <1>3 DEF push
  <2> QED BY <1>1, <1>2, <1>3, <2>1 DEF Queues
<1>4. CASE Len(added.items) = 1 /\ added.waiting = {}
  <2>1. r = added
    BY <1>4 DEF push, notify_one
  <2> QED BY <1>1, <1>4, <2>1 DEF Queues
<1>5. CASE Len(added.items) = 1 /\ added.waiting # {}
  <2>1. PICK u \in added.waiting : r = [added EXCEPT !.waiting = @ \ {u}]
    BY <1>5 DEF push, notify_one
  <2>2. r \in [items : Seq(E), waiting : SUBSET {t}] /\ r.items = added.items /\ r.waiting = {}
    BY <1>1, <2>1
  <2> QED BY <1>1, <2>2 DEF Queues
<1> QED BY <1>3, <1>4, <1>5 DEF Queues

LEMMA NamesInAscii ==
  \A text \in Names : text \in Seq(Characters) /\ Len(text) <= 492 /\ Len(text) \in Nat
<1>1. (0 .. 127) \ {39} \subseteq Characters
  BY DEF Characters
<1>2. Names \subseteq Seq(Characters) /\ \A text \in Names : Len(text) <= 492
  BY <1>1, AsksAssumption, SeqMonotonic
<1> QED BY <1>2

\* What the listeners make of a command is what was meant.
LEMMA UnderstoodRight ==
  ASSUME NEW p \in Ports, NEW command \in Asks[p]
  PROVE  Understood[p][command] = command
<1>1. Understood[p][command] = CommandRead(p, command)
  BY DEF Understood
<1>2. Sensors \subseteq Int32 /\ Names \subseteq Texts
  <2>1. ASSUME NEW text \in Names PROVE text \in Texts
    <3>1. text \in Seq(Characters) /\ Len(text) <= 492 /\ Len(text) \in Nat
      BY NamesInAscii
    <3>2. 492 <= Longest /\ Longest \in Nat
      BY SMT DEF Longest
    <3> QED BY <3>1, <3>2 DEF Texts
  <2> QED BY <2>1, AsksAssumption
<1>3. CASE p = "administrator"
  <2>1. command \in AdministratorCommands(Int32, Texts)
    BY <1>2, <1>3, AsksAssumption DEF AdministratorCommands
  <2> QED BY <1>1, <1>3, <2>1, AdministratorCommandRead
<1>4. CASE p = "monitoring"
  <2>1. command \in MonitoringCommands(Int32)
    BY <1>2, <1>4, AsksAssumption DEF MonitoringCommands
  <2> QED BY <1>1, <1>4, <2>1, MonitoringCommandRead
<1> QED BY <1>3, <1>4 DEF Ports

\* The rows of a table, in the database's order
LEMMA RowsOf ==
  ASSUME NEW S, IsFiniteSet(S)
  PROVE  Cardinality(S) \in Nat /\ Rows(S) \in [1 .. Cardinality(S) -> S]
<1>1. PICK n \in Nat : ExistsBijection(1 .. n, S)
  BY FS_NatBijection
<1>2. Cardinality(S) = n
  BY <1>1, FS_CountingElements
<1>3. PICK f \in [1 .. n -> S] : IsInjective(f)
  BY <1>1 DEF ExistsBijection, Bijection, Injection, IsInjective
<1> QED BY <1>2, <1>3 DEF Rows, SetToSeq

-----------------------------------------------------------------------------
(* The executors: what all their commands have in common *)

Replies(p) == IF p = "administrator" THEN AdministratorReplies ELSE MonitoringReplies

Takes(p) ==
  /\ MayTake(p, "executor", requests[p])
  /\ requests' = [requests EXCEPT ![p] = pop(@)]
  /\ pc' = [pc EXCEPT ![p]["executor"] = "pop"]
  /\ UNCHANGED <<socket, out, hand, quit, port, asked, got>>

\* Rows stay revoked and present, ...
TableKept ==
  /\ status' \in [Sensors -> Statuses] /\ name' \in [Sensors -> AllNames]
  /\ \A s \in Sensors : /\ status[s] = "REVOKED" => status'[s] = "REVOKED"
                        /\ status[s] # "ABSENT" => status'[s] # "ABSENT"

\* ... and only a rename changes a name.
NamesKept(p, command) ==
  \A s \in Sensors :
    \/ name'[s] = name[s]
    \/ /\ p = "administrator" /\ command.type = Administrator!UPDATE_SENSOR_NAME
       /\ command.id = s /\ name'[s] = command.name

\* The response tells of the command, and what the tables held or hold now.
Tells(p, command, r) ==
  /\ r \in Replies(p) /\ Answers(p, command, r)
  /\ "sensors" \in DOMAIN r =>
       \A i \in DOMAIN r.sensors :
         LET s == r.sensors[i].id IN
         s \in Sensors /\ status[s] # "REVOKED" /\ r.sensors[i].name = name[s]
  /\ p = "administrator" /\ r.type = Administrator!REVOKE_SENSOR =>
       r.id \in Sensors /\ status'[r.id] = "REVOKED"
  /\ p = "administrator" /\ command.type = Administrator!UPDATE_SENSOR_NAME =>
       name'[command.id] = command.name

\* The rows of a set of sensors
LEMMA ListOf ==
  ASSUME NEW S \in SUBSET Sensors
  PROVE  /\ Cardinality(S) \in Nat /\ \A i \in 1 .. Cardinality(S) : Rows(S)[i] \in S
         /\ Cardinality(S) <= LongestList
<1>1. IsFiniteSet(S) /\ Cardinality(S) <= Cardinality(Sensors)
  BY AsksAssumption, FS_Subset
<1>2. Cardinality(S) \in Nat /\ \A i \in 1 .. Cardinality(S) : Rows(S)[i] \in S
  BY <1>1, RowsOf
<1>3. Cardinality(Sensors) \in Nat /\ Cardinality(Sensors) <= LongestList
  BY AsksAssumption, FS_CardinalityType, TablesAssumption
<1>4. LongestList \in Nat
  BY ListNumbers
<1>5. Cardinality(S) <= LongestList
  BY <1>1, <1>2, <1>3, <1>4
<1> QED BY <1>2, <1>5

LEMMA AdministratorListRight ==
  ASSUME TypeInv
  PROVE  /\ getAllSensors \in Lists(SensorRows)
         /\ \A i \in DOMAIN getAllSensors :
              LET s == getAllSensors[i].id IN
              s \in Sensors /\ status[s] # "REVOKED" /\ getAllSensors[i].name = name[s]
<1> DEFINE S == {s \in Sensors : status[s] \in {"ACTIVE", "DISCONNECTED"}}
           n == Cardinality(S)
           list == [i \in 1 .. n |-> SensorRow(Rows(S)[i])]
<1>1. n \in Nat /\ n <= LongestList /\ \A i \in 1 .. n : Rows(S)[i] \in S
  BY ListOf
<1>2. ASSUME NEW s \in S
      PROVE  SensorRow(s) \in SensorRows /\ SensorRow(s).id = s /\ SensorRow(s).name = name[s]
  BY DEF TypeInv, SensorRow, SensorRows
<1>3. \A s \in S : s \in Sensors /\ status[s] # "REVOKED"
  OBVIOUS
<1>4. getAllSensors = list
  BY DEF getAllSensors
<1> HIDE DEF S, n
<1>5. \A i \in 1 .. n : list[i] = SensorRow(Rows(S)[i])
  OBVIOUS
<1>6. DOMAIN list = 1 .. n /\ list \in Lists(SensorRows)
  <2>1. list \in Seq(SensorRows) /\ Len(list) = n
    BY <1>1, <1>2
  <2> HIDE DEF list
  <2>2. Len(list) <= LongestList
    BY <1>1, <2>1
  <2>3. DOMAIN list = 1 .. n
    BY <2>1
  <2> QED BY <2>1, <2>2, <2>3 DEF Lists
<1> HIDE DEF list
<1> QED BY <1>1, <1>2, <1>3, <1>4, <1>5, <1>6

LEMMA MonitoringListRight ==
  ASSUME TypeInv
  PROVE  /\ getAllSensorsWithMeasurements \in Lists(MonitoredRows)
         /\ \A i \in DOMAIN getAllSensorsWithMeasurements :
              LET s == getAllSensorsWithMeasurements[i].id IN
              s \in Sensors /\ status[s] # "REVOKED" /\ getAllSensorsWithMeasurements[i].name = name[s]
<1> DEFINE S == {s \in Sensors : status[s] = "ACTIVE" /\ Recorded[s] # <<>>}
           n == Cardinality(S)
           list == [i \in 1 .. n |-> MonitoredRow(Rows(S)[i])]
<1>1. n \in Nat /\ n <= LongestList /\ \A i \in 1 .. n : Rows(S)[i] \in S
  BY ListOf
<1>2. ASSUME NEW s \in S
      PROVE  MonitoredRow(s) \in MonitoredRows /\ MonitoredRow(s).id = s /\ MonitoredRow(s).name = name[s]
  BY DEF TypeInv, MonitoredRow, MonitoredRows
<1>3. \A s \in S : s \in Sensors /\ status[s] # "REVOKED"
  OBVIOUS
<1>4. getAllSensorsWithMeasurements = list
  BY DEF getAllSensorsWithMeasurements
<1> HIDE DEF S, n
<1>5. \A i \in 1 .. n : list[i] = MonitoredRow(Rows(S)[i])
  OBVIOUS
<1>6. DOMAIN list = 1 .. n /\ list \in Lists(MonitoredRows)
  <2>1. list \in Seq(MonitoredRows) /\ Len(list) = n
    BY <1>1, <1>2
  <2> HIDE DEF list
  <2>2. Len(list) <= LongestList
    BY <1>1, <2>1
  <2>3. DOMAIN list = 1 .. n
    BY <2>1
  <2> QED BY <2>1, <2>2, <2>3 DEF Lists
<1> HIDE DEF list
<1> QED BY <1>1, <1>2, <1>3, <1>4, <1>5, <1>6

LEMMA ExecuteSplits ==
  ASSUME TypeInv, NEW p \in Ports, Execute(p)
  PROVE  /\ Takes(p) /\ Current(p) \in Requests(p) /\ TableKept /\ NamesKept(p, Current(p).command)
         /\ (\E r : Tells(p, Current(p).command, r) /\ Responds(p, r)) \/ Raises(p)
<1> DEFINE command == Current(p).command
           Goal == /\ TableKept /\ NamesKept(p, command)
                   /\ (\E r : Tells(p, command, r) /\ Responds(p, r)) \/ Raises(p)
<1>1. PICK type : Executes(p, type)
  BY DEF Execute, GetAllSensors, UpdateSensorName, RevokeSensor, DisconnectSensor, GenerateToken,
         GetAllSensorsMonitoring, GetSetOfMeasurements
<1>2. Takes(p) /\ requests[p].items # <<>> /\ requests[p].items \in Seq(Requests(p))
  BY <1>1 DEF Executes, Takes, MayTake, MayPop, TypeInv
<1>3. Current(p) \in Requests(p)
  BY <1>2 DEF Current, front
<1>4. command \in Asks[p]
  BY <1>3 DEF Requests
<1> HIDE DEF command
<1>5. status \in [Sensors -> Statuses] /\ name \in [Sensors -> AllNames]
  BY DEF TypeInv
<1>6. UNCHANGED table => TableKept /\ NamesKept(p, command)
  BY <1>5 DEF table, TableKept, NamesKept
<1>7. p = "administrator" => command \in AdministratorCommands(Sensors, Names)
  BY <1>4, AsksAssumption
<1>8. p = "monitoring" => command \in MonitoringCommands(Sensors)
  BY <1>4, AsksAssumption
<1>9. ASSUME GetAllSensors(p) PROVE Goal
  <2> DEFINE r == [type |-> Administrator!GET_ALL_SENSORS, sensors |-> getAllSensors]
  <2>1. p = "administrator" /\ command.type = 0 /\ Statement(p, UNCHANGED table, r)
    BY <1>9 DEF GetAllSensors, Executes, command, Administrator!GET_ALL_SENSORS
  <2>2. command = [type |-> 0]
    BY <1>7, <2>1 DEF AdministratorCommands, Administrator!GET_ALL_SENSORS, Administrator!UPDATE_SENSOR_NAME,
         Administrator!REVOKE_SENSOR, Administrator!DISCONNECT_SENSOR, Administrator!GENERATE_TOKEN
  <2> DEFINE list == getAllSensors
  <2>3. /\ list \in Lists(SensorRows)
        /\ \A i \in DOMAIN list :
             LET s == list[i].id IN s \in Sensors /\ status[s] # "REVOKED" /\ list[i].name = name[s]
    BY AdministratorListRight
  <2> HIDE DEF list
  <2>4. r = [type |-> 0, sensors |-> list]
    BY DEF list, Administrator!GET_ALL_SENSORS
  <2> HIDE DEF r
  <2>5. r \in Replies(p)
    BY <2>1, <2>3, <2>4 DEF Replies, AdministratorReplies, Administrator!GET_ALL_SENSORS
  <2>6. Answers(p, command, r)
    BY <2>2, <2>4 DEF Answers
  <2>7. Tells(p, command, r)
    BY <2>1, <2>2, <2>3, <2>4, <2>5, <2>6 DEF Tells, Administrator!GET_ALL_SENSORS, Administrator!UPDATE_SENSOR_NAME,
         Administrator!REVOKE_SENSOR, Administrator!DISCONNECT_SENSOR, Administrator!GENERATE_TOKEN
  <2> QED BY <1>6, <2>1, <2>7 DEF Statement
<1>10. ASSUME UpdateSensorName(p) PROVE Goal
  <2> DEFINE r == [type |-> command.type, id |-> command.id]
             update == editSensor(command.id, command.name)
  <2>1. p = "administrator" /\ command.type = 1 /\ Statement(p, update, r)
    BY <1>10 DEF UpdateSensorName, Executes, command, Administrator!UPDATE_SENSOR_NAME
  <2>2. command.id \in Sensors /\ command.name \in Names /\ DOMAIN command = {"type", "id", "name"}
    BY <1>7, <2>1 DEF AdministratorCommands, Administrator!GET_ALL_SENSORS, Administrator!UPDATE_SENSOR_NAME,
         Administrator!REVOKE_SENSOR, Administrator!DISCONNECT_SENSOR, Administrator!GENERATE_TOKEN
  <2>3. r = [type |-> 1, id |-> command.id]
    BY <2>1
  <2> HIDE DEF r
  <2>4. r \in Replies(p) /\ Answers(p, command, r)
    BY <2>1, <2>2, <2>3 DEF Answers, Replies, AdministratorReplies, Administrator!GET_ALL_SENSORS, Administrator!UPDATE_SENSOR_NAME,
         Administrator!REVOKE_SENSOR, Administrator!DISCONNECT_SENSOR, Administrator!GENERATE_TOKEN
  <2>5. ASSUME update PROVE TableKept /\ NamesKept(p, command) /\ Tells(p, command, r)
    <3>1. status' = status /\ name' = [name EXCEPT ![command.id] = command.name]
      BY <2>5 DEF editSensor
    <3>2. TableKept
      BY <1>5, <2>2, <3>1 DEF TableKept, AllNames
    <3>3. NamesKept(p, command)
      BY <1>5, <2>1, <2>2, <3>1 DEF NamesKept, Administrator!UPDATE_SENSOR_NAME
    <3>4. Tells(p, command, r)
      BY <1>5, <2>1, <2>2, <2>3, <2>4, <3>1 DEF Tells, Administrator!GET_ALL_SENSORS, Administrator!UPDATE_SENSOR_NAME,
         Administrator!REVOKE_SENSOR, Administrator!DISCONNECT_SENSOR, Administrator!GENERATE_TOKEN
    <3> QED BY <3>2, <3>3, <3>4
  <2> HIDE DEF update
  <2> QED BY <1>6, <2>1, <2>5 DEF Statement
<1>11. ASSUME RevokeSensor(p) PROVE Goal
  <2> DEFINE r == [type |-> command.type, id |-> command.id]
             update == revokeSensor(command.id)
  <2>1. p = "administrator" /\ command.type = 2 /\ Statement(p, update, r)
    BY <1>11 DEF RevokeSensor, Executes, command, Administrator!REVOKE_SENSOR
  <2>2. command.id \in Sensors /\ DOMAIN command = {"type", "id"}
    BY <1>7, <2>1 DEF AdministratorCommands, Administrator!GET_ALL_SENSORS, Administrator!UPDATE_SENSOR_NAME,
         Administrator!REVOKE_SENSOR, Administrator!DISCONNECT_SENSOR, Administrator!GENERATE_TOKEN
  <2>3. r = [type |-> 2, id |-> command.id]
    BY <2>1
  <2> HIDE DEF r
  <2>4. r \in Replies(p) /\ Answers(p, command, r)
    BY <2>1, <2>2, <2>3 DEF Answers, Replies, AdministratorReplies, Administrator!GET_ALL_SENSORS, Administrator!UPDATE_SENSOR_NAME,
         Administrator!REVOKE_SENSOR, Administrator!DISCONNECT_SENSOR, Administrator!GENERATE_TOKEN
  <2>5. ASSUME update PROVE TableKept /\ NamesKept(p, command) /\ Tells(p, command, r)
    <3>1. name' = name /\ status' = [status EXCEPT ![command.id] = "REVOKED"]
      BY <2>5 DEF revokeSensor, Table!Become
    <3>2. TableKept
      BY <1>5, <2>2, <3>1 DEF TableKept, Statuses
    <3>3. NamesKept(p, command)
      BY <3>1 DEF NamesKept
    <3>4. status'[command.id] = "REVOKED"
      BY <1>5, <2>2, <3>1
    <3>5. Tells(p, command, r)
      BY <2>1, <2>2, <2>3, <2>4, <3>4 DEF Tells, Administrator!GET_ALL_SENSORS, Administrator!UPDATE_SENSOR_NAME,
         Administrator!REVOKE_SENSOR, Administrator!DISCONNECT_SENSOR, Administrator!GENERATE_TOKEN
    <3> QED BY <3>2, <3>3, <3>5
  <2> HIDE DEF update
  <2> QED BY <1>6, <2>1, <2>5 DEF Statement
<1>12. ASSUME DisconnectSensor(p) PROVE Goal
  <2> DEFINE r == [type |-> command.type, id |-> command.id]
             update == disconnectSensor(command.id)
  <2>1. p = "administrator" /\ command.type = 3 /\ Statement(p, update, r)
    BY <1>12 DEF DisconnectSensor, Executes, command, Administrator!DISCONNECT_SENSOR
  <2>2. command.id \in Sensors /\ DOMAIN command = {"type", "id"}
    BY <1>7, <2>1 DEF AdministratorCommands, Administrator!GET_ALL_SENSORS, Administrator!UPDATE_SENSOR_NAME,
         Administrator!REVOKE_SENSOR, Administrator!DISCONNECT_SENSOR, Administrator!GENERATE_TOKEN
  <2>3. r = [type |-> 3, id |-> command.id]
    BY <2>1
  <2> HIDE DEF r
  <2>4. r \in Replies(p) /\ Answers(p, command, r)
    BY <2>1, <2>2, <2>3 DEF Answers, Replies, AdministratorReplies, Administrator!GET_ALL_SENSORS, Administrator!UPDATE_SENSOR_NAME,
         Administrator!REVOKE_SENSOR, Administrator!DISCONNECT_SENSOR, Administrator!GENERATE_TOKEN
  <2>5. ASSUME update PROVE TableKept /\ NamesKept(p, command) /\ Tells(p, command, r)
    <3>1. /\ name' = name
          /\ \/ status' = status
             \/ Table!Usable(command.id) /\ status' = [status EXCEPT ![command.id] = "DISCONNECTED"]
      BY <2>5 DEF disconnectSensor, Table!Become
    <3>2. TableKept
      BY <1>5, <2>2, <3>1 DEF TableKept, Statuses, Table!Usable
    <3>3. NamesKept(p, command)
      BY <3>1 DEF NamesKept
    <3>4. Tells(p, command, r)
      BY <2>1, <2>2, <2>3, <2>4 DEF Tells, Administrator!GET_ALL_SENSORS, Administrator!UPDATE_SENSOR_NAME,
         Administrator!REVOKE_SENSOR, Administrator!DISCONNECT_SENSOR, Administrator!GENERATE_TOKEN
    <3> QED BY <3>2, <3>3, <3>4
  <2> HIDE DEF update
  <2> QED BY <1>6, <2>1, <2>5 DEF Statement
<1>13. ASSUME GenerateToken(p) PROVE Goal
  <2>1. PICK s \in Sensors :
          Statement(p, Table!Create(s) /\ UNCHANGED name,
                    [type |-> Administrator!GENERATE_TOKEN, token |-> Token[s]])
    BY <1>13 DEF GenerateToken
  <2> DEFINE r == [type |-> Administrator!GENERATE_TOKEN, token |-> Token[s]]
             update == Table!Create(s) /\ UNCHANGED name
  <2>2. p = "administrator" /\ command.type = 4 /\ Statement(p, update, r)
    BY <1>13, <2>1 DEF GenerateToken, Executes, command, Administrator!GENERATE_TOKEN
  <2>3. DOMAIN command = {"type", "name"}
    BY <1>7, <2>2 DEF AdministratorCommands, Administrator!GET_ALL_SENSORS, Administrator!UPDATE_SENSOR_NAME,
         Administrator!REVOKE_SENSOR, Administrator!DISCONNECT_SENSOR, Administrator!GENERATE_TOKEN
  <2>4. r = [type |-> 4, token |-> Token[s]]
    BY DEF Administrator!GENERATE_TOKEN
  <2> HIDE DEF r
  <2>5. r \in Replies(p) /\ Answers(p, command, r)
    BY <2>2, <2>3, <2>4 DEF Answers, Replies, AdministratorReplies, Administrator!GET_ALL_SENSORS, Administrator!UPDATE_SENSOR_NAME,
         Administrator!REVOKE_SENSOR, Administrator!DISCONNECT_SENSOR, Administrator!GENERATE_TOKEN
  <2>6. Tells(p, command, r)
    BY <2>2, <2>3, <2>4, <2>5 DEF Tells, Administrator!GET_ALL_SENSORS, Administrator!UPDATE_SENSOR_NAME,
         Administrator!REVOKE_SENSOR, Administrator!DISCONNECT_SENSOR, Administrator!GENERATE_TOKEN
  <2>7. ASSUME update PROVE TableKept /\ NamesKept(p, command)
    <3>1. /\ name' = name /\ status[s] = "ABSENT"
          /\ status' = [status EXCEPT ![s] = "CREATED"]
      BY <2>7 DEF Table!Create, Table!Become
    <3>2. TableKept
      BY <1>5, <3>1 DEF TableKept, Statuses
    <3> QED BY <3>1, <3>2 DEF NamesKept
  <2> HIDE DEF update
  <2> QED BY <1>6, <2>2, <2>6, <2>7 DEF Statement
<1>14. ASSUME GetAllSensorsMonitoring(p) PROVE Goal
  <2> DEFINE r == [type |-> Monitoring!GET_ALL_SENSORS_MONITORING, sensors |-> getAllSensorsWithMeasurements]
  <2>1. p = "monitoring" /\ command.type = 0 /\ Statement(p, UNCHANGED table, r)
    BY <1>14 DEF GetAllSensorsMonitoring, Executes, command, Monitoring!GET_ALL_SENSORS_MONITORING
  <2>2. command = [type |-> 0]
    BY <1>8, <2>1 DEF MonitoringCommands, Monitoring!GET_ALL_SENSORS_MONITORING, Monitoring!GET_SET_OF_MEASUREMENTS
  <2> DEFINE list == getAllSensorsWithMeasurements
  <2>3. /\ list \in Lists(MonitoredRows)
        /\ \A i \in DOMAIN list :
             LET s == list[i].id IN s \in Sensors /\ status[s] # "REVOKED" /\ list[i].name = name[s]
    BY MonitoringListRight
  <2> HIDE DEF list
  <2>4. r = [type |-> 0, sensors |-> list]
    BY DEF list, Monitoring!GET_ALL_SENSORS_MONITORING
  <2> HIDE DEF r
  <2>5. r \in Replies(p)
    BY <2>1, <2>3, <2>4 DEF Replies, MonitoringReplies, Monitoring!GET_ALL_SENSORS_MONITORING
  <2>6. Answers(p, command, r)
    BY <2>2, <2>4 DEF Answers
  <2>7. Tells(p, command, r)
    BY <2>1, <2>2, <2>3, <2>4, <2>5, <2>6 DEF Tells
  <2> QED BY <1>6, <2>1, <2>7 DEF Statement
<1>15. ASSUME GetSetOfMeasurements(p) PROVE Goal
  <2> DEFINE r == [type |-> command.type, id |-> command.id,
                   measurements |-> Since(command.id, command.span)]
  <2>1. p = "monitoring" /\ command.type = 1 /\ Statement(p, UNCHANGED table, r)
    BY <1>15 DEF GetSetOfMeasurements, Executes, command, Monitoring!GET_SET_OF_MEASUREMENTS
  <2>2. command.id \in Sensors /\ command.span \in 0 .. 2
    BY <1>8, <2>1 DEF MonitoringCommands, Monitoring!GET_ALL_SENSORS_MONITORING, Monitoring!GET_SET_OF_MEASUREMENTS
  <2> DEFINE points == Since(command.id, command.span)
  <2>3. points \in {Since(s, d) : s \in Sensors, d \in 0 .. 2}
    BY <2>2
  <2>4. r = [type |-> 1, id |-> command.id, measurements |-> points]
    BY <2>1
  <2> HIDE DEF points, r
  <2>5. r \in Replies(p)
    BY <2>1, <2>2, <2>3, <2>4 DEF Replies, MonitoringReplies, Monitoring!GET_SET_OF_MEASUREMENTS
  <2>6. Answers(p, command, r)
    BY <2>1, <2>4 DEF Answers, points
  <2>7. Tells(p, command, r)
    BY <2>1, <2>4, <2>5, <2>6 DEF Tells
  <2> QED BY <1>6, <2>1, <2>7 DEF Statement
<1> USE DEF command
<1> QED BY <1>2, <1>3, <1>9, <1>10, <1>11, <1>12, <1>13, <1>14, <1>15 DEF Execute

-----------------------------------------------------------------------------
(* The type invariant *)

LEMMA TypeInit == Init => TypeInv
<1> SUFFICES ASSUME Init PROVE TypeInv
  OBVIOUS
<1>1. status \in [Sensors -> Statuses] /\ name \in [Sensors -> AllNames]
  BY PathAssumption DEF Init, Table!Init, AllNames
<1>2. ASSUME NEW w PROVE wait(EmptyQueue, w) = [items |-> <<>>, waiting |-> {w}]
  <2>1. EmptyQueue.waiting \cup {w} = {w}
    BY DEF EmptyQueue
  <2>2. wait(EmptyQueue, w) = [EmptyQueue EXCEPT !.waiting = {w}]
    BY <2>1 DEF wait
  <2> QED BY <2>2 DEF EmptyQueue
<1>3. \A S : <<>> \in Seq(S)
  OBVIOUS
<1>4. /\ requests \in [Ports -> RequestQueues] /\ \A p \in Ports : requests[p].items \in Seq(Requests(p))
      /\ responses \in [Ports -> ResponseQueues]
  <2>1. /\ requests = [p \in Ports |-> [items |-> <<>>, waiting |-> {"executor"}]]
        /\ responses = [p \in Ports |-> [items |-> <<>>, waiting |-> {"sender"}]]
    BY <1>2 DEF Init
  <2>2. /\ [items |-> <<>>, waiting |-> {"executor"}] \in RequestQueues
        /\ [items |-> <<>>, waiting |-> {"sender"}] \in ResponseQueues
    BY <1>3 DEF RequestQueues, ResponseQueues, Queues
  <2> QED BY <1>3, <2>1, <2>2
<1>5. /\ socket \in [Ports -> [Slots -> Connections \cup {NoConnection}]]
      /\ out \in [Ports -> [Slots -> Seq(Entries)]]
      /\ asked \in [Connections -> Seq(Questions)]
      /\ got \in [Connections -> Seq(Entries)]
  BY DEF Init
<1>6. \A c \in Connections : Len(asked[c]) <= MaxAsked
  BY PathAssumption DEF Init
<1>7. /\ pc \in [Ports -> [{"executor", "sender"} -> {"pop", "inside", "check", "flush", "ended"}]]
      /\ \A p \in Ports : pc[p]["executor"] \notin {"check", "flush"}
      /\ hand \in [Ports -> Entries \cup {NoResponse}]
      /\ \A p \in Ports : hand[p] = NoResponse <=> pc[p]["sender"] \notin {"check", "flush"}
  BY DEF Init
<1>8. /\ quit \in BOOLEAN /\ port \in [Connections -> Ports \cup {"none"}]
      /\ raised \subseteq Connections \X (1 .. MaxAsked) /\ dbErrors \in 0 .. MaxDbErrors
  <2>1. quit = FALSE /\ port = [c \in Connections |-> "none"] /\ raised = {} /\ dbErrors = 0
    BY DEF Init
  <2>2. MaxDbErrors \in Nat
    BY PathAssumption
  <2>3. 0 \in 0 .. MaxDbErrors
    BY <2>2
  <2> QED BY <2>1, <2>3
<1> QED BY <1>1, <1>4, <1>5, <1>6, <1>7, <1>8 DEF TypeInv

LEMMA SlotsAre == ASSUME NEW c, NEW i \in SlotOf(c) PROVE
  i \in Slots /\ port[c] # "none" /\ socket[port[c]][i] = c
BY DEF SlotOf

\* Who is asleep or what lies in a queue changes only for one queue.
LEMMA TypeDeliver ==
  ASSUME TypeInv, NEW p \in Ports, NEW i \in Slots, NEW sent \in Seq(Entries), Deliver(p, i, sent)
  PROVE  out' \in [Ports -> [Slots -> Seq(Entries)]] /\ got' \in [Connections -> Seq(Entries)]
<1>1. /\ out \in [Ports -> [Slots -> Seq(Entries)]] /\ got \in [Connections -> Seq(Entries)]
      /\ socket[p][i] \in Connections \cup {NoConnection}
  BY DEF TypeInv
<1>2. CASE socket[p][i] = NoConnection
  <2>1. out' = [out EXCEPT ![p][i] = sent] /\ got' = got
    BY <1>2 DEF Deliver
  <2> QED BY <1>1, <2>1
<1>3. CASE socket[p][i] # NoConnection
  <2> DEFINE c == socket[p][i]
  <2>1. /\ out' = [out EXCEPT ![p][i] = <<>>] /\ got' = [got EXCEPT ![c] = @ \o sent]
    BY <1>3 DEF Deliver
  <2>2. <<>> \in Seq(Entries) /\ got[c] \o sent \in Seq(Entries)
    BY <1>1, <1>3
  <2> HIDE DEF c
  <2> QED BY <1>1, <2>1, <2>2
<1> QED BY <1>2, <1>3

LEMMA TypeExecute ==
  ASSUME TypeInv, NEW p \in Ports, Execute(p)
  PROVE  TypeInv'
<1>1. /\ Takes(p) /\ Current(p) \in Requests(p) /\ TableKept
      /\ (\E r : Tells(p, Current(p).command, r) /\ Responds(p, r)) \/ Raises(p)
  BY ExecuteSplits
<1>2. /\ requests' \in [Ports -> RequestQueues] /\ \A q \in Ports : requests'[q].items \in Seq(Requests(q))
  <2>1. /\ requests[p] \in RequestQueues /\ requests[p].items \in Seq(Requests(p))
        /\ requests[p].items # <<>>
    BY <1>1 DEF Takes, MayTake, MayPop, TypeInv
  <2>2. Tail(requests[p].items) \in Seq(Requests(p)) /\ Tail(requests[p].items) \in Seq(Waiting)
    BY <2>1 DEF RequestQueues, Queues
  <2>3. pop(requests[p]) \in RequestQueues /\ pop(requests[p]).items = Tail(requests[p].items)
    BY <2>1, <2>2 DEF pop, RequestQueues, Queues
  <2>4. requests' = [requests EXCEPT ![p] = pop(requests[p])]
    BY <1>1 DEF Takes
  <2> QED BY <2>2, <2>3, <2>4 DEF TypeInv
<1>3. /\ responses' \in [Ports -> ResponseQueues]
      /\ raised' \subseteq Connections \X (1 .. MaxAsked) /\ dbErrors' \in 0 .. MaxDbErrors
  <2>1. CASE Raises(p)
    BY <1>1, <2>1, PathAssumption DEF Raises, TypeInv, Requests
  <2>2. ASSUME NEW r, Tells(p, Current(p).command, r), Responds(p, r)
        PROVE  responses' \in [Ports -> ResponseQueues] /\ UNCHANGED <<raised, dbErrors>>
    <3> DEFINE e == [client |-> Current(p).client, from |-> Current(p).from, n |-> Current(p).n,
                     response |-> r]
    <3>1. r \in AdministratorReplies \cup MonitoringReplies
      BY <2>2 DEF Tells, Replies
    <3>2. e \in Entries
      BY <1>1, <3>1 DEF Entries, Requests
    <3>3. responses' \in Enqueue(responses, p, e) /\ UNCHANGED <<raised, dbErrors>>
      BY <2>2 DEF Responds
    <3> HIDE DEF e
    <3>4. PICK q \in push(responses[p], e) : responses' = [responses EXCEPT ![p] = q]
      BY <3>3 DEF Enqueue
    <3>5. responses[p] \in ResponseQueues
      BY DEF TypeInv
    <3>6. q \in ResponseQueues
      BY <3>2, <3>4, <3>5, Pushed DEF ResponseQueues
    <3> QED BY <3>3, <3>4, <3>6 DEF TypeInv
  <2> QED BY <1>1, <2>1, <2>2 DEF TypeInv
<1>4. /\ pc' \in [Ports -> [{"executor", "sender"} -> {"pop", "inside", "check", "flush", "ended"}]]
      /\ \A q \in Ports : pc'[q]["executor"] \notin {"check", "flush"}
      /\ \A q \in Ports : hand'[q] = NoResponse <=> pc'[q]["sender"] \notin {"check", "flush"}
  <2>1. /\ pc \in [Ports -> [{"executor", "sender"} -> {"pop", "inside", "check", "flush", "ended"}]]
        /\ pc' = [pc EXCEPT ![p]["executor"] = "pop"] /\ hand' = hand
    BY <1>1 DEF Takes, TypeInv
  <2> QED BY <2>1 DEF TypeInv
<1>5. UNCHANGED <<socket, out, hand, quit, port, asked, got>>
  BY <1>1 DEF Takes
<1>6. status' \in [Sensors -> Statuses] /\ name' \in [Sensors -> AllNames]
  BY <1>1 DEF TableKept
<1> QED BY <1>2, <1>3, <1>4, <1>5, <1>6 DEF TypeInv

LEMMA TypeAccept ==
  ASSUME TypeInv, NEW c \in Connections, NEW p \in Ports, Accept(c, p)
  PROVE  TypeInv'
<1>1. PICK i \in Slots : socket' = [socket EXCEPT ![p][i] = c]
  BY DEF Accept
<1>2. port' \in [Connections -> Ports \cup {"none"}]
  BY DEF Accept, TypeInv
<1>3. socket' \in [Ports -> [Slots -> Connections \cup {NoConnection}]]
  BY <1>1 DEF TypeInv
<1>4. UNCHANGED <<table, out, requests, responses, pc, hand, quit, history>>
  BY DEF Accept
<1> QED BY <1>2, <1>3, <1>4 DEF TypeInv, table, history

LEMMA TypeClose ==
  ASSUME TypeInv, NEW c \in Connections, Close(c)
  PROVE  TypeInv'
<1>1. PICK i \in SlotOf(c) : /\ socket' = [socket EXCEPT ![port[c]][i] = NoConnection]
                            /\ out' = [out EXCEPT ![port[c]][i] = <<>>]
                            /\ UNCHANGED <<table, requests, responses, pc, hand, quit, port, history>>
  BY DEF Close
<1>2. i \in Slots /\ port[c] \in Ports
  BY SlotsAre DEF TypeInv
<1>3. socket' \in [Ports -> [Slots -> Connections \cup {NoConnection}]]
  BY <1>1, <1>2 DEF TypeInv
<1>4. out' \in [Ports -> [Slots -> Seq(Entries)]]
  <2>1. <<>> \in Seq(Entries) /\ out \in [Ports -> [Slots -> Seq(Entries)]]
    BY DEF TypeInv
  <2> QED BY <1>1, <1>2, <2>1
<1> QED BY <1>1, <1>3, <1>4 DEF TypeInv, table, history

\* The request of c's next command, given in slot i
NextRequest(c, i, command) == [client |-> i, from |-> c, n |-> Len(asked[c]) + 1, command |-> command]

QueuesNext(c, command, p) ==
  \E i \in Slots : \E q \in RequestQueues :
    /\ socket[p][i] = c /\ NextRequest(c, i, command) \in Requests(p)
    /\ requests' = [requests EXCEPT ![p] = q]
    /\ q.items = Append(requests[p].items, NextRequest(c, i, command))
    /\ q.waiting = {} \/ (requests[p].items # <<>> /\ q.waiting = requests[p].waiting)

\* What is queued and noted of a command
LEMMA AskEffect ==
  ASSUME TypeInv, NEW c \in Connections, Open(c), NEW command \in Asks[port[c]], Ask(c, command)
  PROVE  /\ port[c] \in Ports /\ Len(asked[c]) \in Nat /\ Len(asked[c]) + 1 \in 1 .. MaxAsked
         /\ RevocationsShown \subseteq Sensors
         /\ asked' = [asked EXCEPT ![c] = Append(@, [command |-> command, revoked |-> RevocationsShown])]
         /\ asked'[c] \in Seq(Questions) /\ Len(asked'[c]) = Len(asked[c]) + 1
         /\ QueuesNext(c, command, port[c])
         /\ "id" \in DOMAIN command => status[command.id] # "ABSENT"
         /\ UNCHANGED <<table, socket, out, responses, pc, hand, quit, port, got, raised, dbErrors>>
<1> DEFINE p == port[c]
           question == [command |-> command, revoked |-> RevocationsShown]
<1>1. PICK i \in SlotOf(c) :
        requests' \in Enqueue(requests, p, [client |-> i, from |-> c, n |-> Len(asked[c]) + 1,
                                           command |-> Understood[p][command]])
  BY DEF Ask
<1>2. i \in Slots /\ p \in Ports /\ socket[p][i] = c
  BY SlotsAre DEF TypeInv
<1>3. asked[c] \in Seq(Questions) /\ Len(asked[c]) \in Nat /\ Len(asked[c]) + 1 \in 1 .. MaxAsked
  <2>1. asked[c] \in Seq(Questions) /\ Len(asked[c]) < MaxAsked
    BY DEF Ask, TypeInv
  <2>2. Len(asked[c]) \in Nat /\ MaxAsked \in Nat
    BY <2>1, PathAssumption
  <2> QED BY <2>1, <2>2
<1>4. RevocationsShown \subseteq Sensors
  BY DEF RevocationsShown
<1>5. question \in Questions
  <2>1. command \in AllCommands
    BY <1>2 DEF AllCommands, Ports
  <2> QED BY <1>4, <2>1 DEF Questions
<1>6. asked' = [asked EXCEPT ![c] = Append(asked[c], question)]
  BY DEF Ask
<1>7. asked'[c] = Append(asked[c], question)
  BY <1>6 DEF TypeInv
<1> HIDE DEF question
<1>8. asked'[c] \in Seq(Questions) /\ Len(asked'[c]) = Len(asked[c]) + 1
  BY <1>3, <1>5, <1>7
<1> DEFINE r == NextRequest(c, i, command)
<1>9. r \in Requests(p) /\ r \in Waiting
  BY <1>2, <1>3 DEF NextRequest, Requests, Waiting, AllCommands, Ports
<1>10. Understood[p][command] = command
  BY <1>2, UnderstoodRight
<1> HIDE DEF r
<1>11. requests' \in Enqueue(requests, p, r)
  BY <1>1, <1>10 DEF r, NextRequest
<1>12. PICK q \in push(requests[p], r) : requests' = [requests EXCEPT ![p] = q]
  BY <1>11 DEF Enqueue
<1>13. requests[p] \in RequestQueues
  BY <1>2 DEF TypeInv
<1>14. /\ q \in RequestQueues /\ q.items = Append(requests[p].items, r)
       /\ q.waiting = {} \/ (requests[p].items # <<>> /\ q.waiting = requests[p].waiting)
  BY <1>9, <1>12, <1>13, Pushed DEF RequestQueues
<1>15. /\ "id" \in DOMAIN command => status[command.id] # "ABSENT"
       /\ UNCHANGED <<table, socket, out, responses, pc, hand, quit, port, got, raised, dbErrors>>
  BY DEF Ask
<1>16. QueuesNext(c, command, p)
  BY <1>2, <1>9, <1>12, <1>14 DEF r, QueuesNext
<1> QED BY <1>2, <1>3, <1>4, <1>6, <1>8, <1>15, <1>16 DEF question

LEMMA TypeAsk ==
  ASSUME TypeInv, NEW c \in Connections, Open(c), NEW command \in Asks[port[c]], Ask(c, command)
  PROVE  TypeInv'
<1> DEFINE p == port[c]
           old == requests[p].items
<1>1. /\ p \in Ports /\ Len(asked[c]) + 1 \in 1 .. MaxAsked
      /\ asked' = [asked EXCEPT ![c] = Append(@, [command |-> command, revoked |-> RevocationsShown])]
      /\ asked'[c] \in Seq(Questions) /\ Len(asked'[c]) = Len(asked[c]) + 1
      /\ UNCHANGED <<table, socket, out, responses, pc, hand, quit, port, got, raised, dbErrors>>
  BY AskEffect
<1>2. QueuesNext(c, command, p)
  BY AskEffect
<1>3. PICK r \in Requests(p), q \in RequestQueues :
        requests' = [requests EXCEPT ![p] = q] /\ q.items = Append(old, r)
  BY <1>2 DEF QueuesNext
<1>4. asked' \in [Connections -> Seq(Questions)] /\ \A d \in Connections : Len(asked'[d]) <= MaxAsked
  BY <1>1 DEF TypeInv
<1>5. old \in Seq(Requests(p))
  BY <1>1 DEF TypeInv
<1> HIDE DEF old
<1>6. Append(old, r) \in Seq(Requests(p))
  BY <1>5
<1>7. /\ requests' \in [Ports -> RequestQueues]
      /\ \A o \in Ports : requests'[o].items \in Seq(Requests(o))
  BY <1>1, <1>3, <1>6 DEF TypeInv
<1> QED BY <1>1, <1>4, <1>7 DEF TypeInv, table

LEMMA TypeThreads ==
  ASSUME TypeInv, NEW p \in Ports,
         SleepExecutor(p) \/ SleepSender(p) \/ End(p, "executor") \/ End(p, "sender")
  PROVE  TypeInv'
<1>1. pc \in [Ports -> [{"executor", "sender"} -> {"pop", "inside", "check", "flush", "ended"}]]
  BY DEF TypeInv
<1>2. ASSUME NEW t \in {"executor", "sender"}, NEW at \in {"inside", "ended"},
             pc[p][t] = "pop", pc' = [pc EXCEPT ![p][t] = at], hand' = hand
      PROVE  /\ pc' \in [Ports -> [{"executor", "sender"} -> {"pop", "inside", "check", "flush", "ended"}]]
             /\ \A q \in Ports : pc'[q]["executor"] \notin {"check", "flush"}
             /\ \A q \in Ports : hand'[q] = NoResponse <=> pc'[q]["sender"] \notin {"check", "flush"}
  BY <1>1, <1>2 DEF TypeInv
<1>3. CASE SleepExecutor(p)
  <2>1. /\ pc[p]["executor"] = "pop" /\ pc' = [pc EXCEPT ![p]["executor"] = "inside"]
        /\ requests' = [requests EXCEPT ![p] = wait(requests[p], "executor")]
        /\ UNCHANGED <<table, socket, out, responses, hand, quit, port, history>>
    BY <1>3 DEF SleepExecutor, Sleep
  <2>2. /\ wait(requests[p], "executor") \in RequestQueues
        /\ wait(requests[p], "executor").items = requests[p].items
    BY Waited DEF TypeInv, RequestQueues
  <2>3. /\ requests' \in [Ports -> RequestQueues]
        /\ \A o \in Ports : requests'[o].items \in Seq(Requests(o))
    BY <2>1, <2>2 DEF TypeInv
  <2> QED BY <1>2, <2>1, <2>3 DEF TypeInv, table, history
<1>4. CASE SleepSender(p)
  <2>1. /\ pc[p]["sender"] = "pop" /\ pc' = [pc EXCEPT ![p]["sender"] = "inside"]
        /\ responses' = [responses EXCEPT ![p] = wait(responses[p], "sender")]
        /\ UNCHANGED <<table, socket, out, requests, hand, quit, port, history>>
    BY <1>4 DEF SleepSender, Sleep
  <2>2. wait(responses[p], "sender") \in ResponseQueues
    BY Waited DEF TypeInv, ResponseQueues
  <2>3. responses' \in [Ports -> ResponseQueues]
    BY <2>1, <2>2 DEF TypeInv
  <2> QED BY <1>2, <2>1, <2>3 DEF TypeInv, table, history
<1>5. ASSUME NEW t \in {"executor", "sender"}, End(p, t) PROVE TypeInv'
  <2>1. /\ pc[p][t] = "pop" /\ pc' = [pc EXCEPT ![p][t] = "ended"]
        /\ UNCHANGED <<table, socket, out, requests, responses, hand, quit, port, history>>
    BY <1>5 DEF End
  <2> QED BY <1>2, <2>1 DEF TypeInv, table, history
<1> QED BY <1>3, <1>4, <1>5

LEMMA TypeTakeResponse ==
  ASSUME TypeInv, NEW p \in Ports, TakeResponse(p)
  PROVE  TypeInv'
<1>1. /\ hand' = [hand EXCEPT ![p] = Head(responses[p].items)]
      /\ responses' = [responses EXCEPT ![p] = pop(responses[p])]
      /\ pc' = [pc EXCEPT ![p]["sender"] = "check"]
      /\ UNCHANGED <<table, socket, out, requests, quit, port, history>>
  BY DEF TakeResponse, front
<1>2. responses[p].items \in Seq(Entries) /\ responses[p].items # <<>>
  BY DEF TypeInv, ResponseQueues, Queues, TakeResponse, MayTake, MayPop
<1>3. Head(responses[p].items) \in Entries /\ Tail(responses[p].items) \in Seq(Entries)
  BY <1>2
<1>4. pop(responses[p]) \in ResponseQueues
  <2>1. responses[p] \in [items : Seq(Entries), waiting : SUBSET {"sender"}]
    BY DEF TypeInv, ResponseQueues, Queues
  <2>2. pop(responses[p]) = [responses[p] EXCEPT !.items = Tail(responses[p].items)]
    BY DEF pop
  <2> QED BY <1>3, <2>1, <2>2 DEF ResponseQueues, Queues
<1>5. NoResponse \notin Entries
  BY DEF NoResponse, Entries, Slots
<1>6. responses' \in [Ports -> ResponseQueues] /\ hand' \in [Ports -> Entries \cup {NoResponse}]
  BY <1>1, <1>3, <1>4 DEF TypeInv
<1>7. /\ pc' \in [Ports -> [{"executor", "sender"} -> {"pop", "inside", "check", "flush", "ended"}]]
      /\ \A q \in Ports : pc'[q]["executor"] \notin {"check", "flush"}
      /\ \A q \in Ports : hand'[q] = NoResponse <=> pc'[q]["sender"] \notin {"check", "flush"}
  BY <1>1, <1>3, <1>5 DEF TypeInv
<1> QED BY <1>1, <1>6, <1>7 DEF TypeInv, table, history

LEMMA TypeCheckSlot ==
  ASSUME TypeInv, NEW p \in Ports, CheckSlot(p)
  PROVE  TypeInv'
<1>1. /\ pc[p]["sender"] = "check"
      /\ \/ pc' = [pc EXCEPT ![p]["sender"] = "pop"] /\ hand' = [hand EXCEPT ![p] = NoResponse]
         \/ pc' = [pc EXCEPT ![p]["sender"] = "flush"] /\ UNCHANGED hand
      /\ UNCHANGED <<table, socket, out, requests, responses, quit, port, history>>
  BY DEF CheckSlot
<1>2. hand' \in [Ports -> Entries \cup {NoResponse}]
  BY <1>1 DEF TypeInv
<1>3. /\ pc' \in [Ports -> [{"executor", "sender"} -> {"pop", "inside", "check", "flush", "ended"}]]
      /\ \A q \in Ports : pc'[q]["executor"] \notin {"check", "flush"}
      /\ \A q \in Ports : hand'[q] = NoResponse <=> pc'[q]["sender"] \notin {"check", "flush"}
  <2>1. /\ pc \in [Ports -> [{"executor", "sender"} -> {"pop", "inside", "check", "flush", "ended"}]]
        /\ \A q \in Ports : pc[q]["executor"] \notin {"check", "flush"}
        /\ hand \in [Ports -> Entries \cup {NoResponse}]
        /\ \A q \in Ports : hand[q] = NoResponse <=> pc[q]["sender"] \notin {"check", "flush"}
    BY DEF TypeInv
  <2>2. CASE pc' = [pc EXCEPT ![p]["sender"] = "pop"] /\ hand' = [hand EXCEPT ![p] = NoResponse]
    BY <2>1, <2>2
  <2>3. CASE pc' = [pc EXCEPT ![p]["sender"] = "flush"] /\ UNCHANGED hand
    <3>1. hand[p] # NoResponse
      BY <1>1, <2>1
    <3> QED BY <2>1, <2>3, <3>1
  <2> QED BY <1>1, <2>2, <2>3
<1> QED BY <1>1, <1>2, <1>3 DEF TypeInv, table, history

LEMMA TypeFlush ==
  ASSUME TypeInv, NEW p \in Ports, Flush(p)
  PROVE  TypeInv'
<1> DEFINE i == hand[p].client
           sent == Append(out[p][i], hand[p])
<1>1. /\ pc[p]["sender"] = "flush" /\ Deliver(p, i, sent)
      /\ hand' = [hand EXCEPT ![p] = NoResponse]
      /\ pc' = [pc EXCEPT ![p]["sender"] = "pop"]
      /\ UNCHANGED <<table, socket, requests, responses, quit, port, asked, raised, dbErrors>>
  BY DEF Flush
<1>2. hand[p] \in Entries
  BY <1>1 DEF TypeInv
<1>3. i \in Slots
  BY <1>2 DEF Entries
<1>4. out[p][i] \in Seq(Entries)
  BY <1>3 DEF TypeInv
<1>5. sent \in Seq(Entries)
  BY <1>2, <1>4
<1> HIDE DEF i, sent
<1>6. out' \in [Ports -> [Slots -> Seq(Entries)]] /\ got' \in [Connections -> Seq(Entries)]
  BY <1>1, <1>3, <1>5, TypeDeliver
<1>7. /\ pc' \in [Ports -> [{"executor", "sender"} -> {"pop", "inside", "check", "flush", "ended"}]]
      /\ \A q \in Ports : pc'[q]["executor"] \notin {"check", "flush"}
      /\ \A q \in Ports : hand'[q] = NoResponse <=> pc'[q]["sender"] \notin {"check", "flush"}
      /\ hand' \in [Ports -> Entries \cup {NoResponse}]
  BY <1>1 DEF TypeInv
<1> QED BY <1>1, <1>6, <1>7 DEF TypeInv, table

LEMMA TypeSendPending ==
  ASSUME TypeInv, NEW p \in Ports, NEW i \in Slots, SendPending(p, i)
  PROVE  TypeInv'
<1>1. out[p][i] \in Seq(Entries) /\ Deliver(p, i, out[p][i])
  BY DEF SendPending, TypeInv
<1>2. out' \in [Ports -> [Slots -> Seq(Entries)]] /\ got' \in [Connections -> Seq(Entries)]
  BY <1>1, TypeDeliver
<1> QED BY <1>2 DEF SendPending, TypeInv, table

\* The sensors' executor
LEMMA ComeAndGo ==
  ASSUME TypeInv, SensorsComeAndGo
  PROVE  /\ TableKept /\ name' = name /\ [Table!Next]_status
         /\ UNCHANGED <<name, socket, out, requests, responses, pc, hand, quit, port, history>>
<1>1. PICK s \in Mobile : Table!Activate(s) \/ Table!Deactivate(s)
  BY DEF SensorsComeAndGo
<1>2. s \in Sensors
  BY PathAssumption
<1>3. /\ UNCHANGED <<name, socket, out, requests, responses, pc, hand, quit, port, history>>
      /\ name' = name
  BY DEF SensorsComeAndGo
<1>4. Table!Usable(s) /\ \E new \in {"ACTIVE", "DISCONNECTED"} : status' = [status EXCEPT ![s] = new]
  BY <1>1 DEF Table!Activate, Table!Deactivate, Table!Become
<1>5. TableKept
  BY <1>2, <1>3, <1>4 DEF TableKept, TypeInv, Table!Usable, Statuses
<1>6. [Table!Next]_status
  BY <1>1, <1>2 DEF Table!Next
<1> QED BY <1>3, <1>5, <1>6

LEMMA TypeStep == TypeInv /\ [Next]_vars => TypeInv'
<1> SUFFICES ASSUME TypeInv, [Next]_vars PROVE TypeInv'
  OBVIOUS
<1>1. CASE Quit
  BY <1>1 DEF Quit, TypeInv, table, history
<1>2. CASE SensorsComeAndGo
  BY <1>2, ComeAndGo DEF TableKept, TypeInv, history
<1>3. CASE UNCHANGED vars
  BY <1>3 DEF vars, TypeInv, table, history
<1>4. ASSUME NEW p \in Ports, Executor(p) \/ Sender(p) \/ \E i \in Slots : SendPending(p, i)
      PROVE  TypeInv'
  BY <1>4, TypeExecute, TypeThreads, TypeTakeResponse, TypeCheckSlot, TypeFlush, TypeSendPending
     DEF Executor, Sender
<1>5. ASSUME NEW c \in Connections,
             \/ Close(c) \/ \E p \in Ports : Accept(c, p)
             \/ Open(c) /\ \E command \in Asks[port[c]] : Ask(c, command)
      PROVE  TypeInv'
  BY <1>5, TypeClose, TypeAccept, TypeAsk
<1> QED BY <1>1, <1>2, <1>3, <1>4, <1>5 DEF Next

LEMMA TypesKept == Spec => []TypeInv
BY TypeInit, TypeStep, PTL DEF Spec

-----------------------------------------------------------------------------
(* The queues *)

\* What a step does to a queue of which t is the consumer
Moves(q, r, E, t) ==
  \/ r = q
  \/ t \notin q.waiting /\ q.items # <<>> /\ r.items = Tail(q.items) /\ r.waiting = q.waiting
  \/ \E e \in E : /\ r.items = Append(q.items, e)
                  /\ r.waiting = {} \/ (q.items # <<>> /\ r.waiting = q.waiting)
  \/ q.items = <<>> /\ r.items = <<>>

LEMMA ExecuteQueues ==
  ASSUME TypeInv, NEW p \in Ports, Execute(p)
  PROVE  /\ Moves(requests[p], requests'[p], Requests(p), "executor")
         /\ Moves(responses[p], responses'[p], Entries, "sender")
         /\ \A o \in Ports \ {p} : requests'[o] = requests[o] /\ responses'[o] = responses[o]
<1>1. /\ Takes(p) /\ Current(p) \in Requests(p)
      /\ (\E r : Tells(p, Current(p).command, r) /\ Responds(p, r)) \/ Raises(p)
  BY ExecuteSplits
<1>2. /\ "executor" \notin requests[p].waiting /\ requests[p].items # <<>>
      /\ requests' = [requests EXCEPT ![p] = pop(requests[p])]
  BY <1>1 DEF Takes, MayTake, MayPop
<1>3. pop(requests[p]).items = Tail(requests[p].items) /\ pop(requests[p]).waiting = requests[p].waiting
  BY Popped DEF TypeInv, RequestQueues
<1>4. /\ Moves(requests[p], requests'[p], Requests(p), "executor")
      /\ \A o \in Ports \ {p} : requests'[o] = requests[o]
  BY <1>2, <1>3 DEF Moves, TypeInv
<1>5. CASE Raises(p)
  BY <1>4, <1>5 DEF Raises, Moves
<1>6. ASSUME NEW r, Tells(p, Current(p).command, r), Responds(p, r)
      PROVE  /\ Moves(responses[p], responses'[p], Entries, "sender")
             /\ \A o \in Ports \ {p} : responses'[o] = responses[o]
  <2> DEFINE e == [client |-> Current(p).client, from |-> Current(p).from, n |-> Current(p).n,
                   response |-> r]
  <2>1. e \in Entries
    BY <1>1, <1>6 DEF Entries, Requests, Tells, Replies
  <2>2. responses' \in Enqueue(responses, p, e)
    BY <1>6 DEF Responds
  <2> HIDE DEF e
  <2>3. PICK q \in push(responses[p], e) : responses' = [responses EXCEPT ![p] = q]
    BY <2>2 DEF Enqueue
  <2>4. responses[p] \in ResponseQueues
    BY DEF TypeInv
  <2>5. /\ q.items = Append(responses[p].items, e)
        /\ q.waiting = {} \/ (responses[p].items # <<>> /\ q.waiting = responses[p].waiting)
    BY <2>1, <2>3, <2>4, Pushed DEF ResponseQueues
  <2>6. responses'[p] = q /\ \A o \in Ports \ {p} : responses'[o] = responses[o]
    BY <2>3 DEF TypeInv
  <2> QED BY <2>1, <2>5, <2>6 DEF Moves
<1> QED BY <1>1, <1>4, <1>5, <1>6

LEMMA AskQueues ==
  ASSUME TypeInv, NEW c \in Connections, Open(c), NEW command \in Asks[port[c]], Ask(c, command)
  PROVE  /\ port[c] \in Ports /\ responses' = responses
         /\ Moves(requests[port[c]], requests'[port[c]], Requests(port[c]), "executor")
         /\ \A o \in Ports \ {port[c]} : requests'[o] = requests[o]
<1> DEFINE p == port[c]
<1>1. p \in Ports /\ responses' = responses /\ QueuesNext(c, command, p)
  BY AskEffect
<1>2. PICK r \in Requests(p), q \in RequestQueues :
           /\ requests' = [requests EXCEPT ![p] = q]
           /\ q.items = Append(requests[p].items, r)
           /\ q.waiting = {} \/ (requests[p].items # <<>> /\ q.waiting = requests[p].waiting)
  BY <1>1 DEF QueuesNext
<1>3. requests'[p] = q /\ \A o \in Ports \ {p} : requests'[o] = requests[o]
  BY <1>1, <1>2 DEF TypeInv
<1> QED BY <1>1, <1>2, <1>3 DEF Moves

LEMMA QueuesMove ==
  ASSUME TypeInv, [Next]_vars, NEW p \in Ports
  PROVE  /\ Moves(requests[p], requests'[p], Requests(p), "executor")
         /\ Moves(responses[p], responses'[p], Entries, "sender")
<1> DEFINE Goal == /\ Moves(requests[p], requests'[p], Requests(p), "executor")
                   /\ Moves(responses[p], responses'[p], Entries, "sender")
<1>1. ASSUME UNCHANGED <<requests, responses>> PROVE Goal
  BY <1>1 DEF Moves
<1>2. ASSUME NEW o \in Ports, Execute(o) PROVE Goal
  BY <1>2, ExecuteQueues DEF Moves
<1>3. ASSUME NEW o \in Ports, SleepExecutor(o) PROVE Goal
  <2>1. /\ requests[o].items = <<>> /\ requests' = [requests EXCEPT ![o] = wait(requests[o], "executor")]
        /\ responses' = responses
    BY <1>3 DEF SleepExecutor, Sleep, MayWait
  <2>2. wait(requests[o], "executor").items = requests[o].items
    BY Waited DEF TypeInv, RequestQueues
  <2> QED BY <2>1, <2>2 DEF Moves, TypeInv
<1>4. ASSUME NEW o \in Ports, SleepSender(o) PROVE Goal
  <2>1. /\ responses[o].items = <<>> /\ responses' = [responses EXCEPT ![o] = wait(responses[o], "sender")]
        /\ requests' = requests
    BY <1>4 DEF SleepSender, Sleep, MayWait
  <2>2. wait(responses[o], "sender").items = responses[o].items
    BY Waited DEF TypeInv, ResponseQueues
  <2> QED BY <2>1, <2>2 DEF Moves, TypeInv
<1>5. ASSUME NEW o \in Ports, TakeResponse(o) PROVE Goal
  <2>1. /\ "sender" \notin responses[o].waiting /\ responses[o].items # <<>>
        /\ responses' = [responses EXCEPT ![o] = pop(responses[o])] /\ requests' = requests
    BY <1>5 DEF TakeResponse, MayTake, MayPop
  <2>2. pop(responses[o]).items = Tail(responses[o].items) /\ pop(responses[o]).waiting = responses[o].waiting
    BY Popped DEF TypeInv, ResponseQueues
  <2> QED BY <2>1, <2>2 DEF Moves, TypeInv
<1>6. ASSUME NEW c \in Connections, NEW command \in Asks[port[c]], Open(c), Ask(c, command) PROVE Goal
  BY <1>6, AskQueues DEF Moves
<1> HIDE DEF Goal
<1>7. ASSUME NEW o \in Ports, Executor(o) \/ Sender(o) \/ \E i \in Slots : SendPending(o, i) PROVE Goal
  BY <1>1, <1>2, <1>3, <1>4, <1>5, <1>7 DEF Executor, Sender, End, CheckSlot, Flush, SendPending
<1>8. ASSUME NEW c \in Connections, Close(c) \/ \E o \in Ports : Accept(c, o) PROVE Goal
  BY <1>1, <1>8 DEF Close, Accept
<1>9. ASSUME Quit \/ SensorsComeAndGo \/ UNCHANGED vars PROVE Goal
  BY <1>1, <1>9 DEF Quit, SensorsComeAndGo, vars
<1> USE DEF Goal
<1> QED BY <1>6, <1>7, <1>8, <1>9 DEF Next

\* Threads sleep only at empty queues.
SleepInv ==
  \A p \in Ports : /\ requests[p].items # <<>> => requests[p].waiting = {}
                   /\ responses[p].items # <<>> => responses[p].waiting = {}

LEMMA SleepStep == TypeInv /\ SleepInv /\ [Next]_vars => SleepInv'
<1> SUFFICES ASSUME TypeInv, SleepInv, [Next]_vars, NEW p \in Ports
             PROVE  /\ requests'[p].items # <<>> => requests'[p].waiting = {}
                    /\ responses'[p].items # <<>> => responses'[p].waiting = {}
  BY DEF SleepInv
<1>1. /\ Moves(requests[p], requests'[p], Requests(p), "executor")
      /\ Moves(responses[p], responses'[p], Entries, "sender")
  BY QueuesMove
<1>2. requests[p].items # <<>> /\ requests'[p].items # <<>> => requests'[p].waiting = {}
  BY <1>1 DEF SleepInv, Moves
<1>3. requests[p].items = <<>> /\ requests'[p].items # <<>> => requests'[p].waiting = {}
  BY <1>1 DEF SleepInv, Moves
<1>4. responses[p].items # <<>> /\ responses'[p].items # <<>> => responses'[p].waiting = {}
  BY <1>1 DEF SleepInv, Moves
<1>5. responses[p].items = <<>> /\ responses'[p].items # <<>> => responses'[p].waiting = {}
  BY <1>1 DEF SleepInv, Moves
<1> QED BY <1>2, <1>3, <1>4, <1>5

LEMMA StartQueues ==
  ASSUME Init, NEW p \in Ports
  PROVE  requests[p].items = <<>> /\ responses[p].items = <<>>
BY DEF Init, wait, EmptyQueue

\* No executor and no sender of the two ports sleeps through a push, whatever the
\* network loops and the other threads do meanwhile.
THEOREM WakesCorrect == Spec => []NoneStranded
<1>1. Init => SleepInv
  BY StartQueues DEF SleepInv
<1>2. SleepInv => NoneStranded
  BY DEF SleepInv, NoneStranded, RequestQueue!NoneStranded, ResponseQueue!NoneStranded
<1> QED BY <1>1, <1>2, SleepStep, TypesKept, PTL DEF Spec

-----------------------------------------------------------------------------
(* Sequences as sets *)

LEMMA InToSet == ASSUME NEW q, NEW x PROVE x \in ToSet(q) <=> \E k \in DOMAIN q : x = q[k]
BY DEF ToSet

LEMMA EmptyToSet == ToSet(<<>>) = {}
BY DEF ToSet

LEMMA AppendToSet ==
  ASSUME NEW E, NEW q \in Seq(E), NEW e
  PROVE  ToSet(Append(q, e)) = ToSet(q) \cup {e}
<1>1. DOMAIN Append(q, e) = 1 .. (Len(q) + 1) /\ DOMAIN q = 1 .. Len(q) /\ Len(q) \in Nat
  OBVIOUS
<1>2. \A k \in 1 .. Len(q) : Append(q, e)[k] = q[k]
  OBVIOUS
<1>3. Append(q, e)[Len(q) + 1] = e
  OBVIOUS
<1>4. 1 .. (Len(q) + 1) = (1 .. Len(q)) \cup {Len(q) + 1}
  BY <1>1
<1>5. ASSUME NEW x PROVE x \in ToSet(Append(q, e)) <=> x \in ToSet(q) \cup {e}
  BY <1>1, <1>2, <1>3, <1>4 DEF ToSet
<1> QED BY <1>5

LEMMA TailToSet ==
  ASSUME NEW E, NEW q \in Seq(E), q # <<>>
  PROVE  ToSet(q) = {Head(q)} \cup ToSet(Tail(q)) /\ Head(q) \in E
<1>1. DOMAIN Tail(q) = 1 .. (Len(q) - 1) /\ DOMAIN q = 1 .. Len(q) /\ Len(q) \in Nat /\ Len(q) > 0
  OBVIOUS
<1>2. \A k \in 1 .. (Len(q) - 1) : Tail(q)[k] = q[k + 1]
  OBVIOUS
<1>3. Head(q) = q[1]
  OBVIOUS
<1>4. \A k \in 1 .. Len(q) : k = 1 \/ (k - 1 \in 1 .. (Len(q) - 1) /\ (k - 1) + 1 = k)
  BY <1>1
<1>5. ASSUME NEW x \in ToSet(q) PROVE x \in {Head(q)} \cup ToSet(Tail(q))
  <2>1. PICK k \in 1 .. Len(q) : x = q[k]
    BY <1>1 DEF ToSet
  <2>2. CASE k = 1
    BY <1>3, <2>1, <2>2
  <2>3. CASE k # 1
    <3>1. k - 1 \in 1 .. (Len(q) - 1) /\ Tail(q)[k - 1] = x
      BY <1>2, <1>4, <2>1, <2>3
    <3> QED BY <1>1, <3>1 DEF ToSet
  <2> QED BY <2>2, <2>3
<1>6. \A k \in 1 .. (Len(q) - 1) : k + 1 \in 1 .. Len(q)
  BY <1>1
<1>7. ASSUME NEW x \in {Head(q)} \cup ToSet(Tail(q)) PROVE x \in ToSet(q)
  <2>1. 1 \in 1 .. Len(q)
    BY <1>1
  <2> QED BY <1>1, <1>2, <1>3, <1>6, <1>7, <2>1 DEF ToSet
<1> QED BY <1>5, <1>7

LEMMA ConcatToSet ==
  ASSUME NEW E, NEW q \in Seq(E), NEW r \in Seq(E)
  PROVE  ToSet(q \o r) = ToSet(q) \cup ToSet(r)
<1> DEFINE m == Len(q)
           n == Len(r)
<1>1. DOMAIN (q \o r) = 1 .. (m + n) /\ DOMAIN q = 1 .. m /\ DOMAIN r = 1 .. n /\ m \in Nat /\ n \in Nat
  OBVIOUS
<1>2. \A k \in 1 .. m : (q \o r)[k] = q[k]
  OBVIOUS
<1>3. \A k \in 1 .. n : (q \o r)[m + k] = r[k]
  OBVIOUS
<1> HIDE DEF m, n
<1>4. ASSUME NEW k \in 1 .. (m + n) PROVE k \in 1 .. m \/ (k - m \in 1 .. n /\ m + (k - m) = k)
  BY <1>1
<1>5. ASSUME NEW x \in ToSet(q \o r) PROVE x \in ToSet(q) \cup ToSet(r)
  <2>1. PICK k \in 1 .. (m + n) : x = (q \o r)[k]
    BY <1>1 DEF ToSet
  <2>2. CASE k \in 1 .. m
    BY <1>1, <1>2, <2>1, <2>2 DEF ToSet
  <2>3. CASE k - m \in 1 .. n /\ m + (k - m) = k
    <3>1. x = r[k - m]
      BY <1>3, <2>1, <2>3
    <3> QED BY <1>1, <2>3, <3>1 DEF ToSet
  <2> QED BY <1>4, <2>2, <2>3
<1>6. /\ \A k \in 1 .. m : k \in 1 .. (m + n)
      /\ \A k \in 1 .. n : m + k \in 1 .. (m + n)
  BY <1>1
<1>7. ASSUME NEW x \in ToSet(q) \cup ToSet(r) PROVE x \in ToSet(q \o r)
  BY <1>1, <1>2, <1>3, <1>6, <1>7 DEF ToSet
<1> QED BY <1>5, <1>7

LEMMA SeqToSet == ASSUME NEW E, NEW q \in Seq(E) PROVE ToSet(q) \subseteq E
BY DEF ToSet

-----------------------------------------------------------------------------
(* Sockets *)

SocketsInv ==
  /\ \A p \in Ports : \A i \in Slots : socket[p][i] # NoConnection => port[socket[p][i]] = p
  /\ \A p \in Ports : \A i, j \in Slots :
       socket[p][i] = socket[p][j] /\ socket[p][i] # NoConnection => i = j
  /\ \A c \in Connections : port[c] = "none" => got[c] = <<>> /\ asked[c] = <<>>

LEMMA DeliverSends ==
  ASSUME TypeInv, NEW p \in Ports, NEW i \in Slots, NEW sent \in Seq(Entries), Deliver(p, i, sent)
  PROVE  \/ /\ socket[p][i] = NoConnection /\ got' = got
            /\ out' = [out EXCEPT ![p][i] = sent]
         \/ /\ socket[p][i] \in Connections /\ socket[p][i] # NoConnection
            /\ out' = [out EXCEPT ![p][i] = <<>>]
            /\ got' = [got EXCEPT ![socket[p][i]] = got[socket[p][i]] \o sent]
<1>1. socket[p][i] \in Connections \cup {NoConnection}
  BY DEF TypeInv
<1> QED BY <1>1 DEF Deliver

LEMMA FlushDelivers ==
  ASSUME TypeInv, NEW p \in Ports, Flush(p)
  PROVE  /\ hand[p] \in Entries /\ hand[p] # NoResponse /\ hand[p].client \in Slots
         /\ out[p][hand[p].client] \in Seq(Entries)
         /\ Append(out[p][hand[p].client], hand[p]) \in Seq(Entries)
         /\ Deliver(p, hand[p].client, Append(out[p][hand[p].client], hand[p]))
         /\ hand' = [hand EXCEPT ![p] = NoResponse]
         /\ UNCHANGED <<table, socket, requests, responses, quit, port, asked, raised, dbErrors>>
<1>1. /\ pc[p]["sender"] = "flush"
      /\ Deliver(p, hand[p].client, Append(out[p][hand[p].client], hand[p]))
      /\ hand' = [hand EXCEPT ![p] = NoResponse]
      /\ UNCHANGED <<table, socket, requests, responses, quit, port, asked, raised, dbErrors>>
  BY DEF Flush
<1>2. hand[p] \in Entries /\ hand[p] # NoResponse
  BY <1>1 DEF TypeInv
<1>3. hand[p].client \in Slots
  BY <1>2 DEF Entries
<1>4. out[p][hand[p].client] \in Seq(Entries)
  BY <1>3 DEF TypeInv
<1>5. Append(out[p][hand[p].client], hand[p]) \in Seq(Entries)
  BY <1>2, <1>4
<1> QED BY <1>1, <1>2, <1>3, <1>4, <1>5

LEMMA SocketsStep == TypeInv /\ SocketsInv /\ [Next]_vars => SocketsInv'
<1> SUFFICES ASSUME TypeInv, SocketsInv, [Next]_vars PROVE SocketsInv'
  OBVIOUS
<1>1. ASSUME UNCHANGED <<socket, port, got, asked>> PROVE SocketsInv'
  BY <1>1 DEF SocketsInv
<1>2. ASSUME NEW p \in Ports, Execute(p) PROVE SocketsInv'
  BY <1>1, <1>2, ExecuteSplits DEF Takes
<1>3. ASSUME NEW p \in Ports, NEW i \in Slots, NEW sent \in Seq(Entries), Deliver(p, i, sent),
             UNCHANGED <<socket, port, asked>>
      PROVE  SocketsInv'
  <2>1. CASE got' = got
    BY <1>1, <1>3, <2>1
  <2>2. CASE /\ socket[p][i] \in Connections /\ socket[p][i] # NoConnection
             /\ got' = [got EXCEPT ![socket[p][i]] = got[socket[p][i]] \o sent]
    <3>1. port[socket[p][i]] # "none"
      BY <2>2 DEF SocketsInv, Ports
    <3>2. \A c \in Connections : port[c] = "none" => got'[c] = got[c]
      BY <2>2, <3>1 DEF TypeInv
    <3> QED BY <1>3, <3>2 DEF SocketsInv
  <2> QED BY <1>3, <2>1, <2>2, DeliverSends
<1>4. ASSUME NEW p \in Ports, Flush(p) PROVE SocketsInv'
  BY <1>3, <1>4, FlushDelivers
<1>5. ASSUME NEW p \in Ports, NEW i \in Slots, SendPending(p, i) PROVE SocketsInv'
  BY <1>3, <1>5 DEF SendPending, TypeInv
<1>6. ASSUME NEW c \in Connections, NEW p \in Ports, Accept(c, p) PROVE SocketsInv'
  <2>1. /\ port[c] = "none" /\ port' = [port EXCEPT ![c] = p]
        /\ \E i \in Slots : socket[p][i] = NoConnection /\ socket' = [socket EXCEPT ![p][i] = c]
        /\ got' = got /\ asked' = asked
    BY <1>6 DEF Accept, history
  <2>2. \A q \in Ports : \A j \in Slots : socket[q][j] # c
    BY <2>1, PathAssumption DEF SocketsInv, Ports
  <2>3. PICK i \in Slots : socket[p][i] = NoConnection /\ socket' = [socket EXCEPT ![p][i] = c]
    BY <2>1
  <2>4. ASSUME NEW q \in Ports, NEW j \in Slots
        PROVE  \/ socket'[q][j] = socket[q][j] /\ (q # p \/ j # i)
               \/ q = p /\ j = i /\ socket'[q][j] = c
    BY <2>3 DEF TypeInv
  <2>5. \A d \in Connections : d # c => port'[d] = port[d]
    BY <2>1 DEF TypeInv
  <2>6. port'[c] = p /\ p # "none"
    BY <2>1 DEF TypeInv, Ports
  <2>7. \A q \in Ports : \A j \in Slots : socket[q][j] \in Connections \cup {NoConnection}
    BY DEF TypeInv
  <2>8. ASSUME NEW q \in Ports, NEW j \in Slots, socket'[q][j] # NoConnection
        PROVE  port'[socket'[q][j]] = q
    <3>1. CASE q = p /\ j = i
      BY <2>4, <2>6, <3>1
    <3>2. CASE ~(q = p /\ j = i)
      <4>1. socket'[q][j] = socket[q][j]
        BY <2>4, <3>2
      <4> QED BY <2>2, <2>5, <2>7, <2>8, <4>1 DEF SocketsInv
    <3> QED BY <3>1, <3>2
  <2>9. ASSUME NEW q \in Ports, NEW j \in Slots, NEW k \in Slots,
               socket'[q][j] = socket'[q][k], socket'[q][j] # NoConnection
        PROVE  j = k
    BY <2>2, <2>4, <2>9 DEF SocketsInv
  <2> QED BY <2>1, <2>5, <2>6, <2>8, <2>9 DEF SocketsInv
<1>7. ASSUME NEW c \in Connections, Close(c) PROVE SocketsInv'
  <2>1. PICK i \in SlotOf(c) : /\ socket' = [socket EXCEPT ![port[c]][i] = NoConnection]
                              /\ UNCHANGED <<port, got, asked>>
    BY <1>7 DEF Close, history
  <2>2. i \in Slots /\ port[c] \in Ports
    BY SlotsAre DEF TypeInv
  <2>3. \A q \in Ports : \A j \in Slots : socket'[q][j] \in {socket[q][j], NoConnection}
    BY <2>1, <2>2 DEF TypeInv
  <2> QED BY <2>1, <2>3 DEF SocketsInv
<1>8. ASSUME NEW c \in Connections, NEW command \in Asks[port[c]], Open(c), Ask(c, command)
      PROVE  SocketsInv'
  <2>1. port[c] \in Ports /\ asked' = [asked EXCEPT ![c] = Append(@, [command |-> command, revoked |-> RevocationsShown])]
    BY <1>8, AskEffect
  <2>2. UNCHANGED <<socket, port, got>>
    BY <1>8 DEF Ask
  <2>3. port[c] # "none"
    BY <2>1 DEF Ports
  <2>4. \A d \in Connections : port[d] = "none" => asked'[d] = asked[d]
    BY <2>1, <2>3 DEF TypeInv
  <2> QED BY <2>2, <2>4 DEF SocketsInv
<1>9. ASSUME NEW p \in Ports, Executor(p) \/ Sender(p) \/ \E i \in Slots : SendPending(p, i)
      PROVE  SocketsInv'
  BY <1>1, <1>2, <1>4, <1>5, <1>9
     DEF Executor, Sender, SleepExecutor, SleepSender, End, TakeResponse, CheckSlot, history
<1>10. CASE Quit \/ SensorsComeAndGo \/ UNCHANGED vars
  BY <1>1, <1>10 DEF Quit, SensorsComeAndGo, vars, history
<1> QED BY <1>6, <1>7, <1>8, <1>9, <1>10 DEF Next

LEMMA SocketsInit == Init => SocketsInv
BY DEF Init, SocketsInv

-----------------------------------------------------------------------------
(* Where commands and answers are *)

\* The requests that wait at port p, and all the answers that were given there
Pending(p) == ToSet(requests[p].items)

Held(p) == {hand[p]} \ {NoResponse}

Buffered(p) == UNION {ToSet(out[p][i]) : i \in Slots}

Sent(p) == UNION {ToSet(got[c]) : c \in {d \in Connections : port[d] = p}}

Given(p) == ToSet(responses[p].items) \cup Held(p) \cup Buffered(p) \cup Sent(p)

LEMMA InGiven ==
  ASSUME NEW p, NEW a
  PROVE  a \in Given(p) <=>
           \/ a \in ToSet(responses[p].items)
           \/ a = hand[p] /\ a # NoResponse
           \/ \E i \in Slots : a \in ToSet(out[p][i])
           \/ \E c \in Connections : port[c] = p /\ a \in ToSet(got[c])
<1>1. a \in Buffered(p) <=> \E i \in Slots : a \in ToSet(out[p][i])
  BY DEF Buffered
<1>2. a \in Sent(p) <=> \E c \in Connections : port[c] = p /\ a \in ToSet(got[c])
  BY DEF Sent
<1>3. a \in Held(p) <=> a = hand[p] /\ a # NoResponse
  BY DEF Held
<1> QED BY <1>1, <1>2, <1>3 DEF Given

LEMMA InGivenNext ==
  ASSUME NEW p, NEW a
  PROVE  a \in Given(p)' <=>
           \/ a \in ToSet(responses'[p].items)
           \/ a = hand'[p] /\ a # NoResponse
           \/ \E i \in Slots : a \in ToSet(out'[p][i])
           \/ \E c \in Connections : port'[c] = p /\ a \in ToSet(got'[c])
<1>1. a \in Buffered(p)' <=> \E i \in Slots : a \in ToSet(out'[p][i])
  BY DEF Buffered
<1>2. a \in Sent(p)' <=> \E c \in Connections : port'[c] = p /\ a \in ToSet(got'[c])
  BY DEF Sent
<1>3. a \in Held(p)' <=> a = hand'[p] /\ a # NoResponse
  BY DEF Held
<1> QED BY <1>1, <1>2, <1>3 DEF Given

LEMMA GotIsGiven ==
  ASSUME NEW c \in Connections
  PROVE  ToSet(got[c]) \subseteq Given(port[c])
BY InGiven

LEMMA BufferedIsGiven ==
  ASSUME NEW p, NEW i \in Slots
  PROVE  ToSet(out[p][i]) \subseteq Given(p)
BY InGiven

\* What all steps do but the asking and the executing of commands: answers are passed
\* on or lost.
PassesOn ==
  /\ UNCHANGED <<asked, raised, name>> /\ TableKept
  /\ \A p \in Ports : requests'[p].items = requests[p].items /\ Given(p)' \subseteq Given(p)
  /\ \A c \in Connections : port[c] # "none" => port'[c] = port[c]

LEMMA SameTable ==
  ASSUME TypeInv, UNCHANGED table
  PROVE  TableKept
BY DEF TypeInv, TableKept, table

LEMMA DeliverPassesOn ==
  ASSUME TypeInv, SocketsInv, NEW p \in Ports, NEW i \in Slots, NEW sent \in Seq(Entries),
         Deliver(p, i, sent), ToSet(sent) \subseteq Given(p),
         \A o \in Ports : hand'[o] \in {hand[o], NoResponse},
         UNCHANGED <<table, socket, requests, responses, port, asked, raised>>
  PROVE  PassesOn
<1>1. ASSUME NEW o \in Ports, NEW j \in Slots
      PROVE  ToSet(out'[o][j]) \subseteq Given(o)
  <2>1. out'[o][j] = out[o][j] \/ (o = p /\ out'[o][j] \in {sent, <<>>})
    <3>1. out' \in {[out EXCEPT ![p][i] = sent], [out EXCEPT ![p][i] = <<>>]}
      BY DeliverSends
    <3> QED BY <3>1 DEF TypeInv
  <2>2. ToSet(out[o][j]) \subseteq Given(o)
    BY BufferedIsGiven
  <2> QED BY <2>1, <2>2, EmptyToSet
<1>2. ASSUME NEW o \in Ports, NEW c \in Connections, port[c] = o
      PROVE  ToSet(got'[c]) \subseteq Given(o)
  <2>1. ToSet(got[c]) \subseteq Given(o)
    BY <1>2, GotIsGiven
  <2>2. \/ got'[c] = got[c]
        \/ c = socket[p][i] /\ c # NoConnection /\ got'[c] = got[c] \o sent
    <3>1. \/ got' = got
          \/ /\ socket[p][i] \in Connections /\ socket[p][i] # NoConnection
             /\ got' = [got EXCEPT ![socket[p][i]] = got[socket[p][i]] \o sent]
      BY DeliverSends
    <3> QED BY <3>1 DEF TypeInv
  <2>3. ASSUME c = socket[p][i], c # NoConnection, got'[c] = got[c] \o sent
        PROVE  ToSet(got'[c]) \subseteq Given(o)
    <3>1. o = p
      BY <1>2, <2>3 DEF SocketsInv
    <3>2. got[c] \in Seq(Entries)
      BY DEF TypeInv
    <3>3. ToSet(got'[c]) = ToSet(got[c]) \cup ToSet(sent)
      BY <2>3, <3>2, ConcatToSet
    <3> QED BY <2>1, <3>1, <3>3
  <2> QED BY <2>1, <2>2, <2>3
<1>3. ASSUME NEW o \in Ports PROVE Given(o)' \subseteq Given(o)
  <2> SUFFICES ASSUME NEW a, a \in Given(o)' PROVE a \in Given(o)
    OBVIOUS
  <2>1. \/ a \in ToSet(responses'[o].items)
        \/ a = hand'[o] /\ a # NoResponse
        \/ \E j \in Slots : a \in ToSet(out'[o][j])
        \/ \E c \in Connections : port'[c] = o /\ a \in ToSet(got'[c])
    BY InGivenNext
  <2>2. a \in ToSet(responses[o].items) => a \in Given(o)
    BY InGiven
  <2>3. a = hand[o] /\ a # NoResponse => a \in Given(o)
    BY InGiven
  <2> QED BY <1>1, <1>2, <2>1, <2>2, <2>3
<1> QED BY <1>3, SameTable DEF PassesOn, table

LEMMA TakePassesOn ==
  ASSUME TypeInv, NEW p \in Ports, TakeResponse(p)
  PROVE  PassesOn
<1>1. /\ hand' = [hand EXCEPT ![p] = Head(responses[p].items)]
      /\ responses' = [responses EXCEPT ![p] = pop(responses[p])]
      /\ UNCHANGED <<table, socket, out, requests, quit, port, history>>
  BY DEF TakeResponse, front
<1>2. responses[p].items \in Seq(Entries) /\ responses[p].items # <<>>
  BY DEF TypeInv, ResponseQueues, Queues, TakeResponse, MayTake, MayPop
<1>3. ToSet(responses[p].items) = {Head(responses[p].items)} \cup ToSet(Tail(responses[p].items))
  BY <1>2, TailToSet
<1>4. pop(responses[p]).items = Tail(responses[p].items)
  BY Popped DEF TypeInv, ResponseQueues
<1>5. ASSUME NEW o \in Ports PROVE Given(o)' \subseteq Given(o)
  <2>1. \/ responses'[o] = responses[o] /\ hand'[o] = hand[o]
        \/ /\ o = p /\ responses'[o].items = Tail(responses[o].items)
           /\ hand'[o] = Head(responses[o].items)
    BY <1>1, <1>4 DEF TypeInv
  <2>2. ToSet(responses'[o].items) \cup Held(o)' \subseteq ToSet(responses[o].items) \cup Held(o)
    BY <1>3, <2>1 DEF Held
  <2>3. out' = out /\ got' = got /\ port' = port
    BY <1>1 DEF history
  <2> QED BY <2>2, <2>3 DEF Given, Buffered, Sent
<1> QED BY <1>1, <1>5, SameTable DEF PassesOn, history, table

LEMMA AcceptPassesOn ==
  ASSUME TypeInv, SocketsInv, NEW c \in Connections, NEW p \in Ports, Accept(c, p)
  PROVE  PassesOn
<1>1. /\ port[c] = "none" /\ port' = [port EXCEPT ![c] = p]
      /\ UNCHANGED <<table, out, requests, responses, hand, history>>
  BY DEF Accept
<1>2. got[c] = <<>>
  BY <1>1 DEF SocketsInv
<1>3. \A d \in Connections : d # c => port'[d] = port[d]
  BY <1>1 DEF TypeInv
<1>4. ASSUME NEW o \in Ports PROVE Given(o)' \subseteq Given(o)
  <2>1. ASSUME NEW d \in Connections, port'[d] = o PROVE ToSet(got'[d]) \subseteq Given(o)
    <3>1. got'[d] = got[d]
      BY <1>1 DEF history
    <3>2. CASE d = c
      BY <1>2, <3>1, <3>2, EmptyToSet
    <3>3. CASE d # c
      <4>1. port[d] = o
        BY <1>3, <2>1, <3>3
      <4> QED BY <3>1, <4>1, GotIsGiven
    <3> QED BY <3>2, <3>3
  <2> SUFFICES ASSUME NEW a, a \in Given(o)' PROVE a \in Given(o)
    OBVIOUS
  <2>2. \/ a \in ToSet(responses'[o].items)
        \/ a = hand'[o] /\ a # NoResponse
        \/ \E j \in Slots : a \in ToSet(out'[o][j])
        \/ \E d \in Connections : port'[d] = o /\ a \in ToSet(got'[d])
    BY InGivenNext
  <2>3. ASSUME \/ a \in ToSet(responses[o].items)
               \/ a = hand[o] /\ a # NoResponse
               \/ \E j \in Slots : a \in ToSet(out[o][j])
        PROVE  a \in Given(o)
    BY <2>3, InGiven
  <2> QED BY <1>1, <2>1, <2>2, <2>3
<1> QED BY <1>1, <1>3, <1>4, SameTable DEF PassesOn, history, table

LEMMA ClosePassesOn ==
  ASSUME TypeInv, NEW c \in Connections, Close(c)
  PROVE  PassesOn
<1>1. PICK i \in SlotOf(c) : /\ out' = [out EXCEPT ![port[c]][i] = <<>>]
                            /\ UNCHANGED <<table, requests, responses, hand, port, history>>
  BY DEF Close
<1>2. i \in Slots /\ port[c] \in Ports
  BY SlotsAre DEF TypeInv
<1>3. ASSUME NEW o \in Ports PROVE Given(o)' \subseteq Given(o)
  <2>1. \A j \in Slots : out'[o][j] \in {out[o][j], <<>>}
    BY <1>1, <1>2 DEF TypeInv
  <2>2. \A j \in Slots : ToSet(out'[o][j]) \subseteq ToSet(out[o][j])
    BY <2>1, EmptyToSet
  <2>3. responses' = responses /\ hand' = hand /\ got' = got /\ port' = port
    BY <1>1 DEF history
  <2> QED BY <2>2, <2>3 DEF Given, Held, Buffered, Sent
<1> QED BY <1>1, <1>3, SameTable DEF PassesOn, history, table

LEMMA StillPassesOn ==
  ASSUME TypeInv, UNCHANGED <<out, responses, port, history>>, TableKept, name' = name,
         \A p \in Ports : requests'[p].items = requests[p].items,
         \A p \in Ports : hand'[p] \in {hand[p], NoResponse}
  PROVE  PassesOn
<1>1. ASSUME NEW o \in Ports PROVE Given(o)' \subseteq Given(o)
  <2>1. Held(o)' \subseteq Held(o)
    BY DEF Held
  <2>2. responses' = responses /\ out' = out /\ got' = got /\ port' = port
    BY DEF history
  <2> QED BY <2>1, <2>2 DEF Given, Buffered, Sent
<1> QED BY <1>1 DEF PassesOn, history

LEMMA StepSplits ==
  ASSUME TypeInv, SocketsInv, [Next]_vars
  PROVE  \/ PassesOn
         \/ \E p \in Ports : Execute(p)
         \/ \E c \in Connections : Open(c) /\ \E command \in Asks[port[c]] : Ask(c, command)
<1>1. ASSUME NEW p \in Ports, NEW i \in Slots, SendPending(p, i) PROVE PassesOn
  <2>1. out[p][i] \in Seq(Entries)
    BY DEF TypeInv
  <2>2. ToSet(out[p][i]) \subseteq Given(p)
    BY BufferedIsGiven
  <2> QED BY <1>1, <2>1, <2>2, DeliverPassesOn DEF SendPending
<1>2. ASSUME NEW p \in Ports, Flush(p) PROVE PassesOn
  <2> DEFINE i == hand[p].client
  <2>1. /\ hand[p] \in Entries /\ hand[p] # NoResponse /\ i \in Slots
        /\ out[p][i] \in Seq(Entries) /\ Append(out[p][i], hand[p]) \in Seq(Entries)
        /\ Deliver(p, i, Append(out[p][i], hand[p]))
        /\ hand' = [hand EXCEPT ![p] = NoResponse]
        /\ UNCHANGED <<table, socket, requests, responses, quit, port, asked, raised, dbErrors>>
    BY <1>2, FlushDelivers
  <2>2. ToSet(out[p][i]) \subseteq Given(p) /\ hand[p] \in Given(p)
    BY <2>1 DEF Given, Held, Buffered, Sent
  <2>3. ToSet(Append(out[p][i], hand[p])) = ToSet(out[p][i]) \cup {hand[p]}
    BY <2>1, AppendToSet
  <2>4. \A o \in Ports : hand'[o] \in {hand[o], NoResponse}
    BY <2>1 DEF TypeInv
  <2> DEFINE sent == Append(out[p][i], hand[p])
  <2>5. sent \in Seq(Entries) /\ ToSet(sent) \subseteq Given(p) /\ Deliver(p, i, sent)
    BY <2>1, <2>2, <2>3
  <2> HIDE DEF i, sent
  <2> QED BY <2>1, <2>4, <2>5, DeliverPassesOn
<1>3. ASSUME NEW p \in Ports, CheckSlot(p) PROVE PassesOn
  <2>1. UNCHANGED <<out, responses, port, history>> /\ UNCHANGED table /\ name' = name /\ requests' = requests
    BY <1>3 DEF CheckSlot, table
  <2>2. \A o \in Ports : hand'[o] \in {hand[o], NoResponse}
    BY <1>3 DEF CheckSlot, TypeInv
  <2> QED BY <2>1, <2>2, SameTable, StillPassesOn
<1>4. ASSUME UNCHANGED <<out, responses, port, history, table, hand>>,
             \A p \in Ports : requests'[p].items = requests[p].items
      PROVE  PassesOn
  BY <1>4, SameTable, StillPassesOn DEF table
<1>5. ASSUME NEW p \in Ports, SleepExecutor(p) PROVE PassesOn
  <2>1. /\ requests' = [requests EXCEPT ![p] = wait(requests[p], "executor")]
        /\ UNCHANGED <<out, responses, port, history, table, hand>>
    BY <1>5 DEF SleepExecutor
  <2>2. wait(requests[p], "executor").items = requests[p].items
    BY Waited DEF TypeInv, RequestQueues
  <2>3. \A o \in Ports : requests'[o].items = requests[o].items
    BY <2>1, <2>2 DEF TypeInv
  <2> QED BY <1>4, <2>1, <2>3
<1>6. ASSUME NEW p \in Ports, SleepSender(p) PROVE PassesOn
  <2>1. /\ responses' = [responses EXCEPT ![p] = wait(responses[p], "sender")]
        /\ UNCHANGED <<out, requests, port, history, table, hand>>
    BY <1>6 DEF SleepSender
  <2>2. wait(responses[p], "sender").items = responses[p].items
    BY Waited DEF TypeInv, ResponseQueues
  <2>3. \A o \in Ports : responses'[o].items = responses[o].items
    BY <2>1, <2>2 DEF TypeInv
  <2>4. \A o \in Ports : Given(o)' = Given(o)
    BY <2>1, <2>3 DEF Given, Held, Buffered, Sent, history
  <2> QED BY <2>1, <2>4, SameTable DEF PassesOn, history, table
<1>7. ASSUME NEW p \in Ports, End(p, "executor") \/ End(p, "sender") PROVE PassesOn
  BY <1>4, <1>7 DEF End
<1>8. CASE Quit \/ UNCHANGED vars
  BY <1>4, <1>8 DEF Quit, vars
<1>9. CASE SensorsComeAndGo
  <2>1. TableKept /\ name' = name /\ UNCHANGED <<out, responses, port, history, hand, requests>>
    BY <1>9, ComeAndGo
  <2> QED BY <2>1, StillPassesOn
<1>10. ASSUME NEW p \in Ports, Executor(p) \/ Sender(p) \/ \E i \in Slots : SendPending(p, i)
       PROVE  PassesOn \/ Execute(p)
  BY <1>1, <1>2, <1>3, <1>5, <1>6, <1>7, <1>10, TakePassesOn DEF Executor, Sender
<1>11. ASSUME NEW c \in Connections, Close(c) \/ \E p \in Ports : Accept(c, p) PROVE PassesOn
  BY <1>11, ClosePassesOn, AcceptPassesOn
<1> QED BY <1>8, <1>9, <1>10, <1>11 DEF Next

LEMMA GivenAre == ASSUME TypeInv, NEW p \in Ports PROVE Given(p) \subseteq Entries
<1> SUFFICES ASSUME NEW a, a \in Given(p) PROVE a \in Entries
  OBVIOUS
<1>1. \/ a \in ToSet(responses[p].items)
      \/ a = hand[p] /\ a # NoResponse
      \/ \E i \in Slots : a \in ToSet(out[p][i])
      \/ \E c \in Connections : port[c] = p /\ a \in ToSet(got[c])
  BY InGiven
<1>2. /\ responses[p].items \in Seq(Entries) /\ hand[p] \in Entries \cup {NoResponse}
      /\ \A i \in Slots : out[p][i] \in Seq(Entries)
      /\ \A c \in Connections : got[c] \in Seq(Entries)
  BY DEF TypeInv, ResponseQueues, Queues
<1> QED BY <1>1, <1>2, SeqToSet

LEMMA PendingAre == ASSUME TypeInv, NEW p \in Ports PROVE Pending(p) \subseteq Requests(p)
<1>1. requests[p].items \in Seq(Requests(p))
  BY DEF TypeInv
<1> QED BY <1>1, SeqToSet DEF Pending

\* The new command is the last of its connection, and its request the last of its queue.
Joins(c, command, p) ==
  \E i \in Slots :
    /\ socket[p][i] = c /\ NextRequest(c, i, command) \in Requests(p)
    /\ requests'[p].items = Append(requests[p].items, NextRequest(c, i, command))
    /\ Pending(p)' = Pending(p) \cup {NextRequest(c, i, command)}

LEMMA AskPending ==
  ASSUME TypeInv, NEW c \in Connections, Open(c), NEW command \in Asks[port[c]], Ask(c, command),
         NEW p, p = port[c]
  PROVE  Joins(c, command, p)
<1>1. port[c] \in Ports /\ QueuesNext(c, command, port[c])
  BY AskEffect
<1>2. p \in Ports /\ QueuesNext(c, command, p)
  BY <1>1
<1> DEFINE r(i) == NextRequest(c, i, command)
<1>3. PICK i \in Slots : /\ socket[p][i] = c /\ r(i) \in Requests(p)
                         /\ requests'[p].items = Append(requests[p].items, r(i))
  BY <1>2 DEF QueuesNext, TypeInv
<1>4. requests[p].items \in Seq(Requests(p))
  BY <1>2 DEF TypeInv
<1> HIDE DEF r
<1>5. ToSet(Append(requests[p].items, r(i))) = ToSet(requests[p].items) \cup {r(i)}
  BY <1>4, AppendToSet
<1>6. Pending(p)' = Pending(p) \cup {r(i)}
  BY <1>3, <1>5 DEF Pending
<1> QED BY <1>3, <1>6 DEF r, Joins

LEMMA AskFlow ==
  ASSUME TypeInv, NEW c \in Connections, Open(c), NEW command \in Asks[port[c]], Ask(c, command),
         NEW p, p = port[c]
  PROVE  /\ p \in Ports /\ status' = status /\ name' = name
         /\ UNCHANGED <<socket, out, responses, hand, port, got, raised>>
         /\ \A o \in Ports : Given(o)' = Given(o)
         /\ \A d \in Connections : d # c => asked'[d] = asked[d]
         /\ Len(asked[c]) \in Nat /\ Len(asked[c]) + 1 \in 1 .. MaxAsked
         /\ DOMAIN asked[c] = 1 .. Len(asked[c]) /\ DOMAIN asked'[c] = 1 .. (Len(asked[c]) + 1)
         /\ \A n \in DOMAIN asked[c] : asked'[c][n] = asked[c][n]
         /\ asked'[c][Len(asked[c]) + 1] = [command |-> command, revoked |-> RevocationsShown]
         /\ "id" \in DOMAIN command => status[command.id] # "ABSENT"
         /\ \A o \in Ports \ {p} : requests'[o].items = requests[o].items /\ Pending(o)' = Pending(o)
<1> DEFINE question == [command |-> command, revoked |-> RevocationsShown]
<1>1. /\ p \in Ports /\ Len(asked[c]) \in Nat /\ Len(asked[c]) + 1 \in 1 .. MaxAsked
      /\ asked' = [asked EXCEPT ![c] = Append(@, question)]
      /\ "id" \in DOMAIN command => status[command.id] # "ABSENT"
      /\ UNCHANGED <<table, socket, out, responses, pc, hand, quit, port, got, raised, dbErrors>>
  BY AskEffect
<1>2. QueuesNext(c, command, port[c])
  BY AskEffect
<1>3. \A o \in Ports \ {p} : requests'[o] = requests[o]
  BY <1>1, <1>2 DEF QueuesNext, TypeInv
<1>4. \A o \in Ports : Given(o)' = Given(o)
  BY <1>1 DEF Given, Held, Buffered, Sent
<1>5. asked \in [Connections -> Seq(Questions)]
  BY DEF TypeInv
<1> HIDE DEF question
<1>6. \A d \in Connections : d # c => asked'[d] = asked[d]
  BY <1>1, <1>5
<1>7. asked'[c] = Append(asked[c], question) /\ asked[c] \in Seq(Questions)
  BY <1>1, <1>5
<1>8. /\ DOMAIN asked[c] = 1 .. Len(asked[c]) /\ DOMAIN asked'[c] = 1 .. (Len(asked[c]) + 1)
       /\ \A n \in DOMAIN asked[c] : asked'[c][n] = asked[c][n]
       /\ asked'[c][Len(asked[c]) + 1] = question
  BY <1>7
<1>9. \A o \in Ports \ {p} : requests'[o].items = requests[o].items /\ Pending(o)' = Pending(o)
  BY <1>3 DEF Pending
<1> USE DEF question
<1> QED BY <1>1, <1>4, <1>6, <1>8, <1>9 DEF table

\* The oldest request leaves its queue; its answer, if there is one, joins the other.
LEMMA ExecuteFlow ==
  ASSUME TypeInv, NEW p \in Ports, Execute(p)
  PROVE  /\ UNCHANGED <<socket, out, hand, port, asked, got>>
         /\ Current(p) \in Requests(p) /\ Current(p) \in Pending(p)
         /\ requests[p].items # <<>> /\ requests'[p].items = Tail(requests[p].items)
         /\ \A o \in Ports \ {p} : requests'[o].items = requests[o].items /\ Given(o)' = Given(o)
         /\ \A o \in Ports : Pending(o)' \subseteq Pending(o)
         /\ \/ /\ raised' = raised \cup {<<Current(p).from, Current(p).n>>}
               /\ Given(p)' = Given(p) /\ responses' = responses
            \/ /\ raised' = raised
               /\ \E r : \E a \in Entries :
                    /\ Tells(p, Current(p).command, r)
                    /\ a = [client |-> Current(p).client, from |-> Current(p).from,
                            n |-> Current(p).n, response |-> r]
                    /\ responses'[p].items = Append(responses[p].items, a)
                    /\ \A o \in Ports \ {p} : responses'[o].items = responses[o].items
                    /\ Given(p)' \subseteq Given(p) \cup {a}
<1>1. /\ Takes(p) /\ Current(p) \in Requests(p)
      /\ (\E r : Tells(p, Current(p).command, r) /\ Responds(p, r)) \/ Raises(p)
  BY ExecuteSplits
<1>2. /\ requests[p].items # <<>> /\ requests' = [requests EXCEPT ![p] = pop(requests[p])]
      /\ UNCHANGED <<socket, out, hand, port, asked, got>>
  BY <1>1 DEF Takes, MayTake, MayPop
<1>3. pop(requests[p]).items = Tail(requests[p].items)
  BY Popped DEF TypeInv, RequestQueues
<1>4. requests'[p].items = Tail(requests[p].items) /\ \A o \in Ports \ {p} : requests'[o] = requests[o]
  BY <1>2, <1>3 DEF TypeInv
<1>5. ToSet(requests[p].items) = {Head(requests[p].items)} \cup ToSet(Tail(requests[p].items))
  <2>1. requests[p].items \in Seq(Requests(p))
    BY DEF TypeInv
  <2> QED BY <1>2, <2>1, TailToSet
<1>6. \A o \in Ports : Pending(o)' \subseteq Pending(o)
  BY <1>4, <1>5 DEF Pending
<1>7. Current(p) \in Pending(p)
  BY <1>5 DEF Current, front, Pending
<1>8. \A o \in Ports \ {p} : responses'[o] = responses[o]
  BY ExecuteQueues
<1>9. \A o \in Ports \ {p} : Given(o)' = Given(o)
  BY <1>2, <1>8 DEF Given, Held, Buffered, Sent
<1>10. CASE Raises(p)
  <2>1. responses' = responses /\ raised' = raised \cup {<<Current(p).from, Current(p).n>>}
    BY <1>10 DEF Raises
  <2>2. Given(p)' = Given(p)
    BY <1>2, <2>1 DEF Given, Held, Buffered, Sent
  <2> QED BY <1>1, <1>2, <1>4, <1>6, <1>7, <1>9, <2>1, <2>2
<1>11. ASSUME NEW r, Tells(p, Current(p).command, r), Responds(p, r)
       PROVE  /\ raised' = raised
              /\ \E s : \E a \in Entries :
                    /\ Tells(p, Current(p).command, s)
                    /\ a = [client |-> Current(p).client, from |-> Current(p).from,
                            n |-> Current(p).n, response |-> s]
                    /\ responses'[p].items = Append(responses[p].items, a)
                    /\ \A o \in Ports \ {p} : responses'[o].items = responses[o].items
                    /\ Given(p)' \subseteq Given(p) \cup {a}
  <2> DEFINE a == [client |-> Current(p).client, from |-> Current(p).from, n |-> Current(p).n,
                   response |-> r]
  <2>1. a \in Entries
    BY <1>1, <1>11 DEF Entries, Requests, Tells, Replies
  <2>2. responses' \in Enqueue(responses, p, a) /\ raised' = raised
    BY <1>11 DEF Responds
  <2> HIDE DEF a
  <2>3. PICK q \in push(responses[p], a) : responses' = [responses EXCEPT ![p] = q]
    BY <2>2 DEF Enqueue
  <2>4. responses[p] \in ResponseQueues
    BY DEF TypeInv
  <2>5. q.items = Append(responses[p].items, a)
    BY <2>1, <2>3, <2>4, Pushed DEF ResponseQueues
  <2>6. responses'[p].items = Append(responses[p].items, a)
    BY <2>3, <2>5 DEF TypeInv
  <2>7. ToSet(responses'[p].items) = ToSet(responses[p].items) \cup {a}
    <3>1. responses[p].items \in Seq(Entries)
      BY <2>4 DEF ResponseQueues, Queues
    <3> QED BY <2>6, <3>1, AppendToSet
  <2>8. Given(p)' \subseteq Given(p) \cup {a}
    BY <1>2, <2>7 DEF Given, Held, Buffered, Sent
  <2> USE DEF a
  <2> QED BY <1>8, <1>11, <2>1, <2>2, <2>6, <2>8
<1>12. \A o \in Ports \ {p} : requests'[o].items = requests[o].items /\ Given(o)' = Given(o)
  BY <1>4, <1>9
<1> QED BY <1>1, <1>2, <1>4, <1>6, <1>7, <1>10, <1>11, <1>12

\* Nothing that is known of commands is forgotten.
Grows ==
  /\ \A d \in Connections : port[d] # "none" => port'[d] = port[d]
  /\ \A d \in Connections : \A n \in DOMAIN asked[d] : n \in DOMAIN asked'[d] /\ asked'[d][n] = asked[d][n]
  /\ TableKept /\ raised \subseteq raised'

LEMMA StepGrows == ASSUME TypeInv, SocketsInv, [Next]_vars PROVE Grows
<1>1. ASSUME PassesOn PROVE Grows
  BY <1>1 DEF PassesOn, Grows
<1>2. ASSUME NEW p \in Ports, Execute(p) PROVE Grows
  <2>1. TableKept
    BY <1>2, ExecuteSplits
  <2>2. asked' = asked /\ port' = port /\ raised \subseteq raised'
    BY <1>2, ExecuteFlow
  <2> QED BY <2>1, <2>2 DEF Grows
<1>3. ASSUME NEW c \in Connections, Open(c), NEW command \in Asks[port[c]], Ask(c, command) PROVE Grows
  <2>1. /\ status' = status /\ name' = name /\ port' = port /\ raised' = raised
        /\ \A d \in Connections : d # c => asked'[d] = asked[d]
        /\ Len(asked[c]) \in Nat
        /\ DOMAIN asked[c] = 1 .. Len(asked[c]) /\ DOMAIN asked'[c] = 1 .. (Len(asked[c]) + 1)
        /\ \A n \in DOMAIN asked[c] : asked'[c][n] = asked[c][n]
    <3>1. PICK p : p = port[c]
      OBVIOUS
    <3> QED BY <1>3, <3>1, AskFlow
  <2>2. TableKept
    BY <2>1, SameTable DEF table
  <2>3. \A n \in DOMAIN asked[c] : n \in DOMAIN asked'[c]
    BY <2>1
  <2>4. ASSUME NEW d \in Connections, NEW n \in DOMAIN asked[d]
        PROVE  n \in DOMAIN asked'[d] /\ asked'[d][n] = asked[d][n]
    BY <2>1, <2>3
  <2> QED BY <2>1, <2>2, <2>4 DEF Grows
<1> QED BY <1>1, <1>2, <1>3, StepSplits

\* Only executors give answers.
LEMMA NewAnswer ==
  ASSUME TypeInv, SocketsInv, [Next]_vars, NEW p \in Ports, NEW a \in Given(p)', a \notin Given(p)
  PROVE  /\ Execute(p) /\ Current(p) \in Pending(p) /\ asked' = asked /\ raised' = raised
         /\ a.from = Current(p).from /\ a.n = Current(p).n
         /\ Tells(p, Current(p).command, a.response)
<1>1. ~PassesOn
  BY DEF PassesOn
<1>2. ASSUME NEW c \in Connections, Open(c), NEW command \in Asks[port[c]], Ask(c, command) PROVE FALSE
  <2>1. PICK o : o = port[c]
    OBVIOUS
  <2>2. Given(p)' = Given(p)
    BY <1>2, <2>1, AskFlow
  <2> QED BY <2>2
<1>3. PICK o \in Ports : Execute(o)
  BY <1>1, <1>2, StepSplits
<1> DEFINE r == Current(o)
<1>4. /\ r \in Pending(o) /\ asked' = asked
      /\ \A q \in Ports \ {o} : Given(q)' = Given(q)
      /\ \/ Given(o)' = Given(o)
         \/ /\ raised' = raised
            /\ \E s : \E e \in Entries :
                 /\ Tells(o, r.command, s) /\ Given(o)' \subseteq Given(o) \cup {e}
                 /\ e = [client |-> r.client, from |-> r.from, n |-> r.n, response |-> s]
  BY <1>3, ExecuteFlow
<1>5. o = p
  BY <1>4
<1>6. PICK s : /\ raised' = raised /\ Tells(o, r.command, s)
               /\ a = [client |-> r.client, from |-> r.from, n |-> r.n, response |-> s]
  BY <1>4, <1>5
<1>7. a.from = r.from /\ a.n = r.n /\ a.response = s
  BY <1>6
<1> QED BY <1>3, <1>4, <1>5, <1>6, <1>7

\* A command is added only by asking it.
LEMMA NewQuestion ==
  ASSUME TypeInv, SocketsInv, [Next]_vars, NEW c \in Connections, NEW n \in DOMAIN asked'[c]
  PROVE  \/ n \in DOMAIN asked[c] /\ asked'[c][n] = asked[c][n]
         \/ /\ n = Len(asked[c]) + 1 /\ n \notin DOMAIN asked[c]
            /\ Open(c) /\ \E command \in Asks[port[c]] : Ask(c, command)
            /\ asked'[c][n].revoked = RevocationsShown
<1> DEFINE Goal == \/ n \in DOMAIN asked[c] /\ asked'[c][n] = asked[c][n]
                   \/ /\ n = Len(asked[c]) + 1 /\ n \notin DOMAIN asked[c]
                      /\ Open(c) /\ \E command \in Asks[port[c]] : Ask(c, command)
                      /\ asked'[c][n].revoked = RevocationsShown
<1>1. ASSUME asked' = asked PROVE Goal
  BY <1>1
<1>2. ASSUME NEW p \in Ports, Execute(p) PROVE Goal
  BY <1>1, <1>2, ExecuteFlow
<1>3. ASSUME NEW d \in Connections, Open(d), NEW command \in Asks[port[d]], Ask(d, command) PROVE Goal
  <2>1. PICK o : o = port[d]
    OBVIOUS
  <2>2. /\ \A e \in Connections : e # d => asked'[e] = asked[e]
        /\ Len(asked[d]) \in Nat
        /\ DOMAIN asked[d] = 1 .. Len(asked[d]) /\ DOMAIN asked'[d] = 1 .. (Len(asked[d]) + 1)
        /\ \A m \in DOMAIN asked[d] : asked'[d][m] = asked[d][m]
        /\ asked'[d][Len(asked[d]) + 1] = [command |-> command, revoked |-> RevocationsShown]
    BY <1>3, <2>1, AskFlow
  <2>3. asked'[d][Len(asked[d]) + 1].revoked = RevocationsShown
    BY <2>2
  <2>4. CASE c # d
    BY <2>2, <2>4
  <2>5. CASE c = d
    <3>1. n \in DOMAIN asked[d] \/ (n = Len(asked[d]) + 1 /\ n \notin DOMAIN asked[d])
      BY <2>2, <2>5
    <3> QED BY <1>3, <2>2, <2>3, <2>5, <3>1
  <2> QED BY <2>4, <2>5
<1> QED BY <1>1, <1>2, <1>3, StepSplits DEF PassesOn

-----------------------------------------------------------------------------
(* Requests are what was asked, answers answer it *)

RequestsInv ==
  \A p \in Ports : \A r \in Pending(p) :
    /\ port[r.from] = p /\ r.n \in DOMAIN asked[r.from]
    /\ r.command = asked[r.from][r.n].command
    /\ "id" \in DOMAIN r.command => status[r.command.id] # "ABSENT"

AnswersInv ==
  \A p \in Ports : \A a \in Given(p) :
    /\ port[a.from] = p /\ a.n \in DOMAIN asked[a.from] /\ a.response \in Replies(p)
    /\ \E command \in Asks[p] : command = Asked(a) /\ Answers(p, command, a.response)

\* A command names a sensor, if it names any.
LEMMA CommandNames ==
  ASSUME NEW p \in Ports, NEW command \in Asks[p], "id" \in DOMAIN command
  PROVE  command.id \in Sensors
<1>1. CASE p = "administrator"
  <2>1. command \in AdministratorCommands(Sensors, Names)
    BY <1>1, AsksAssumption
  <2> QED BY <2>1 DEF AdministratorCommands
<1>2. CASE p = "monitoring"
  <2>1. command \in MonitoringCommands(Sensors)
    BY <1>2, AsksAssumption
  <2> QED BY <2>1 DEF MonitoringCommands
<1> QED BY <1>1, <1>2 DEF Ports

LEMMA RequestsStep ==
  ASSUME TypeInv, SocketsInv, RequestsInv, [Next]_vars
  PROVE  RequestsInv'
<1> SUFFICES ASSUME NEW p \in Ports, NEW r \in Pending(p)'
             PROVE  /\ port'[r.from] = p /\ r.n \in DOMAIN asked'[r.from]
                    /\ r.command = asked'[r.from][r.n].command
                    /\ "id" \in DOMAIN r.command => status'[r.command.id] # "ABSENT"
  BY DEF RequestsInv
<1>1. Grows
  BY StepGrows
<1>2. CASE r \in Pending(p)
  <2>1. r \in Requests(p)
    BY <1>2, PendingAre
  <2>2. r.from \in Connections /\ r.command \in Asks[p]
    BY <2>1 DEF Requests
  <2>3. /\ port[r.from] = p /\ r.n \in DOMAIN asked[r.from]
        /\ r.command = asked[r.from][r.n].command
        /\ "id" \in DOMAIN r.command => status[r.command.id] # "ABSENT"
    BY <1>2 DEF RequestsInv
  <2>4. port'[r.from] = p /\ r.n \in DOMAIN asked'[r.from] /\ asked'[r.from][r.n] = asked[r.from][r.n]
    BY <1>1, <2>2, <2>3 DEF Grows, Ports
  <2>5. "id" \in DOMAIN r.command => status'[r.command.id] # "ABSENT"
    BY <1>1, <2>2, <2>3, CommandNames DEF Grows, TableKept
  <2> QED BY <2>3, <2>4, <2>5
<1>3. ASSUME PassesOn PROVE r \in Pending(p)
  BY <1>3 DEF PassesOn, Pending
<1>4. ASSUME NEW o \in Ports, Execute(o) PROVE r \in Pending(p)
  BY <1>4, ExecuteFlow
<1>5. ASSUME NEW c \in Connections, Open(c), NEW command \in Asks[port[c]], Ask(c, command), r \notin Pending(p)
      PROVE  /\ port'[r.from] = p /\ r.n \in DOMAIN asked'[r.from]
             /\ r.command = asked'[r.from][r.n].command
             /\ "id" \in DOMAIN r.command => status'[r.command.id] # "ABSENT"
  <2>1. PICK o : o = port[c]
    OBVIOUS
  <2>2. /\ status' = status /\ port' = port /\ Len(asked[c]) \in Nat
        /\ DOMAIN asked'[c] = 1 .. (Len(asked[c]) + 1)
        /\ asked'[c][Len(asked[c]) + 1] = [command |-> command, revoked |-> RevocationsShown]
        /\ "id" \in DOMAIN command => status[command.id] # "ABSENT"
    BY <1>5, <2>1, AskFlow
  <2>3. o \in Ports /\ \A q \in Ports \ {o} : Pending(q)' = Pending(q)
    BY <1>5, <2>1, AskFlow
  <2>4. Joins(c, command, o)
    BY <1>5, <2>1, AskPending
  <2>5. PICK i \in Slots :
           /\ socket[o][i] = c /\ NextRequest(c, i, command) \in Requests(o)
           /\ requests'[o].items = Append(requests[o].items, NextRequest(c, i, command))
           /\ Pending(o)' = Pending(o) \cup {NextRequest(c, i, command)}
    BY <2>4 DEF Joins
  <2>6. p = o
    BY <1>5, <2>3
  <2>7. r.from = c /\ r.n = Len(asked[c]) + 1 /\ r.command = command
    BY <1>5, <2>5, <2>6 DEF NextRequest
  <2>8. Len(asked[c]) + 1 \in DOMAIN asked'[c]
    BY <2>2
  <2> QED BY <2>1, <2>2, <2>6, <2>7, <2>8
<1> QED BY <1>2, <1>3, <1>4, <1>5, StepSplits

LEMMA AnswersStep ==
  ASSUME TypeInv, SocketsInv, RequestsInv, AnswersInv, [Next]_vars
  PROVE  AnswersInv'
<1> SUFFICES ASSUME NEW p \in Ports, NEW a \in Given(p)'
             PROVE  /\ port'[a.from] = p /\ a.n \in DOMAIN asked'[a.from] /\ a.response \in Replies(p)
                    /\ \E command \in Asks[p] : command = Asked(a)' /\ Answers(p, command, a.response)
  BY DEF AnswersInv
<1>1. Grows
  BY StepGrows
<1>2. CASE a \in Given(p)
  <2>1. a.from \in Connections
    BY <1>2, GivenAre DEF Entries
  <2>2. /\ port[a.from] = p /\ a.n \in DOMAIN asked[a.from]
        /\ a.response \in Replies(p)
        /\ \E command \in Asks[p] : command = Asked(a) /\ Answers(p, command, a.response)
    BY <1>2 DEF AnswersInv
  <2>3. port'[a.from] = p /\ a.n \in DOMAIN asked'[a.from] /\ asked'[a.from][a.n] = asked[a.from][a.n]
    BY <1>1, <2>1, <2>2 DEF Grows, Ports
  <2>4. Asked(a)' = Asked(a)
    BY <2>3 DEF Asked
  <2> QED BY <2>2, <2>3, <2>4
<1>3. CASE a \notin Given(p)
  <2> DEFINE r == Current(p)
  <2>1. /\ r \in Pending(p) /\ asked' = asked /\ a.from = r.from /\ a.n = r.n
        /\ Tells(p, r.command, a.response)
    BY <1>3, NewAnswer
  <2>2. /\ r \in Requests(p) /\ port[r.from] = p /\ r.n \in DOMAIN asked[r.from]
        /\ r.command = asked[r.from][r.n].command
    BY <2>1, PendingAre DEF RequestsInv
  <2>3. port'[r.from] = p
    BY <1>1, <2>2 DEF Grows, Ports, Requests
  <2> HIDE DEF r
  <2>4. Asked(a)' = r.command
    BY <2>1, <2>2 DEF Asked
  <2>5. Answers(p, r.command, a.response) /\ a.response \in Replies(p) /\ r.command \in Asks[p]
    BY <2>1, <2>2 DEF Tells, Requests
  <2> QED BY <2>1, <2>2, <2>3, <2>4, <2>5
<1> QED BY <1>2, <1>3

LEMMA StartEmpty == ASSUME Init, NEW p \in Ports PROVE Pending(p) = {} /\ Given(p) = {}
<1>1. requests[p].items = <<>> /\ responses[p].items = <<>>
  BY StartQueues
<1>2. hand[p] = NoResponse /\ \A i \in Slots : out[p][i] = <<>>
  BY DEF Init
<1>3. \A c \in Connections : got[c] = <<>>
  BY DEF Init
<1>4. Pending(p) = {}
  BY <1>1, EmptyToSet DEF Pending
<1>5. \A a : a \notin Given(p)
  BY <1>1, <1>2, <1>3, EmptyToSet, InGiven
<1> QED BY <1>4, <1>5

LEMMA FlowKept == Spec => [](TypeInv /\ SocketsInv /\ RequestsInv /\ AnswersInv)
<1>1. Init => RequestsInv /\ AnswersInv
  BY StartEmpty DEF RequestsInv, AnswersInv
<1>2. TypeInv /\ SocketsInv /\ RequestsInv /\ AnswersInv /\ [Next]_vars =>
        SocketsInv' /\ RequestsInv' /\ AnswersInv'
  BY SocketsStep, RequestsStep, AnswersStep
<1> QED BY <1>1, <1>2, SocketsInit, TypesKept, PTL DEF Spec

LEMMA EntryOK ==
  ASSUME TypeInv, AnswersInv, NEW p \in Ports, NEW a \in Given(p)
  PROVE  ResponseOK(p, a)
<1>1. a \in Entries /\ port[a.from] = p
  BY GivenAre DEF AnswersInv
<1> QED BY <1>1 DEF Entries, ResponseOK

LEMMA TypeInvIsType == TypeInv /\ AnswersInv => TypeOK
<1> SUFFICES ASSUME TypeInv, AnswersInv PROVE TypeOK
  OBVIOUS
<1>1. ASSUME NEW p \in Ports
      PROVE  /\ requests[p] \in [items : Seq(Requests(p)), waiting : SUBSET {"executor"}]
             /\ responses[p].waiting \subseteq {"sender"}
             /\ \A k \in DOMAIN responses[p].items : ResponseOK(p, responses[p].items[k])
             /\ \A i \in Slots : \A k \in DOMAIN out[p][i] : ResponseOK(p, out[p][i][k])
             /\ hand[p] = NoResponse \/ ResponseOK(p, hand[p])
             /\ pc[p]["executor"] \in {"pop", "inside", "ended"}
             /\ pc[p]["sender"] \in {"pop", "inside", "check", "flush", "ended"}
  <2>1. requests[p] \in [items : Seq(Requests(p)), waiting : SUBSET {"executor"}]
    BY DEF TypeInv, RequestQueues, Queues
  <2>2. responses[p].waiting \subseteq {"sender"}
    BY DEF TypeInv, ResponseQueues, Queues
  <2>3. \A k \in DOMAIN responses[p].items : ResponseOK(p, responses[p].items[k])
    BY InToSet, InGiven, EntryOK
  <2>4. \A i \in Slots : \A k \in DOMAIN out[p][i] : ResponseOK(p, out[p][i][k])
    BY InToSet, InGiven, EntryOK
  <2>5. hand[p] = NoResponse \/ ResponseOK(p, hand[p])
    BY InGiven, EntryOK
  <2>6. /\ pc[p]["executor"] \in {"pop", "inside", "ended"}
        /\ pc[p]["sender"] \in {"pop", "inside", "check", "flush", "ended"}
    BY DEF TypeInv
  <2> QED BY <2>1, <2>2, <2>3, <2>4, <2>5, <2>6
<1>2. status \in [Sensors -> Statuses] /\ name \in [Sensors -> Names \cup {FirstName}]
  BY DEF TypeInv, AllNames
<1>3. /\ socket \in [Ports -> [Slots -> Connections \cup {NoConnection}]]
      /\ quit \in BOOLEAN /\ port \in [Connections -> Ports \cup {"none"}]
      /\ raised \subseteq Connections \X (1 .. MaxAsked) /\ dbErrors \in 0 .. MaxDbErrors
  BY DEF TypeInv
<1> QED BY <1>1, <1>2, <1>3 DEF TypeOK

\* Every variable of both ports holds a value of its kind.  That a queued request holds
\* a command some client can give says that the listeners decode all commands as they
\* were meant, whatever ids and names are in them.
THEOREM TypeCorrect == Spec => []TypeOK
BY FlowKept, TypeInvIsType, PTL

-----------------------------------------------------------------------------
(* The table *)

LEMMA ExecuteTable ==
  ASSUME TypeInv, RequestsInv, NEW p \in Ports, Execute(p)
  PROVE  [Table!Next]_status
<1> DEFINE command == Current(p).command
<1>1. Current(p) \in Requests(p) /\ Current(p) \in Pending(p)
  BY ExecuteFlow
<1>2. command \in Asks[p] /\ ("id" \in DOMAIN command => status[command.id] # "ABSENT")
  BY <1>1 DEF RequestsInv, Requests
<1> HIDE DEF command
<1>3. "id" \in DOMAIN command => command.id \in Sensors
  BY <1>2, CommandNames
<1>4. status \in [Sensors -> Statuses]
  BY DEF TypeInv
<1>5. ASSUME NEW update, NEW r, Statement(p, update, r), update => [Table!Next]_status PROVE [Table!Next]_status
  BY <1>5 DEF Statement, table
<1>6. ASSUME GetAllSensors(p) \/ GetAllSensorsMonitoring(p) \/ GetSetOfMeasurements(p)
      PROVE  [Table!Next]_status
  BY <1>6 DEF GetAllSensors, GetAllSensorsMonitoring, GetSetOfMeasurements, Statement, table
<1>7. ASSUME UpdateSensorName(p) PROVE [Table!Next]_status
  BY <1>7 DEF UpdateSensorName, Statement, editSensor, table
<1>8. ASSUME RevokeSensor(p) PROVE [Table!Next]_status
  <2>1. p = "administrator" /\ command.type = 2 /\ (revokeSensor(command.id) \/ UNCHANGED table)
    BY <1>8 DEF RevokeSensor, Executes, command, Statement, Administrator!REVOKE_SENSOR
  <2>2. "id" \in DOMAIN command
    BY <1>2, <2>1, AsksAssumption DEF AdministratorCommands, Administrator!GET_ALL_SENSORS, Administrator!UPDATE_SENSOR_NAME,
         Administrator!REVOKE_SENSOR, Administrator!DISCONNECT_SENSOR, Administrator!GENERATE_TOKEN
  <2>3. CASE status[command.id] = "REVOKED" /\ revokeSensor(command.id)
    BY <1>4, <2>3 DEF revokeSensor, Table!Become
  <2>4. CASE status[command.id] # "REVOKED" /\ revokeSensor(command.id)
    <3>1. Table!Revoke(command.id)
      BY <1>2, <2>2, <2>4 DEF revokeSensor, Table!Revoke, Table!Usable
    <3> QED BY <1>3, <2>2, <3>1 DEF Table!Next
  <2> QED BY <2>1, <2>3, <2>4 DEF table
<1>9. ASSUME DisconnectSensor(p) PROVE [Table!Next]_status
  <2>1. p = "administrator" /\ command.type = 3 /\ (disconnectSensor(command.id) \/ UNCHANGED table)
    BY <1>9 DEF DisconnectSensor, Executes, command, Statement, Administrator!DISCONNECT_SENSOR
  <2>2. "id" \in DOMAIN command
    BY <1>2, <2>1, AsksAssumption DEF AdministratorCommands, Administrator!GET_ALL_SENSORS, Administrator!UPDATE_SENSOR_NAME,
         Administrator!REVOKE_SENSOR, Administrator!DISCONNECT_SENSOR, Administrator!GENERATE_TOKEN
  <2>3. CASE disconnectSensor(command.id) /\ Table!Usable(command.id)
    <3>1. Table!Deactivate(command.id)
      BY <2>3 DEF disconnectSensor, Table!Deactivate
    <3> QED BY <1>3, <2>2, <3>1 DEF Table!Next
  <2>4. CASE disconnectSensor(command.id) /\ ~Table!Usable(command.id)
    BY <2>4 DEF disconnectSensor
  <2> QED BY <2>1, <2>3, <2>4 DEF table
<1>10. ASSUME GenerateToken(p) PROVE [Table!Next]_status
  <2>1. \/ \E s \in Sensors : Table!Create(s)
        \/ UNCHANGED table
    BY <1>10 DEF GenerateToken, Statement
  <2> QED BY <2>1 DEF Table!Next, table
<1> QED BY <1>6, <1>7, <1>8, <1>9, <1>10 DEF Execute

LEMMA TableStep ==
  ASSUME TypeInv, RequestsInv, [Next]_vars
  PROVE  [Table!Next]_status
<1>1. CASE SensorsComeAndGo
  BY <1>1, ComeAndGo
<1>2. ASSUME NEW p \in Ports, Executor(p) \/ Sender(p) \/ \E i \in Slots : SendPending(p, i)
      PROVE  [Table!Next]_status
  BY <1>2, ExecuteTable DEF Executor, Sender, SleepExecutor, SleepSender, End, TakeResponse, CheckSlot,
     Flush, SendPending, table
<1>3. ASSUME NEW c \in Connections,
             \/ Close(c) \/ \E p \in Ports : Accept(c, p)
             \/ Open(c) /\ \E command \in Asks[port[c]] : Ask(c, command)
      PROVE  [Table!Next]_status
  BY <1>3 DEF Close, Accept, Ask, table
<1>4. CASE Quit \/ UNCHANGED vars
  BY <1>4 DEF Quit, vars, table
<1> QED BY <1>1, <1>2, <1>3, <1>4 DEF Next

\* Administrators and sensors together change a row only as SensorLifecycle allows,
\* whatever waits in the queues meanwhile: what a command names was shown to its
\* client, and rows neither vanish nor come back from a revocation.
THEOREM TableImplements == Spec => TableSpec
<1>1. Init => Table!Init
  BY DEF Init
<1>2. TypeInv /\ RequestsInv /\ [Next]_vars => [Table!Next]_status
  BY TableStep
<1> QED BY <1>1, <1>2, FlowKept, PTL DEF Spec, TableSpec, Table!Spec

-----------------------------------------------------------------------------
(* Addresses *)

\* Answers on their way to a slot
OnTheWay(p) == Held(p) \cup ToSet(responses[p].items)

\* What is on its way to a slot is for the slot of its connection, as long as that
\* connection is open.
AddressInv ==
  /\ \A p \in Ports : \A r \in Pending(p) \cup OnTheWay(p) :
       \A i \in Slots : socket[p][i] = r.from => r.client = i
  /\ \A p \in Ports : \A i \in Slots : \A a \in ToSet(out[p][i]) :
       \A j \in Slots : socket[p][j] = a.from => i = j

\* What has been sent to others belonged to connections that are gone.
ForeignInv ==
  \A c \in Connections : \A a \in ToSet(got[c]) :
    a.from # c => ~Open(a.from)

\* Slots are given only to new connections.
SameSockets ==
  \A p \in Ports : \A i \in Slots :
    \/ socket'[p][i] \in {socket[p][i], NoConnection}
    \/ socket'[p][i] \in Connections /\ port[socket'[p][i]] = "none"

LEMMA SocketsMove == ASSUME TypeInv, [Next]_vars PROVE SameSockets
<1>1. ASSUME socket' = socket PROVE SameSockets
  BY <1>1 DEF SameSockets
<1>2. ASSUME NEW c \in Connections, Close(c) PROVE SameSockets
  <2>1. PICK i \in SlotOf(c) : socket' = [socket EXCEPT ![port[c]][i] = NoConnection]
    BY <1>2 DEF Close
  <2>2. i \in Slots /\ port[c] \in Ports
    BY SlotsAre DEF TypeInv
  <2> QED BY <2>1, <2>2 DEF SameSockets, TypeInv
<1>3. ASSUME NEW c \in Connections, NEW p \in Ports, Accept(c, p) PROVE SameSockets
  <2>1. port[c] = "none" /\ \E i \in Slots : socket' = [socket EXCEPT ![p][i] = c]
    BY <1>3 DEF Accept
  <2> QED BY <2>1 DEF SameSockets, TypeInv
<1>4. ASSUME NEW c \in Connections, Open(c), NEW command \in Asks[port[c]], Ask(c, command) PROVE SameSockets
  BY <1>1, <1>4 DEF Ask
<1>5. ASSUME NEW p \in Ports, Executor(p) \/ Sender(p) \/ \E i \in Slots : SendPending(p, i) PROVE SameSockets
  BY <1>1, <1>5, ExecuteFlow DEF Executor, Sender, SleepExecutor, SleepSender, End, TakeResponse, CheckSlot,
     Flush, SendPending
<1>6. CASE Quit \/ SensorsComeAndGo \/ UNCHANGED vars
  BY <1>1, <1>6 DEF Quit, SensorsComeAndGo, vars
<1> QED BY <1>2, <1>3, <1>4, <1>5, <1>6 DEF Next

\* A connection that has a port and is in a slot was there before.
LEMMA StaysPlaced ==
  ASSUME TypeInv, [Next]_vars, NEW p \in Ports, NEW i \in Slots, NEW d \in Connections,
         port[d] # "none", socket'[p][i] = d
  PROVE  socket[p][i] = d
<1>1. SameSockets
  BY SocketsMove
<1> QED BY <1>1, PathAssumption DEF SameSockets

\* What can be sent to slot i now
For(p, i) == ToSet(out[p][i]) \cup {a \in Held(p) : a.client = i}

\* Answers go from the queue to the sender, from there to a slot, and from there to
\* the connection in it.
Forwards ==
  /\ \A p \in Ports : OnTheWay(p)' \subseteq OnTheWay(p) \/ Execute(p)
  /\ \A p \in Ports : \A i \in Slots : ToSet(out'[p][i]) \subseteq For(p, i)
  /\ \A c \in Connections :
       \/ got'[c] = got[c]
       \/ \E p \in Ports : \E i \in Slots :
            socket[p][i] = c /\ ToSet(got'[c]) \subseteq ToSet(got[c]) \cup For(p, i)

LEMMA StillForwards ==
  ASSUME out' = out, got' = got,
         \A p \in Ports : OnTheWay(p)' \subseteq OnTheWay(p) \/ Execute(p)
  PROVE  Forwards
BY DEF Forwards, For

LEMMA DeliverForwards ==
  ASSUME TypeInv, NEW p \in Ports, NEW i \in Slots, NEW sent \in Seq(Entries), Deliver(p, i, sent),
         ToSet(sent) \subseteq For(p, i), \A o \in Ports : OnTheWay(o)' \subseteq OnTheWay(o)
  PROVE  Forwards
<1>1. \/ /\ socket[p][i] = NoConnection /\ got' = got
         /\ out' = [out EXCEPT ![p][i] = sent]
      \/ /\ socket[p][i] \in Connections /\ socket[p][i] # NoConnection
         /\ out' = [out EXCEPT ![p][i] = <<>>]
         /\ got' = [got EXCEPT ![socket[p][i]] = got[socket[p][i]] \o sent]
  BY DeliverSends
<1>2. ASSUME NEW o \in Ports, NEW j \in Slots PROVE ToSet(out'[o][j]) \subseteq For(o, j)
  <2>1. out'[o][j] = out[o][j] \/ (o = p /\ j = i /\ out'[o][j] \in {sent, <<>>})
    BY <1>1 DEF TypeInv
  <2> QED BY <2>1, EmptyToSet DEF For
<1>3. ASSUME NEW c \in Connections, got'[c] # got[c]
      PROVE  socket[p][i] = c /\ ToSet(got'[c]) \subseteq ToSet(got[c]) \cup For(p, i)
  <2>1. socket[p][i] = c /\ got'[c] = got[c] \o sent
    BY <1>1, <1>3 DEF TypeInv
  <2>2. got[c] \in Seq(Entries)
    BY DEF TypeInv
  <2>3. ToSet(got'[c]) = ToSet(got[c]) \cup ToSet(sent)
    BY <2>1, <2>2, ConcatToSet
  <2> QED BY <2>1, <2>3
<1> QED BY <1>2, <1>3 DEF Forwards

LEMMA StepForwards == ASSUME TypeInv, [Next]_vars PROVE Forwards
<1>1. ASSUME NEW p \in Ports, NEW i \in Slots, SendPending(p, i) PROVE Forwards
  <2>1. out[p][i] \in Seq(Entries) /\ ToSet(out[p][i]) \subseteq For(p, i)
    BY DEF TypeInv, For
  <2>2. Deliver(p, i, out[p][i]) /\ \A o \in Ports : OnTheWay(o)' \subseteq OnTheWay(o)
    BY <1>1 DEF SendPending, OnTheWay, Held
  <2> QED BY <2>1, <2>2, DeliverForwards
<1>2. ASSUME NEW p \in Ports, Flush(p) PROVE Forwards
  <2> DEFINE i == hand[p].client
             sent == Append(out[p][i], hand[p])
  <2>1. /\ hand[p] # NoResponse /\ i \in Slots /\ out[p][i] \in Seq(Entries)
        /\ sent \in Seq(Entries) /\ Deliver(p, i, sent)
        /\ hand' = [hand EXCEPT ![p] = NoResponse] /\ responses' = responses
    BY <1>2, FlushDelivers
  <2>2. ToSet(sent) = ToSet(out[p][i]) \cup {hand[p]}
    BY <2>1, AppendToSet
  <2>3. ToSet(sent) \subseteq For(p, i)
    BY <2>1, <2>2 DEF For, Held
  <2>4. \A o \in Ports : OnTheWay(o)' \subseteq OnTheWay(o)
    BY <2>1 DEF OnTheWay, Held, TypeInv
  <2> HIDE DEF i, sent
  <2> QED BY <2>1, <2>3, <2>4, DeliverForwards
<1>3. ASSUME NEW p \in Ports, TakeResponse(p) PROVE Forwards
  <2>1. /\ hand' = [hand EXCEPT ![p] = Head(responses[p].items)]
        /\ responses' = [responses EXCEPT ![p] = pop(responses[p])]
        /\ out' = out /\ got' = got
    BY <1>3 DEF TakeResponse, front, history
  <2>2. responses[p].items \in Seq(Entries) /\ responses[p].items # <<>>
    BY <1>3 DEF TypeInv, ResponseQueues, Queues, TakeResponse, MayTake, MayPop
  <2>3. ToSet(responses[p].items) = {Head(responses[p].items)} \cup ToSet(Tail(responses[p].items))
    BY <2>2, TailToSet
  <2>4. pop(responses[p]).items = Tail(responses[p].items)
    BY Popped DEF TypeInv, ResponseQueues
  <2>5. ASSUME NEW o \in Ports PROVE OnTheWay(o)' \subseteq OnTheWay(o)
    <3>1. \/ responses'[o] = responses[o] /\ hand'[o] = hand[o]
          \/ /\ o = p /\ responses'[o].items = Tail(responses[o].items)
             /\ hand'[o] = Head(responses[o].items)
      BY <2>1, <2>4 DEF TypeInv
    <3> QED BY <2>3, <3>1 DEF OnTheWay, Held
  <2> QED BY <2>1, <2>5, StillForwards
<1>4. ASSUME NEW p \in Ports, CheckSlot(p) PROVE Forwards
  <2>1. \A o \in Ports : hand'[o] \in {hand[o], NoResponse}
    BY <1>4 DEF CheckSlot, TypeInv
  <2>2. out' = out /\ got' = got /\ responses' = responses
    BY <1>4 DEF CheckSlot, history
  <2>3. \A o \in Ports : OnTheWay(o)' \subseteq OnTheWay(o)
    BY <2>1, <2>2 DEF OnTheWay, Held
  <2> QED BY <2>2, <2>3, StillForwards
<1>5. ASSUME NEW p \in Ports, SleepSender(p) PROVE Forwards
  <2>1. /\ responses' = [responses EXCEPT ![p] = wait(responses[p], "sender")]
        /\ UNCHANGED <<out, got, hand>>
    BY <1>5 DEF SleepSender, history
  <2>2. wait(responses[p], "sender").items = responses[p].items
    BY Waited DEF TypeInv, ResponseQueues
  <2>3. \A o \in Ports : responses'[o].items = responses[o].items
    BY <2>1, <2>2 DEF TypeInv
  <2>4. \A o \in Ports : OnTheWay(o)' = OnTheWay(o)
    BY <2>1, <2>3 DEF OnTheWay, Held
  <2> QED BY <2>1, <2>4, StillForwards
<1>6. ASSUME UNCHANGED <<out, got, hand, responses>> PROVE Forwards
  BY <1>6, StillForwards DEF OnTheWay, Held
<1>7. ASSUME NEW p \in Ports, Execute(p) PROVE Forwards
  <2>1. UNCHANGED <<out, got, hand>>
    BY <1>7, ExecuteFlow
  <2>2. \A o \in Ports \ {p} : responses'[o] = responses[o]
    BY <1>7, ExecuteQueues
  <2>3. \A o \in Ports : OnTheWay(o)' \subseteq OnTheWay(o) \/ Execute(o)
    BY <1>7, <2>1, <2>2 DEF OnTheWay, Held
  <2> QED BY <2>1, <2>3, StillForwards
<1>8. ASSUME NEW c \in Connections, Close(c) PROVE Forwards
  <2>1. PICK i \in SlotOf(c) : out' = [out EXCEPT ![port[c]][i] = <<>>] /\ UNCHANGED <<got, hand, responses>>
    BY <1>8 DEF Close, history
  <2>2. i \in Slots /\ port[c] \in Ports
    BY SlotsAre DEF TypeInv
  <2>3. \A o \in Ports : \A j \in Slots : out'[o][j] \in {out[o][j], <<>>}
    BY <2>1, <2>2 DEF TypeInv
  <2>4. \A o \in Ports : \A j \in Slots : ToSet(out'[o][j]) \subseteq For(o, j)
    BY <2>3, EmptyToSet DEF For
  <2> QED BY <2>1, <2>4 DEF Forwards, OnTheWay, Held
<1>9. ASSUME NEW c \in Connections,
             \/ \E p \in Ports : Accept(c, p)
             \/ Open(c) /\ \E command \in Asks[port[c]] : Ask(c, command)
      PROVE  Forwards
  BY <1>6, <1>9 DEF Accept, Ask, history
<1>10. ASSUME NEW p \in Ports, Executor(p) \/ Sender(p) \/ \E i \in Slots : SendPending(p, i) PROVE Forwards
  BY <1>1, <1>2, <1>3, <1>4, <1>5, <1>6, <1>7, <1>10 DEF Executor, Sender, SleepExecutor, End, history
<1>11. CASE Quit \/ SensorsComeAndGo \/ UNCHANGED vars
  BY <1>6, <1>11 DEF Quit, SensorsComeAndGo, vars, history
<1> QED BY <1>8, <1>9, <1>10, <1>11 DEF Next

LEMMA AddressStep ==
  ASSUME TypeInv, SocketsInv, RequestsInv, AnswersInv, AddressInv, [Next]_vars
  PROVE  AddressInv'
<1>1. SameSockets /\ Forwards
  BY SocketsMove, StepForwards
<1>2. ASSUME NEW p \in Ports, NEW r, r \in Pending(p) \/ r \in Given(p)
      PROVE  r.from \in Connections /\ port[r.from] = p /\ port[r.from] # "none"
  <2>1. CASE r \in Pending(p)
    BY <2>1, PendingAre DEF Requests, RequestsInv, Ports
  <2>2. CASE r \in Given(p)
    BY <2>2, GivenAre DEF Entries, AnswersInv, Ports
  <2> QED BY <1>2, <2>1, <2>2
<1>3. ASSUME NEW p \in Ports, NEW r \in Pending(p) \cup OnTheWay(p), NEW i \in Slots, socket'[p][i] = r.from
      PROVE  r.client = i
  <2>1. r \in Pending(p) \/ r \in Given(p)
    BY DEF OnTheWay, Given
  <2>2. socket[p][i] = r.from
    BY <1>2, <1>3, <2>1, StaysPlaced
  <2> QED BY <2>2 DEF AddressInv
<1>4. ASSUME NEW p \in Ports, NEW r \in OnTheWay(p)', NEW i \in Slots, socket'[p][i] = r.from
      PROVE  r.client = i
  <2>1. CASE r \in OnTheWay(p)
    BY <1>3, <1>4, <2>1
  <2>2. CASE Execute(p) /\ r \notin OnTheWay(p)
    <3> DEFINE e == Current(p)
    <3>1. /\ e \in Pending(p) /\ UNCHANGED <<hand, socket>>
          /\ \/ responses' = responses
             \/ \E s : \E a \in Entries :
                  /\ Tells(p, e.command, s)
                  /\ a = [client |-> e.client, from |-> e.from, n |-> e.n, response |-> s]
                  /\ responses'[p].items = Append(responses[p].items, a)
                  /\ \A o \in Ports \ {p} : responses'[o].items = responses[o].items
                  /\ Given(p)' \subseteq Given(p) \cup {a}
      BY <2>2, ExecuteFlow
    <3>2. CASE responses' = responses
      BY <2>2, <3>1, <3>2 DEF OnTheWay, Held
    <3>3. ASSUME NEW s, NEW a \in Entries, responses'[p].items = Append(responses[p].items, a),
                 a = [client |-> e.client, from |-> e.from, n |-> e.n, response |-> s]
          PROVE  r.client = i
      <4>1. responses[p].items \in Seq(Entries)
        BY DEF TypeInv, ResponseQueues, Queues
      <4>2. ToSet(responses'[p].items) = ToSet(responses[p].items) \cup {a}
        BY <3>3, <4>1, AppendToSet
      <4>3. r = a
        BY <2>2, <3>1, <4>2 DEF OnTheWay, Held
      <4>4. r.client = e.client /\ r.from = e.from
        BY <3>3, <4>3
      <4> HIDE DEF e
      <4> QED BY <1>3, <1>4, <3>1, <4>4
    <3> HIDE DEF e
    <3> QED BY <3>1, <3>2, <3>3
  <2> QED BY <1>1, <2>1, <2>2 DEF Forwards
<1>5. ASSUME NEW p \in Ports, NEW r \in Pending(p)', NEW i \in Slots, socket'[p][i] = r.from
      PROVE  r.client = i
  <2>1. CASE r \in Pending(p)
    BY <1>3, <1>5, <2>1
  <2>2. ASSUME PassesOn PROVE r \in Pending(p)
    BY <2>2 DEF PassesOn, Pending
  <2>3. ASSUME NEW o \in Ports, Execute(o) PROVE r \in Pending(p)
    BY <2>3, ExecuteFlow
  <2>4. ASSUME NEW c \in Connections, Open(c), NEW command \in Asks[port[c]], Ask(c, command), r \notin Pending(p)
        PROVE  r.client = i
    <3>1. PICK o : o = port[c]
      OBVIOUS
    <3>2. o \in Ports /\ socket' = socket /\ \A q \in Ports \ {o} : Pending(q)' = Pending(q)
      BY <2>4, <3>1, AskFlow
    <3>3. Joins(c, command, o)
      BY <2>4, <3>1, AskPending
    <3>4. PICK j \in Slots :
           /\ socket[o][j] = c /\ NextRequest(c, j, command) \in Requests(o)
           /\ requests'[o].items = Append(requests[o].items, NextRequest(c, j, command))
           /\ Pending(o)' = Pending(o) \cup {NextRequest(c, j, command)}
      BY <3>3 DEF Joins
    <3>5. p = o
      BY <2>4, <3>2
    <3>6. r.from = c /\ r.client = j
      BY <2>4, <3>4, <3>5 DEF NextRequest
    <3> QED BY <1>5, <3>2, <3>4, <3>5, <3>6, PathAssumption DEF SocketsInv
  <2> QED BY <2>1, <2>2, <2>3, <2>4, StepSplits
<1>6. ASSUME NEW p \in Ports, NEW i \in Slots, NEW a \in ToSet(out'[p][i]), NEW j \in Slots, socket'[p][j] = a.from
      PROVE  i = j
  <2>1. a \in For(p, i)
    BY <1>1 DEF Forwards
  <2>2. a \in Given(p)
    BY <2>1, InGiven DEF For, Held
  <2>3. socket[p][j] = a.from
    BY <1>2, <1>6, <2>2, StaysPlaced
  <2>4. CASE a \in ToSet(out[p][i])
    BY <2>3, <2>4 DEF AddressInv
  <2>5. CASE a \in Held(p) /\ a.client = i
    BY <2>3, <2>5 DEF AddressInv, OnTheWay
  <2> QED BY <2>1, <2>4, <2>5 DEF For
<1> QED BY <1>4, <1>5, <1>6 DEF AddressInv

LEMMA ForeignStep ==
  ASSUME TypeInv, SocketsInv, AnswersInv, AddressInv, ForeignInv, [Next]_vars
  PROVE  ForeignInv'
<1> SUFFICES ASSUME NEW c \in Connections, NEW a \in ToSet(got'[c]), a.from # c, Open(a.from)'
             PROVE  FALSE
  BY DEF ForeignInv
<1>1. SameSockets /\ Forwards /\ Grows
  BY SocketsMove, StepForwards, StepGrows
<1>2. PICK i \in Slots : port'[a.from] # "none" /\ socket'[port'[a.from]][i] = a.from
  BY DEF Open, SlotOf
<1>3. ASSUME NEW p \in Ports, a \in Given(p) PROVE socket[p][i] = a.from /\ port[a.from] = p
  <2>1. a.from \in Connections /\ port[a.from] = p /\ p # "none"
    BY <1>3, GivenAre DEF Entries, AnswersInv, Ports
  <2>2. port'[a.from] = p
    BY <1>1, <2>1 DEF Grows
  <2> QED BY <1>2, <2>1, <2>2, StaysPlaced
<1>4. CASE a \in ToSet(got[c])
  <2>1. got[c] # <<>>
    BY <1>4, EmptyToSet
  <2>2. port[c] \in Ports
    BY <2>1 DEF SocketsInv, TypeInv
  <2>3. a \in Given(port[c])
    BY <1>4, GotIsGiven
  <2>4. socket[port[c]][i] = a.from /\ port[a.from] = port[c]
    BY <1>3, <2>2, <2>3
  <2>5. Open(a.from)
    BY <2>2, <2>4 DEF Open, SlotOf, Ports
  <2> QED BY <1>4, <2>5 DEF ForeignInv
<1>5. ASSUME NEW p \in Ports, NEW j \in Slots, socket[p][j] = c, a \in For(p, j) PROVE FALSE
  <2>1. a \in Given(p)
    BY <1>5, InGiven DEF For, Held
  <2>2. socket[p][i] = a.from
    BY <1>3, <2>1
  <2>3. CASE a \in ToSet(out[p][j])
    BY <1>5, <2>2, <2>3 DEF AddressInv
  <2>4. CASE a \in Held(p) /\ a.client = j
    BY <1>5, <2>2, <2>4 DEF AddressInv, OnTheWay
  <2> QED BY <1>5, <2>3, <2>4 DEF For
<1> QED BY <1>1, <1>4, <1>5 DEF Forwards

LEMMA AddressesKept == Spec => [](AddressInv /\ ForeignInv)
<1>1. Init => AddressInv /\ ForeignInv
  <2> SUFFICES ASSUME Init PROVE AddressInv /\ ForeignInv
    OBVIOUS
  <2>1. \A p \in Ports : \A r : r \notin Pending(p) \cup OnTheWay(p)
    BY StartEmpty DEF OnTheWay, Given
  <2>2. \A p \in Ports : \A i \in Slots : ToSet(out[p][i]) = {}
    BY EmptyToSet DEF Init
  <2>3. \A c \in Connections : ToSet(got[c]) = {}
    BY EmptyToSet DEF Init
  <2> QED BY <2>1, <2>2, <2>3 DEF AddressInv, ForeignInv
<1>2. TypeInv /\ SocketsInv /\ RequestsInv /\ AnswersInv /\ AddressInv /\ ForeignInv /\ [Next]_vars =>
        AddressInv' /\ ForeignInv'
  BY AddressStep, ForeignStep
<1> QED BY <1>1, <1>2, FlowKept, PTL DEF Spec

\* Whose answer a client can be shown: its own, or that of a client whose connection
\* has ended.  As long as a connection is open, all that is on its way to it is
\* addressed to its slot, and nothing of it lies in the buffer of another slot.
THEOREM AddressesCorrect == Spec => []ForeignOnlyAfterReuse
<1>1. TypeInv /\ SocketsInv /\ AnswersInv /\ ForeignInv => ForeignOnlyAfterReuse
  <2> SUFFICES ASSUME TypeInv, SocketsInv, AnswersInv, ForeignInv,
                      NEW c \in Connections, NEW k \in DOMAIN got[c], got[c][k].from # c
               PROVE  port[got[c][k].from] = port[c] /\ ~Open(got[c][k].from)
    BY DEF ForeignOnlyAfterReuse
  <2>1. got[c][k] \in ToSet(got[c])
    BY InToSet
  <2>2. got[c] # <<>>
    BY <2>1, EmptyToSet
  <2>3. port[c] \in Ports /\ got[c][k] \in Given(port[c])
    BY <2>1, <2>2, GotIsGiven DEF SocketsInv, TypeInv
  <2> QED BY <2>1, <2>3 DEF AnswersInv, ForeignInv
<1> QED BY <1>1, FlowKept, AddressesKept, PTL

-----------------------------------------------------------------------------
(* Order *)

\* c's commands are numbered upwards along q.
Sorted(q, c) ==
  \A k, l \in DOMAIN q : k < l /\ q[k].from = c /\ q[l].from = c => q[k].n < q[l].n

\* Of c's commands those of A come before those of B.
Earlier(A, B, c) == \A a \in A, b \in B : a.from = c /\ b.from = c => a.n < b.n

LEMMA SortedAppend ==
  ASSUME NEW E, NEW q \in Seq(E), NEW e, NEW c, Sorted(q, c), Earlier(ToSet(q), {e}, c)
  PROVE  Sorted(Append(q, e), c)
<1>1. DOMAIN Append(q, e) = 1 .. (Len(q) + 1) /\ DOMAIN q = 1 .. Len(q) /\ Len(q) \in Nat
  OBVIOUS
<1>2. \A k \in 1 .. Len(q) : Append(q, e)[k] = q[k]
  OBVIOUS
<1>3. Append(q, e)[Len(q) + 1] = e
  OBVIOUS
<1>4. \A k \in 1 .. Len(q) : q[k] \in ToSet(q)
  BY <1>1, InToSet
<1>5. ASSUME NEW k \in 1 .. (Len(q) + 1), NEW l \in 1 .. (Len(q) + 1), k < l,
             Append(q, e)[k].from = c, Append(q, e)[l].from = c
      PROVE  Append(q, e)[k].n < Append(q, e)[l].n
  <2>1. k \in 1 .. Len(q)
    BY <1>1, <1>5
  <2>2. CASE l \in 1 .. Len(q)
    BY <1>1, <1>2, <1>5, <2>1, <2>2 DEF Sorted
  <2>3. CASE l = Len(q) + 1
    <3>1. Append(q, e)[k] = q[k] /\ Append(q, e)[l] = e /\ q[k] \in ToSet(q)
      BY <1>2, <1>3, <1>4, <2>1, <2>3
    <3> QED BY <1>5, <3>1 DEF Earlier
  <2> QED BY <1>1, <2>2, <2>3
<1> QED BY <1>1, <1>5 DEF Sorted

LEMMA SortedTail ==
  ASSUME NEW E, NEW q \in Seq(E), q # <<>>, NEW c, Sorted(q, c)
  PROVE  Sorted(Tail(q), c) /\ Earlier({Head(q)}, ToSet(Tail(q)), c)
<1>1. DOMAIN Tail(q) = 1 .. (Len(q) - 1) /\ DOMAIN q = 1 .. Len(q) /\ Len(q) \in Nat /\ Len(q) > 0
  OBVIOUS
<1>2. \A k \in 1 .. (Len(q) - 1) : Tail(q)[k] = q[k + 1]
  OBVIOUS
<1>3. Head(q) = q[1]
  OBVIOUS
<1>4. \A k \in 1 .. (Len(q) - 1) : k + 1 \in 1 .. Len(q) /\ 1 < k + 1
  BY <1>1
<1>5. 1 \in 1 .. Len(q)
  BY <1>1
<1>6. Sorted(Tail(q), c)
  <2> SUFFICES ASSUME NEW k \in 1 .. (Len(q) - 1), NEW l \in 1 .. (Len(q) - 1), k < l,
                      Tail(q)[k].from = c, Tail(q)[l].from = c
               PROVE  Tail(q)[k].n < Tail(q)[l].n
    BY <1>1 DEF Sorted
  <2>1. k + 1 < l + 1
    BY <1>1
  <2>2. Tail(q)[k] = q[k + 1] /\ Tail(q)[l] = q[l + 1]
    BY <1>2
  <2> QED BY <1>1, <1>4, <2>1, <2>2 DEF Sorted
<1>7. ASSUME NEW b \in ToSet(Tail(q)), Head(q).from = c, b.from = c PROVE Head(q).n < b.n
  <2>1. PICK k \in 1 .. (Len(q) - 1) : b = Tail(q)[k]
    BY <1>1, InToSet
  <2>2. b = q[k + 1] /\ k + 1 \in DOMAIN q /\ 1 \in DOMAIN q /\ 1 < k + 1
    BY <1>1, <1>2, <1>4, <1>5, <2>1
  <2> QED BY <1>3, <1>7, <2>2 DEF Sorted
<1> QED BY <1>6, <1>7 DEF Earlier

LEMMA SortedConcat ==
  ASSUME NEW E, NEW q \in Seq(E), NEW r \in Seq(E), NEW c, Sorted(q, c), Sorted(r, c),
         Earlier(ToSet(q), ToSet(r), c)
  PROVE  Sorted(q \o r, c)
<1> DEFINE m == Len(q)
           n == Len(r)
<1>1. DOMAIN (q \o r) = 1 .. (m + n) /\ DOMAIN q = 1 .. m /\ DOMAIN r = 1 .. n /\ m \in Nat /\ n \in Nat
  OBVIOUS
<1>2. \A k \in 1 .. m : (q \o r)[k] = q[k]
  OBVIOUS
<1>3. \A k \in 1 .. n : (q \o r)[m + k] = r[k]
  OBVIOUS
<1> HIDE DEF m, n
<1>4. ASSUME NEW k \in 1 .. (m + n) PROVE k \in 1 .. m \/ (k - m \in 1 .. n /\ m + (k - m) = k)
  BY <1>1
<1>5. \A k \in 1 .. m : q[k] \in ToSet(q)
  BY <1>1, InToSet
<1>6. \A k \in 1 .. n : r[k] \in ToSet(r)
  BY <1>1, InToSet
<1> SUFFICES ASSUME NEW k \in 1 .. (m + n), NEW l \in 1 .. (m + n), k < l,
                    (q \o r)[k].from = c, (q \o r)[l].from = c
             PROVE  (q \o r)[k].n < (q \o r)[l].n
  BY <1>1 DEF Sorted
<1>7. CASE l \in 1 .. m
  <2>1. k \in 1 .. m
    BY <1>1, <1>7
  <2> QED BY <1>1, <1>2, <1>7, <2>1 DEF Sorted
<1>8. CASE k \in 1 .. m /\ l - m \in 1 .. n /\ m + (l - m) = l
  <2>1. (q \o r)[k] = q[k] /\ (q \o r)[l] = r[l - m]
    BY <1>2, <1>3, <1>8
  <2>2. q[k] \in ToSet(q) /\ r[l - m] \in ToSet(r)
    BY <1>5, <1>6, <1>8
  <2> QED BY <2>1, <2>2 DEF Earlier
<1>9. CASE k - m \in 1 .. n /\ m + (k - m) = k /\ l - m \in 1 .. n /\ m + (l - m) = l
  <2>1. (q \o r)[k] = r[k - m] /\ (q \o r)[l] = r[l - m]
    BY <1>3, <1>9
  <2>2. k - m < l - m
    BY <1>1
  <2> QED BY <1>1, <1>9, <2>1, <2>2 DEF Sorted
<1> QED BY <1>4, <1>7, <1>8, <1>9

LEMMA SortedEmpty == ASSUME NEW c PROVE Sorted(<<>>, c)
BY DEF Sorted

\* Requests wait in the order in which they were asked, behind all that is answered.
RequestsOrder ==
  \A p \in Ports : \A c \in Connections :
    Sorted(requests[p].items, c) /\ Earlier(Given(p), Pending(p), c)

LEMMA RequestsOrderStep ==
  ASSUME TypeInv, SocketsInv, RequestsInv, AnswersInv, RequestsOrder, [Next]_vars
  PROVE  RequestsOrder'
<1> SUFFICES ASSUME NEW p \in Ports, NEW c \in Connections
             PROVE  Sorted(requests'[p].items, c) /\ Earlier(Given(p)', Pending(p)', c)
  BY DEF RequestsOrder, Sorted, Earlier
<1> DEFINE Goal == Sorted(requests'[p].items, c) /\ Earlier(Given(p)', Pending(p)', c)
<1>1. Sorted(requests[p].items, c) /\ Earlier(Given(p), Pending(p), c)
  BY DEF RequestsOrder
<1>2. ASSUME requests'[p].items = requests[p].items, Given(p)' \subseteq Given(p) PROVE Goal
  <2>1. Pending(p)' = Pending(p)
    BY <1>2 DEF Pending
  <2> QED BY <1>1, <1>2, <2>1 DEF Earlier
<1>3. ASSUME PassesOn PROVE Goal
  BY <1>2, <1>3 DEF PassesOn
<1>4. ASSUME NEW o \in Ports, Execute(o) PROVE Goal
  <2>1. CASE o # p
    <3>1. requests'[p].items = requests[p].items /\ Given(p)' = Given(p)
      BY <1>4, <2>1, ExecuteFlow
    <3> QED BY <1>2, <3>1
  <2>2. CASE o = p
    <3> DEFINE q == requests[p].items
               r == Current(p)
    <3>1. q # <<>> /\ requests'[p].items = Tail(q) /\ r \in Pending(p) /\ Pending(p)' \subseteq Pending(p)
      BY <1>4, <2>2, ExecuteFlow
    <3>2. q \in Seq(Requests(p))
      BY DEF TypeInv
    <3>3. Sorted(Tail(q), c) /\ Earlier({Head(q)}, ToSet(Tail(q)), c)
      BY <1>1, <3>1, <3>2, SortedTail
    <3>4. Pending(p)' = ToSet(Tail(q))
      BY <3>1 DEF Pending
    <3>5. Head(q) = r
      BY DEF Current, front
    <3>6. \/ Given(p)' = Given(p)
          \/ \E a \in Entries : a.from = r.from /\ a.n = r.n /\ Given(p)' \subseteq Given(p) \cup {a}
      <4>1. \/ Given(p)' = Given(p)
            \/ \E s : \E a \in Entries :
                    /\ Tells(p, Current(p).command, s)
                    /\ a = [client |-> Current(p).client, from |-> Current(p).from,
                            n |-> Current(p).n, response |-> s]
                    /\ responses'[p].items = Append(responses[p].items, a)
                    /\ \A u \in Ports \ {p} : responses'[u].items = responses[u].items
                    /\ Given(p)' \subseteq Given(p) \cup {a}
        BY <1>4, <2>2, ExecuteFlow
      <4> QED BY <4>1
    <3> HIDE DEF q, r
    <3>7. Earlier(Given(p), Pending(p)', c)
      BY <1>1, <3>1 DEF Earlier
    <3>8. ASSUME NEW a \in Entries, a.from = r.from, a.n = r.n, Given(p)' \subseteq Given(p) \cup {a}
          PROVE  Earlier(Given(p)', Pending(p)', c)
      BY <3>3, <3>4, <3>5, <3>7, <3>8 DEF Earlier
    <3> QED BY <3>1, <3>3, <3>6, <3>7, <3>8
  <2> QED BY <2>1, <2>2
<1>5. ASSUME NEW d \in Connections, Open(d), NEW command \in Asks[port[d]], Ask(d, command) PROVE Goal
  <2>1. PICK o : o = port[d]
    OBVIOUS
  <2>2. /\ o \in Ports /\ Len(asked[d]) \in Nat /\ DOMAIN asked[d] = 1 .. Len(asked[d])
        /\ \A u \in Ports : Given(u)' = Given(u)
        /\ \A u \in Ports \ {o} : requests'[u].items = requests[u].items /\ Pending(u)' = Pending(u)
    BY <1>5, <2>1, AskFlow
  <2>3. CASE o # p
    BY <1>2, <2>2, <2>3
  <2>4. CASE o = p
    <3>1. p = port[d]
      BY <2>1, <2>4
    <3>2. Joins(d, command, p)
      BY <1>5, <3>1, AskPending
    <3>3. PICK j \in Slots :
           /\ socket[p][j] = d /\ NextRequest(d, j, command) \in Requests(p)
           /\ requests'[p].items = Append(requests[p].items, NextRequest(d, j, command))
           /\ Pending(p)' = Pending(p) \cup {NextRequest(d, j, command)}
      BY <3>2 DEF Joins
    <3> DEFINE e == NextRequest(d, j, command)
    <3>4. e.from = d /\ e.n = Len(asked[d]) + 1
      BY DEF NextRequest
    <3>5. ASSUME NEW a, a \in Pending(p) \/ a \in Given(p), a.from = d PROVE a.n < e.n
      <4>1. a.n \in DOMAIN asked[d]
        BY <3>5 DEF RequestsInv, AnswersInv
      <4> QED BY <2>2, <3>4, <4>1
    <3> HIDE DEF e
    <3>6. Earlier(Pending(p), {e}, c) /\ Earlier(Given(p), {e}, c)
      BY <3>4, <3>5 DEF Earlier
    <3>7. requests[p].items \in Seq(Requests(p))
      BY DEF TypeInv
    <3>8. Sorted(Append(requests[p].items, e), c)
      BY <1>1, <3>6, <3>7, SortedAppend DEF Pending
    <3>9. Earlier(Given(p), Pending(p) \cup {e}, c)
      BY <1>1, <3>6 DEF Earlier
    <3> QED BY <2>2, <3>3, <3>8, <3>9 DEF e
  <2> QED BY <2>3, <2>4
<1> QED BY <1>3, <1>4, <1>5, StepSplits

\* c is sent what waits in the buffer, then what the sender holds, then what is queued,
\* all in the order of c's commands.
InOrder(sent, buffered, held, queued, c) ==
  /\ Sorted(sent, c) /\ Sorted(buffered, c) /\ Sorted(queued, c)
  /\ Earlier(ToSet(sent), ToSet(buffered), c) /\ Earlier(ToSet(sent), held, c)
  /\ Earlier(ToSet(sent), ToSet(queued), c)
  /\ Earlier(ToSet(buffered), held, c) /\ Earlier(ToSet(buffered), ToSet(queued), c)
  /\ Earlier(held, ToSet(queued), c)

LEMMA OrderFewer ==
  ASSUME NEW sent, NEW buffered, NEW held, NEW queued, NEW c, NEW less \in SUBSET held,
         InOrder(sent, buffered, held, queued, c)
  PROVE  InOrder(sent, buffered, less, queued, c)
BY DEF InOrder, Earlier

LEMMA OrderSent ==
  ASSUME NEW sent \in Seq(Entries), NEW buffered \in Seq(Entries), NEW held, NEW queued, NEW c,
         InOrder(sent, buffered, held, queued, c)
  PROVE  InOrder(sent \o buffered, <<>>, held, queued, c)
<1>1. Sorted(sent \o buffered, c)
  BY SortedConcat DEF InOrder
<1>2. ToSet(sent \o buffered) = ToSet(sent) \cup ToSet(buffered)
  BY ConcatToSet
<1> QED BY <1>1, <1>2, SortedEmpty, EmptyToSet DEF InOrder, Earlier

LEMMA OrderBuffered ==
  ASSUME NEW sent, NEW buffered \in Seq(Entries), NEW a, NEW queued, NEW c,
         InOrder(sent, buffered, {a}, queued, c)
  PROVE  InOrder(sent, Append(buffered, a), {}, queued, c)
<1>1. Sorted(Append(buffered, a), c)
  BY SortedAppend DEF InOrder
<1>2. ToSet(Append(buffered, a)) = ToSet(buffered) \cup {a}
  BY AppendToSet
<1> QED BY <1>1, <1>2 DEF InOrder, Earlier

LEMMA OrderTaken ==
  ASSUME NEW sent, NEW buffered, NEW queued \in Seq(Entries), queued # <<>>, NEW c,
         InOrder(sent, buffered, {}, queued, c)
  PROVE  InOrder(sent, buffered, {Head(queued)}, Tail(queued), c)
<1>1. Sorted(Tail(queued), c) /\ Earlier({Head(queued)}, ToSet(Tail(queued)), c)
  BY SortedTail DEF InOrder
<1>2. ToSet(queued) = {Head(queued)} \cup ToSet(Tail(queued))
  BY TailToSet
<1> QED BY <1>1, <1>2 DEF InOrder, Earlier

LEMMA OrderQueued ==
  ASSUME NEW sent, NEW buffered, NEW held, NEW queued \in Seq(Entries), NEW c, NEW a,
         InOrder(sent, buffered, held, queued, c),
         Earlier(ToSet(sent) \cup ToSet(buffered) \cup held \cup ToSet(queued), {a}, c)
  PROVE  InOrder(sent, buffered, held, Append(queued, a), c)
<1>1. Sorted(Append(queued, a), c)
  <2>1. Earlier(ToSet(queued), {a}, c)
    BY DEF Earlier
  <2> QED BY <2>1, SortedAppend DEF InOrder
<1>2. ToSet(Append(queued, a)) = ToSet(queued) \cup {a}
  BY AppendToSet
<1> QED BY <1>1, <1>2 DEF InOrder, Earlier

LEMMA OrderFresh ==
  ASSUME NEW sent, NEW buffered, NEW held, NEW queued, NEW c,
         \A a \in ToSet(sent) \cup ToSet(buffered) \cup held \cup ToSet(queued) : a.from # c
  PROVE  InOrder(sent, buffered, held, queued, c)
BY InToSet DEF InOrder, Earlier, Sorted

OrderInv ==
  /\ \A c \in Connections : Sorted(got[c], c)
  /\ \A p \in Ports : \A i \in Slots : \A c \in Connections :
       socket[p][i] = c => InOrder(got[c], out[p][i], Held(p), responses[p].items, c)

\* The order of what is on its way to a connection that was open before the step
Ordered ==
  /\ \A c \in Connections : Sorted(got'[c], c)
  /\ \A p \in Ports : \A i \in Slots : \A c \in Connections :
       socket[p][i] = c /\ socket'[p][i] = c =>
         InOrder(got'[c], out'[p][i], Held(p)', responses'[p].items, c)

LEMMA StillOrdered ==
  ASSUME OrderInv, got' = got, \A p \in Ports : Held(p)' \subseteq Held(p),
         \A p \in Ports : responses'[p].items = responses[p].items,
         \A p \in Ports : \A i \in Slots : out'[p][i] = out[p][i] \/ socket'[p][i] = NoConnection
  PROVE  Ordered
<1>1. ASSUME NEW p \in Ports, NEW i \in Slots, NEW c \in Connections, socket[p][i] = c, socket'[p][i] = c
      PROVE  InOrder(got'[c], out'[p][i], Held(p)', responses'[p].items, c)
  <2>1. InOrder(got[c], out[p][i], Held(p), responses[p].items, c)
    BY <1>1 DEF OrderInv
  <2>2. out'[p][i] = out[p][i]
    BY <1>1, PathAssumption
  <2> DEFINE less == Held(p)'
  <2>3. less \subseteq Held(p)
    OBVIOUS
  <2> HIDE DEF less
  <2>4. InOrder(got[c], out[p][i], less, responses[p].items, c)
    BY <2>1, <2>3, OrderFewer
  <2> QED BY <2>2, <2>4 DEF less
<1> QED BY <1>1 DEF Ordered, OrderInv

LEMMA DeliverOrdered ==
  ASSUME TypeInv, SocketsInv, OrderInv, NEW p \in Ports, NEW i \in Slots, NEW sent \in Seq(Entries), Deliver(p, i, sent),
         \A c \in Connections : socket[p][i] = c => InOrder(got[c], sent, Held(p)', responses[p].items, c),
         \A o \in Ports : Held(o)' \subseteq Held(o), responses' = responses, socket' = socket
  PROVE  Ordered
<1>1. \/ /\ socket[p][i] = NoConnection /\ got' = got
         /\ out' = [out EXCEPT ![p][i] = sent]
      \/ /\ socket[p][i] \in Connections /\ socket[p][i] # NoConnection
         /\ out' = [out EXCEPT ![p][i] = <<>>]
         /\ got' = [got EXCEPT ![socket[p][i]] = got[socket[p][i]] \o sent]
  BY DeliverSends
<1>2. CASE socket[p][i] = NoConnection
  <2>1. got' = got /\ out' = [out EXCEPT ![p][i] = sent]
    BY <1>1, <1>2
  <2>2. \A o \in Ports : \A j \in Slots : out'[o][j] = out[o][j] \/ socket'[o][j] = NoConnection
    BY <1>2, <2>1 DEF TypeInv
  <2> QED BY <2>1, <2>2, StillOrdered
<1>3. CASE socket[p][i] # NoConnection
  <2> DEFINE d == socket[p][i]
  <2>1. /\ d \in Connections /\ d # NoConnection /\ out' = [out EXCEPT ![p][i] = <<>>]
        /\ got' = [got EXCEPT ![d] = got[d] \o sent]
    BY <1>1, <1>3
  <2>2. /\ got'[d] = got[d] \o sent /\ out'[p][i] = <<>> /\ got[d] \in Seq(Entries)
        /\ \A c \in Connections : c # d => got'[c] = got[c]
        /\ \A o \in Ports : \A j \in Slots : ~(o = p /\ j = i) => out'[o][j] = out[o][j]
    BY <2>1 DEF TypeInv
  <2> DEFINE held == Held(p)'
             queued == responses[p].items
  <2>3. InOrder(got[d], sent, held, queued, d)
    BY <2>1
  <2>4. \A o \in Ports : \A j \in Slots : socket[o][j] = d => o = p /\ j = i
    <3>1. ASSUME NEW o \in Ports, NEW j \in Slots, socket[o][j] = d PROVE o = p
      BY <2>1, <3>1 DEF SocketsInv
    <3>2. ASSUME NEW j \in Slots, socket[p][j] = d PROVE j = i
      BY <2>1, <3>2 DEF SocketsInv
    <3> QED BY <3>1, <3>2
  <2> HIDE DEF d, held, queued
  <2>5. InOrder(got'[d], <<>>, held, queued, d)
    BY <2>2, <2>3, OrderSent
  <2>6. ASSUME NEW c \in Connections PROVE Sorted(got'[c], c)
    <3>1. CASE c = d
      BY <2>5, <3>1 DEF InOrder
    <3>2. CASE c # d
      BY <2>2, <3>2 DEF OrderInv
    <3> QED BY <3>1, <3>2
  <2>7. ASSUME NEW o \in Ports, NEW j \in Slots, NEW c \in Connections, socket[o][j] = c
        PROVE  InOrder(got'[c], out'[o][j], Held(o)', responses'[o].items, c)
    <3>1. CASE c = d
      <4>1. o = p /\ j = i
        BY <2>4, <2>7, <3>1
      <4> QED BY <2>2, <2>5, <3>1, <4>1 DEF held, queued
    <3>2. CASE c # d
      <4>1. ~(o = p /\ j = i)
        BY <2>7, <3>2 DEF d
      <4>2. got'[c] = got[c] /\ out'[o][j] = out[o][j]
        BY <2>2, <3>2, <4>1
      <4>3. InOrder(got[c], out[o][j], Held(o), responses[o].items, c)
        BY <2>7 DEF OrderInv
      <4> DEFINE less == Held(o)'
      <4>4. less \subseteq Held(o)
        OBVIOUS
      <4> HIDE DEF less
      <4>5. InOrder(got[c], out[o][j], less, responses[o].items, c)
        BY <4>3, <4>4, OrderFewer
      <4> QED BY <4>2, <4>5 DEF less
    <3> QED BY <3>1, <3>2
  <2> QED BY <2>6, <2>7 DEF Ordered
<1> QED BY <1>2, <1>3

LEMMA FlushOrdered ==
  ASSUME TypeInv, SocketsInv, OrderInv, NEW p \in Ports, Flush(p)
  PROVE  Ordered
<1> DEFINE i == hand[p].client
           sent == Append(out[p][i], hand[p])
<1>1. /\ hand[p] # NoResponse /\ i \in Slots /\ out[p][i] \in Seq(Entries)
      /\ sent \in Seq(Entries) /\ Deliver(p, i, sent)
      /\ hand' = [hand EXCEPT ![p] = NoResponse] /\ responses' = responses /\ socket' = socket
  BY FlushDelivers
<1>2. Held(p) = {hand[p]} /\ Held(p)' = {} /\ \A o \in Ports : Held(o)' \subseteq Held(o)
  BY <1>1 DEF Held, TypeInv
<1>3. ASSUME NEW c \in Connections, socket[p][i] = c
      PROVE  InOrder(got[c], sent, {}, responses[p].items, c)
  <2>1. InOrder(got[c], out[p][i], {hand[p]}, responses[p].items, c)
    BY <1>1, <1>2, <1>3 DEF OrderInv
  <2> QED BY <1>1, <2>1, OrderBuffered
<1>4. \A c \in Connections : socket[p][i] = c => InOrder(got[c], sent, Held(p)', responses[p].items, c)
  BY <1>2, <1>3
<1> HIDE DEF i, sent
<1> QED BY <1>1, <1>2, <1>4, DeliverOrdered

LEMMA PendingOrdered ==
  ASSUME TypeInv, SocketsInv, OrderInv, NEW p \in Ports, NEW i \in Slots, SendPending(p, i)
  PROVE  Ordered
<1> DEFINE sent == out[p][i]
<1>1. sent \in Seq(Entries) /\ Deliver(p, i, sent) /\ hand' = hand /\ responses' = responses /\ socket' = socket
  BY DEF SendPending, TypeInv
<1>2. \A o \in Ports : Held(o)' = Held(o)
  BY <1>1 DEF Held
<1>3. \A c \in Connections : socket[p][i] = c => InOrder(got[c], sent, Held(p), responses[p].items, c)
  BY DEF OrderInv
<1> HIDE DEF sent
<1> QED BY <1>1, <1>2, <1>3, DeliverOrdered

LEMMA TakeOrdered ==
  ASSUME TypeInv, OrderInv, NEW p \in Ports, TakeResponse(p)
  PROVE  Ordered
<1> DEFINE queued == responses[p].items
<1>1. /\ hand' = [hand EXCEPT ![p] = Head(queued)]
      /\ responses' = [responses EXCEPT ![p] = pop(responses[p])]
      /\ UNCHANGED <<got, out, socket>>
  BY DEF TakeResponse, front, history
<1>2. queued \in Seq(Entries) /\ queued # <<>>
  BY DEF TypeInv, ResponseQueues, Queues, TakeResponse, MayTake, MayPop
<1>3. pop(responses[p]).items = Tail(queued)
  BY Popped DEF TypeInv, ResponseQueues
<1>4. hand[p] = NoResponse
  BY DEF TakeResponse, MayTake, TypeInv
<1>5. Head(queued) # NoResponse
  <2>1. Head(queued) \in Entries
    BY <1>2
  <2> QED BY <2>1 DEF Entries, NoResponse, Slots
<1>6. Held(p) = {} /\ Held(p)' = {Head(queued)} /\ responses'[p].items = Tail(queued)
  BY <1>1, <1>3, <1>4, <1>5 DEF Held, TypeInv
<1>7. \A o \in Ports \ {p} : Held(o)' = Held(o) /\ responses'[o] = responses[o]
  BY <1>1 DEF Held, TypeInv
<1> HIDE DEF queued
<1>8. ASSUME NEW o \in Ports, NEW i \in Slots, NEW c \in Connections, socket[o][i] = c
      PROVE  InOrder(got'[c], out'[o][i], Held(o)', responses'[o].items, c)
  <2>1. InOrder(got[c], out[o][i], Held(o), responses[o].items, c)
    BY <1>8 DEF OrderInv
  <2>2. CASE o = p
    <3>1. InOrder(got[c], out[p][i], {}, queued, c)
      BY <1>6, <2>1, <2>2 DEF queued
    <3>2. InOrder(got[c], out[p][i], {Head(queued)}, Tail(queued), c)
      BY <1>2, <3>1, OrderTaken
    <3> QED BY <1>1, <1>6, <2>2, <3>2
  <2>3. CASE o # p
    BY <1>1, <1>7, <2>1, <2>3
  <2> QED BY <2>2, <2>3
<1> QED BY <1>1, <1>8 DEF Ordered, OrderInv

LEMMA ExecuteOrdered ==
  ASSUME TypeInv, SocketsInv, RequestsOrder, OrderInv, NEW p \in Ports, Execute(p)
  PROVE  Ordered
<1> DEFINE r == Current(p)
<1>1. /\ UNCHANGED <<socket, out, hand, got>> /\ r \in Pending(p)
      /\ \/ responses' = responses
         \/ \E s : \E a \in Entries :
              /\ Tells(p, r.command, s)
              /\ a = [client |-> r.client, from |-> r.from, n |-> r.n, response |-> s]
              /\ responses'[p].items = Append(responses[p].items, a)
              /\ \A o \in Ports \ {p} : responses'[o].items = responses[o].items
              /\ Given(p)' \subseteq Given(p) \cup {a}
  BY ExecuteFlow
<1>2. \A o \in Ports : Held(o)' = Held(o)
  BY <1>1 DEF Held
<1>3. CASE responses' = responses
  BY <1>1, <1>2, <1>3, StillOrdered
<1>4. ASSUME NEW s, NEW a \in Entries,
             a = [client |-> r.client, from |-> r.from, n |-> r.n, response |-> s],
             responses'[p].items = Append(responses[p].items, a),
             \A o \in Ports \ {p} : responses'[o].items = responses[o].items
      PROVE  Ordered
  <2>1. a.from = r.from /\ a.n = r.n
    BY <1>4
  <2>2. ASSUME NEW c \in Connections PROVE Earlier(Given(p), {a}, c)
    <3>1. Earlier(Given(p), Pending(p), c)
      BY DEF RequestsOrder
    <3> QED BY <1>1, <2>1, <3>1 DEF Earlier
  <2>3. ASSUME NEW o \in Ports, NEW i \in Slots, NEW c \in Connections, socket[o][i] = c
        PROVE  InOrder(got[c], out[o][i], Held(o), responses'[o].items, c)
    <3>1. InOrder(got[c], out[o][i], Held(o), responses[o].items, c)
      BY <2>3 DEF OrderInv
    <3>2. CASE o # p
      BY <1>4, <3>1, <3>2
    <3>3. CASE o = p
      <4> DEFINE queued == responses[p].items
                 before == ToSet(got[c]) \cup ToSet(out[p][i]) \cup Held(p) \cup ToSet(queued)
      <4>1. CASE port[c] = p
        <5>1. before \subseteq Given(p)
          BY <4>1, InGiven DEF Held
        <5> HIDE DEF before
        <5>2. Earlier(before, {a}, c)
          BY <2>2, <5>1 DEF Earlier
        <5> USE DEF before
        <5>3. queued \in Seq(Entries)
          BY DEF TypeInv, ResponseQueues, Queues
        <5> HIDE DEF queued
        <5>4. InOrder(got[c], out[p][i], Held(p), Append(queued, a), c)
          BY <3>1, <3>3, <5>2, <5>3, OrderQueued DEF queued
        <5> QED BY <1>4, <3>3, <5>4 DEF queued
      <4>2. port[c] = p
        BY <2>3, <3>3, PathAssumption DEF SocketsInv
      <4> QED BY <4>1, <4>2
    <3> QED BY <3>2, <3>3
  <2> QED BY <1>1, <1>2, <2>3 DEF Ordered, OrderInv
<1> HIDE DEF r
<1> QED BY <1>1, <1>3, <1>4

LEMMA StepOrdered ==
  ASSUME TypeInv, SocketsInv, RequestsOrder, OrderInv, [Next]_vars
  PROVE  Ordered
<1>1. ASSUME UNCHANGED <<got, out, responses>>, \A p \in Ports : Held(p)' \subseteq Held(p) PROVE Ordered
  BY <1>1, StillOrdered
<1>2. ASSUME UNCHANGED <<got, out, responses, hand>> PROVE Ordered
  BY <1>1, <1>2 DEF Held
<1>3. ASSUME NEW p \in Ports, CheckSlot(p) PROVE Ordered
  <2>1. \A o \in Ports : hand'[o] \in {hand[o], NoResponse}
    BY <1>3 DEF CheckSlot, TypeInv
  <2>2. UNCHANGED <<got, out, responses>>
    BY <1>3 DEF CheckSlot, history
  <2> QED BY <1>1, <2>1, <2>2 DEF Held
<1>4. ASSUME NEW p \in Ports, SleepSender(p) PROVE Ordered
  <2>1. /\ responses' = [responses EXCEPT ![p] = wait(responses[p], "sender")]
        /\ UNCHANGED <<out, got, hand>>
    BY <1>4 DEF SleepSender, history
  <2>2. wait(responses[p], "sender").items = responses[p].items
    BY Waited DEF TypeInv, ResponseQueues
  <2>3. \A o \in Ports : responses'[o].items = responses[o].items
    BY <2>1, <2>2 DEF TypeInv
  <2> QED BY <2>1, <2>3, StillOrdered DEF Held
<1>5. ASSUME NEW c \in Connections, Close(c) PROVE Ordered
  <2>1. PICK i \in SlotOf(c) : /\ socket' = [socket EXCEPT ![port[c]][i] = NoConnection]
                              /\ out' = [out EXCEPT ![port[c]][i] = <<>>] /\ UNCHANGED <<got, hand, responses>>
    BY <1>5 DEF Close, history
  <2>2. i \in Slots /\ port[c] \in Ports
    BY SlotsAre DEF TypeInv
  <2>3. \A o \in Ports : \A j \in Slots : out'[o][j] = out[o][j] \/ socket'[o][j] = NoConnection
    BY <2>1, <2>2 DEF TypeInv
  <2>4. \A o \in Ports : Held(o)' = Held(o)
    BY <2>1 DEF Held
  <2> QED BY <2>1, <2>3, <2>4, StillOrdered
<1>6. ASSUME NEW p \in Ports, Executor(p) \/ Sender(p) \/ \E i \in Slots : SendPending(p, i) PROVE Ordered
  BY <1>2, <1>3, <1>4, <1>6, ExecuteOrdered, TakeOrdered, FlushOrdered, PendingOrdered
     DEF Executor, Sender, SleepExecutor, End, history
<1>7. ASSUME NEW c \in Connections,
             \/ \E p \in Ports : Accept(c, p)
             \/ Open(c) /\ \E command \in Asks[port[c]] : Ask(c, command)
      PROVE  Ordered
  BY <1>2, <1>7 DEF Accept, Ask, history
<1>8. CASE Quit \/ SensorsComeAndGo \/ UNCHANGED vars
  BY <1>2, <1>8 DEF Quit, SensorsComeAndGo, vars, history
<1> QED BY <1>5, <1>6, <1>7, <1>8 DEF Next

LEMMA OrderStep ==
  ASSUME TypeInv, SocketsInv, RequestsInv, AnswersInv, RequestsOrder, OrderInv, [Next]_vars
  PROVE  OrderInv'
<1>1. Ordered
  BY StepOrdered
<1>2. ASSUME NEW p \in Ports, NEW i \in Slots, NEW c \in Connections, socket'[p][i] = c
      PROVE  InOrder(got'[c], out'[p][i], Held(p)', responses'[p].items, c)
  <2>1. CASE port[c] # "none"
    <3>1. socket[p][i] = c
      BY <1>2, <2>1, StaysPlaced
    <3> QED BY <1>1, <1>2, <3>1 DEF Ordered
  <2>2. CASE port[c] = "none"
    <3>1. ASSUME NEW a, a \in Given(p) PROVE a.from # c
      BY <2>2, <3>1 DEF AnswersInv, Ports
    <3>2. \A r \in Pending(p) : r.from # c
      BY <2>2 DEF RequestsInv, Ports
    <3>3. ASSUME NEW a, a \in Given(p)' PROVE a.from # c
      <4>1. CASE a \notin Given(p)
        <5>1. Current(p) \in Pending(p) /\ a.from = Current(p).from
          BY <3>3, <4>1, NewAnswer
        <5> QED BY <3>2, <5>1
      <4> QED BY <3>1, <4>1
    <3>4. port'[c] = p
      <4>1. SocketsInv'
        BY SocketsStep
      <4> QED BY <1>2, <4>1, PathAssumption DEF SocketsInv
    <3>5. \A a \in ToSet(got'[c]) \cup ToSet(out'[p][i]) \cup Held(p)' \cup ToSet(responses'[p].items) :
            a \in Given(p)'
      BY <3>4, InGivenNext DEF Held
    <3> DEFINE held == Held(p)'
    <3> HIDE DEF held
    <3>6. \A a \in ToSet(got'[c]) \cup ToSet(out'[p][i]) \cup held \cup ToSet(responses'[p].items) : a.from # c
      BY <3>3, <3>5 DEF held
    <3>7. InOrder(got'[c], out'[p][i], held, responses'[p].items, c)
      BY <3>6, OrderFresh
    <3> QED BY <3>7 DEF held
  <2> QED BY <2>1, <2>2
<1> QED BY <1>1, <1>2 DEF OrderInv, Ordered, InOrder, Sorted, Earlier

LEMMA OrderKept == Spec => [](RequestsOrder /\ OrderInv)
<1>1. Init => RequestsOrder /\ OrderInv
  <2> SUFFICES ASSUME Init PROVE RequestsOrder /\ OrderInv
    OBVIOUS
  <2>1. ASSUME NEW p \in Ports, NEW c \in Connections
        PROVE  Sorted(requests[p].items, c) /\ Earlier(Given(p), Pending(p), c)
    BY StartQueues, StartEmpty, SortedEmpty DEF Earlier
  <2>2. \A c \in Connections : got[c] = <<>>
    BY DEF Init
  <2>3. \A p \in Ports : \A i \in Slots : socket[p][i] = NoConnection
    BY DEF Init
  <2> QED BY <2>1, <2>2, <2>3, SortedEmpty, PathAssumption DEF RequestsOrder, OrderInv
<1>2. TypeInv /\ SocketsInv /\ RequestsInv /\ AnswersInv /\ RequestsOrder /\ OrderInv /\ [Next]_vars =>
        RequestsOrder' /\ OrderInv'
  BY RequestsOrderStep, OrderStep
<1> QED BY <1>1, <1>2, FlowKept, PTL DEF Spec

\* Each client is shown one answer at most to each of its commands, in the order of the
\* commands, of the kind and about the sensor and the span it named, although neither
\* commands nor answers are numbered: two queues, the hands of a sender and a buffer
\* that both network loop and sender empty keep the order between them.
THEOREM AnswersInOrder == Spec => []AnswersCorrect
<1>1. TypeInv /\ SocketsInv /\ AnswersInv /\ OrderInv => AnswersCorrect
  <2> SUFFICES ASSUME TypeInv, SocketsInv, AnswersInv, OrderInv,
                      NEW c \in Connections, NEW k \in DOMAIN got[c], got[c][k].from = c
               PROVE  /\ got[c][k].n \in DOMAIN asked[c]
                      /\ Answers(port[c], Asked(got[c][k]), got[c][k].response)
                      /\ \A l \in 1 .. (k - 1) : got[c][l].from = c => got[c][l].n < got[c][k].n
    BY DEF AnswersCorrect
  <2>1. got[c][k] \in ToSet(got[c])
    BY InToSet
  <2>2. got[c] # <<>>
    BY <2>1, EmptyToSet
  <2>3. port[c] \in Ports /\ got[c][k] \in Given(port[c])
    BY <2>1, <2>2, GotIsGiven DEF SocketsInv, TypeInv
  <2>4. got[c][k].n \in DOMAIN asked[c] /\ Answers(port[c], Asked(got[c][k]), got[c][k].response)
    BY <2>3 DEF AnswersInv
  <2>5. got[c] \in Seq(Entries) /\ DOMAIN got[c] = 1 .. Len(got[c]) /\ Len(got[c]) \in Nat
    BY DEF TypeInv
  <2>6. Sorted(got[c], c)
    BY DEF OrderInv
  <2>7. ASSUME NEW l \in 1 .. (k - 1), got[c][l].from = c PROVE got[c][l].n < got[c][k].n
    <3>1. l \in DOMAIN got[c] /\ l < k
      BY <2>5
    <3> QED BY <2>6, <2>7, <3>1 DEF Sorted
  <2> QED BY <2>4, <2>7
<1> QED BY <1>1, FlowKept, OrderKept, PTL

-----------------------------------------------------------------------------
(* Revocations *)

\* Who has been told of a revocation has been told of what is so, ...
ToldInv ==
  \A a \in Given("administrator") :
    a.response.type = Administrator!REVOKE_SENSOR =>
      a.response.id \in Sensors /\ status[a.response.id] = "REVOKED"

KnownInv ==
  \A c \in Connections : \A n \in DOMAIN asked[c] : \A s \in asked[c][n].revoked :
    s \in Sensors /\ status[s] = "REVOKED"

\* ... and a list is made after it was asked for.
ListedInv ==
  \A p \in Ports : \A a \in Given(p) :
    IsList(a) => \A i \in DOMAIN a.response.sensors :
                   a.response.sensors[i].id \notin asked[a.from][a.n].revoked

LEMMA ShownIsRevoked ==
  ASSUME ToldInv, NEW s \in RevocationsShown
  PROVE  s \in Sensors /\ status[s] = "REVOKED"
<1>1. PICK c \in Connections :
        /\ port[c] = "administrator"
        /\ \E k \in DOMAIN got[c] : got[c][k].response = [type |-> Administrator!REVOKE_SENSOR, id |-> s]
  BY DEF RevocationsShown
<1>2. PICK k \in DOMAIN got[c] : got[c][k].response = [type |-> Administrator!REVOKE_SENSOR, id |-> s]
  BY <1>1
<1>3. got[c][k] \in Given("administrator")
  BY <1>1, <1>2, InToSet, GotIsGiven
<1>4. got[c][k].response.type = Administrator!REVOKE_SENSOR /\ got[c][k].response.id = s
  BY <1>2
<1> QED BY <1>3, <1>4 DEF ToldInv

LEMMA RevokedStep ==
  ASSUME TypeInv, SocketsInv, AnswersInv, RequestsInv, ToldInv, KnownInv, ListedInv, [Next]_vars
  PROVE  ToldInv' /\ KnownInv' /\ ListedInv'
<1>1. Grows
  BY StepGrows
<1>2. ASSUME NEW a \in Given("administrator")', a.response.type = Administrator!REVOKE_SENSOR
      PROVE  a.response.id \in Sensors /\ status'[a.response.id] = "REVOKED"
  <2>1. CASE a \in Given("administrator")
    BY <1>1, <1>2, <2>1 DEF ToldInv, Grows, TableKept
  <2>2. CASE a \notin Given("administrator")
    <3>1. "administrator" \in Ports
      BY DEF Ports
    <3>2. Tells("administrator", Current("administrator").command, a.response)
      BY <2>2, <3>1, NewAnswer
    <3> QED BY <1>2, <3>2 DEF Tells
  <2> QED BY <2>1, <2>2
<1>3. ASSUME NEW c \in Connections, NEW n \in DOMAIN asked'[c], NEW s \in asked'[c][n].revoked
      PROVE  s \in Sensors /\ status'[s] = "REVOKED"
  <2>1. s \in Sensors /\ status[s] = "REVOKED"
    BY <1>3, NewQuestion, ShownIsRevoked DEF KnownInv
  <2> QED BY <1>1, <2>1 DEF Grows, TableKept
<1>4. ASSUME NEW p \in Ports, NEW a \in Given(p)', IsList(a), NEW i \in DOMAIN a.response.sensors
      PROVE  a.response.sensors[i].id \notin asked'[a.from][a.n].revoked
  <2>1. CASE a \in Given(p)
    <3>1. a.from \in Connections /\ a.n \in DOMAIN asked[a.from]
      BY <2>1, GivenAre DEF Entries, AnswersInv
    <3>2. asked'[a.from][a.n] = asked[a.from][a.n]
      BY <1>1, <3>1 DEF Grows
    <3> QED BY <1>4, <2>1, <3>2 DEF ListedInv
  <2>2. CASE a \notin Given(p)
    <3> DEFINE r == Current(p)
    <3>1. /\ r \in Pending(p) /\ asked' = asked /\ a.from = r.from /\ a.n = r.n
          /\ Tells(p, r.command, a.response)
      BY <2>2, NewAnswer
    <3>2. r.from \in Connections /\ r.n \in DOMAIN asked[r.from]
      BY <3>1, PendingAre DEF Requests, RequestsInv
    <3>3. status[a.response.sensors[i].id] # "REVOKED"
      BY <1>4, <3>1 DEF Tells, IsList
    <3> HIDE DEF r
    <3> QED BY <3>1, <3>2, <3>3 DEF KnownInv
  <2> QED BY <2>1, <2>2
<1>5. ToldInv'
  BY <1>2 DEF ToldInv
<1>6. KnownInv'
  BY <1>3 DEF KnownInv
<1>7. ListedInv'
  BY <1>4 DEF ListedInv, IsList
<1> QED BY <1>5, <1>6, <1>7

LEMMA RevokedKept == Spec => [](ToldInv /\ KnownInv /\ ListedInv)
<1>1. Init => ToldInv /\ KnownInv /\ ListedInv
  <2> SUFFICES ASSUME Init PROVE ToldInv /\ KnownInv /\ ListedInv
    OBVIOUS
  <2>1. \A p \in Ports : Given(p) = {}
    BY StartEmpty
  <2>2. \A c \in Connections : DOMAIN asked[c] = {}
    BY DEF Init
  <2> QED BY <2>1, <2>2 DEF ToldInv, KnownInv, ListedInv, Ports
<1>2. TypeInv /\ SocketsInv /\ AnswersInv /\ RequestsInv /\ ToldInv /\ KnownInv /\ ListedInv /\ [Next]_vars =>
        ToldInv' /\ KnownInv' /\ ListedInv'
  BY RevokedStep
<1> QED BY <1>1, <1>2, FlowKept, PTL DEF Spec

\* Once an administrator has been told of a revocation, the lists that anyone asks for
\* after that do not have the sensor, on either port: the statement precedes its answer,
\* a list is made after its command was queued, and no step ends a revocation.
THEOREM RevocationsShow == Spec => []RevocationVisible
<1>1. TypeInv /\ SocketsInv /\ ListedInv => RevocationVisible
  <2> SUFFICES ASSUME TypeInv, SocketsInv, ListedInv, NEW c \in Connections, NEW k \in DOMAIN got[c],
                      got[c][k].from = c, IsList(got[c][k])
               PROVE  Listed(got[c][k].response) \cap asked[c][got[c][k].n].revoked = {}
    BY DEF RevocationVisible
  <2>1. got[c][k] \in ToSet(got[c])
    BY InToSet
  <2>2. got[c] # <<>>
    BY <2>1, EmptyToSet
  <2>3. port[c] \in Ports /\ got[c][k] \in Given(port[c])
    BY <2>1, <2>2, GotIsGiven DEF SocketsInv, TypeInv
  <2>4. \A i \in DOMAIN got[c][k].response.sensors :
          got[c][k].response.sensors[i].id \notin asked[c][got[c][k].n].revoked
    BY <2>3 DEF ListedInv
  <2> QED BY <2>4 DEF Listed
<1> QED BY <1>1, FlowKept, RevokedKept, PTL

-----------------------------------------------------------------------------
(* Renames *)

\* Which of a connection's commands is executed next
LEMMA OldestFirst ==
  ASSUME TypeInv, RequestsOrder, NEW p \in Ports, Execute(p), NEW c \in Connections
  PROVE  /\ Pending(p) = {Current(p)} \cup Pending(p)'
         /\ Earlier({Current(p)}, Pending(p)', c)
         /\ \A o \in Ports \ {p} : Pending(o)' = Pending(o)
<1> DEFINE q == requests[p].items
<1>1. /\ q # <<>> /\ requests'[p].items = Tail(q)
      /\ \A o \in Ports \ {p} : requests'[o].items = requests[o].items
  BY ExecuteFlow
<1>2. q \in Seq(Requests(p)) /\ Sorted(q, c)
  BY DEF TypeInv, RequestsOrder
<1>3. Earlier({Head(q)}, ToSet(Tail(q)), c)
  BY <1>1, <1>2, SortedTail
<1>4. ToSet(q) = {Head(q)} \cup ToSet(Tail(q))
  BY <1>1, <1>2, TailToSet
<1>5. Current(p) = Head(q) /\ Pending(p) = ToSet(q)
  BY DEF Current, front, Pending
<1>6. Pending(p)' = ToSet(Tail(q)) /\ \A o \in Ports \ {p} : Pending(o)' = Pending(o)
  BY <1>1 DEF Pending
<1> QED BY <1>3, <1>4, <1>5, <1>6

\* A command whose statement raised neither waits nor has an answer.
RaisedInv ==
  /\ \A c \in Connections : \A n \in 1 .. MaxAsked : <<c, n>> \in raised => n \in DOMAIN asked[c]
  /\ \A p \in Ports : \A a : a \in Pending(p) \/ a \in Given(p) => <<a.from, a.n>> \notin raised

LEMMA RaisedStep ==
  ASSUME TypeInv, SocketsInv, RequestsInv, AnswersInv, RequestsOrder, RaisedInv, [Next]_vars
  PROVE  RaisedInv'
<1> DEFINE Goal == /\ \A c \in Connections : \A n \in 1 .. MaxAsked : <<c, n>> \in raised' => n \in DOMAIN asked'[c]
                   /\ \A p \in Ports : \A a : a \in Pending(p)' \/ a \in Given(p)' => <<a.from, a.n>> \notin raised'
<1>1. Grows
  BY StepGrows
<1>2. ASSUME PassesOn PROVE Goal
  <2>1. \A p \in Ports : Pending(p)' = Pending(p) /\ Given(p)' \subseteq Given(p)
    BY <1>2 DEF PassesOn, Pending
  <2> QED BY <1>2, <2>1 DEF PassesOn, RaisedInv
<1>3. ASSUME NEW o \in Ports, Execute(o) PROVE Goal
  <2> DEFINE r == Current(o)
  <2>1. /\ r \in Pending(o) /\ asked' = asked
        /\ \A p \in Ports \ {o} : Given(p)' = Given(p)
        /\ \A p \in Ports : Pending(p)' \subseteq Pending(p)
        /\ \/ raised' = raised \cup {<<r.from, r.n>>} /\ Given(o)' = Given(o)
           \/ raised' = raised
    BY <1>3, ExecuteFlow
  <2>2. r.from \in Connections /\ r.n \in DOMAIN asked[r.from] /\ port[r.from] = o
    BY <2>1, PendingAre DEF Requests, RequestsInv
  <2>3. Earlier({r}, Pending(o)', r.from) /\ Earlier(Given(o), Pending(o), r.from)
    BY <1>3, <2>2, OldestFirst DEF RequestsOrder
  <2>4. ASSUME NEW p \in Ports, NEW a, a \in Pending(p)' \/ a \in Given(p)'
        PROVE  <<a.from, a.n>> \notin raised
    <3>1. CASE a \in Pending(p) \/ a \in Given(p)
      BY <3>1 DEF RaisedInv
    <3>2. CASE a \notin Pending(p) /\ a \notin Given(p)
      <4>1. /\ Current(p) \in Pending(p) /\ a.from = Current(p).from /\ a.n = Current(p).n
        BY <2>1, <2>4, <3>2, NewAnswer
      <4> QED BY <4>1 DEF RaisedInv
    <3> QED BY <3>1, <3>2
  <2>5. ASSUME NEW p \in Ports, NEW a, a \in Pending(p)' \/ a \in Given(p)',
               Given(o)' = Given(o), a.from = r.from, a.n = r.n
        PROVE  FALSE
    <3>1. a \in Pending(p) \/ a \in Given(p)
      BY <2>1, <2>5
    <3>2. port[a.from] = p
      BY <3>1 DEF RequestsInv, AnswersInv
    <3>3. p = o
      BY <2>2, <2>5, <3>2
    <3>4. r.n < r.n
      BY <2>1, <2>3, <2>5, <3>3 DEF Earlier
    <3>5. r.n \in 1 .. MaxAsked
      BY <2>1, PendingAre DEF Requests
    <3> QED BY <3>4, <3>5
  <2> HIDE DEF r
  <2>6. CASE raised' = raised
    BY <2>1, <2>4, <2>6 DEF RaisedInv
  <2>7. CASE raised' = raised \cup {<<r.from, r.n>>} /\ Given(o)' = Given(o)
    <3>1. ASSUME NEW c \in Connections, NEW n \in 1 .. MaxAsked, <<c, n>> \in raised'
          PROVE  n \in DOMAIN asked'[c]
      BY <2>1, <2>2, <2>7, <3>1 DEF RaisedInv
    <3>2. ASSUME NEW p \in Ports, NEW a, a \in Pending(p)' \/ a \in Given(p)'
          PROVE  <<a.from, a.n>> \notin raised'
      BY <2>4, <2>5, <2>7, <3>2
    <3> QED BY <3>1, <3>2
  <2> QED BY <2>1, <2>6, <2>7
<1>4. ASSUME NEW c \in Connections, Open(c), NEW command \in Asks[port[c]], Ask(c, command) PROVE Goal
  <2>1. PICK o : o = port[c]
    OBVIOUS
  <2>2. /\ raised' = raised /\ \A p \in Ports : Given(p)' = Given(p)
        /\ Len(asked[c]) \in Nat /\ Len(asked[c]) + 1 \in 1 .. MaxAsked
        /\ DOMAIN asked[c] = 1 .. Len(asked[c])
        /\ \A p \in Ports \ {o} : Pending(p)' = Pending(p)
    BY <1>4, <2>1, AskFlow
  <2>3. Joins(c, command, o)
    BY <1>4, <2>1, AskPending
  <2>4. PICK i \in Slots : Pending(o)' = Pending(o) \cup {NextRequest(c, i, command)}
    BY <2>3 DEF Joins
  <2> DEFINE e == NextRequest(c, i, command)
  <2>5. e.from = c /\ e.n = Len(asked[c]) + 1
    BY DEF NextRequest
  <2>6. <<e.from, e.n>> \notin raised
    <3>1. Len(asked[c]) + 1 \notin DOMAIN asked[c]
      BY <2>2
    <3> QED BY <2>2, <2>5, <3>1 DEF RaisedInv
  <2> HIDE DEF e
  <2>7. ASSUME NEW p \in Ports, NEW a, a \in Pending(p)' \/ a \in Given(p)'
        PROVE  <<a.from, a.n>> \notin raised'
    <3>1. a \in Pending(p) \/ a \in Given(p) \/ a = e
      BY <2>2, <2>4, <2>7 DEF e
    <3> QED BY <2>2, <2>6, <3>1 DEF RaisedInv
  <2>8. ASSUME NEW d \in Connections, NEW n \in 1 .. MaxAsked, <<d, n>> \in raised'
        PROVE  n \in DOMAIN asked'[d]
    BY <1>1, <2>2, <2>8 DEF RaisedInv, Grows
  <2> QED BY <2>7, <2>8
<1>5. Goal
  BY <1>2, <1>3, <1>4, StepSplits
<1> QED BY <1>5 DEF RaisedInv

Waits(c, n) == \E p \in Ports : \E r \in Pending(p) : r.from = c /\ r.n = n

\* The only rename of a sensor has given it its name once it has been executed, ...
NamedInv ==
  \A c \in Connections : \A n \in DOMAIN asked[c] : \A s \in Sensors :
    OnlyRename(c, n, s) /\ ~Waits(c, n) /\ <<c, n>> \notin raised =>
      name[s] = asked[c][n].command.name

\* ... and the lists its connection asked for behind it show that name.
RowsInv ==
  \A a \in Given("administrator") : \A n \in DOMAIN asked[a.from] : \A s \in Sensors :
    IsList(a) /\ n < a.n /\ OnlyRename(a.from, n, s) /\ <<a.from, n>> \notin raised =>
      \A i \in DOMAIN a.response.sensors :
        a.response.sensors[i].id = s => a.response.sensors[i].name = asked[a.from][n].command.name

\* Another rename would still be one.
LEMMA StillOnlyRename ==
  ASSUME TypeInv, SocketsInv, Grows, NEW c \in Connections, NEW n \in DOMAIN asked[c], NEW s,
         OnlyRename(c, n, s)'
  PROVE  OnlyRename(c, n, s)
<1> SUFFICES ASSUME NEW d \in Connections, NEW m \in DOMAIN asked[d]
             PROVE  Renames(d, m, s) <=> d = c /\ m = n
  BY DEF OnlyRename
<1>1. m \in DOMAIN asked'[d] /\ asked'[d][m] = asked[d][m]
  BY DEF Grows
<1>2. Renames(d, m, s)' <=> d = c /\ m = n
  BY <1>1 DEF OnlyRename
<1>3. port[d] # "none"
  <2>1. asked[d] # <<>>
    BY DEF TypeInv
  <2> QED BY <2>1 DEF SocketsInv
<1>4. port'[d] = port[d]
  BY <1>3 DEF Grows
<1>5. Renames(d, m, s)' <=> Renames(d, m, s)
  BY <1>1, <1>4 DEF Renames
<1> QED BY <1>2, <1>5

LEMMA NamedStep ==
  ASSUME TypeInv, SocketsInv, RequestsInv, RaisedInv, RequestsOrder, NamedInv, [Next]_vars
  PROVE  NamedInv'
<1> SUFFICES ASSUME NEW c \in Connections, NEW n \in DOMAIN asked'[c], NEW s \in Sensors,
                    OnlyRename(c, n, s)', ~Waits(c, n)', <<c, n>> \notin raised'
             PROVE  name'[s] = asked'[c][n].command.name
  BY DEF NamedInv
<1> DEFINE Goal == name'[s] = asked'[c][n].command.name
<1>1. Grows
  BY StepGrows
<1>2. n \in DOMAIN asked[c] /\ asked'[c][n] = asked[c][n]
  <2>1. ASSUME Open(c), NEW command \in Asks[port[c]], Ask(c, command), n = Len(asked[c]) + 1 PROVE FALSE
    <3>1. PICK o : o = port[c]
      OBVIOUS
    <3>2. Joins(c, command, o)
      BY <2>1, <3>1, AskPending
    <3>3. PICK i \in Slots : Pending(o)' = Pending(o) \cup {NextRequest(c, i, command)}
      BY <3>2 DEF Joins
    <3>4. o \in Ports
      BY <2>1, <3>1, AskFlow
    <3>5. NextRequest(c, i, command).from = c /\ NextRequest(c, i, command).n = n
      BY <2>1 DEF NextRequest
    <3> QED BY <3>3, <3>4, <3>5 DEF Waits
  <2> QED BY <2>1, NewQuestion
<1>3. OnlyRename(c, n, s)
  BY <1>1, <1>2, StillOnlyRename
<1>4. Renames(c, n, s)
  BY <1>2, <1>3 DEF OnlyRename
<1>5. <<c, n>> \notin raised
  BY <1>1 DEF Grows
<1>6. ASSUME name' = name, \A p \in Ports : Pending(p) \subseteq Pending(p)' PROVE Goal
  <2>1. ~Waits(c, n)
    BY <1>6 DEF Waits
  <2> QED BY <1>2, <1>3, <1>5, <1>6, <2>1 DEF NamedInv
<1>7. ASSUME PassesOn PROVE Goal
  BY <1>6, <1>7 DEF PassesOn, Pending
<1>8. ASSUME NEW d \in Connections, Open(d), NEW command \in Asks[port[d]], Ask(d, command) PROVE Goal
  <2>1. PICK o : o = port[d]
    OBVIOUS
  <2>2. name' = name /\ \A p \in Ports \ {o} : Pending(p)' = Pending(p)
    BY <1>8, <2>1, AskFlow
  <2>3. Joins(d, command, o)
    BY <1>8, <2>1, AskPending
  <2>4. PICK i \in Slots : Pending(o)' = Pending(o) \cup {NextRequest(d, i, command)}
    BY <2>3 DEF Joins
  <2>5. \A p \in Ports : Pending(p) \subseteq Pending(p)'
    BY <2>2, <2>4
  <2> QED BY <1>6, <2>2, <2>5
<1>9. ASSUME NEW p \in Ports, Execute(p) PROVE Goal
  <2> DEFINE r == Current(p)
  <2>1. r \in Pending(p) /\ r \in Requests(p)
    BY <1>9, ExecuteFlow
  <2>2. r.from \in Connections /\ r.n \in DOMAIN asked[r.from] /\ port[r.from] = p /\ r.command = asked[r.from][r.n].command
    BY <2>1 DEF Requests, RequestsInv
  <2>3. /\ NamesKept(p, r.command)
        /\ (\E t : Tells(p, r.command, t) /\ Responds(p, t)) \/ Raises(p)
    BY <1>9, ExecuteSplits
  <2>4. CASE r.from = c /\ r.n = n
    <3>1. /\ p = "administrator" /\ r.command.type = Administrator!UPDATE_SENSOR_NAME
          /\ r.command.id = s
      BY <1>4, <2>2, <2>4 DEF Renames
    <3>2. ~Raises(p)
      BY <2>4 DEF Raises
    <3>3. name'[s] = r.command.name
      BY <2>3, <3>1, <3>2 DEF Tells
    <3> QED BY <1>2, <2>2, <2>4, <3>3
  <2>5. CASE ~(r.from = c /\ r.n = n)
    <3>1. ~Waits(c, n)
      <4>1. Pending(p) = {r} \cup Pending(p)' /\ \A o \in Ports \ {p} : Pending(o)' = Pending(o)
        BY <1>9, OldestFirst
      <4> HIDE DEF r
      <4> QED BY <2>5, <4>1 DEF Waits
    <3>2. name[s] = asked[c][n].command.name
      BY <1>2, <1>3, <1>5, <3>1 DEF NamedInv
    <3>3. NamesKept(p, r.command)
      BY <1>9, ExecuteSplits
    <3>4. ~Renames(r.from, r.n, s)
      BY ZenonT(30), <1>3, <2>2, <2>5 DEF OnlyRename
    <3>5. name'[s] = name[s]
      BY <2>2, <3>3, <3>4 DEF NamesKept, Renames
    <3> QED BY <1>2, <3>2, <3>5
  <2> QED BY <2>4, <2>5
<1> QED BY <1>7, <1>8, <1>9, StepSplits

LEMMA RowsStep ==
  ASSUME TypeInv, SocketsInv, RequestsInv, AnswersInv, RaisedInv, RequestsOrder, NamedInv, RowsInv, [Next]_vars
  PROVE  RowsInv'
<1>1. Grows
  BY StepGrows
<1>2. ASSUME NEW a \in Given("administrator")', NEW n \in DOMAIN asked'[a.from], NEW s \in Sensors,
             IsList(a), n < a.n, OnlyRename(a.from, n, s)', <<a.from, n>> \notin raised',
             NEW i \in DOMAIN a.response.sensors, a.response.sensors[i].id = s
      PROVE  a.response.sensors[i].name = asked'[a.from][n].command.name
  <2> DEFINE c == a.from
  <2>1. "administrator" \in Ports
    BY DEF Ports
  <2>2. CASE a \in Given("administrator")
    <3>1. c \in Connections /\ a.n \in DOMAIN asked[c]
      BY <2>1, <2>2, GivenAre DEF Entries, AnswersInv
    <3>2. n \in DOMAIN asked[c]
      <4>1. asked[c] \in Seq(Questions) /\ asked'[c] \in Seq(Questions)
        BY <3>1, TypeStep DEF TypeInv
      <4> QED BY <1>2, <3>1, <4>1
    <3>3. asked'[c][n] = asked[c][n] /\ <<c, n>> \notin raised
      BY <1>1, <1>2, <3>1, <3>2 DEF Grows
    <3>4. OnlyRename(c, n, s)
      BY <1>1, <1>2, <3>1, <3>2, StillOnlyRename
    <3> QED BY <1>2, <2>2, <3>2, <3>3, <3>4 DEF RowsInv
  <2>3. CASE a \notin Given("administrator")
    <3> DEFINE p == "administrator"
               r == Current(p)
    <3>1. /\ Execute(p) /\ r \in Pending(p) /\ asked' = asked /\ raised' = raised
          /\ c = r.from /\ a.n = r.n /\ Tells(p, r.command, a.response)
      BY <2>1, <2>3, NewAnswer
    <3>2. c \in Connections /\ r.n \in 1 .. MaxAsked
      BY <2>1, <3>1, PendingAre DEF Requests
    <3>3. OnlyRename(c, n, s)
      BY <1>1, <1>2, <3>1, <3>2, StillOnlyRename
    <3>4. ~Waits(c, n)
      <4> SUFFICES ASSUME NEW o \in Ports, NEW e \in Pending(o), e.from = c, e.n = n PROVE FALSE
        BY DEF Waits
      <4>1. o = p
        <5>1. port[e.from] = o /\ port[r.from] = p
          BY <2>1, <3>1 DEF RequestsInv
        <5> QED BY <3>1, <5>1
      <4>2. Pending(p) = {r} \cup Pending(p)' /\ Earlier({r}, Pending(p)', c)
        BY <2>1, <3>1, <3>2, OldestFirst
      <4>3. e = r \/ r.n < e.n
        BY <3>1, <4>1, <4>2 DEF Earlier
      <4>4. n \in 1 .. MaxAsked
        BY <4>1, <2>1, PendingAre DEF Requests
      <4> QED BY <1>2, <3>1, <3>2, <4>3, <4>4
    <3>5. name[s] = asked[c][n].command.name
      BY <1>2, <3>1, <3>2, <3>3, <3>4 DEF NamedInv
    <3>6. a.response.sensors[i].name = name[s]
      BY <1>2, <3>1 DEF Tells, IsList
    <3> QED BY <3>1, <3>5, <3>6
  <2> QED BY <2>2, <2>3
<1> QED BY <1>2 DEF RowsInv, IsList

LEMMA RenamesKept == Spec => [](RaisedInv /\ NamedInv /\ RowsInv)
<1>1. Init => RaisedInv /\ NamedInv /\ RowsInv
  <2> SUFFICES ASSUME Init PROVE RaisedInv /\ NamedInv /\ RowsInv
    OBVIOUS
  <2>1. \A p \in Ports : Given(p) = {} /\ Pending(p) = {}
    BY StartEmpty
  <2>2. raised = {} /\ \A c \in Connections : DOMAIN asked[c] = {}
    BY DEF Init
  <2> QED BY <2>1, <2>2 DEF RaisedInv, NamedInv, RowsInv, Ports
<1>2. TypeInv /\ SocketsInv /\ RequestsInv /\ AnswersInv /\ RequestsOrder /\ RaisedInv /\ NamedInv
        /\ RowsInv /\ [Next]_vars => RaisedInv' /\ NamedInv' /\ RowsInv'
  BY RaisedStep, NamedStep, RowsStep
<1> QED BY <1>1, <1>2, FlowKept, OrderKept, PTL DEF Spec

\* An administrator who has been told of the only rename of a sensor sees the new name
\* in every later list: its commands are executed in the order it gives them, and the
\* statement of the rename has been committed by then.
THEOREM RenamesShow == Spec => []RenameVisible
<1>1. TypeInv /\ SocketsInv /\ AnswersInv /\ OrderInv /\ RaisedInv /\ RowsInv => RenameVisible
  <2> SUFFICES ASSUME TypeInv, SocketsInv, AnswersInv, OrderInv, RaisedInv, RowsInv,
                      NEW c \in Connections, NEW l \in DOMAIN got[c], NEW k \in 1 .. (l - 1),
                      got[c][k].from = c, got[c][l].from = c, IsList(got[c][l]),
                      "id" \in DOMAIN got[c][k].response,
                      OnlyRename(c, got[c][k].n, got[c][k].response.id),
                      NEW i \in DOMAIN got[c][l].response.sensors,
                      got[c][l].response.sensors[i].id = got[c][k].response.id
               PROVE  got[c][l].response.sensors[i].name = Asked(got[c][k]).name
    BY DEF RenameVisible
  <2>1. got[c] \in Seq(Entries) /\ DOMAIN got[c] = 1 .. Len(got[c]) /\ Len(got[c]) \in Nat
    BY DEF TypeInv
  <2>2. k \in DOMAIN got[c] /\ k < l
    BY <2>1
  <2> DEFINE a == got[c][k]
             b == got[c][l]
             s == a.response.id
  <2>3. a \in ToSet(got[c]) /\ b \in ToSet(got[c])
    BY <2>2, InToSet
  <2>4. got[c] # <<>>
    BY <2>3, EmptyToSet
  <2>5. port[c] \in Ports /\ a \in Given(port[c]) /\ b \in Given(port[c])
    BY <2>3, <2>4, GotIsGiven DEF SocketsInv, TypeInv
  <2>6. a.n < b.n
    BY <2>2 DEF OrderInv, Sorted
  <2>7. a.n \in DOMAIN asked[c] /\ <<c, a.n>> \notin raised
    BY <2>5 DEF AnswersInv, RaisedInv
  <2>8. Renames(c, a.n, s)
    BY <2>7 DEF OnlyRename
  <2>9. port[c] = "administrator" /\ b \in Given("administrator")
    BY <2>5, <2>8 DEF Renames
  <2>10. s \in Sensors
    <3>1. a.response \in AdministratorReplies
      BY <2>5, <2>9 DEF AnswersInv, Replies
    <3> HIDE DEF a
    <3>2. "id" \in DOMAIN a.response
      BY DEF a
    <3> QED BY <3>1, <3>2 DEF AdministratorReplies
  <2>11. b.response.sensors[i].name = asked[c][a.n].command.name
    BY SMTT(60), <2>6, <2>7, <2>9, <2>10 DEF RowsInv
  <2> QED BY <2>11 DEF Asked
<1> QED BY <1>1, FlowKept, OrderKept, RenamesKept, PTL

-----------------------------------------------------------------------------
(* What clients show *)

\* All that the tables hold can be put in a message.
LEMMA TextsShort ==
  /\ \A text \in AllNames : text \in Short
  /\ \A s \in Sensors : Address[s].ip \in Short /\ Token[s] \in Short
<1>1. ASSUME NEW text \in Names PROVE text \in Short
  <2>1. text \in Seq(Characters) /\ Len(text) <= 492 /\ Len(text) \in Nat
    BY NamesInAscii
  <2> QED BY <2>1 DEF Short
<1> QED BY <1>1, TablesAssumption DEF AllNames

\* A list of rows that can be put in a message is one of rows of the kind the codecs know.
LEMMA ListsWiden ==
  ASSUME NEW S, NEW T, S \subseteq T
  PROVE  Lists(S) \subseteq Lists(T)
BY SeqMonotonic DEF Lists

LEMMA RepliesReadable ==
  /\ AdministratorReplies \subseteq AdministratorResponses
  /\ MonitoringReplies \subseteq MonitoringResponses
<1>1. SensorRows \subseteq ListedSensors
  BY TextsShort, AsksAssumption, TablesAssumption DEF SensorRows, ListedSensors
<1>2. MonitoredRows \subseteq ShownSensors
  BY TextsShort, AsksAssumption, TablesAssumption DEF MonitoredRows, ShownSensors
<1>3. ASSUME NEW s \in Sensors, NEW d \in 0 .. 2 PROVE Since(s, d) \in Lists(Points)
  <2>1. Since(s, d) \in Seq(Points)
    BY Zenon, TablesAssumption DEF Points
  <2>2. Len(Since(s, d)) <= LongestList
    BY TablesAssumption
  <2> QED BY <2>1, <2>2 DEF Lists
<1>4. Lists(SensorRows) \subseteq Lists(ListedSensors) /\ Lists(MonitoredRows) \subseteq Lists(ShownSensors)
  BY <1>1, <1>2, ListsWiden
<1>5. Sensors \subseteq Int32 /\ \A s \in Sensors : Token[s] \in Short
  BY AsksAssumption, TextsShort
<1>6. AdministratorReplies \subseteq AdministratorResponses
  BY <1>4, <1>5 DEF AdministratorReplies, AdministratorResponses
<1>7. MonitoringReplies \subseteq MonitoringResponses
  BY <1>3, <1>4, <1>5 DEF MonitoringReplies, MonitoringResponses
<1> QED BY <1>6, <1>7

\* The monitoring client adds to a point the sensor of the response.
LEMMA MeantOf ==
  ASSUME NEW r \in MonitoringResponses
  PROVE  ResponseRead("monitoring", r) = Meant(r)
<1> DEFINE list == r.measurements
           plain == [i \in 1 .. Len(list) |-> [id |-> r.id, value |-> list[i].value, label |-> list[i].label]]
           noted == [k \in DOMAIN list |-> [id |-> r.id, value |-> list[k].value, label |-> list[k].label]]
<1>1. ResponseRead("monitoring", r)
        = IF "measurements" \in DOMAIN r THEN [type |-> r.type, measurements |-> plain] ELSE r
  BY MonitoringResponseRead
<1>2. Meant(r) = IF "measurements" \in DOMAIN r THEN [type |-> r.type, measurements |-> noted] ELSE r
  BY DEF Meant
<1>3. ASSUME "measurements" \in DOMAIN r PROVE plain = noted
  <2>1. list \in Seq(Points)
    BY <1>3 DEF MonitoringResponses, Lists
  <2>2. DOMAIN list = 1 .. Len(list)
    BY <2>1
  <2> QED BY <2>2
<1> QED BY <1>1, <1>2, <1>3

\* Whatever the tables hold, a client shows what the server answered: ids, rows, tokens
\* and points, taken from the bytes of a frame by the lengths in them (SerializerMessage,
\* SerializerAdministratorMessage, SerializerMonitoringMessage, ConnectionUtil).
THEOREM ResponsesShown == Spec => []ShownAsMeant
<1>1. TypeInv /\ SocketsInv /\ AnswersInv => ShownAsMeant
  <2> SUFFICES ASSUME TypeInv, SocketsInv, AnswersInv, NEW c \in Connections, NEW k \in DOMAIN got[c]
               PROVE  ResponseRead(port[c], got[c][k].response) = Meant(got[c][k].response)
    BY DEF ShownAsMeant
  <2> DEFINE r == got[c][k].response
  <2>1. got[c][k] \in ToSet(got[c])
    BY InToSet
  <2>2. got[c] # <<>>
    BY <2>1, EmptyToSet
  <2>3. port[c] \in Ports /\ got[c][k] \in Given(port[c])
    BY <2>1, <2>2, GotIsGiven DEF SocketsInv, TypeInv
  <2>4. r \in Replies(port[c])
    BY <2>3 DEF AnswersInv
  <2> HIDE DEF r
  <2>5. CASE port[c] = "administrator"
    <3>1. r \in AdministratorResponses
      BY <2>4, <2>5, RepliesReadable DEF Replies
    <3>2. "measurements" \notin DOMAIN r
      BY <3>1 DEF AdministratorResponses
    <3> QED BY <2>5, <3>1, <3>2, AdministratorResponseRead DEF Meant, r
  <2>6. CASE port[c] = "monitoring"
    <3>1. r \in MonitoringResponses
      BY <2>4, <2>6, RepliesReadable DEF Replies
    <3> QED BY <2>6, <3>1, MeantOf DEF r
  <2> QED BY <2>3, <2>5, <2>6 DEF Ports
<1> QED BY <1>1, FlowKept, PTL

=============================================================================
