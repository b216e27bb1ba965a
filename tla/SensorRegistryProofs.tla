------------------------- MODULE SensorRegistryProofs -------------------------
(***************************************************************************)
(* The two maps of ServerModel agree, and the SENSORS table changes as     *)
(* SensorLifecycle allows, in every server.                                *)
(***************************************************************************)
EXTENDS SensorServerProofs

\* Between the look at sensorToClientId and the two insertions the executor's
\* sensor stays unknown: only an administrator's command on it interferes.
Reserved ==
  LET s == request["executor"].token IN
  (pc["executor"] \in {"add", "register"} /\ s \in Sensors \ commanded)
     => sensorToClientId[s] = NoSlot

RegistryInv == TypeInv /\ RegistryAgrees /\ Reserved

\* A step that leaves the maps and the executor's request alone.
LEMMA RegistryFrame ==
  ASSUME RegistryInv, TypeInv', UNCHANGED registry, commanded \subseteq commanded',
         \/ pc'["executor"] \notin {"add", "register"}
         \/ UNCHANGED <<pc["executor"], request["executor"]>>
  PROVE  RegistryInv'
BY DEF RegistryInv, RegistryAgrees, Registered, Reserved, registry

LEMMA CallsRegistry ==
  ASSUME RegistryInv, TypeInv', NEW t \in Threads, Calls(t)
  PROVE  RegistryInv'
<1>1. UNCHANGED registry /\ UNCHANGED commanded
  BY DEF Calls, Check, Insert, Flush, DisconnectClient, Release, Clear, Report, registry, adminVars
<1>2. CASE t = "executor"
  <2>1. pc[t] \notin {"add", "register"}
    BY DEF Calls, Check, Insert, Flush, DisconnectClient, Release, Clear, Report
  <2>2. pc'["executor"] \notin {"add", "register"}
    BY <1>2, <2>1 DEF Calls, Check, Insert, Flush, DisconnectClient, Release, Clear, Report,
       AfterSend, AfterDisconnect, Finish, Goto, RegistryInv, TypeInv, TypeOK, ThreadsOK, Threads
  <2> QED BY <1>1, <2>2, RegistryFrame
<1>3. CASE t # "executor"
  <2>1. pc'["executor"] = pc["executor"] /\ request'["executor"] = request["executor"]
    BY <1>3 DEF Calls, Check, Insert, Flush, DisconnectClient, Release, Clear, Report,
       AfterSend, AfterDisconnect, Finish, Goto, Work, Keep, RegistryInv, TypeInv, TypeOK,
       ThreadsOK, Threads
  <2> QED BY <1>1, <2>1, RegistryFrame
<1> QED BY <1>2, <1>3

LEMMA LoopRegistry ==
  ASSUME RegistryInv, TypeInv', Loop
  PROVE  RegistryInv'
<1> USE DEF RegistryInv, TypeInv, TypeOK, ThreadsOK, Threads
<1>1. UNCHANGED registry /\ UNCHANGED commanded
  BY DEF Loop, Prepare, Select, AcceptFails, Enqueue, Accept, Connected, ReceiveInit, ReceiveMeasure,
         ReceiveUnknown, ReceiveEnd, ReceiveBadLength, SendPending, SendNothing, registry, adminVars
<1>2. pc'["executor"] = pc["executor"] /\ request'["executor"] = request["executor"]
  BY DEF Loop, Prepare, Select, AcceptFails, Enqueue, Accept, Connected, ReceiveInit, ReceiveMeasure,
         ReceiveUnknown, ReceiveEnd, ReceiveBadLength, SendPending, SendNothing, Hand, Disconnects,
         Finish, Goto, Work, Keep
<1> QED BY <1>1, <1>2, RegistryFrame

LEMMA SensorRequestsRegistry ==
  ASSUME RegistryInv, TypeInv', SensorRequests
  PROVE  RegistryInv'
<1> USE DEF TypeInv, TypeOK, registry, adminVars
<1>1. TypeInv /\ ThreadsOK /\ RegistryOK /\ "executor" \in Threads
  BY DEF RegistryInv, Threads
<1>2. CASE ExecuteMeasurement
  BY <1>2, RegistryFrame DEF ExecuteMeasurement
<1>3. CASE ExecuteConnected
  <2>1. pc'["executor"] \notin {"add", "register"}
    BY <1>3, <1>1 DEF ExecuteConnected, Takes, Goto, ThreadsOK
  <2> QED BY <1>3, <2>1, RegistryFrame DEF ExecuteConnected
<1>4. CASE CheckActive
  <2>1. CASE pc'["executor"] \notin {"add", "register"}
    BY <1>4, <2>1, RegistryFrame DEF CheckActive
  <2>2. CASE pc'["executor"] \in {"add", "register"}
    <3>1. ~IsActive(request["executor"].token) /\ UNCHANGED request
      BY <1>4, <1>1, <2>2 DEF CheckActive, Finish, Goto, Keep, ThreadsOK
    <3>2. Reserved'
      BY <1>4, <3>1 DEF CheckActive, IsActive, Reserved
    <3>3. RegistryAgrees'
      BY <1>4 DEF CheckActive, RegistryInv, RegistryAgrees, Registered
    <3> QED BY <3>2, <3>3 DEF RegistryInv
  <2> QED BY <2>1, <2>2
<1>5. CASE AddSensor
  <2>1. CASE pc'["executor"] \notin {"add", "register"}
    BY <1>5, <2>1, RegistryFrame DEF AddSensor
  <2>2. CASE pc'["executor"] \in {"add", "register"}
    <3>1. UNCHANGED request /\ pc["executor"] = "add"
      BY <1>5, <1>1, <2>2 DEF AddSensor, Finish, Goto, Keep, ThreadsOK
    <3>2. Reserved' /\ RegistryAgrees'
      BY <1>5, <3>1 DEF AddSensor, RegistryInv, Reserved, RegistryAgrees, Registered
    <3> QED BY <3>2 DEF RegistryInv
  <2> QED BY <2>1, <2>2
<1>6. CASE Register
  <2> DEFINE r == request["executor"]
  <2>1. r.client \in Slots /\ pc'["executor"] = "check"
    BY <1>6, <1>1 DEF Register, Goto, ThreadsOK, Requests
  <2>2. ASSUME NEW i \in Slots, NEW s \in Sensors, Registered(i, s)', s \notin commanded'
        PROVE  sensorToClientId'[s] = i
    <3>1. CASE i = r.client
      BY <1>6, <1>1, <2>1, <2>2, <3>1 DEF Register, Registered, RegistryOK
    <3>2. CASE i # r.client
      <4>1. Registered(i, s) /\ s \notin commanded
        BY <1>6, <1>1, <2>1, <2>2, <3>2 DEF Register, Registered, RegistryOK
      <4>2. sensorToClientId[s] = i
        BY <4>1 DEF RegistryInv, RegistryAgrees
      <4>3. s # r.token
        BY <1>6, <4>1, <4>2, SlotZero DEF Register, RegistryInv, Reserved
      <4> QED BY <1>6, <1>1, <4>2, <4>3 DEF Register, RegistryOK
    <3> QED BY <3>1, <3>2
  <2>3. RegistryAgrees' /\ Reserved'
    BY <2>1, <2>2 DEF RegistryAgrees, Reserved
  <2> QED BY <2>3 DEF RegistryInv
<1>7. CASE ExecuteDisconnected
  <2>1. pc'["executor"] \notin {"add", "register"}
    BY <1>7, <1>1 DEF ExecuteDisconnected, Takes, Goto, ThreadsOK
  <2> QED BY <1>7, <2>1, RegistryFrame DEF ExecuteDisconnected
<1>8. CASE EraseRegistration
  <2> DEFINE e == client("executor")
  <2>1. e \in Slots /\ pc'["executor"] = "pop"
    BY <1>8, <1>1 DEF EraseRegistration, Finish, Goto, ThreadsOK, Requests, client
  <2>2. ASSUME NEW i \in Slots, NEW s \in Sensors, Registered(i, s)', s \notin commanded'
        PROVE  sensorToClientId'[s] = i
    <3>1. i # e /\ Registered(i, s) /\ s \notin commanded
      BY <1>8, <1>1, <2>1, <2>2, ServerAssumption DEF EraseRegistration, Registered, RegistryOK
    <3>2. sensorToClientId[s] = i
      BY <3>1 DEF RegistryInv, RegistryAgrees
    <3>3. clientToSensorId[e] # s
      BY <2>1, <3>1, <3>2 DEF RegistryInv, RegistryAgrees, Registered
    <3> QED BY <1>8, <1>1, <3>2, <3>3 DEF EraseRegistration, RegistryOK
  <2>3. RegistryAgrees' /\ Reserved'
    BY <2>1, <2>2 DEF RegistryAgrees, Reserved
  <2> QED BY <2>3 DEF RegistryInv
<1> QED BY <1>2, <1>3, <1>4, <1>5, <1>6, <1>7, <1>8 DEF SensorRequests

LEMMA AdministratorRequestsRegistry ==
  ASSUME RegistryInv, TypeInv', AdministratorRequests
  PROVE  RegistryInv'
<1> USE DEF TypeInv, TypeOK, registry, adminVars
<1>1. TypeInv /\ ThreadsOK /\ RegistryOK /\ {"admin", "executor"} \subseteq Threads
  BY DEF RegistryInv, Threads
<1>2. pc'["executor"] = pc["executor"] /\ request'["executor"] = request["executor"]
  BY <1>1 DEF AdministratorRequests, GenerateToken, ExecuteCommand, LookUp, Respond, Finish, Goto,
              Work, ThreadsOK
<1>3. ASSUME NEW s \in Sensors, GenerateToken(s) PROVE RegistryInv'
  BY <1>3, <1>2, RegistryFrame DEF GenerateToken
<1>4. ASSUME NEW s \in Sensors, NEW type \in {"revoke", "disconnect"}, ExecuteCommand(type, s)
      PROVE  RegistryInv'
  BY <1>4, <1>2, RegistryFrame DEF ExecuteCommand
<1>5. ASSUME LookUp \/ Respond PROVE RegistryInv'
  <2>1. /\ UNCHANGED <<clientToSensorId, commanded>>
        /\ request["admin"].token \in commanded
    BY <1>5, <1>1 DEF LookUp, Respond, CommandNoted
  <2>2. \A s \in Sensors \ commanded : sensorToClientId'[s] = sensorToClientId[s]
    BY <1>5, <1>1, <2>1 DEF LookUp, Respond, RegistryOK
  <2>3. RegistryAgrees' /\ Reserved'
    BY <1>2, <2>1, <2>2 DEF RegistryInv, RegistryAgrees, Registered, Reserved
  <2> QED BY <2>3 DEF RegistryInv
<1> QED BY <1>3, <1>4, <1>5 DEF AdministratorRequests

LEMMA RegistryInvariant == Spec => []RegistryInv
<1>1. Init => RegistryInv
  BY InitType, ServerAssumption DEF Init, RegistryInv, RegistryAgrees, Registered, Reserved, Threads
<1>2. RegistryInv /\ [Next]_vars => RegistryInv'
  <2> SUFFICES ASSUME RegistryInv, [Next]_vars PROVE RegistryInv'
    OBVIOUS
  <2>1. TypeInv'
    BY StepType DEF RegistryInv
  <2>2. CASE UNCHANGED vars
    BY <2>1, <2>2, RegistryFrame DEF vars, registry, adminVars
  <2> QED BY <2>1, <2>2, LoopRegistry, SensorRequestsRegistry, AdministratorRequestsRegistry,
             CallsRegistry DEF Next
<1> QED BY <1>1, <1>2, PTL DEF Spec

\* The two maps of ServerModel agree on every sensor no administrator has named.
THEOREM RegistryCorrect == Spec => []RegistryAgrees
<1>1. RegistryInv => RegistryAgrees
  BY DEF RegistryInv
<1> QED BY <1>1, RegistryInvariant, PTL

\* No two slots feed the same sensor, unless an administrator has named it.
OneSlotPerSensor ==
  \A i, j \in Slots : \A s \in Sensors \ commanded :
    Registered(i, s) /\ Registered(j, s) => i = j

\* Whatever the threads interleave, a token is in use over one slot at most.
THEOREM TokenExclusive == Spec => []OneSlotPerSensor
<1>1. RegistryInv => OneSlotPerSensor
  BY DEF RegistryInv, RegistryAgrees, OneSlotPerSensor
<1> QED BY <1>1, RegistryInvariant, PTL

-----------------------------------------------------------------------------
(* The table *)

\* The sensor the executor is about to activate has a row.
RowExists ==
  LET s == request["executor"].token IN
  (pc["executor"] \in {"contains", "add"} /\ s \in Sensors) => status[s] # "ABSENT"

LifecycleInv == TypeInv /\ RowExists

LEMMA LifecycleInit == Init => Lifecycle!Init
BY DEF Init, Lifecycle!Init

\* A row that exists stays, and changes as the lifecycle allows.
LEMMA LifecycleStep ==
  ASSUME LifecycleInv, [Next]_vars
  PROVE  [Lifecycle!Next]_status
<1> USE DEF Lifecycle!Create, Lifecycle!Activate, Lifecycle!Deactivate, Lifecycle!Revoke,
            Lifecycle!Usable, Lifecycle!Become
<1>1. status \in [Sensors -> Statuses] /\ RegistryOK /\ queue \in Seq(Requests)
  BY DEF LifecycleInv, TypeInv, TypeOK, TableOK
<1>2. CASE UNCHANGED vars
  BY <1>2 DEF vars
<1>3. CASE Loop
  BY <1>3 DEF Loop, Prepare, Select, AcceptFails, Enqueue, Accept, Connected, ReceiveInit, ReceiveMeasure,
              ReceiveUnknown, ReceiveEnd, ReceiveBadLength, SendPending, SendNothing
<1>4. ASSUME NEW t \in Threads, Calls(t) PROVE UNCHANGED status
  BY <1>4 DEF Calls, Check, Insert, Flush, DisconnectClient, Release, Clear, Report
<1>5. CASE ExecuteMeasurement \/ ExecuteConnected \/ CheckActive \/ Register \/ EraseRegistration
  BY <1>5 DEF ExecuteMeasurement, ExecuteConnected, CheckActive, Register, EraseRegistration
<1>6. CASE AddSensor
  <2> DEFINE s == request["executor"].token
  <2>1. CASE s \in Sensors
    BY <1>6, <1>1, <2>1 DEF AddSensor, MayActivate, LifecycleInv, RowExists, Lifecycle!Next
  <2>2. CASE s \notin Sensors
    BY <1>6, <1>1, <2>2 DEF AddSensor
  <2> QED BY <2>1, <2>2
<1>7. CASE ExecuteDisconnected
  <2> DEFINE s == clientToSensorId[Head(queue).client]
  <2>1. CASE s \in Sensors
    BY <1>7, <1>1, <2>1 DEF ExecuteDisconnected, Deactivate, MayDeactivate, Lifecycle!Next
  <2>2. CASE s \notin Sensors
    <3>1. Head(queue) \in Requests
      BY <1>7, <1>1, HeadTailProperties DEF ExecuteDisconnected, Takes
    <3>2. s = NoSensor
      BY <1>1, <2>2, <3>1 DEF RegistryOK, Requests
    <3> QED BY <1>7, <3>2 DEF ExecuteDisconnected
  <2> QED BY <2>1, <2>2
<1>8. ASSUME NEW s \in Sensors, GenerateToken(s) PROVE [Lifecycle!Next]_status
  BY <1>8 DEF GenerateToken, Lifecycle!Next
<1>9. ASSUME NEW s \in Sensors, NEW type \in {"revoke", "disconnect"}, ExecuteCommand(type, s)
      PROVE  [Lifecycle!Next]_status
  <2>1. CASE UNCHANGED status
    BY <2>1
  <2>2. CASE status[s] # "ABSENT" /\ status' = CommandStatus(type, s)
    BY <1>1, <2>2 DEF CommandStatus, MayDeactivate, Lifecycle!Next
  <2> QED BY <1>9, <2>1, <2>2 DEF ExecuteCommand
<1>10. CASE LookUp \/ Respond
  BY <1>10 DEF LookUp, Respond
<1> QED BY <1>2, <1>3, <1>4, <1>5, <1>6, <1>7, <1>8, <1>9, <1>10
        DEF Next, SensorRequests, AdministratorRequests

LEMMA RowsStay ==
  ASSUME LifecycleInv, [Next]_vars, NEW s \in Sensors, status[s] # "ABSENT"
  PROVE  status'[s] # "ABSENT"
<1>1. status \in [Sensors -> Statuses]
  BY DEF LifecycleInv, TypeInv, TypeOK, TableOK
<1> QED BY <1>1, LifecycleStep
        DEF Lifecycle!Next, Lifecycle!Create, Lifecycle!Activate, Lifecycle!Deactivate,
            Lifecycle!Revoke, Lifecycle!Become

\* A request that comes to the look at the maps has just been found to have a row that
\* is not revoked, or is there already.
LEMMA BeforeLook ==
  ASSUME TypeInv, [Next]_vars, pc'["executor"] \in {"contains", "add"}
  PROVE  \/ /\ pc["executor"] \in {"contains", "add"}
            /\ request'["executor"] = request["executor"]
         \/ /\ request'["executor"] = Head(queue) /\ UNCHANGED status
            /\ status[Head(queue).token] \notin {"ABSENT", "REVOKED"}
<1>1. ThreadsOK /\ {"admin", "executor"} \subseteq Threads
  BY DEF TypeInv, TypeOK, Threads
<1>2. CASE UNCHANGED vars
  BY <1>2 DEF vars
<1>3. CASE Loop
  BY <1>1, <1>3 DEF Loop, Prepare, Select, AcceptFails, Enqueue, Accept, Connected, ReceiveInit,
     ReceiveMeasure, ReceiveUnknown, ReceiveEnd, ReceiveBadLength, SendPending, SendNothing,
     Hand, Disconnects, Finish, Goto, Work, Keep, ThreadsOK, Threads
<1>4. CASE AdministratorRequests
  BY <1>1, <1>4 DEF AdministratorRequests, GenerateToken, ExecuteCommand, LookUp, Respond,
     Finish, Goto, Work, ThreadsOK
<1>5. ASSUME NEW t \in Threads, Calls(t)
      PROVE  pc'["executor"] = pc["executor"] /\ request'["executor"] = request["executor"]
  BY <1>5, <1>1 DEF Calls, Check, Insert, Flush, DisconnectClient, Release, Clear, Report,
     AfterSend, AfterDisconnect, Finish, Goto, Work, Keep, ThreadsOK, Threads
<1>6. CASE ExecuteConnected
  <2>1. /\ Goto("executor", "contains") /\ Work("executor", Head(queue), NoMessage)
        /\ status[Head(queue).token] \notin {"ABSENT", "REVOKED"} /\ UNCHANGED status
    BY <1>6, <1>1 DEF ExecuteConnected, Takes, Goto, ThreadsOK
  <2> QED BY <1>1, <2>1 DEF Work, ThreadsOK
<1>7. CASE CheckActive
  BY <1>7, <1>1 DEF CheckActive, Finish, Goto, Work, Keep, ThreadsOK
<1>8. CASE SensorRequests /\ ~ExecuteConnected /\ ~CheckActive
  BY <1>8, <1>1 DEF SensorRequests, ExecuteMeasurement, AddSensor, Register,
     ExecuteDisconnected, EraseRegistration, Takes, Finish, Goto, Work, Keep, ThreadsOK
<1> QED BY <1>2, <1>3, <1>4, <1>5, <1>6, <1>7, <1>8 DEF Next

LEMMA RowExistsStep ==
  ASSUME LifecycleInv, [Next]_vars
  PROVE  RowExists'
BY RowsStay, BeforeLook DEF LifecycleInv, RowExists

\* The server implements the lifecycle of a sensor's row: whatever the two
\* executors interleave, and whichever statements raise, a row is created once
\* and a revoked row never changes again.
THEOREM LifecycleImplemented == Spec => LifecycleSpec
<1>1. Init => LifecycleInv
  BY InitType DEF Init, LifecycleInv, RowExists, Threads
<1>2. LifecycleInv /\ [Next]_vars => LifecycleInv'
  BY StepType, RowExistsStep DEF LifecycleInv
<1>3. LifecycleInv /\ [Next]_vars => [Lifecycle!Next]_status
  BY LifecycleStep
<1> QED BY <1>1, <1>2, <1>3, LifecycleInit, PTL DEF Spec, LifecycleSpec, Lifecycle!Spec

-----------------------------------------------------------------------------
(* The status the administrator is shown *)

\* What the executor has found not to be revoked is still not, unless an administrator
\* has named it.
NotRevoked ==
  LET s == request["executor"].token IN
  (pc["executor"] \in {"contains", "add"} /\ s \in Sensors \ commanded)
     => status[s] # "REVOKED"

\* The executor registers a sensor whose row already says ACTIVE.
ActiveFirst ==
  LET s == request["executor"].token IN
  (dbErrors = 0 /\ pc["executor"] = "register" /\ s \in Sensors \ commanded)
     => status[s] = "ACTIVE"

StatusInv == TypeInv /\ StatusAgrees /\ ActiveFirst

\* Only a command on the sensor revokes its row.
LEMMA RevokedByCommand ==
  ASSUME TypeInv, [Next]_vars, NEW s \in Sensors, s \notin commanded', status[s] # "REVOKED"
  PROVE  status'[s] # "REVOKED"
<1>1. status \in [Sensors -> Statuses]
  BY DEF TypeInv, TypeOK, TableOK
<1>2. CASE UNCHANGED vars
  BY <1>2 DEF vars
<1>3. CASE Loop
  BY <1>3 DEF Loop, Prepare, Select, AcceptFails, Enqueue, Accept, Connected, ReceiveInit, ReceiveMeasure,
              ReceiveUnknown, ReceiveEnd, ReceiveBadLength, SendPending, SendNothing
<1>4. ASSUME NEW t \in Threads, Calls(t) PROVE UNCHANGED status
  BY <1>4 DEF Calls, Check, Insert, Flush, DisconnectClient, Release, Clear, Report
<1>5. CASE SensorRequests
  BY <1>1, <1>5 DEF SensorRequests, ExecuteMeasurement, ExecuteConnected, CheckActive, AddSensor,
     Register, ExecuteDisconnected, EraseRegistration, Deactivate
<1>6. ASSUME NEW u \in Sensors, GenerateToken(u) PROVE status'[s] # "REVOKED"
  BY <1>1, <1>6 DEF GenerateToken
<1>7. ASSUME NEW u \in Sensors, NEW type \in {"revoke", "disconnect"}, ExecuteCommand(type, u)
      PROVE  status'[s] # "REVOKED"
  BY <1>1, <1>7 DEF ExecuteCommand, CommandStatus
<1>8. CASE LookUp \/ Respond
  BY <1>8 DEF LookUp, Respond
<1> QED BY <1>2, <1>3, <1>4, <1>5, <1>6, <1>7, <1>8 DEF Next, AdministratorRequests

LEMMA NotRevokedStep ==
  ASSUME TypeInv, NotRevoked, [Next]_vars
  PROVE  NotRevoked'
<1>1. commanded \subseteq commanded'
  BY DEF Next, Loop, Prepare, Select, AcceptFails, Enqueue, Accept, Connected, ReceiveInit,
     ReceiveMeasure, ReceiveUnknown, ReceiveEnd, ReceiveBadLength, SendPending, SendNothing,
     SensorRequests, ExecuteMeasurement, ExecuteConnected, CheckActive, AddSensor, Register,
     ExecuteDisconnected, EraseRegistration, AdministratorRequests, GenerateToken, ExecuteCommand,
     LookUp, Respond, Calls, Check, Insert, Flush, DisconnectClient, Release, Clear, Report, vars,
     adminVars
<1> QED BY <1>1, BeforeLook, RevokedByCommand DEF NotRevoked

\* A step that leaves the table, the maps and the executor's request alone.
LEMMA StatusFrame ==
  ASSUME StatusInv, TypeInv', UNCHANGED <<status, registry>>, commanded \subseteq commanded',
         dbErrors' = 0 => dbErrors = 0,
         \/ pc["executor"] # "erase" /\ pc'["executor"] # "register"
         \/ UNCHANGED <<pc["executor"], request["executor"]>>
  PROVE  StatusInv'
BY DEF StatusInv, StatusAgrees, ActiveFirst, Registered, client, registry

LEMMA StatusStep ==
  ASSUME StatusInv, NotRevoked, [Next]_vars
  PROVE  StatusInv'
<1> USE DEF registry, adminVars, StatementWorks
<1>1. /\ TypeInv' /\ TypeInv /\ ThreadsOK /\ RegistryOK /\ status \in [Sensors -> Statuses]
      /\ {"admin", "executor"} \subseteq Threads /\ dbErrors \in Nat
  BY StepType, ServerAssumption
     DEF StatusInv, TypeInv, TypeOK, TableOK, HistoryOK, Threads
<1>2. StatementRaises => dbErrors' # 0
  BY <1>1 DEF StatementRaises
<1>3. CASE UNCHANGED vars
  BY <1>3, <1>1, StatusFrame DEF vars
<1>4. CASE Loop
  <2>1. UNCHANGED <<status, registry, commanded, dbErrors>>
    BY <1>4 DEF Loop, Prepare, Select, AcceptFails, Enqueue, Accept, Connected, ReceiveInit, ReceiveMeasure,
       ReceiveUnknown, ReceiveEnd, ReceiveBadLength, SendPending, SendNothing
  <2>2. pc'["executor"] = pc["executor"] /\ request'["executor"] = request["executor"]
    BY <1>4, <1>1 DEF Loop, Prepare, Select, AcceptFails, Enqueue, Accept, Connected, ReceiveInit,
       ReceiveMeasure, ReceiveUnknown, ReceiveEnd, ReceiveBadLength, SendPending, SendNothing,
       Hand, Disconnects, Finish, Goto, Work, Keep, ThreadsOK, Threads
  <2> QED BY <1>1, <2>1, <2>2, StatusFrame
<1>5. ASSUME NEW t \in Threads, Calls(t) PROVE StatusInv'
  <2>1. UNCHANGED <<status, registry, commanded, dbErrors>>
    BY <1>5 DEF Calls, Check, Insert, Flush, DisconnectClient, Release, Clear, Report
  <2>2. \/ pc["executor"] # "erase" /\ pc'["executor"] # "register"
        \/ pc'["executor"] = pc["executor"] /\ request'["executor"] = request["executor"]
    BY <1>5, <1>1 DEF Calls, Check, Insert, Flush, DisconnectClient, Release, Clear, Report,
       AfterSend, AfterDisconnect, Finish, Goto, Work, Keep, ThreadsOK, Threads
  <2> QED BY <1>1, <2>1, <2>2, StatusFrame
<1>6. CASE ExecuteMeasurement \/ ExecuteConnected \/ CheckActive
  <2>1. UNCHANGED <<status, registry, commanded>> /\ (dbErrors' = 0 => dbErrors = 0)
    BY <1>6, <1>2 DEF ExecuteMeasurement, ExecuteConnected, CheckActive
  <2>2. pc["executor"] # "erase" /\ pc'["executor"] # "register"
    BY <1>6, <1>1 DEF ExecuteMeasurement, ExecuteConnected, CheckActive, Takes, Finish, Goto, Keep,
                      ThreadsOK
  <2> QED BY <1>1, <2>1, <2>2, StatusFrame
<1>7. CASE AddSensor
  <2> DEFINE s == request["executor"].token
  <2>1. \A u \in Sensors : status'[u] \in {status[u], "ACTIVE"}
    BY <1>7, <1>1 DEF AddSensor
  <2>2. pc["executor"] = "add" /\ UNCHANGED <<registry, commanded>>
        /\ (dbErrors' = 0 => dbErrors = 0)
    BY <1>7, <1>2 DEF AddSensor
  <2>3. StatusAgrees'
    BY <2>1, <2>2 DEF StatusInv, StatusAgrees
  <2>4. (dbErrors' = 0 /\ pc'["executor"] = "register" /\ s \in Sensors \ commanded)
           => UNCHANGED request /\ status'[s] = "ACTIVE"
    BY <1>7, <1>1, <1>2
       DEF AddSensor, MayActivate, NotRevoked, Finish, Goto, Keep, ThreadsOK
  <2>5. (dbErrors' = 0 /\ pc'["executor"] = "register") => UNCHANGED request
    BY <1>7, <1>1, <1>2 DEF AddSensor, Finish, Goto, Keep, ThreadsOK
  <2> QED BY <1>1, <2>2, <2>3, <2>4, <2>5 DEF StatusInv, ActiveFirst
<1>8. CASE Register
  <2>1. pc["executor"] = "register" /\ pc'["executor"] = "check"
        /\ UNCHANGED <<status, commanded, dbErrors>>
    BY <1>8, <1>1 DEF Register, Goto, ThreadsOK
  <2>2. \A u \in Sensors : u = request["executor"].token \/ sensorToClientId'[u] = sensorToClientId[u]
    BY <1>8, <1>1 DEF Register, RegistryOK
  <2>3. StatusAgrees'
    BY <2>1, <2>2 DEF StatusInv, StatusAgrees, ActiveFirst
  <2> QED BY <1>1, <2>1, <2>3 DEF StatusInv, ActiveFirst
<1>9. CASE ExecuteDisconnected
  <2> DEFINE r == Head(queue)
             s == clientToSensorId[r.client]
  <2>1. pc["executor"] = "pop" /\ pc'["executor"] \in {"pop", "erase"}
        /\ UNCHANGED <<registry, commanded>> /\ (dbErrors' = 0 => dbErrors = 0)
    BY <1>9, <1>1, <1>2 DEF ExecuteDisconnected, Takes, Goto, ThreadsOK
  <2>2. CASE UNCHANGED status
    BY <1>1, <2>1, <2>2 DEF StatusInv, StatusAgrees, ActiveFirst
  <2>3. CASE dbErrors' # 0
    BY <1>1, <2>1, <2>3 DEF StatusInv, StatusAgrees, ActiveFirst
  <2>4. CASE Deactivate(s) /\ Goto("executor", "erase") /\ Work("executor", r, NoMessage)
    <3>1. pc'["executor"] = "erase" /\ request'["executor"] = r
      BY <1>1, <2>4 DEF Goto, Work, ThreadsOK
    <3>2. \A u \in Sensors : u = s \/ status'[u] = status[u]
      BY <1>1, <2>4 DEF Deactivate
    <3>3. StatusAgrees'
      BY <2>1, <3>1, <3>2 DEF StatusInv, StatusAgrees, Registered, client
    <3> QED BY <1>1, <3>1, <3>3 DEF StatusInv, ActiveFirst
  <2> QED BY <1>9, <1>2, <2>2, <2>3, <2>4 DEF ExecuteDisconnected
<1>10. CASE EraseRegistration
  <2>1. pc["executor"] = "erase" /\ pc'["executor"] = "pop"
        /\ UNCHANGED <<status, commanded, dbErrors>>
    BY <1>10, <1>1 DEF EraseRegistration, Finish, Goto, ThreadsOK
  <2>2. \A u \in Sensors : IF u = clientToSensorId[client("executor")]
                            THEN sensorToClientId'[u] = NoSlot
                            ELSE sensorToClientId'[u] = sensorToClientId[u]
    BY <1>10, <1>1 DEF EraseRegistration, RegistryOK
  <2>3. StatusAgrees'
    BY <2>1, <2>2 DEF StatusInv, StatusAgrees, Registered
  <2> QED BY <1>1, <2>1, <2>3 DEF StatusInv, ActiveFirst
<1>11. CASE AdministratorRequests
  <2>1. pc'["executor"] = pc["executor"] /\ request'["executor"] = request["executor"]
        /\ clientToSensorId' = clientToSensorId
        /\ commanded \subseteq commanded' /\ (dbErrors' = 0 => dbErrors = 0)
    BY <1>11, <1>1, <1>2 DEF AdministratorRequests, GenerateToken, ExecuteCommand, LookUp, Respond,
       Finish, Goto, Work, ThreadsOK
  <2>2. \A u \in Sensors \ commanded' :
          /\ sensorToClientId'[u] = sensorToClientId[u]
          /\ status'[u] = status[u] \/ status[u] = "ABSENT"
    <3>1. ASSUME NEW s \in Sensors, GenerateToken(s)
          PROVE  \A u \in Sensors : /\ sensorToClientId'[u] = sensorToClientId[u]
                                    /\ status'[u] = status[u] \/ status[u] = "ABSENT"
      BY <1>1, <3>1 DEF GenerateToken
    <3>2. ASSUME NEW s \in Sensors, NEW type \in {"revoke", "disconnect"}, ExecuteCommand(type, s)
          PROVE  \A u \in Sensors \ commanded' : /\ sensorToClientId'[u] = sensorToClientId[u]
                                                 /\ status'[u] = status[u]
      BY <1>1, <3>2 DEF ExecuteCommand, CommandStatus
    <3>3. ASSUME LookUp \/ Respond
          PROVE  \A u \in Sensors \ commanded' : /\ sensorToClientId'[u] = sensorToClientId[u]
                                                 /\ status'[u] = status[u]
      <4>1. request["admin"].token \in commanded /\ UNCHANGED <<status, commanded>>
        BY <1>1, <3>3 DEF LookUp, Respond, TypeInv, CommandNoted
      <4> QED BY <1>1, <3>3, <4>1 DEF LookUp, Respond, RegistryOK
    <3> QED BY <1>11, <3>1, <3>2, <3>3 DEF AdministratorRequests
  <2>3. StatusAgrees' /\ ActiveFirst'
    BY <2>1, <2>2 DEF StatusInv, StatusAgrees, ActiveFirst, Registered, client
  <2> QED BY <1>1, <2>3 DEF StatusInv
<1> QED BY <1>3, <1>4, <1>5, <1>6, <1>7, <1>8, <1>9, <1>10, <1>11 DEF Next, SensorRequests

\* While no statement has raised, a sensor the server knows to be connected is
\* shown as ACTIVE, or is just being forgotten.
THEOREM StatusCorrect == Spec => []StatusAgrees
<1>1. Init => StatusInv /\ NotRevoked
  BY InitType, ServerAssumption
     DEF Init, StatusInv, StatusAgrees, ActiveFirst, NotRevoked, Threads
<1>2. StatusInv /\ NotRevoked /\ [Next]_vars => StatusInv' /\ NotRevoked'
  BY StatusStep, NotRevokedStep DEF StatusInv
<1>3. StatusInv => StatusAgrees
  BY DEF StatusInv
<1> QED BY <1>1, <1>2, <1>3, PTL DEF Spec

=============================================================================
