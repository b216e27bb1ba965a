-------------------------- MODULE SensorServerProofs --------------------------
(***************************************************************************)
(* Theorems about SensorServer, for any number of slots, connections and   *)
(* sensors and any bounds.                                                 *)
(***************************************************************************)
EXTENDS SensorServer, SequenceTheorems, WellFoundedInduction, TLAPS

-----------------------------------------------------------------------------
(* Types *)

\* The administrator's executor works on a command that is noted.
CommandNoted == pc["admin"] # "pop" => request["admin"].token \in commanded

ThreadsInv == ThreadsOK /\ CommandNoted

TypeInv == TypeOK /\ CommandNoted

LEMMA SlotZero == 0 \in Slots /\ NoSlot \notin Slots
BY ServerAssumption DEF Slots, NoSlot

LEMMA NoRequestType == NoRequest \in Requests
BY SlotZero DEF NoRequest, Request, Requests, RequestTypes

LEMMA DisconnectedType ==
  ASSUME NEW i \in Slots
  PROVE  Request("disconnected", i, NoSensor, NoConnection) \in Requests
BY DEF Request, Requests, RequestTypes

\* What a thread works on is a request, and concerns a slot.
LEMMA RequestType ==
  ASSUME TypeInv, NEW t \in Threads
  PROVE  /\ request[t] \in Requests /\ client(t) \in Slots
         /\ message[t] \in Messages \cup {NoMessage}
BY DEF TypeInv, TypeOK, ThreadsOK, client, Requests

\* Sending the buffer of a slot changes the buffer and what was told, no type.
LEMMA DeliverType ==
  ASSUME TypeInv, NEW i \in Slots, Delivers(i), Deliver(i)
  PROVE  /\ out' \in [Slots -> SUBSET (Messages \cup {NoMessage})]
         /\ told' \in [Connections -> SUBSET (Messages \cup {NoMessage})]
<1> USE DEF TypeInv, TypeOK, SlotsOK, HistoryOK
<1>1. socket[i] \in Connections /\ out[i] \subseteq Messages \cup {NoMessage}
  BY DEF Delivers
<1>2. told[socket[i]] \cup (out[i] \cap Observed) \subseteq Messages \cup {NoMessage}
  BY <1>1
<1> QED BY <1>1, <1>2 DEF Deliver

LEMMA InitType == Init => TypeInv
<1> SUFFICES ASSUME Init PROVE TypeInv
  OBVIOUS
<1> USE ServerAssumption, SlotZero DEF Init
<1>1. TableOK
  BY DEF TableOK
<1>2. SlotsOK
  BY DEF SlotsOK
<1>3. queue \in Seq(Requests)
  OBVIOUS
<1>4. RegistryOK
  BY DEF RegistryOK
<1>5. ThreadsOK
  BY NoRequestType DEF ThreadsOK, Threads, Labels
<1>6. LoopOK
  BY DEF LoopOK
<1>7. HistoryOK
  BY SMTT(30) DEF HistoryOK
<1>8. CommandNoted
  BY DEF CommandNoted, Threads
<1> QED BY <1>1, <1>2, <1>3, <1>4, <1>5, <1>6, <1>7, <1>8 DEF TypeInv, TypeOK

\* A thread that is busy stays typed when it goes to another place.
LEMMA GotoType ==
  ASSUME TypeInv, NEW t \in Threads, NEW label \in Labels, pc[t] # "pop",
         Goto(t, label), UNCHANGED <<request, message, commanded>>
  PROVE  ThreadsInv'
BY DEF TypeInv, TypeOK, ThreadsInv, ThreadsOK, CommandNoted, Threads, Goto

LEMMA FinishType ==
  ASSUME TypeInv, NEW t \in Threads, NEW label \in Labels, t = "admin" => label = "pop",
         Finish(t, label), UNCHANGED commanded
  PROVE  ThreadsInv'
<1> USE DEF TypeInv, TypeOK, Finish, Goto, Work
<1>1. ThreadsOK'
  BY NoRequestType DEF ThreadsOK
<1>2. CommandNoted'
  BY DEF CommandNoted, Threads, ThreadsOK
<1> QED BY <1>1, <1>2 DEF ThreadsInv

\* The executor takes up a request.
LEMMA WorkType ==
  ASSUME TypeInv, NEW label \in Labels, NEW r \in Requests,
         NEW m \in Messages \cup {NoMessage},
         \/ Goto("executor", label) /\ Work("executor", r, m)
         \/ UNCHANGED <<pc, request, message>>,
         UNCHANGED commanded
  PROVE  ThreadsInv'
<1> USE DEF TypeInv, TypeOK, Goto, Work
<1>1. ThreadsOK'
  BY DEF ThreadsOK
<1>2. CommandNoted'
  BY DEF ThreadsOK, Threads, CommandNoted
<1> QED BY <1>1, <1>2 DEF ThreadsInv

LEMMA AfterSendType ==
  ASSUME TypeInv, NEW t \in Threads, pc[t] # "pop", AfterSend(t), UNCHANGED commanded
  PROVE  ThreadsInv'
<1> USE DEF Labels
<1>1. CASE t = "network"
  BY <1>1, GotoType DEF AfterSend, Keep
<1>2. CASE t # "network" /\ message[t] = "accepted"
  BY <1>2, FinishType DEF AfterSend
<1>3. CASE t # "network" /\ message[t] # "accepted"
  BY <1>3, GotoType DEF AfterSend, Keep
<1> QED BY <1>1, <1>2, <1>3

LEMMA AfterDisconnectType ==
  ASSUME TypeInv, NEW t \in Threads, pc[t] # "pop", AfterDisconnect(t), UNCHANGED commanded
  PROVE  ThreadsInv'
<1> USE DEF Labels
<1>1. CASE t = "network"
  <2>1. resume \in Labels
    BY DEF TypeInv, TypeOK, LoopOK
  <2> QED BY <1>1, <2>1, FinishType DEF AfterDisconnect
<1>2. CASE t = "executor"
  BY <1>2, FinishType DEF AfterDisconnect
<1>3. CASE t = "admin"
  BY <1>3, GotoType DEF AfterDisconnect, Keep
<1> QED BY <1>1, <1>2, <1>3 DEF Threads

LEMMA NatSetLeast ==
  ASSUME NEW S, S \subseteq Nat, S # {}
  PROVE  \E i \in S : \A j \in S : i <= j
<1> DEFINE Less == {p \in Nat \X Nat : p[1] < p[2]}
<1>1. IsWellFoundedOn(Less, Nat)
  BY NatLessThanWellFounded DEF OpToRel
<1>2. \E i \in S : \A j \in S : <<j, i>> \notin Less
  BY <1>1, WFMin
<1>3. ASSUME NEW i \in S, NEW j \in S, <<j, i>> \notin Less
      PROVE  i <= j
  <2>1. ~ (j < i)
    BY <1>3
  <2> QED BY <2>1
<1> HIDE DEF Less
<1> QED BY <1>2, <1>3

\* getFreeHandler returns the least free slot, when there is one.
LEMMA FreeHandlerLeast ==
  ASSUME FreeHandlers # {}
  PROVE  getFreeHandler \in FreeHandlers /\ getFreeHandler \in Slots
<1> DEFINE least(i) == \A j \in FreeHandlers : i <= j
<1>1. FreeHandlers \subseteq Nat /\ FreeHandlers \subseteq Slots
  BY ServerAssumption DEF FreeHandlers, Slots
<1>2. \E i \in FreeHandlers : least(i)
  BY <1>1, NatSetLeast
<1>3. getFreeHandler = CHOOSE i \in FreeHandlers : least(i)
  BY DEF getFreeHandler
<1>4. getFreeHandler \in FreeHandlers
  BY <1>2, <1>3
<1> QED BY <1>1, <1>4

\* A frame that is handed to the listener leaves the thread and its loop typed.
LEMMA HandType ==
  ASSUME TypeInv, NEW i \in Slots, NEW r \in Requests, NEW m \in Messages \cup {NoMessage},
         NEW label \in Labels, Hand(i, r, m, label), pc["network"] = "receive",
         UNCHANGED commanded
  PROVE  ThreadsInv' /\ LoopOK'
<1> USE DEF TypeInv, TypeOK, Hand
<1>1. ThreadsOK'
  BY DEF ThreadsOK, Goto, Work, Keep, Labels
<1>2. CommandNoted'
  BY DEF ThreadsOK, Threads, CommandNoted, Goto, Work, Keep
<1>3. LoopOK'
  BY ServerAssumption DEF LoopOK, Pass, Slots
<1> QED BY <1>1, <1>2, <1>3 DEF ThreadsInv

LEMMA DisconnectsType ==
  ASSUME TypeInv, NEW i \in Slots, NEW sweep \in {"receive", "send"}, Disconnects(i, sweep),
         UNCHANGED <<socket, listener, out, accepted, commanded>>
  PROVE  ThreadsInv' /\ LoopOK' /\ SlotsOK'
<1> USE DEF TypeInv, TypeOK, Disconnects
<1>1. ThreadsOK'
  BY DisconnectedType DEF ThreadsOK, Goto, Work, Labels
<1>2. CommandNoted'
  BY DEF ThreadsOK, Threads, CommandNoted, Goto, Work
<1>3. LoopOK'
  BY ServerAssumption DEF LoopOK, Pass, Slots
<1>4. SlotsOK'
  BY DEF SlotsOK, CloseSocket
<1> QED BY <1>1, <1>2, <1>3, <1>4 DEF ThreadsInv

\* A call of send() or disconnectClient() by any thread.
LEMMA CallsType ==
  ASSUME TypeInv, NEW t \in Threads, Calls(t)
  PROVE  TypeInv'
<1> USE DEF slotVars, loopVars, registry, sensorVars, adminVars
<1>1. TypeOK /\ client(t) \in Slots /\ request[t] \in Requests
      /\ message[t] \in Messages \cup {NoMessage}
  BY RequestType DEF TypeInv
<1>2. CASE Check(t)
  <2>1. ThreadsInv'
    BY <1>2, AfterSendType, GotoType DEF Check, Keep, Labels
  <2> QED BY <1>2, <2>1
          DEF Check, TypeInv, TypeOK, ThreadsInv, TableOK, SlotsOK, RegistryOK, LoopOK, HistoryOK
<1>3. CASE Insert(t)
  <2>1. ThreadsInv'
    BY <1>3, GotoType DEF Insert, Labels
  <2>2. SlotsOK'
    BY <1>3, <1>1 DEF Insert, TypeOK, SlotsOK
  <2> QED BY <1>3, <2>1, <2>2
          DEF Insert, TypeInv, TypeOK, ThreadsInv, TableOK, RegistryOK, LoopOK, HistoryOK
<1>4. CASE Flush(t)
  <2>1. ThreadsInv'
    BY <1>4, AfterSendType DEF Flush
  <2>2. /\ out' \in [Slots -> SUBSET (Messages \cup {NoMessage})]
        /\ told' \in [Connections -> SUBSET (Messages \cup {NoMessage})]
    BY <1>4, <1>1, DeliverType DEF Flush, TypeOK, SlotsOK, HistoryOK
  <2>3. SlotsOK' /\ HistoryOK'
    BY <1>4, <1>1, <2>2 DEF Flush, TypeOK, SlotsOK, HistoryOK
  <2> QED BY <1>4, <2>1, <2>2, <2>3
          DEF Flush, TypeInv, TypeOK, ThreadsInv, TableOK, RegistryOK, LoopOK
<1>5. CASE DisconnectClient(t)
  <2>1. ThreadsInv'
    BY <1>5, AfterDisconnectType, GotoType DEF DisconnectClient, Keep, Labels
  <2>2. SlotsOK'
    BY <1>5, <1>1 DEF DisconnectClient, CloseSocket, TypeOK, SlotsOK
  <2>3. HistoryOK'
    BY <1>5, <1>1 DEF DisconnectClient, TypeOK, HistoryOK
  <2> QED BY <1>5, <2>1, <2>2, <2>3
          DEF DisconnectClient, TypeInv, TypeOK, ThreadsInv, TableOK, RegistryOK, LoopOK
<1>6. CASE Release(t)
  <2>1. ThreadsInv'
    BY <1>6, GotoType DEF Release, Labels
  <2>2. SlotsOK'
    BY <1>6, <1>1 DEF Release, TypeOK, SlotsOK
  <2> QED BY <1>6, <2>1, <2>2
          DEF Release, TypeInv, TypeOK, ThreadsInv, TableOK, RegistryOK, LoopOK, HistoryOK
<1>7. CASE Clear(t)
  <2>1. ThreadsInv'
    BY <1>7, GotoType DEF Clear, Labels
  <2>2. SlotsOK'
    BY <1>7, <1>1 DEF Clear, TypeOK, SlotsOK
  <2> QED BY <1>7, <2>1, <2>2
          DEF Clear, TypeInv, TypeOK, ThreadsInv, TableOK, RegistryOK, LoopOK, HistoryOK
<1>8. CASE Report(t)
  <2>1. ThreadsInv'
    BY <1>8, AfterDisconnectType DEF Report
  <2>2. queue' \in Seq(Requests)
    BY <1>8, <1>1, DisconnectedType, AppendProperties DEF Report, TypeOK
  <2> QED BY <1>8, <2>1, <2>2
          DEF Report, TypeInv, TypeOK, ThreadsInv, TableOK, SlotsOK, RegistryOK, LoopOK, HistoryOK
<1> QED BY <1>2, <1>3, <1>4, <1>5, <1>6, <1>7, <1>8 DEF Calls

\* A step of the network thread's loop.
LEMMA LoopType ==
  ASSUME TypeInv, Loop
  PROVE  TypeInv'
<1> USE DEF slotVars, loopVars, registry, sensorVars, adminVars
<1>1. TypeOK /\ "network" \in Threads
  BY DEF TypeInv, Threads
<1>2. \A i \in Slots : i + 1 \in 0 .. CLIENTS
  BY ServerAssumption DEF Slots
<1>3. CASE Prepare
  <2>1. ThreadsInv'
    BY <1>3, <1>1, GotoType DEF Prepare, Labels
  <2>2. freeHandler' \in Slots \cup {NoSlot}
    <3>1. CASE FreeHandlers = {}
      BY <1>3, <3>1 DEF Prepare, getFreeHandler
    <3>2. CASE FreeHandlers # {}
      BY <1>3, <3>2, FreeHandlerLeast DEF Prepare
    <3> QED BY <3>1, <3>2
  <2>3. readyIn' \subseteq Connections /\ readyOut' \subseteq Connections
    BY <1>3, <1>1 DEF Prepare, Readable, Writable, FreeHandlers, TypeOK, SlotsOK
  <2>4. LoopOK'
    BY <1>3, <2>2, <2>3, ServerAssumption DEF Prepare, LoopOK
  <2> QED BY <1>3, <2>1, <2>4
          DEF Prepare, TypeInv, TypeOK, ThreadsInv, TableOK, SlotsOK, RegistryOK, HistoryOK
<1>4. CASE Select
  <2>1. ThreadsInv'
    BY <1>4, <1>1, GotoType DEF Select, Labels
  <2> QED BY <1>4, <2>1
          DEF Select, TypeInv, TypeOK, ThreadsInv, TableOK, SlotsOK, RegistryOK, LoopOK, HistoryOK
<1>5. CASE AcceptFails
  <2>1. ThreadsInv'
    BY <1>5, <1>1, GotoType DEF AcceptFails, Labels
  <2> QED BY <1>5, <2>1
          DEF AcceptFails, TypeInv, TypeOK, ThreadsInv, TableOK, SlotsOK, RegistryOK, LoopOK,
              HistoryOK
<1>6. CASE Enqueue
  <2>1. ThreadsInv'
    BY <1>6, <1>1, FinishType DEF Enqueue, Labels
  <2>2. queue' \in Seq(Requests)
    BY <1>6, <1>1, RequestType, AppendProperties DEF Enqueue, TypeOK
  <2> QED BY <1>6, <2>1, <2>2
          DEF Enqueue, TypeInv, TypeOK, ThreadsInv, TableOK, SlotsOK, RegistryOK, LoopOK, HistoryOK
<1>7. ASSUME NEW c \in Connections, Accept(c) PROVE TypeInv'
  <2>1. ThreadsInv'
    BY <1>7, <1>1, GotoType DEF Accept, Connected, Labels
  <2>2. SlotsOK'
    BY <1>7, <1>1 DEF Accept, Connected, TypeOK, SlotsOK
  <2> QED BY <1>7, <2>1, <2>2
          DEF Accept, Connected, TypeInv, TypeOK, ThreadsInv, TableOK, RegistryOK, LoopOK, HistoryOK
<1>8. ASSUME NEW i \in Slots, NEW s \in Sensors, ReceiveInit(i, s) PROVE TypeInv'
  <2>1. Request("connected", i, s, socket[i]) \in Requests
    BY <1>8, <1>1 DEF ReceiveInit, TypeOK, SlotsOK, Request, Requests, RequestTypes
  <2>2. ThreadsInv' /\ LoopOK'
    BY <1>8, <1>1, <2>1, HandType DEF ReceiveInit, Receives, Labels
  <2>3. HistoryOK'
    BY <1>8, <1>1 DEF ReceiveInit, TypeOK, SlotsOK, HistoryOK
  <2> QED BY <1>8, <2>2, <2>3
          DEF ReceiveInit, TypeInv, TypeOK, ThreadsInv, TableOK, SlotsOK, RegistryOK
<1>9. ASSUME NEW i \in Slots, ReceiveMeasure(i) PROVE TypeInv'
  <2>1. Request("measure", i, NoSensor, socket[i]) \in Requests
    BY <1>9, <1>1 DEF ReceiveMeasure, TypeOK, SlotsOK, Request, Requests, RequestTypes
  <2>2. ThreadsInv' /\ LoopOK'
    BY <1>9, <1>1, <2>1, HandType DEF ReceiveMeasure, Receives, Labels, Messages
  <2>3. measures' \in [Connections -> 0 .. MaxMeasures]
    BY <1>9, <1>1, ServerAssumption DEF ReceiveMeasure, TypeOK, SlotsOK, HistoryOK
  <2>4. HistoryOK'
    BY <1>9, <1>1, <2>3 DEF ReceiveMeasure, TypeOK, HistoryOK
  <2> QED BY <1>9, <2>2, <2>4
          DEF ReceiveMeasure, TypeInv, TypeOK, ThreadsInv, TableOK, SlotsOK, RegistryOK
<1>10. ASSUME NEW i \in Slots, ReceiveUnknown(i) PROVE TypeInv'
  <2>1. ThreadsInv' /\ LoopOK'
    BY <1>10, <1>1, DisconnectedType, HandType DEF ReceiveUnknown, Receives, Labels
  <2> QED BY <1>10, <2>1
          DEF ReceiveUnknown, TypeInv, TypeOK, ThreadsInv, TableOK, SlotsOK, RegistryOK, HistoryOK
<1>11. ASSUME NEW i \in Slots, ReceiveEnd(i) PROVE TypeInv'
  <2>1. ThreadsInv' /\ LoopOK' /\ SlotsOK'
    BY <1>11, <1>1, DisconnectsType DEF ReceiveEnd, Receives
  <2> QED BY <1>11, <2>1
          DEF ReceiveEnd, TypeInv, TypeOK, ThreadsInv, TableOK, RegistryOK, HistoryOK
<1>12. ASSUME NEW i \in Slots, ReceiveBadLength(i) PROVE TypeInv'
  <2>1. ThreadsInv'
    BY <1>12, <1>1, GotoType DEF ReceiveBadLength, Receives, Labels
  <2> QED BY <1>12, <2>1
          DEF ReceiveBadLength, TypeInv, TypeOK, ThreadsInv, TableOK, SlotsOK, RegistryOK, LoopOK,
              HistoryOK
<1>13. ASSUME NEW i \in Slots, SendPending(i) PROVE TypeInv'
  <2>1. ThreadsInv'
    BY <1>13, <1>1, GotoType DEF SendPending, Sends, Labels
  <2>2. SlotsOK' /\ HistoryOK'
    BY <1>13, <1>1, DeliverType DEF SendPending, TypeOK, SlotsOK, HistoryOK
  <2>3. LoopOK'
    BY <1>13, <1>1, <1>2 DEF SendPending, Pass, TypeOK, LoopOK
  <2> QED BY <1>13, <2>1, <2>2, <2>3
          DEF SendPending, TypeInv, TypeOK, ThreadsInv, TableOK, RegistryOK
<1>14. ASSUME NEW i \in Slots, SendNothing(i) PROVE TypeInv'
  <2>1. ThreadsInv' /\ LoopOK' /\ SlotsOK'
    BY <1>14, <1>1, DisconnectsType DEF SendNothing, Sends
  <2> QED BY <1>14, <2>1
          DEF SendNothing, TypeInv, TypeOK, ThreadsInv, TableOK, RegistryOK, HistoryOK
<1> QED BY <1>3, <1>4, <1>5, <1>6, <1>7, <1>8, <1>9, <1>10, <1>11, <1>12, <1>13, <1>14 DEF Loop

\* A step of the executor of the sensors' requests.
LEMMA SensorRequestsType ==
  ASSUME TypeInv, SensorRequests
  PROVE  TypeInv'
<1> USE DEF slotVars, loopVars, registry, sensorVars, adminVars, StatementWorks
<1> DEFINE r == Head(queue)
<1>1. TypeOK /\ "executor" \in Threads /\ client("executor") \in Slots
      /\ request["executor"] \in Requests
  BY RequestType DEF TypeInv, Threads
<1>2. queue # <<>> => r \in Requests /\ r.client \in Slots /\ Tail(queue) \in Seq(Requests)
  <2>1. queue # <<>> => Head(queue) \in Requests /\ Tail(queue) \in Seq(Requests)
    BY <1>1, HeadTailProperties DEF TypeOK
  <2> QED BY <2>1 DEF Requests
<1>3. StatementRaises => dbErrors' \in 0 .. MaxDbErrors
  BY <1>1, ServerAssumption DEF StatementRaises, TypeOK, HistoryOK
<1> HIDE DEF r
<1>4. CASE ExecuteMeasurement
  <2>1. r.from \in Connections \cup {NoConnection} /\ queue' \in Seq(Requests)
    BY <1>4, <1>2 DEF ExecuteMeasurement, Takes, Requests
  <2>2. stored' \subseteq Sensors \X (Connections \cup {NoConnection})
    BY <1>4, <1>1, <1>2, <2>1
       DEF ExecuteMeasurement, Takes, r, TypeOK, RegistryOK, HistoryOK
  <2>3. HistoryOK'
    BY <1>4, <1>1, <1>3, <2>2 DEF ExecuteMeasurement, TypeOK, HistoryOK
  <2> QED BY <1>4, <1>1, <2>1, <2>3
          DEF ExecuteMeasurement, TypeInv, TypeOK, CommandNoted, TableOK, SlotsOK, RegistryOK,
              ThreadsOK, LoopOK
<1>5. CASE ExecuteConnected
  <2>1. r \in Requests /\ queue' \in Seq(Requests)
    BY <1>5, <1>2 DEF ExecuteConnected, Takes
  <2>2. ThreadsInv'
    BY <1>5, <1>1, <2>1, WorkType DEF ExecuteConnected, r, Labels, Messages, Rejections
  <2>3. HistoryOK'
    BY <1>5, <1>1, <1>3 DEF ExecuteConnected, TypeOK, HistoryOK
  <2> QED BY <1>5, <1>1, <2>1, <2>2, <2>3
          DEF ExecuteConnected, TypeInv, TypeOK, ThreadsInv, TableOK, SlotsOK, RegistryOK, LoopOK
<1>6. CASE CheckActive
  <2>1. ThreadsInv'
    <3>1. CASE Finish("executor", "pop")
      BY <1>6, <1>1, <3>1, FinishType DEF CheckActive, Labels
    <3>2. CASE Goto("executor", "add") /\ Keep
      BY <1>6, <1>1, <3>2, GotoType DEF CheckActive, Keep, Labels
    <3>3. CASE Goto("executor", "check") /\ Work("executor", request["executor"], "active")
      BY <1>6, <1>1, <3>3, WorkType DEF CheckActive, Labels, Messages, Rejections
    <3> QED BY <1>6, <3>1, <3>2, <3>3 DEF CheckActive
  <2>2. HistoryOK'
    BY <1>6, <1>1, <1>3 DEF CheckActive, TypeOK, HistoryOK
  <2> QED BY <1>6, <1>1, <2>1, <2>2
          DEF CheckActive, TypeInv, TypeOK, ThreadsInv, TableOK, SlotsOK, RegistryOK, LoopOK
<1>7. CASE AddSensor
  <2>1. ThreadsInv'
    BY <1>7, <1>1, FinishType, GotoType DEF AddSensor, Keep, Labels
  <2>2. TableOK'
    BY <1>7, <1>1 DEF AddSensor, TypeOK, TableOK, Statuses
  <2>3. HistoryOK'
    BY <1>7, <1>1, <1>3 DEF AddSensor, TypeOK, HistoryOK
  <2> QED BY <1>7, <1>1, <2>1, <2>2, <2>3
          DEF AddSensor, TypeInv, TypeOK, ThreadsInv, SlotsOK, RegistryOK, LoopOK
<1>8. CASE Register
  <2>1. ThreadsInv'
    BY <1>8, <1>1, WorkType DEF Register, Labels, Messages
  <2>2. RegistryOK'
    BY <1>8, <1>1 DEF Register, TypeOK, RegistryOK, Requests
  <2> QED BY <1>8, <1>1, <2>1, <2>2
          DEF Register, TypeInv, TypeOK, ThreadsInv, TableOK, SlotsOK, LoopOK, HistoryOK
<1>9. CASE ExecuteDisconnected
  <2>1. r \in Requests /\ queue' \in Seq(Requests)
    BY <1>9, <1>2 DEF ExecuteDisconnected, Takes
  <2>2. ThreadsInv'
    BY <1>9, <1>1, <2>1, WorkType DEF ExecuteDisconnected, r, Labels, Messages
  <2>3. TableOK'
    BY <1>9, <1>1 DEF ExecuteDisconnected, Deactivate, TypeOK, TableOK, Statuses
  <2>4. HistoryOK'
    BY <1>9, <1>1, <1>3 DEF ExecuteDisconnected, TypeOK, HistoryOK
  <2> QED BY <1>9, <1>1, <2>1, <2>2, <2>3, <2>4
          DEF ExecuteDisconnected, TypeInv, TypeOK, ThreadsInv, SlotsOK, RegistryOK, LoopOK
<1>10. CASE EraseRegistration
  <2>1. ThreadsInv'
    BY <1>10, <1>1, FinishType DEF EraseRegistration, Labels
  <2>2. RegistryOK'
    BY <1>10, <1>1 DEF EraseRegistration, TypeOK, RegistryOK
  <2> QED BY <1>10, <1>1, <2>1, <2>2
          DEF EraseRegistration, TypeInv, TypeOK, ThreadsInv, TableOK, SlotsOK, LoopOK, HistoryOK
<1> QED BY <1>4, <1>5, <1>6, <1>7, <1>8, <1>9, <1>10 DEF SensorRequests

\* A step of the executor of the administrator's commands.
LEMMA AdministratorRequestsType ==
  ASSUME TypeInv, AdministratorRequests
  PROVE  TypeInv'
<1> USE DEF slotVars, loopVars, registry, sensorVars, adminVars, StatementWorks
<1>1. TypeOK /\ "admin" \in Threads /\ request["admin"] \in Requests
  BY RequestType DEF TypeInv, Threads
<1>2. TakesCommand => commands' \in 0 .. MaxCommands
  BY <1>1, ServerAssumption DEF TakesCommand, TypeOK, HistoryOK
<1>3. StatementRaises => dbErrors' \in 0 .. MaxDbErrors
  BY <1>1, ServerAssumption DEF StatementRaises, TypeOK, HistoryOK
<1>4. ASSUME NEW s \in Sensors, GenerateToken(s) PROVE TypeInv'
  <2>1. TableOK'
    BY <1>4, <1>1 DEF GenerateToken, TypeOK, TableOK, Statuses
  <2>2. HistoryOK'
    BY <1>4, <1>1, <1>2, <1>3 DEF GenerateToken, TypeOK, HistoryOK
  <2> QED BY <1>4, <1>1, <2>1, <2>2
          DEF GenerateToken, TypeInv, TypeOK, CommandNoted, SlotsOK, RegistryOK, ThreadsOK, LoopOK
<1>5. ASSUME NEW s \in Sensors, NEW type \in {"revoke", "disconnect"}, ExecuteCommand(type, s)
      PROVE  TypeInv'
  <2>1. CommandStatus(type, s) \in [Sensors -> Statuses]
    BY <1>1 DEF CommandStatus, TypeOK, TableOK, Statuses
  <2>2. TableOK'
    BY <1>5, <1>1, <2>1 DEF ExecuteCommand, TypeOK, TableOK
  <2>3. commanded' \subseteq Sensors
    BY <1>5, <1>1 DEF ExecuteCommand, TypeOK, HistoryOK
  <2>4. HistoryOK'
    BY <1>5, <1>1, <1>2, <1>3, <2>3 DEF ExecuteCommand, TypeOK, HistoryOK
  <2>5. ThreadsOK' /\ CommandNoted'
    <3> DEFINE r == Request(type, 0, s, NoConnection)
    <3>1. r \in Requests /\ r.token = s
      BY SlotZero DEF Request, Requests, RequestTypes
    <3>2. CASE UNCHANGED <<pc, request, message>>
      BY <1>5, <1>1, <3>2 DEF ExecuteCommand, TakesCommand, TypeOK, ThreadsOK, CommandNoted
    <3>3. ASSUME NEW m \in Messages, Goto("admin", "lookup"), Work("admin", r, m),
                 s \in commanded'
          PROVE  ThreadsOK' /\ CommandNoted'
      <4> HIDE DEF r
      <4> QED BY <3>1, <3>3, <1>1 DEF Goto, Work, TypeOK, ThreadsOK, CommandNoted, Labels, Threads
    <3> QED BY <1>5, <3>2, <3>3 DEF ExecuteCommand, Messages, Rejections
  <2> QED BY <1>5, <1>1, <2>2, <2>4, <2>5
          DEF ExecuteCommand, TypeInv, TypeOK, SlotsOK, RegistryOK, LoopOK
<1>6. CASE LookUp
  <2> DEFINE s == request["admin"].token
             i == IF sensorToClientId[s] = NoSlot THEN 0 ELSE sensorToClientId[s]
  <2>1. s \in commanded /\ s \in Sensors
    BY <1>6, <1>1 DEF LookUp, TypeInv, CommandNoted, TypeOK, HistoryOK
  <2>2. i \in Slots
    BY <1>1, <2>1, SlotZero DEF TypeOK, RegistryOK
  <2>3. RegistryOK'
    BY <1>6, <1>1, <2>2 DEF LookUp, TypeOK, RegistryOK
  <2>4. request' \in [Threads -> Requests] /\ request'["admin"].token = s
    <3>1. request' = [request EXCEPT !["admin"] = [request["admin"] EXCEPT !.client = i]]
      BY <1>6 DEF LookUp
    <3>2. [request["admin"] EXCEPT !.client = i] \in Requests
      BY <1>1, <2>2 DEF Requests
    <3>3. [request["admin"] EXCEPT !.client = i].token = s
      BY <1>1 DEF Requests
    <3> HIDE DEF i
    <3> QED BY <1>1, <3>1, <3>2, <3>3 DEF TypeOK, ThreadsOK
  <2>5. ThreadsOK' /\ CommandNoted'
    BY <1>6, <1>1, <2>1, <2>4 DEF LookUp, Goto, TypeOK, ThreadsOK, CommandNoted, Labels
  <2> QED BY <1>6, <1>1, <2>3, <2>5
          DEF LookUp, TypeInv, TypeOK, TableOK, SlotsOK, LoopOK, HistoryOK
<1>7. CASE Respond
  <2>1. ThreadsInv'
    BY <1>7, <1>1, FinishType DEF Respond, Labels
  <2>2. RegistryOK'
    BY <1>7, <1>1 DEF Respond, TypeOK, RegistryOK
  <2> QED BY <1>7, <1>1, <2>1, <2>2
          DEF Respond, TypeInv, TypeOK, ThreadsInv, TableOK, SlotsOK, LoopOK, HistoryOK
<1> QED BY <1>4, <1>5, <1>6, <1>7 DEF AdministratorRequests

LEMMA StepType == TypeInv /\ [Next]_vars => TypeInv'
<1> SUFFICES ASSUME TypeInv, [Next]_vars PROVE TypeInv'
  OBVIOUS
<1>1. CASE UNCHANGED vars
  BY <1>1 DEF vars, slotVars, loopVars, registry, sensorVars, adminVars, TypeInv, TypeOK,
              CommandNoted, TableOK, SlotsOK, RegistryOK, ThreadsOK, LoopOK, HistoryOK
<1> QED BY <1>1, LoopType, SensorRequestsType, AdministratorRequestsType, CallsType DEF Next

LEMMA TypeInvariant == Spec => []TypeInv
BY InitType, StepType, PTL DEF Spec

\* Every variable keeps its type, whatever the threads interleave: the type
\* invariant holds of every server.
THEOREM TypeCorrect == Spec => []TypeOK
<1>1. TypeInv => TypeOK
  BY DEF TypeInv
<1> QED BY <1>1, TypeInvariant, PTL

=============================================================================
