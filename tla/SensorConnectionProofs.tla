------------------------ MODULE SensorConnectionProofs ------------------------
(***************************************************************************)
(* The slots and their connections: a slot in use is never given away, and *)
(* as long as no executor has closed a connection, every open connection   *)
(* is served, select() does not fail, no dead session is forgotten, every  *)
(* measurement is stored for the sensor that sent it, none that waits is   *)
(* lost once one of its connection has been stored, and who is refused as  *)
(* already active was refused for a session that was there.                *)
(***************************************************************************)
EXTENDS SensorServerProofs

Closing == {"release", "clear", "report"}

\* Only an executor that has closed a connection is about to release its slot.
ClosersKill == \A t \in Threads \ {"network"} : pc[t] \in Closing => killed

\* The slot chosen for the next connection is still free when it is taken.
ChosenFree ==
  pc["network"] \in {"select", "accept"} =>
    freeHandler = NoSlot \/ (freeHandler \in Slots /\ socket[freeHandler] = NoConnection)

AcceptsIntoSlot == pc["network"] = "accept" => freeHandler \in Slots

Bound(i) == socket[i] # NoConnection

\* The network thread is between socket_close and Client::reset of slot i.
Releasing(i) == pc["network"] = "release" /\ client("network") = i

\* What holds of the slots while only the network thread closes connections.
Quiet ==
  /\ \A i, j \in Slots : Bound(i) /\ socket[i] = socket[j] => i = j
  /\ \A i \in Slots : Bound(i) => socket[i] \in accepted /\ listener[i]
  /\ \A i \in Slots : Bound(i) /\ ~Releasing(i) => socket[i] \in open
  /\ \A i \in Slots : Releasing(i) => socket[i] \notin open
  /\ \A c \in open : \E i \in Slots : socket[i] = c
  /\ pc["network"] = "clear" => ~Bound(client("network"))
  /\ pc["network"] = "select" => readyIn \cup readyOut \subseteq open
  /\ pc["network"] # "selectFailed"

ConnectionInv ==
  TypeInv /\ ClosersKill /\ ChosenFree /\ AcceptsIntoSlot /\ (~killed => Quiet)

slots == <<socket, listener, open, accepted>>

\* A step of an executor that closes nothing.
LEMMA ExecutorFrame ==
  ASSUME ConnectionInv, TypeInv', ClosersKill',
         UNCHANGED <<slots, freeHandler, readyIn, readyOut, killed>>,
         UNCHANGED <<pc["network"], request["network"]>>
  PROVE  ConnectionInv'
BY DEF ConnectionInv, ChosenFree, AcceptsIntoSlot, Quiet, Bound, Releasing, client, slots

Watched == {"select", "accept", "release", "clear", "selectFailed"}

\* A step of the network thread that leaves the slots alone and goes to a place
\* the invariant says nothing of.
LEMMA NetworkFrame ==
  ASSUME ConnectionInv, TypeInv', ClosersKill', UNCHANGED <<slots, killed>>,
         pc["network"] # "release", pc'["network"] \notin Watched
  PROVE  ConnectionInv'
BY DEF ConnectionInv, ChosenFree, AcceptsIntoSlot, Quiet, Bound, Releasing, slots, Watched

\* The network thread is no executor: its steps leave theirs where they are.
LEMMA NetworkClosers ==
  ASSUME ConnectionInv, killed => killed',
         \A t \in Threads \ {"network"} : pc'[t] = pc[t]
  PROVE  ClosersKill'
BY DEF ConnectionInv, ClosersKill

LEMMA ExecutorCalls ==
  ASSUME ConnectionInv, TypeInv', NEW t \in Threads \ {"network"}, Calls(t)
  PROVE  ConnectionInv'
<1> USE DEF slots, slotVars, loopVars, sensorVars
<1>1. TypeOK /\ ThreadsOK /\ SlotsOK
  BY DEF ConnectionInv, TypeInv, TypeOK
<1>2. pc'["network"] = pc["network"] /\ request'["network"] = request["network"]
  BY <1>1 DEF Calls, Check, Insert, Flush, DisconnectClient, Release, Clear, Report, AfterSend,
              AfterDisconnect, Finish, Goto, Work, Keep, ThreadsOK, Threads
<1>3. \A u \in Threads \ {t} : pc'[u] = pc[u]
  BY <1>1 DEF Calls, Check, Insert, Flush, DisconnectClient, Release, Clear, Report, AfterSend,
              AfterDisconnect, Finish, Goto, ThreadsOK
<1>4. CASE killed'
  <2>1. ClosersKill'
    BY <1>4 DEF ClosersKill
  <2>2. ChosenFree' /\ AcceptsIntoSlot'
    <3>1. freeHandler' = freeHandler
      BY DEF Calls, Check, Insert, Flush, DisconnectClient, Release, Clear, Report
    <3>2. \A i \in Slots : socket[i] = NoConnection => socket'[i] = NoConnection
      BY <1>1 DEF Calls, Check, Insert, Flush, DisconnectClient, Release, Clear, Report, SlotsOK
    <3> QED BY <1>2, <3>1, <3>2 DEF ConnectionInv, ChosenFree, AcceptsIntoSlot
  <2> QED BY <1>4, <2>1, <2>2 DEF ConnectionInv
<1>5. CASE ~killed'
  <2>1. killed => killed'
    BY DEF Calls, Check, Insert, Flush, DisconnectClient, Release, Clear, Report
  <2>2. ~killed /\ pc[t] \notin Closing
    BY <1>5, <2>1 DEF ConnectionInv, ClosersKill
  <2>3. pc'[t] \notin Closing
    BY <1>5, <1>1, <2>2 DEF Calls, Check, Insert, Flush, DisconnectClient, Release, Clear, Report,
       AfterSend, AfterDisconnect, Finish, Goto, ThreadsOK, Threads, Closing
  <2>4. UNCHANGED <<slots, freeHandler, readyIn, readyOut, killed>>
    BY <1>5, <2>2 DEF Calls, Check, Insert, Flush, DisconnectClient, Release, Clear, Report,
       Closing
  <2>5. ClosersKill'
    BY <1>3, <2>3, <2>4 DEF ConnectionInv, ClosersKill
  <2> QED BY <1>2, <2>4, <2>5, ExecutorFrame
<1> QED BY <1>4, <1>5

LEMMA ExecutorsKeep ==
  ASSUME ConnectionInv, TypeInv', SensorRequests \/ AdministratorRequests
  PROVE  ConnectionInv'
<1> USE DEF slots, slotVars, loopVars, sensorVars
<1>1. ThreadsOK
  BY DEF ConnectionInv, TypeInv, TypeOK
<1>2. /\ pc'["network"] = pc["network"] /\ request'["network"] = request["network"]
      /\ \A t \in Threads \ {"network"} : pc'[t] = pc[t] \/ pc'[t] \notin Closing
  BY <1>1 DEF SensorRequests, AdministratorRequests, ExecuteMeasurement, ExecuteConnected,
     CheckActive, AddSensor, Register, ExecuteDisconnected, EraseRegistration, GenerateToken,
     ExecuteCommand, LookUp, Respond, Finish, Goto, Work, Keep, ThreadsOK, Threads, Closing
<1>3. UNCHANGED <<slots, freeHandler, readyIn, readyOut, killed>>
  BY DEF SensorRequests, AdministratorRequests, ExecuteMeasurement, ExecuteConnected, CheckActive,
     AddSensor, Register, ExecuteDisconnected, EraseRegistration, GenerateToken, ExecuteCommand,
     LookUp, Respond
<1>4. ClosersKill'
  BY <1>2, <1>3 DEF ConnectionInv, ClosersKill
<1> QED BY <1>2, <1>3, <1>4, ExecutorFrame

\* disconnectHandler of the network thread: the connection of slot i is closed,
\* and no other.
LEMMA CloseKeeps ==
  ASSUME ConnectionInv, TypeInv', ClosersKill', NEW i \in Slots, Bound(i), CloseSocket(i),
         UNCHANGED <<socket, listener, accepted, killed>>,
         pc["network"] # "release", pc'["network"] = "release", client("network")' = i
  PROVE  ConnectionInv'
<1>1. ChosenFree' /\ AcceptsIntoSlot'
  BY DEF ChosenFree, AcceptsIntoSlot
<1>2. ASSUME ~killed PROVE Quiet'
  <2> USE <1>2 DEF ConnectionInv, Quiet, Bound, Releasing
  <2>1. \A k \in Slots : Bound(k) /\ k # i => socket[k] \in open /\ socket[k] # socket[i]
    OBVIOUS
  <2>2. \A k \in Slots : Releasing(k)' <=> k = i
    OBVIOUS
  <2>3. \A k \in Slots : Bound(k)' /\ ~Releasing(k)' => socket'[k] \in open'
    BY <2>1, <2>2 DEF CloseSocket
  <2>4. \A c \in open' : \E k \in Slots : socket'[k] = c
    BY DEF CloseSocket
  <2>5. \A k \in Slots : Releasing(k)' => socket'[k] \notin open'
    BY <2>2 DEF CloseSocket
  <2> QED BY <2>2, <2>3, <2>4, <2>5
<1> QED BY <1>1, <1>2 DEF ConnectionInv

LEMMA NetworkCalls ==
  ASSUME ConnectionInv, TypeInv', Calls("network")
  PROVE  ConnectionInv'
<1> USE DEF slots, slotVars, loopVars, sensorVars
<1>1. /\ TypeInv /\ ThreadsOK /\ SlotsOK /\ resume \in {"receive", "send"}
      /\ "network" \in Threads /\ client("network") \in Slots
  BY RequestType DEF ConnectionInv, TypeInv, TypeOK, LoopOK, Threads
<1>2. ClosersKill'
  <2>1. \A t \in Threads \ {"network"} : pc'[t] = pc[t]
    BY <1>1 DEF Calls, Check, Insert, Flush, DisconnectClient, Release, Clear, Report, AfterSend,
                AfterDisconnect, Finish, Goto, ThreadsOK
  <2>2. killed' = killed
    BY DEF Calls, Check, Insert, Flush, DisconnectClient, Release, Clear, Report
  <2> QED BY <2>1, <2>2, NetworkClosers
<1>3. CASE Check("network") \/ Insert("network") \/ Flush("network") \/ Report("network")
  <2>1. pc["network"] # "release" /\ UNCHANGED <<slots, killed>>
    BY <1>3 DEF Check, Insert, Flush, Report
  <2>2. pc'["network"] \notin Watched
    BY <1>3, <1>1 DEF Check, Insert, Flush, Report, AfterSend, AfterDisconnect, Finish, Goto,
                      ThreadsOK, Watched
  <2> QED BY <1>2, <2>1, <2>2, NetworkFrame
<1>4. CASE DisconnectClient("network")
  <2>1. CASE Bound(client("network"))
    <3>1. pc'["network"] = "release" /\ client("network")' = client("network")
      BY <1>4, <1>1, <2>1 DEF DisconnectClient, Bound, Goto, Keep, ThreadsOK, client
    <3> QED BY <1>4, <1>1, <1>2, <2>1, <3>1, CloseKeeps DEF DisconnectClient, Bound
  <2>2. CASE ~Bound(client("network"))
    <3>1. pc'["network"] \notin Watched
      BY <1>4, <1>1, <2>2 DEF DisconnectClient, Bound, AfterDisconnect, Finish, Goto, ThreadsOK,
                              Watched
    <3> QED BY <1>4, <1>2, <2>2, <3>1, NetworkFrame DEF DisconnectClient, Bound
  <2> QED BY <2>1, <2>2
<1>5. CASE Release("network")
  <2> DEFINE i == client("network")
  <2>1. pc["network"] = "release" /\ pc'["network"] = "clear" /\ client("network")' = i
    BY <1>5, <1>1 DEF Release, Goto, ThreadsOK, client
  <2>2. socket'[i] = NoConnection /\ \A k \in Slots \ {i} : socket'[k] = socket[k]
    BY <1>5, <1>1 DEF Release, SlotsOK
  <2>3. ChosenFree' /\ AcceptsIntoSlot'
    BY <2>1 DEF ChosenFree, AcceptsIntoSlot
  <2>4. ASSUME ~killed PROVE Quiet'
    <3> USE <2>4, <1>1 DEF ConnectionInv
    <3>1. socket[i] \notin open /\ \A k \in Slots \ {i} : Bound(k) => socket[k] \in open
      BY <2>1 DEF Quiet, Releasing
    <3>2. \A c \in open : \E k \in Slots \ {i} : socket[k] = c
      BY <3>1 DEF Quiet
    <3>3. UNCHANGED <<listener, open, accepted>>
      BY <1>5 DEF Release
    <3> HIDE DEF i
    <3>4. \A k, j \in Slots : Bound(k)' /\ socket'[k] = socket'[j] => k = j
      BY <2>2 DEF Quiet, Bound
    <3>5. \A k \in Slots : Bound(k)' => socket'[k] \in accepted' /\ listener'[k]
      BY <2>2, <3>3 DEF Quiet, Bound
    <3>6. \A k \in Slots : Bound(k)' => socket'[k] \in open'
      BY <2>2, <3>1, <3>3 DEF Bound
    <3>7. \A c \in open' : \E k \in Slots : socket'[k] = c
      BY <2>2, <3>2, <3>3
    <3> QED BY <2>1, <2>2, <3>4, <3>5, <3>6, <3>7 DEF Quiet, Bound, Releasing
  <2> QED BY <1>5, <1>2, <2>3, <2>4 DEF ConnectionInv, Release
<1>6. CASE Clear("network")
  <2> DEFINE i == client("network")
  <2>1. pc["network"] = "clear" /\ pc'["network"] = "report"
    BY <1>6, <1>1 DEF Clear, Goto, ThreadsOK
  <2>2. \A k \in Slots \ {i} : listener'[k] = listener[k]
    BY <1>6, <1>1 DEF Clear, SlotsOK
  <2>3. ASSUME ~killed PROVE Quiet'
    <3>1. UNCHANGED <<socket, open, accepted>>
      BY <1>6 DEF Clear
    <3>2. \A k \in Slots : Bound(k) => k # i
      BY <2>1, <2>3 DEF ConnectionInv, Quiet
    <3> QED BY <2>1, <2>2, <2>3, <3>1, <3>2 DEF ConnectionInv, Quiet, Bound, Releasing
  <2> QED BY <1>6, <1>2, <2>1, <2>3 DEF ConnectionInv, Clear, ChosenFree, AcceptsIntoSlot
<1> QED BY <1>3, <1>4, <1>5, <1>6 DEF Calls

LEMMA LoopKeeps ==
  ASSUME ConnectionInv, TypeInv', Loop
  PROVE  ConnectionInv'
<1> USE DEF slots, slotVars, loopVars, sensorVars
<1>1. /\ TypeInv /\ ThreadsOK /\ SlotsOK /\ LoopOK /\ "network" \in Threads
  BY DEF ConnectionInv, TypeInv, TypeOK, Threads
<1>2. killed' = killed
  BY DEF Loop, Prepare, Select, AcceptFails, Enqueue, Accept, Connected, ReceiveInit, ReceiveMeasure,
         ReceiveUnknown, ReceiveEnd, ReceiveBadLength, SendPending, SendNothing
<1>3. ClosersKill'
  <2>1. \A t \in Threads \ {"network"} : pc'[t] = pc[t]
    BY <1>1 DEF Loop, Prepare, Select, AcceptFails, Enqueue, Accept, Connected, ReceiveInit, ReceiveMeasure,
         ReceiveUnknown, ReceiveEnd, ReceiveBadLength, SendPending, SendNothing, Hand, Disconnects,
         Finish, Goto, ThreadsOK
  <2> QED BY <1>2, <2>1, NetworkClosers
<1>4. CASE Prepare
  <2>1. pc'["network"] = "select" /\ pc["network"] \in {"receive", "send"} /\ UNCHANGED slots
    BY <1>4, <1>1 DEF Prepare, Goto, ThreadsOK
  <2>2. freeHandler' = NoSlot \/ (freeHandler' \in Slots /\ socket'[freeHandler'] = NoConnection)
    <3>1. freeHandler' = getFreeHandler
      BY <1>4 DEF Prepare
    <3>2. CASE FreeHandlers = {}
      BY <3>1, <3>2 DEF getFreeHandler
    <3>3. CASE FreeHandlers # {}
      <4>1. getFreeHandler \in FreeHandlers
        BY <3>3, FreeHandlerLeast
      <4> QED BY <2>1, <3>1, <4>1 DEF FreeHandlers
    <3> QED BY <3>2, <3>3
  <2>3. ChosenFree' /\ AcceptsIntoSlot'
    BY <2>1, <2>2 DEF ChosenFree, AcceptsIntoSlot
  <2>4. ASSUME ~killed PROVE Quiet'
    <3>1. \A i \in Slots : Bound(i) => socket[i] \in open
      BY <2>1, <2>4 DEF ConnectionInv, Quiet, Releasing
    <3>2. readyIn' \cup readyOut' \subseteq open
      BY <1>4, <3>1 DEF Prepare, Readable, Writable, FreeHandlers, Bound
    <3> QED BY <2>1, <2>4, <3>2 DEF ConnectionInv, Quiet, Bound, Releasing
  <2> QED BY <1>2, <1>3, <2>3, <2>4 DEF ConnectionInv
<1>5. CASE Select
  <2>1. pc["network"] = "select" /\ UNCHANGED <<slots, freeHandler>>
    BY <1>5 DEF Select
  <2>2. CASE pc'["network"] = "receive"
    BY <1>2, <1>3, <2>1, <2>2, NetworkFrame DEF Watched
  <2>3. CASE pc'["network"] = "accept"
    <3>1. freeHandler # NoSlot
      BY <1>5, <1>1, <2>3 DEF Select, Goto, ThreadsOK
    <3>2. ChosenFree' /\ AcceptsIntoSlot'
      BY <2>1, <3>1 DEF ConnectionInv, ChosenFree, AcceptsIntoSlot
    <3>3. ~killed => Quiet'
      BY <2>1, <2>3 DEF ConnectionInv, Quiet, Bound, Releasing
    <3> QED BY <1>2, <1>3, <3>2, <3>3 DEF ConnectionInv
  <2>4. CASE pc'["network"] = "selectFailed"
    <3>1. killed
      BY <1>5, <1>1, <2>1, <2>4 DEF Select, Goto, ThreadsOK, ConnectionInv, Quiet
    <3> QED BY <1>2, <1>3, <2>4, <3>1 DEF ConnectionInv, ChosenFree, AcceptsIntoSlot
  <2> QED BY <1>5, <1>1, <2>2, <2>3, <2>4 DEF Select, Goto, ThreadsOK
<1>6. ASSUME NEW c \in Connections, Accept(c) PROVE ConnectionInv'
  <2> DEFINE f == freeHandler
  <2>1. pc["network"] = "accept" /\ pc'["network"] = "receive" /\ c \notin accepted
    BY <1>6, <1>1 DEF Accept, Connected, Goto, ThreadsOK
  <2>2. f \in Slots /\ ~Bound(f)
    BY <2>1, SlotZero DEF ConnectionInv, ChosenFree, AcceptsIntoSlot, Bound
  <2>3. /\ socket'[f] = c /\ listener'[f]
        /\ \A k \in Slots \ {f} : socket'[k] = socket[k] /\ listener'[k] = listener[k]
    BY <1>6, <1>1, <2>2 DEF Accept, Connected, SlotsOK
  <2>4. open' = open \cup {c} /\ accepted' = accepted \cup {c} /\ c # NoConnection
    BY <1>6, ServerAssumption DEF Accept, Connected
  <2>5. ASSUME ~killed PROVE Quiet'
    <3> HIDE DEF f
    <3>1. Quiet
      BY <2>5 DEF ConnectionInv
    <3>2. \A i \in Slots : Bound(i) => socket[i] # c
      BY <2>1, <3>1 DEF Quiet
    <3>3. \A i, j \in Slots : Bound(i)' /\ socket'[i] = socket'[j] => i = j
      BY <2>2, <2>3, <2>4, <3>1, <3>2 DEF Quiet, Bound
    <3>4. \A i \in Slots : Bound(i)' => socket'[i] \in accepted' /\ listener'[i]
      BY <2>2, <2>3, <2>4, <3>1 DEF Quiet, Bound
    <3>5. \A i \in Slots : Bound(i)' => socket'[i] \in open'
      BY <2>1, <2>2, <2>3, <2>4, <3>1 DEF Quiet, Bound, Releasing
    <3>6. \A d \in open' : \E i \in Slots : socket'[i] = d
      <4>1. ASSUME NEW d \in open PROVE \E i \in Slots : socket'[i] = d
        <5>1. PICK i \in Slots : socket[i] = d
          BY <3>1 DEF Quiet
        <5>2. d # NoConnection
          BY <1>1, ServerAssumption DEF SlotsOK
        <5>3. i # f
          BY <2>2, <5>1, <5>2 DEF Bound
        <5> QED BY <2>3, <5>1, <5>3
      <4> QED BY <2>2, <2>3, <2>4, <4>1
    <3> QED BY <2>1, <3>3, <3>4, <3>5, <3>6 DEF Quiet, Releasing
  <2> QED BY <1>2, <1>3, <2>1, <2>5 DEF ConnectionInv, ChosenFree, AcceptsIntoSlot
<1>7. CASE Enqueue \/ AcceptFails
  BY <1>7, <1>1, <1>3, NetworkFrame
     DEF Enqueue, AcceptFails, Finish, Goto, ThreadsOK, Watched
<1>8. ASSUME NEW i \in Slots,
             \/ \E s \in Sensors : ReceiveInit(i, s)
             \/ ReceiveMeasure(i) \/ ReceiveUnknown(i) \/ ReceiveBadLength(i) \/ SendPending(i)
      PROVE  ConnectionInv'
  <2>1. UNCHANGED slots /\ pc["network"] \in {"receive", "send"}
    BY <1>8 DEF ReceiveInit, ReceiveMeasure, ReceiveUnknown, ReceiveBadLength, SendPending,
                Receives, Sends
  <2>2. pc'["network"] \notin Watched
    BY <1>8, <1>1 DEF ReceiveInit, ReceiveMeasure, ReceiveUnknown, ReceiveBadLength, SendPending,
                      Hand, Goto, ThreadsOK, Watched
  <2> QED BY <1>2, <1>3, <2>1, <2>2, NetworkFrame
<1>9. ASSUME NEW i \in Slots, ReceiveEnd(i) \/ SendNothing(i) PROVE ConnectionInv'
  <2>1. Bound(i) /\ pc["network"] \in {"receive", "send"}
    BY <1>9, <1>1, ServerAssumption DEF ReceiveEnd, SendNothing, Receives, Sends, Bound, LoopOK
  <2>2. pc'["network"] = "release" /\ client("network")' = i /\ CloseSocket(i)
    BY <1>9, <1>1 DEF ReceiveEnd, SendNothing, Disconnects, Goto, Work, Request, ThreadsOK, client
  <2>3. UNCHANGED <<socket, listener, accepted>>
    BY <1>9 DEF ReceiveEnd, SendNothing
  <2> QED BY <1>2, <1>3, <2>1, <2>2, <2>3, CloseKeeps
<1> QED BY <1>4, <1>5, <1>6, <1>7, <1>8, <1>9 DEF Loop

LEMMA InitConnection == Init => ConnectionInv
<1> SUFFICES ASSUME Init PROVE ConnectionInv
  OBVIOUS
<1>1. TypeInv
  BY InitType
<1>2. ClosersKill /\ ChosenFree /\ AcceptsIntoSlot
  BY DEF Init, ClosersKill, ChosenFree, AcceptsIntoSlot, Threads, Closing
<1>3. Quiet
  BY DEF Init, Quiet, Bound, Releasing, Threads
<1> QED BY <1>1, <1>2, <1>3 DEF ConnectionInv

LEMMA ConnectionInvariant == Spec => []ConnectionInv
<1>1. Init => ConnectionInv
  BY InitConnection
<1>2. ConnectionInv /\ [Next]_vars => ConnectionInv'
  <2> SUFFICES ASSUME ConnectionInv, [Next]_vars PROVE ConnectionInv'
    OBVIOUS
  <2>1. TypeInv'
    BY StepType DEF ConnectionInv
  <2>2. CASE UNCHANGED vars
    BY <2>1, <2>2, ExecutorFrame
       DEF vars, slotVars, loopVars, sensorVars, slots, ConnectionInv, ClosersKill
  <2>3. ASSUME NEW t \in Threads, Calls(t) PROVE ConnectionInv'
    BY <2>1, <2>3, NetworkCalls, ExecutorCalls
  <2> QED BY <2>1, <2>2, <2>3, LoopKeeps, ExecutorsKeep DEF Next
<1> QED BY <1>1, <1>2, PTL DEF Spec

\* Until an executor closes a connection, every open connection is in exactly
\* one slot and that slot hands its messages on.
THEOREM ConnectionsServed == Spec => []OpenConnectionsServed
<1>1. ConnectionInv => OpenConnectionsServed
  <2> SUFFICES ASSUME ConnectionInv, ~killed, NEW c \in open
               PROVE  \E i \in Slots :
                        socket[i] = c /\ listener[i] /\ \A j \in Slots \ {i} : socket[j] # c
    BY DEF OpenConnectionsServed
  <2>1. c # NoConnection
    BY ServerAssumption DEF ConnectionInv, TypeInv, TypeOK, SlotsOK
  <2>2. PICK i \in Slots : socket[i] = c
    BY DEF ConnectionInv, Quiet
  <2> QED BY <2>1, <2>2 DEF ConnectionInv, Quiet, Bound
<1> QED BY <1>1, ConnectionInvariant, PTL

\* select() fails only after an executor has closed a connection.
THEOREM SelectSafe == Spec => []SelectFailsOnlyOnKill
<1>1. ConnectionInv => SelectFailsOnlyOnKill
  BY DEF ConnectionInv, Quiet, SelectFailsOnlyOnKill
<1> QED BY <1>1, ConnectionInvariant, PTL

\* No step gives a slot in use to another connection, kills or not.
THEOREM SlotsKept == Spec => SlotsNotRebound
<1> DEFINE Kept ==
      \A i \in Slots : socket[i] # NoConnection => socket'[i] \in {socket[i], NoConnection}
<1>1. ConnectionInv /\ [Next]_vars => [Kept]_socket
  <2> SUFFICES ASSUME ConnectionInv, [Next]_vars PROVE [Kept]_socket
    OBVIOUS
  <2>1. SlotsOK
    BY DEF ConnectionInv, TypeInv, TypeOK
  <2>2. ASSUME NEW c \in Connections, Accept(c) PROVE Kept
    BY <2>2, <2>1, SlotZero DEF Accept, Connected, ConnectionInv, ChosenFree, AcceptsIntoSlot, SlotsOK
  <2>3. ASSUME NEW t \in Threads, Calls(t) PROVE [Kept]_socket
    BY <2>3, <2>1 DEF Calls, Check, Insert, Flush, DisconnectClient, Release, Clear, Report,
                      SlotsOK, slotVars
  <2>4. CASE UNCHANGED vars
    BY <2>4 DEF vars, slotVars
  <2>5. CASE SensorRequests \/ AdministratorRequests
    BY <2>5 DEF SensorRequests, AdministratorRequests, ExecuteMeasurement, ExecuteConnected,
       CheckActive, AddSensor, Register, ExecuteDisconnected, EraseRegistration, GenerateToken,
       ExecuteCommand, LookUp, Respond, slotVars
  <2>6. CASE Loop /\ ~\E c \in Connections : Accept(c)
    BY <2>6 DEF Loop, Prepare, Select, AcceptFails, Enqueue, ReceiveInit, ReceiveMeasure,
       ReceiveUnknown, ReceiveEnd, ReceiveBadLength, SendPending, SendNothing, slotVars
  <2> QED BY <2>2, <2>3, <2>4, <2>5, <2>6 DEF Next
<1> QED BY <1>1, ConnectionInvariant, PTL DEF Spec, SlotsNotRebound

-----------------------------------------------------------------------------
(* Sessions.  The requests of a slot name no connection, yet they are those  *)
(* of one connection after the other: between two of different connections   *)
(* there is a disconnection.                                                 *)

\* A request that a connection sent.
Carried(r) == r.type \in {"connected", "measure"}

Presented(r) ==
  /\ r.from \in Connections
  /\ r.type = "connected" => r.token \in Sensors /\ token[r.from] = r.token

Ends(k, i) == queue[k].type = "disconnected" /\ queue[k].client = i

\* The network thread has released slot i and is yet to report it.
NetworkCloses(i) == pc["network"] \in {"clear", "report"} /\ client("network") = i

\* What follows the k-th place of the queue is of connection c, as far as slot i is
\* concerned, until a disconnection of i; and c has left the slot only if there is one.
Followed(i, c, k) ==
  /\ \/ socket[i] = c
     \/ NetworkCloses(i)
     \/ \E j \in 1 .. Len(queue) : k < j /\ Ends(j, i)
  /\ \A l \in 1 .. Len(queue) :
       (k < l /\ Carried(queue[l]) /\ queue[l].client = i) =>
         queue[l].from = c \/ \E j \in 1 .. Len(queue) : k < j /\ j < l /\ Ends(j, i)

QueuePresented == \A k \in 1 .. Len(queue) : Carried(queue[k]) => Presented(queue[k])

QueueInOrder ==
  \A k \in 1 .. Len(queue), i \in Slots, c \in Connections :
    (Carried(queue[k]) /\ queue[k].client = i /\ queue[k].from = c) => Followed(i, c, k)

\* The request the network thread is about to queue is of the connection in its slot.
NetworkInOrder ==
  LET r == request["network"] IN
  pc["network"] \in {"check", "insert", "flush", "enqueue"} =>
    Carried(r) /\ Presented(r) /\ socket[r.client] = r.from

\* What the executor is about to register comes before all that is queued.
ExecutorInOrder ==
  LET r == request["executor"] IN
  pc["executor"] \in {"contains", "add", "register"} =>
    /\ r.type = "connected" /\ Presented(r)
    /\ \A i \in Slots, c \in Connections : (r.client = i /\ r.from = c) => Followed(i, c, 0)

Erasing(i) == pc["executor"] = "erase" /\ client("executor") = i

\* So does what it has registered.
SessionsInOrder ==
  \A i \in Slots, s \in Sensors :
    Registered(i, s) => Erasing(i) \/ \E c \in Connections : token[c] = s /\ Followed(i, c, 0)

StoredPresented == \A m \in stored : m[2] \in Connections /\ token[m[2]] = m[1]

Calm == ~killed /\ dbErrors = 0

InOrder ==
  /\ QueuePresented /\ QueueInOrder /\ NetworkInOrder /\ ExecutorInOrder /\ SessionsInOrder
  /\ StoredPresented

SessionInv == ConnectionInv /\ (Calm => InOrder)

-----------------------------------------------------------------------------

\* A push by the network thread
LEMMA FollowedPush ==
  ASSUME TypeInv, NEW i \in Slots, NEW c \in Connections, NEW k \in 0 .. Len(queue),
         Followed(i, c, k), NEW r \in Requests, queue' = Append(queue, r), socket' = socket,
         (Carried(r) /\ r.client = i) => socket[i] = r.from /\ ~NetworkCloses(i),
         NetworkCloses(i) => r.type = "disconnected" /\ r.client = i
  PROVE  Followed(i, c, k)'
<1>1. queue \in Seq(Requests) /\ Len(queue) \in Nat
  BY DEF TypeInv, TypeOK
<1>2. /\ Len(queue') = Len(queue) + 1 /\ queue'[Len(queue) + 1] = r
      /\ \A l \in 1 .. Len(queue) : queue'[l] = queue[l]
  BY <1>1
<1>3. \A l \in 1 .. Len(queue) : Ends(l, i)' <=> Ends(l, i)
  BY <1>2 DEF Ends
<1>4. ASSUME NetworkCloses(i) PROVE \E j \in 1 .. Len(queue') : k < j /\ Ends(j, i)'
  BY <1>1, <1>2, <1>4 DEF Ends
<1>5. \/ socket'[i] = c \/ NetworkCloses(i)'
      \/ \E j \in 1 .. Len(queue') : k < j /\ Ends(j, i)'
  BY <1>1, <1>2, <1>3, <1>4 DEF Followed
<1>6. ASSUME NEW l \in 1 .. Len(queue'), k < l, Carried(queue'[l]), queue'[l].client = i
      PROVE  queue'[l].from = c \/ \E j \in 1 .. Len(queue') : k < j /\ j < l /\ Ends(j, i)'
  <2>1. CASE l \in 1 .. Len(queue)
    BY <1>1, <1>2, <1>3, <1>6, <2>1 DEF Followed
  <2>2. CASE l = Len(queue) + 1
    BY <1>1, <1>2, <1>3, <1>6, <2>2 DEF Followed
  <2> QED BY <1>1, <1>2, <2>1, <2>2
<1> QED BY <1>5, <1>6 DEF Followed

\* A request is popped: every place is one nearer.
LEMMA FollowedPop ==
  ASSUME TypeInv, NEW i \in Slots, NEW c \in Connections, NEW k \in Nat,
         Followed(i, c, k + 1), queue # <<>>, queue' = Tail(queue), socket' = socket,
         NetworkCloses(i) => NetworkCloses(i)'
  PROVE  Followed(i, c, k)'
<1>1. queue \in Seq(Requests) /\ Len(queue) \in Nat \ {0}
  BY DEF TypeInv, TypeOK
<1>2. Len(queue') = Len(queue) - 1 /\ \A l \in 1 .. Len(queue') : queue'[l] = queue[l + 1]
  BY <1>1
<1>3. \A l \in 1 .. Len(queue') : Ends(l, i)' <=> Ends(l + 1, i)
  BY <1>2 DEF Ends
<1>4. ASSUME NEW j \in 1 .. Len(queue), k + 1 < j
      PROVE  j - 1 \in 1 .. Len(queue') /\ k < j - 1 /\ (j - 1) + 1 = j
  BY <1>1, <1>2, <1>4
<1>5. \/ socket'[i] = c \/ NetworkCloses(i)'
      \/ \E j \in 1 .. Len(queue') : k < j /\ Ends(j, i)'
  BY <1>3, <1>4 DEF Followed
<1>6. ASSUME NEW l \in 1 .. Len(queue'), k < l, Carried(queue'[l]), queue'[l].client = i
      PROVE  queue'[l].from = c \/ \E j \in 1 .. Len(queue') : k < j /\ j < l /\ Ends(j, i)'
  <2>1. l + 1 \in 1 .. Len(queue) /\ k + 1 < l + 1 /\ queue'[l] = queue[l + 1]
    BY <1>1, <1>2, <1>6
  <2>2. CASE queue[l + 1].from = c
    BY <2>1, <2>2
  <2>3. CASE \E j \in 1 .. Len(queue) : k + 1 < j /\ j < l + 1 /\ Ends(j, i)
    <3>1. PICK j \in 1 .. Len(queue) : k + 1 < j /\ j < l + 1 /\ Ends(j, i)
      BY <2>3
    <3>2. j - 1 < l /\ Ends(j - 1, i)'
      BY <1>3, <1>4, <3>1
    <3> QED BY <1>4, <3>1, <3>2
  <2> QED BY <1>6, <2>1, <2>2, <2>3 DEF Followed
<1> QED BY <1>5, <1>6 DEF Followed

\* A step of the network thread: what follows a place still does, and what it pushes
\* is of the connection in the slot.
LEMMA NetworkSession ==
  ASSUME SessionInv, Calm, ConnectionInv',
         UNCHANGED <<clientToSensorId, stored, pc["executor"], request["executor"]>>,
         \A c \in Connections : token[c] # NoSensor => token'[c] = token[c],
         \A i \in Slots, c \in Connections, k \in 0 .. Len(queue) :
           Followed(i, c, k) => Followed(i, c, k)',
         \/ queue' = queue
         \/ \E r \in Requests :
              /\ queue' = Append(queue, r)
              /\ Carried(r) => Presented(r) /\ socket'[r.client] = r.from,
         NetworkInOrder'
  PROVE  SessionInv'
<1>1. InOrder /\ queue \in Seq(Requests) /\ Len(queue) \in Nat
  BY DEF SessionInv, ConnectionInv, TypeInv, TypeOK
<1>2. ASSUME NEW r, Presented(r) PROVE Presented(r)'
  BY <1>2, ServerAssumption DEF Presented
<1>3. /\ Len(queue') \in {Len(queue), Len(queue) + 1}
      /\ \A k \in 1 .. Len(queue) : queue'[k] = queue[k]
      /\ \A k \in 1 .. Len(queue') : k \notin 1 .. Len(queue) =>
           /\ k = Len(queue')
           /\ Carried(queue'[k]) => /\ Presented(queue'[k])
                                    /\ socket'[queue'[k].client] = queue'[k].from
  BY <1>1
<1>4. QueuePresented'
  <2> SUFFICES ASSUME NEW k \in 1 .. Len(queue'), NEW r, r = queue'[k], Carried(r)
               PROVE  Presented(r)'
    BY DEF QueuePresented, Carried, Presented
  <2>1. Presented(r)
    BY <1>1, <1>3 DEF InOrder, QueuePresented
  <2> QED BY <1>2, <2>1
<1>5. QueueInOrder'
  <2> SUFFICES ASSUME NEW k \in 1 .. Len(queue'), NEW i \in Slots, NEW c \in Connections,
                      Carried(queue'[k]), queue'[k].client = i, queue'[k].from = c
               PROVE  Followed(i, c, k)'
    BY DEF QueueInOrder, Carried
  <2>1. CASE k \in 1 .. Len(queue)
    BY <1>1, <1>3, <2>1 DEF InOrder, QueueInOrder
  <2>2. CASE k \notin 1 .. Len(queue)
    <3>1. socket'[i] = c /\ k = Len(queue')
      BY <1>3, <2>2
    <3>2. \A l \in 1 .. Len(queue') : ~ (k < l)
      BY <1>1, <1>3, <3>1
    <3> QED BY <3>1, <3>2 DEF Followed
  <2> QED BY <2>1, <2>2
<1>6. ExecutorInOrder'
  <2>1. \A i \in Slots, c \in Connections : Followed(i, c, 0) => Followed(i, c, 0)'
    BY <1>1
  <2> QED BY <1>1, <1>2, <2>1, ServerAssumption DEF InOrder, ExecutorInOrder, Presented
<1>7. SessionsInOrder'
  <2> SUFFICES ASSUME NEW i \in Slots, NEW s \in Sensors, Registered(i, s), ~Erasing(i)
               PROVE  \E c \in Connections : token'[c] = s /\ Followed(i, c, 0)'
    BY DEF SessionsInOrder, Registered, Erasing, client
  <2>1. PICK c \in Connections : token[c] = s /\ Followed(i, c, 0)
    BY <1>1 DEF InOrder, SessionsInOrder
  <2>2. token'[c] = s /\ Followed(i, c, 0)'
    BY <1>1, <2>1, ServerAssumption
  <2> QED BY <2>2
<1>8. StoredPresented'
  <2>1. \A m \in stored : m[1] \in Sensors
    BY DEF SessionInv, ConnectionInv, TypeInv, TypeOK, HistoryOK
  <2> QED BY <1>1, <2>1, ServerAssumption DEF InOrder, StoredPresented
<1> QED BY <1>4, <1>5, <1>6, <1>7, <1>8 DEF SessionInv, InOrder

\* A step of an executor that takes nothing from the queue and changes no registration.
LEMMA ExecutorSession ==
  ASSUME SessionInv, Calm, ConnectionInv',
         UNCHANGED <<queue, socket, token, clientToSensorId, stored>>,
         UNCHANGED <<pc["network"], request["network"]>>,
         pc'["executor"] \in {"contains", "add", "register"} =>
           /\ pc["executor"] \in {"contains", "add", "register"}
           /\ request'["executor"] = request["executor"],
         \A i \in Slots : Erasing(i) => Erasing(i)'
  PROVE  SessionInv'
<1>1. InOrder
  BY DEF SessionInv
<1>2. \A i \in Slots, c \in Connections, k \in Nat : Followed(i, c, k) => Followed(i, c, k)'
  BY DEF Followed, Ends, NetworkCloses, client
<1>3. QueuePresented' /\ NetworkInOrder' /\ StoredPresented'
  BY <1>1 DEF InOrder, QueuePresented, NetworkInOrder, StoredPresented, Presented
<1>4. QueueInOrder'
  <2>1. Len(queue) \in Nat
    BY DEF SessionInv, ConnectionInv, TypeInv, TypeOK
  <2> QED BY <1>1, <1>2, <2>1 DEF InOrder, QueueInOrder
<1>5. ExecutorInOrder'
  BY <1>1, <1>2 DEF InOrder, ExecutorInOrder, Presented
<1>6. SessionsInOrder'
  BY <1>1, <1>2 DEF InOrder, SessionsInOrder, Registered
<1> QED BY <1>3, <1>4, <1>5, <1>6 DEF SessionInv, InOrder

\* The executor takes the first request.
LEMMA TakeSession ==
  ASSUME SessionInv, Calm, queue # <<>>, queue' = Tail(queue), UNCHANGED <<socket, token>>,
         UNCHANGED <<pc["network"], request["network"]>>
  PROVE  /\ QueuePresented' /\ QueueInOrder' /\ NetworkInOrder'
         /\ \A i \in Slots, c \in Connections :
              Followed(i, c, 1) \/ (Followed(i, c, 0) /\ ~Ends(1, i)) => Followed(i, c, 0)'
<1>1. TypeInv /\ InOrder /\ queue \in Seq(Requests) /\ Len(queue) \in Nat \ {0}
  BY DEF SessionInv, ConnectionInv, TypeInv, TypeOK
<1>2. Len(queue') = Len(queue) - 1 /\ \A l \in 1 .. Len(queue') : queue'[l] = queue[l + 1]
  BY <1>1
<1>3. \A i \in Slots, c \in Connections, k \in Nat : Followed(i, c, k + 1) => Followed(i, c, k)'
  <2>1. \A i \in Slots : NetworkCloses(i) => NetworkCloses(i)'
    BY DEF NetworkCloses, client
  <2> QED BY <1>1, <2>1, FollowedPop
<1>4. QueuePresented'
  <2> SUFFICES ASSUME NEW k \in 1 .. Len(queue'), NEW r, r = queue'[k], Carried(r)
               PROVE  Presented(r)'
    BY DEF QueuePresented, Carried, Presented
  <2>1. k + 1 \in 1 .. Len(queue) /\ r = queue[k + 1]
    BY <1>1, <1>2
  <2> QED BY <1>1, <2>1 DEF InOrder, QueuePresented, Presented
<1>5. QueueInOrder'
  <2> SUFFICES ASSUME NEW k \in 1 .. Len(queue'), NEW i \in Slots, NEW c \in Connections,
                      Carried(queue'[k]), queue'[k].client = i, queue'[k].from = c
               PROVE  Followed(i, c, k)'
    BY DEF QueueInOrder, Carried
  <2>1. k + 1 \in 1 .. Len(queue) /\ queue'[k] = queue[k + 1] /\ k \in Nat
    BY <1>1, <1>2
  <2>2. Followed(i, c, k + 1)
    BY <1>1, <2>1 DEF InOrder, QueueInOrder
  <2> QED BY <1>3, <2>1, <2>2
<1>6. NetworkInOrder'
  BY <1>1 DEF InOrder, NetworkInOrder, Presented
<1>7. ASSUME NEW i \in Slots, NEW c \in Connections, Followed(i, c, 0), ~Ends(1, i)
      PROVE  Followed(i, c, 1)
  <2>1. \A j \in 1 .. Len(queue) : Ends(j, i) => 1 < j
    BY <1>1, <1>7
  <2> QED BY <1>1, <1>7, <2>1 DEF Followed
<1> QED BY <1>3, <1>4, <1>5, <1>6, <1>7

\* An executor that sends, and closes nothing
LEMMA CallsSession ==
  ASSUME SessionInv, Calm, Calm', ConnectionInv', NEW t \in Threads \ {"network"}, Calls(t)
  PROVE  SessionInv'
<1> USE DEF slotVars, loopVars, sensorVars, registry
<1>1. TypeInv /\ ThreadsOK /\ "executor" \in Threads
  BY DEF SessionInv, ConnectionInv, TypeInv, TypeOK, Threads
<1>2. pc[t] \notin Closing
  BY DEF SessionInv, ConnectionInv, ClosersKill, Calm
<1>3. UNCHANGED <<queue, socket, token, clientToSensorId, stored>>
  BY <1>2 DEF Calls, Check, Insert, Flush, DisconnectClient, Release, Clear, Report, Closing
<1>4. pc'["network"] = pc["network"] /\ request'["network"] = request["network"]
  BY <1>1 DEF Calls, Check, Insert, Flush, DisconnectClient, Release, Clear, Report, AfterSend,
              AfterDisconnect, Finish, Goto, Work, Keep, ThreadsOK, Threads
<1>5. CASE t = "executor"
  <2>1. /\ pc["executor"] # "erase"
        /\ pc'["executor"] \notin {"contains", "add", "register"}
    BY <1>2, <1>5, <1>1 DEF Calls, Check, Insert, Flush, DisconnectClient, Release, Clear, Report,
       AfterSend, AfterDisconnect, Finish, Goto, Closing, ThreadsOK
  <2> QED BY <1>3, <1>4, <2>1, ExecutorSession DEF Erasing
<1>6. CASE t # "executor"
  <2>1. pc'["executor"] = pc["executor"] /\ request'["executor"] = request["executor"]
    BY <1>6, <1>1 DEF Calls, Check, Insert, Flush, DisconnectClient, Release, Clear, Report,
       AfterSend, AfterDisconnect, Finish, Goto, Work, Keep, ThreadsOK, Threads
  <2> QED BY <1>3, <1>4, <2>1, ExecutorSession DEF Erasing, client
<1> QED BY <1>5, <1>6

LEMMA AdministratorSession ==
  ASSUME SessionInv, Calm, ConnectionInv', AdministratorRequests
  PROVE  SessionInv'
<1> USE DEF slotVars, loopVars, sensorVars, registry
<1>1. ThreadsOK /\ "executor" \in Threads
  BY DEF SessionInv, ConnectionInv, TypeInv, TypeOK, Threads
<1>2. UNCHANGED <<queue, socket, token, clientToSensorId, stored>>
  BY DEF AdministratorRequests, GenerateToken, ExecuteCommand, LookUp, Respond
<1>3. \A t \in Threads \ {"admin"} : pc'[t] = pc[t] /\ request'[t] = request[t]
  BY <1>1 DEF AdministratorRequests, GenerateToken, ExecuteCommand, LookUp, Respond, Finish, Goto,
              Work, ThreadsOK
<1>4. /\ pc'["network"] = pc["network"] /\ request'["network"] = request["network"]
      /\ pc'["executor"] = pc["executor"] /\ request'["executor"] = request["executor"]
  BY <1>3 DEF Threads
<1> QED BY <1>2, <1>4, ExecutorSession DEF Erasing, client

LEMMA SensorRequestsSession ==
  ASSUME SessionInv, Calm, Calm', ConnectionInv', SensorRequests
  PROVE  SessionInv'
<1> USE DEF slotVars, loopVars, sensorVars, registry
<1>1. /\ TypeInv /\ ThreadsOK /\ RegistryOK /\ InOrder /\ "executor" \in Threads
      /\ queue \in Seq(Requests) /\ dbErrors \in Nat
  BY DEF SessionInv, ConnectionInv, TypeInv, TypeOK, HistoryOK, Threads
<1>2. pc'["network"] = pc["network"] /\ request'["network"] = request["network"]
  BY <1>1 DEF SensorRequests, ExecuteMeasurement, ExecuteConnected, CheckActive, AddSensor, Register,
              ExecuteDisconnected, EraseRegistration, Finish, Goto, Work, Keep, ThreadsOK, Threads
<1>3. dbErrors' = dbErrors
  BY DEF Calm
<1>4. UNCHANGED <<socket, token>>
  BY DEF SensorRequests, ExecuteMeasurement, ExecuteConnected, CheckActive, AddSensor, Register,
         ExecuteDisconnected, EraseRegistration
<1>5. ASSUME queue # <<>>
      PROVE  /\ Head(queue) = queue[1] /\ 1 \in 1 .. Len(queue)
             /\ queue[1].client \in Slots
  <2>1. Head(queue) = queue[1] /\ 1 \in 1 .. Len(queue)
    BY <1>1, <1>5
  <2>2. queue[1] \in Requests
    BY <1>1, <2>1
  <2> QED BY <2>1, <2>2 DEF Requests
<1>6. CASE ExecuteMeasurement
  <2> DEFINE r == queue[1]
  <2>1. /\ queue # <<>> /\ queue' = Tail(queue) /\ Head(queue).type = "measure"
        /\ UNCHANGED <<clientToSensorId, pc, request>>
    BY <1>6 DEF ExecuteMeasurement, Takes
  <2>2. \A i \in Slots : ~Ends(1, i)
    BY <1>5, <2>1 DEF Ends
  <2>3. ExecutorInOrder' /\ SessionsInOrder'
    <3>1. \A i \in Slots, c \in Connections : Followed(i, c, 0) => Followed(i, c, 0)'
      BY <1>2, <1>4, <2>1, <2>2, TakeSession
    <3> QED BY <1>1, <1>4, <2>1, <3>1
            DEF InOrder, ExecutorInOrder, SessionsInOrder, Presented, Registered, Erasing, client
  <2>4. StoredPresented'
    <3>1. CASE stored' = stored
      BY <1>4, <1>1, <3>1 DEF InOrder, StoredPresented
    <3>2. CASE stored' # stored
      <4> DEFINE s == clientToSensorId[r.client]
      <4>1. s \in Sensors /\ stored' = stored \cup {<<s, r.from>>}
        BY <1>6, <1>5, <1>1, <2>1, <3>2 DEF ExecuteMeasurement, RegistryOK
      <4>2. Registered(r.client, s) /\ ~Erasing(r.client)
        BY <1>6 DEF ExecuteMeasurement, Takes, Registered, Erasing
      <4>3. PICK c \in Connections : token[c] = s /\ Followed(r.client, c, 0)
        BY <1>5, <1>1, <2>1, <4>1, <4>2 DEF InOrder, SessionsInOrder
      <4>4. r.from = c
        <5>1. Carried(r)
          BY <1>5, <2>1 DEF Carried
        <5>2. ~ \E j \in 1 .. Len(queue) : 0 < j /\ j < 1 /\ Ends(j, r.client)
          OBVIOUS
        <5> HIDE DEF r
        <5>3. \A l \in 1 .. Len(queue) :
                (0 < l /\ Carried(queue[l]) /\ queue[l].client = r.client) =>
                   queue[l].from = c \/ \E j \in 1 .. Len(queue) : 0 < j /\ j < l /\ Ends(j, r.client)
          BY <4>3 DEF Followed
        <5> QED BY <1>5, <2>1, <5>1, <5>2, <5>3 DEF r
      <4> HIDE DEF s
      <4>5. \A m \in stored' : m \in stored \/ (m[1] = s /\ m[2] = c)
        BY <4>1, <4>4
      <4> QED BY <1>4, <1>1, <4>3, <4>5 DEF InOrder, StoredPresented
    <3> QED BY <3>1, <3>2
  <2> QED BY <1>2, <1>4, <2>1, <2>3, <2>4, TakeSession DEF SessionInv, InOrder
<1>7. CASE ExecuteConnected
  <2> DEFINE r == queue[1]
  <2>1. /\ queue # <<>> /\ queue' = Tail(queue) /\ Head(queue).type = "connected"
        /\ UNCHANGED <<clientToSensorId, stored>> /\ pc["executor"] = "pop"
    BY <1>7 DEF ExecuteConnected, Takes
  <2>2. \A i \in Slots : ~Ends(1, i)
    BY <1>5, <2>1 DEF Ends
  <2>3. \A i \in Slots, c \in Connections :
          Followed(i, c, 1) \/ Followed(i, c, 0) => Followed(i, c, 0)'
    BY <1>2, <1>4, <2>1, <2>2, TakeSession
  <2>4. SessionsInOrder' /\ StoredPresented'
    BY <1>1, <1>4, <2>1, <2>3
       DEF InOrder, SessionsInOrder, StoredPresented, Registered, Erasing
  <2>5. ExecutorInOrder'
    <3>1. SUFFICES ASSUME pc'["executor"] \in {"contains", "add", "register"}
                   PROVE  ExecutorInOrder'
      BY DEF ExecutorInOrder
    <3>2. request'["executor"] = r
      BY <1>7, <1>5, <1>1, <2>1, <3>1 DEF ExecuteConnected, Goto, Work, ThreadsOK
    <3>3. Carried(r) /\ r.type = "connected"
      BY <1>5, <2>1 DEF Carried
    <3>4. Presented(r)
      BY <1>5, <1>1, <2>1, <3>3 DEF InOrder, QueuePresented
    <3>5. \A i \in Slots, c \in Connections :
            (r.client = i /\ r.from = c) => Followed(i, c, 1)
      BY <1>5, <1>1, <2>1, <3>3 DEF InOrder, QueueInOrder
    <3> HIDE DEF r
    <3> QED BY <1>4, <2>3, <3>2, <3>3, <3>4, <3>5 DEF ExecutorInOrder, Presented
  <2> QED BY <1>2, <1>4, <2>1, <2>4, <2>5, TakeSession DEF SessionInv, InOrder
<1>8. CASE CheckActive \/ AddSensor
  <2>1. UNCHANGED <<queue, clientToSensorId, stored>>
    BY <1>8 DEF CheckActive, AddSensor
  <2>2. pc["executor"] \in {"contains", "add"}
    BY <1>8 DEF CheckActive, AddSensor
  <2>3. pc'["executor"] \in {"contains", "add", "register"} =>
          request'["executor"] = request["executor"]
    BY <1>8, <1>1 DEF CheckActive, AddSensor, Finish, Goto, Work, Keep, ThreadsOK
  <2> QED BY <1>2, <1>4, <2>1, <2>2, <2>3, ExecutorSession DEF Erasing
<1>9. CASE Register
  <2> DEFINE r == request["executor"]
  <2>1. /\ pc["executor"] = "register" /\ pc'["executor"] = "check" /\ r.client \in Slots
        /\ UNCHANGED <<queue, stored>>
    BY <1>9, <1>1, RequestType DEF Register, Goto, ThreadsOK, client
  <2>2. r.type = "connected" /\ Presented(r) /\ Followed(r.client, r.from, 0)
    BY <1>1, <2>1 DEF InOrder, ExecutorInOrder, Presented
  <2>3. clientToSensorId' = [clientToSensorId EXCEPT ![r.client] = r.token]
    BY <1>9 DEF Register
  <2>4. token[r.from] = r.token /\ r.from \in Connections
    BY <2>2 DEF Presented
  <2> HIDE DEF r
  <2>5. \A i \in Slots, c \in Connections, k \in Nat : Followed(i, c, k) => Followed(i, c, k)'
    BY <1>2, <1>4, <2>1 DEF Followed, Ends, NetworkCloses, client
  <2>6. SessionsInOrder'
    <3> SUFFICES ASSUME NEW i \in Slots, NEW s \in Sensors, Registered(i, s)'
                 PROVE  \E c \in Connections : token[c] = s /\ Followed(i, c, 0)'
      BY <1>4 DEF SessionsInOrder
    <3>1. CASE i = r.client
      BY <1>1, <2>2, <2>3, <2>4, <2>5, <3>1 DEF RegistryOK, Registered
    <3>2. CASE i # r.client
      <4>1. Registered(i, s) /\ ~Erasing(i)
        BY <1>1, <2>1, <2>3, <3>2 DEF RegistryOK, Registered, Erasing
      <4> QED BY <1>1, <2>5, <4>1 DEF InOrder, SessionsInOrder
    <3> QED BY <3>1, <3>2
  <2>7. QueuePresented' /\ NetworkInOrder' /\ StoredPresented' /\ ExecutorInOrder'
    BY <1>2, <1>4, <1>1, <2>1
       DEF InOrder, QueuePresented, NetworkInOrder, StoredPresented, ExecutorInOrder, Presented
  <2>8. QueueInOrder'
    BY <1>1, <2>1, <2>5 DEF InOrder, QueueInOrder
  <2> QED BY <2>6, <2>7, <2>8 DEF SessionInv, InOrder
<1>10. CASE ExecuteDisconnected
  <2>1. /\ queue # <<>> /\ queue' = Tail(queue) /\ Head(queue).type = "disconnected"
        /\ UNCHANGED <<clientToSensorId, stored>> /\ pc["executor"] = "pop"
        /\ pc'["executor"] \in {"pop", "erase"}
    BY <1>10, <1>1 DEF ExecuteDisconnected, Takes, Goto, ThreadsOK
  <2>2. ExecutorInOrder' /\ StoredPresented'
    BY <1>4, <1>1, <2>1 DEF InOrder, ExecutorInOrder, StoredPresented
  <2>3. SessionsInOrder'
    <3> SUFFICES ASSUME NEW i \in Slots, NEW s \in Sensors, Registered(i, s), ~Erasing(i)'
                 PROVE  \E c \in Connections : token[c] = s /\ Followed(i, c, 0)'
      BY <1>4, <2>1 DEF SessionsInOrder, Registered
    <3>1. PICK c \in Connections : token[c] = s /\ Followed(i, c, 0)
      BY <1>1, <2>1 DEF InOrder, SessionsInOrder, Erasing
    <3>2. i # queue[1].client
      <4>1. SUFFICES ASSUME i = queue[1].client PROVE FALSE
        OBVIOUS
      <4>2. clientToSensorId[Head(queue).client] # NoSensor
        BY <1>5, <2>1, <4>1, ServerAssumption DEF Registered
      <4>3. Goto("executor", "erase") /\ Work("executor", Head(queue), NoMessage)
        BY <1>10, <1>3, <1>1, <4>2 DEF ExecuteDisconnected, StatementRaises
      <4>4. pc'["executor"] = "erase" /\ request'["executor"].client = i
        BY <1>5, <1>1, <2>1, <4>1, <4>3 DEF Goto, Work, ThreadsOK
      <4> QED BY <4>4 DEF Erasing, client
    <3>3. ~Ends(1, i)
      BY <3>2 DEF Ends
    <3>4. Followed(i, c, 0)'
      BY <1>2, <1>4, <2>1, <3>1, <3>3, TakeSession
    <3> QED BY <3>1, <3>4
  <2> QED BY <1>2, <1>4, <2>1, <2>2, <2>3, TakeSession DEF SessionInv, InOrder
<1>11. CASE EraseRegistration
  <2> DEFINE e == client("executor")
  <2>1. /\ pc["executor"] = "erase" /\ pc'["executor"] = "pop" /\ e \in Slots
        /\ UNCHANGED <<queue, stored>>
    BY <1>11, <1>1, RequestType DEF EraseRegistration, Finish, Goto, ThreadsOK
  <2>2. clientToSensorId' = [clientToSensorId EXCEPT ![e] = NoSensor]
    BY <1>11 DEF EraseRegistration
  <2>3. \A i \in Slots, c \in Connections, k \in Nat : Followed(i, c, k) => Followed(i, c, k)'
    BY <1>2, <1>4, <2>1 DEF Followed, Ends, NetworkCloses, client
  <2>4. SessionsInOrder'
    <3> SUFFICES ASSUME NEW i \in Slots, NEW s \in Sensors, Registered(i, s)'
                 PROVE  \E c \in Connections : token[c] = s /\ Followed(i, c, 0)'
      BY <1>4 DEF SessionsInOrder
    <3>1. Registered(i, s) /\ ~Erasing(i)
      BY <1>1, <2>1, <2>2, ServerAssumption DEF RegistryOK, Registered, Erasing
    <3> QED BY <1>1, <2>3, <3>1 DEF InOrder, SessionsInOrder
  <2>5. QueuePresented' /\ NetworkInOrder' /\ StoredPresented' /\ ExecutorInOrder'
    BY <1>2, <1>4, <1>1, <2>1
       DEF InOrder, QueuePresented, NetworkInOrder, StoredPresented, ExecutorInOrder, Presented
  <2>6. QueueInOrder'
    BY <1>1, <2>1, <2>3 DEF InOrder, QueueInOrder
  <2> QED BY <2>4, <2>5, <2>6 DEF SessionInv, InOrder
<1> QED BY <1>6, <1>7, <1>8, <1>9, <1>10, <1>11 DEF SensorRequests

\* A step of the network thread that pushes nothing and leaves the slots alone
LEMMA NetworkSessionFrame ==
  ASSUME SessionInv, Calm, ConnectionInv',
         UNCHANGED <<queue, socket, clientToSensorId, stored>>,
         UNCHANGED <<pc["executor"], request["executor"]>>,
         \A c \in Connections : token[c] # NoSensor => token'[c] = token[c],
         \A i \in Slots : NetworkCloses(i) => NetworkCloses(i)',
         NetworkInOrder'
  PROVE  SessionInv'
<1>1. \A i \in Slots, c \in Connections, k \in 0 .. Len(queue) :
        Followed(i, c, k) => Followed(i, c, k)'
  BY DEF Followed, Ends
<1> QED BY <1>1, NetworkSession

LEMMA NetworkCallsSession ==
  ASSUME SessionInv, Calm, ConnectionInv', Calls("network")
  PROVE  SessionInv'
<1> USE DEF slotVars, loopVars, sensorVars, registry
<1>1. /\ TypeInv /\ ThreadsOK /\ SlotsOK /\ InOrder /\ resume \in {"receive", "send"}
      /\ "network" \in Threads /\ client("network") \in Slots
      /\ queue \in Seq(Requests)
  BY RequestType DEF SessionInv, ConnectionInv, TypeInv, TypeOK, LoopOK, Threads
<1>2. UNCHANGED <<clientToSensorId, stored, token>>
  BY DEF Calls, Check, Insert, Flush, DisconnectClient, Release, Clear, Report
<1>3. pc'["executor"] = pc["executor"] /\ request'["executor"] = request["executor"]
  BY <1>1 DEF Calls, Check, Insert, Flush, DisconnectClient, Release, Clear, Report, AfterSend,
              AfterDisconnect, Finish, Goto, Work, Keep, ThreadsOK, Threads
<1>4. CASE Check("network") \/ Insert("network") \/ Flush("network")
  <2>1. pc["network"] \in {"check", "insert", "flush"} /\ UNCHANGED <<queue, socket>>
    BY <1>4 DEF Check, Insert, Flush
  <2>2. request'["network"] = request["network"]
    BY <1>4 DEF Check, Insert, Flush, AfterSend, Keep
  <2>3. NetworkInOrder'
    BY <1>2, <1>1, <2>1, <2>2 DEF InOrder, NetworkInOrder, Presented
  <2>4. \A i \in Slots : ~NetworkCloses(i)
    BY <2>1 DEF NetworkCloses, Closing
  <2> QED BY <1>3, <1>2, <2>1, <2>3, <2>4, NetworkSessionFrame
<1>5. CASE DisconnectClient("network")
  <2>1. pc["network"] = "disconnect" /\ UNCHANGED <<queue, socket>>
    BY <1>5 DEF DisconnectClient
  <2>2. pc'["network"] \in {"release", "receive", "send"}
    BY <1>5, <1>1 DEF DisconnectClient, AfterDisconnect, Finish, Goto, ThreadsOK
  <2>3. NetworkInOrder'
    BY <2>2 DEF NetworkInOrder
  <2>4. \A i \in Slots : ~NetworkCloses(i)
    BY <2>1 DEF NetworkCloses, Closing
  <2> QED BY <1>3, <1>2, <2>1, <2>3, <2>4, NetworkSessionFrame
<1>6. CASE Release("network")
  <2> DEFINE n == client("network")
  <2>1. /\ pc["network"] = "release" /\ pc'["network"] = "clear" /\ queue' = queue
        /\ client("network")' = n
    BY <1>6, <1>1 DEF Release, Goto, ThreadsOK, client
  <2>2. \A i \in Slots \ {n} : socket'[i] = socket[i]
    BY <1>6, <1>1 DEF Release, SlotsOK
  <2>3. \A i \in Slots : ~NetworkCloses(i) /\ (NetworkCloses(i)' <=> i = n)
    BY <2>1 DEF NetworkCloses, Closing
  <2> HIDE DEF n
  <2>4. \A i \in Slots, c \in Connections, k \in 0 .. Len(queue) :
          Followed(i, c, k) => Followed(i, c, k)'
    BY <2>1, <2>2, <2>3 DEF Followed, Ends
  <2>5. NetworkInOrder'
    BY <2>1 DEF NetworkInOrder
  <2> QED BY <1>3, <1>2, <2>1, <2>4, <2>5, NetworkSession
<1>7. CASE Clear("network")
  <2>1. /\ pc["network"] = "clear" /\ pc'["network"] = "report"
        /\ client("network")' = client("network") /\ UNCHANGED <<queue, socket>>
    BY <1>7, <1>1 DEF Clear, Goto, ThreadsOK, client
  <2>2. \A i \in Slots : NetworkCloses(i) => NetworkCloses(i)'
    BY <2>1 DEF NetworkCloses, Closing
  <2>3. NetworkInOrder'
    BY <2>1 DEF NetworkInOrder
  <2> QED BY <1>3, <1>2, <2>1, <2>2, <2>3, NetworkSessionFrame
<1>8. CASE Report("network")
  <2> DEFINE r == Request("disconnected", client("network"), NoSensor, NoConnection)
  <2>1. pc["network"] = "report" /\ queue' = Append(queue, r) /\ socket' = socket
    BY <1>8 DEF Report
  <2>2. pc'["network"] \in {"receive", "send"}
    BY <1>8, <1>1 DEF Report, AfterDisconnect, Finish, Goto, ThreadsOK
  <2>3. /\ r \in Requests /\ ~Carried(r)
        /\ \A i \in Slots : NetworkCloses(i) => r.type = "disconnected" /\ r.client = i
    BY <1>1, DisconnectedType DEF Carried, Request, NetworkCloses
  <2> HIDE DEF r
  <2>4. \A i \in Slots, c \in Connections, k \in 0 .. Len(queue) :
          Followed(i, c, k) => Followed(i, c, k)'
    BY <1>1, <2>1, <2>3, FollowedPush
  <2>5. NetworkInOrder'
    BY <2>2 DEF NetworkInOrder
  <2> QED BY <1>3, <1>2, <2>1, <2>3, <2>4, <2>5, NetworkSession
<1> QED BY <1>4, <1>5, <1>6, <1>7, <1>8 DEF Calls

LEMMA LoopSession ==
  ASSUME SessionInv, Calm, ConnectionInv', Loop
  PROVE  SessionInv'
<1> USE DEF slotVars, loopVars, sensorVars, registry
<1>1. /\ TypeInv /\ ThreadsOK /\ SlotsOK /\ LoopOK /\ HistoryOK /\ InOrder /\ Quiet
      /\ "network" \in Threads /\ queue \in Seq(Requests)
  BY DEF SessionInv, ConnectionInv, TypeInv, TypeOK, Threads, Calm
<1>2. UNCHANGED <<clientToSensorId, stored>>
  BY DEF Loop, Prepare, Select, AcceptFails, Enqueue, Accept, Connected, ReceiveInit, ReceiveMeasure,
         ReceiveUnknown, ReceiveEnd, ReceiveBadLength, SendPending, SendNothing
<1>3. pc'["executor"] = pc["executor"] /\ request'["executor"] = request["executor"]
  BY <1>1 DEF Loop, Prepare, Select, AcceptFails, Enqueue, Accept, Connected, ReceiveInit,
         ReceiveMeasure, ReceiveUnknown, ReceiveEnd, ReceiveBadLength, SendPending, SendNothing, Hand,
         Disconnects, Finish, Goto, Work, Keep, ThreadsOK, Threads
<1>4. /\ pc["network"] \in {"receive", "send", "select", "accept", "enqueue"}
      /\ \A i \in Slots : ~NetworkCloses(i)
  <2>1. pc["network"] \in {"receive", "send", "select", "accept", "enqueue"}
    BY DEF Loop, Prepare, Select, AcceptFails, Enqueue, Accept, ReceiveInit, ReceiveMeasure,
           ReceiveUnknown, ReceiveEnd, ReceiveBadLength, SendPending, SendNothing, Receives, Sends
  <2> QED BY <2>1 DEF NetworkCloses, Closing
<1>5. CASE \/ Prepare \/ Select \/ AcceptFails
           \/ \E i \in Slots : \/ ReceiveUnknown(i) \/ ReceiveEnd(i) \/ ReceiveBadLength(i)
                               \/ SendPending(i) \/ SendNothing(i)
  <2>1. UNCHANGED <<queue, socket, token>>
    BY <1>5 DEF Prepare, Select, AcceptFails, ReceiveUnknown, ReceiveEnd, ReceiveBadLength,
                SendPending, SendNothing
  <2>2. pc'["network"] \notin {"check", "insert", "flush", "enqueue"}
    BY <1>5, <1>1 DEF Prepare, Select, AcceptFails, ReceiveUnknown, ReceiveEnd, ReceiveBadLength,
       SendPending, SendNothing, Hand, Disconnects, Goto, ThreadsOK
  <2>3. NetworkInOrder'
    BY <2>2 DEF NetworkInOrder
  <2> QED BY <1>3, <1>2, <1>4, <2>1, <2>3, NetworkSessionFrame
<1>6. ASSUME NEW d \in Connections, Accept(d) PROVE SessionInv'
  <2>1. pc["network"] = "accept" /\ pc'["network"] = "receive" /\ UNCHANGED <<queue, token>>
    BY <1>6, <1>1 DEF Accept, Goto, ThreadsOK
  <2>2. freeHandler \in Slots /\ socket[freeHandler] = NoConnection
    BY <2>1, SlotZero DEF SessionInv, ConnectionInv, ChosenFree, AcceptsIntoSlot
  <2>3. \A i \in Slots \ {freeHandler} : socket'[i] = socket[i]
    BY <1>6, <1>1 DEF Accept, Connected, SlotsOK
  <2>4. \A i \in Slots, c \in Connections, k \in 0 .. Len(queue) :
          Followed(i, c, k) => Followed(i, c, k)'
    BY <1>4, <2>1, <2>2, <2>3, ServerAssumption DEF Followed, Ends
  <2>5. NetworkInOrder'
    BY <2>1 DEF NetworkInOrder
  <2> QED BY <1>3, <1>2, <2>1, <2>4, <2>5, NetworkSession
<1>7. ASSUME NEW i \in Slots, NEW s \in Sensors, ReceiveInit(i, s) PROVE SessionInv'
  <2> DEFINE c == socket[i]
             r == Request("connected", i, s, c)
  <2>1. /\ UNCHANGED <<queue, socket>> /\ c \in Connections
        /\ token[c] = NoSensor /\ token' = [token EXCEPT ![c] = s]
        /\ Hand(i, r, NoMessage, "enqueue")
    BY <1>7, <1>1 DEF ReceiveInit, Receives, LoopOK
  <2>2. /\ \A d \in Connections : token[d] # NoSensor => token'[d] = token[d]
        /\ token'[c] = s
    BY <1>1, <2>1 DEF HistoryOK
  <2>3. r.type = "connected" /\ r.client = i /\ r.from = c /\ r.token = s
    BY DEF Request
  <2>4. \/ pc'["network"] = "enqueue" /\ request'["network"] = r
        \/ pc'["network"] = "receive"
    BY <1>1, <2>1 DEF Hand, Goto, Work, ThreadsOK
  <2> HIDE DEF r
  <2>5. NetworkInOrder'
    BY <2>1, <2>2, <2>3, <2>4 DEF NetworkInOrder, Carried, Presented
  <2> QED BY <1>3, <1>2, <1>4, <2>1, <2>2, <2>5, NetworkSessionFrame
<1>8. ASSUME NEW i \in Slots, ReceiveMeasure(i) PROVE SessionInv'
  <2> DEFINE c == socket[i]
             r == Request("measure", i, NoSensor, c)
  <2>1. /\ UNCHANGED <<queue, socket, token>> /\ c \in Connections
        /\ Hand(i, r, "ack", "check")
    BY <1>8, <1>1 DEF ReceiveMeasure, Receives, LoopOK
  <2>2. r.type = "measure" /\ r.client = i /\ r.from = c
    BY DEF Request
  <2>3. \/ pc'["network"] = "check" /\ request'["network"] = r
        \/ pc'["network"] = "receive"
    BY <1>1, <2>1 DEF Hand, Goto, Work, ThreadsOK
  <2> HIDE DEF r
  <2>4. NetworkInOrder'
    BY <2>1, <2>2, <2>3 DEF NetworkInOrder, Carried, Presented
  <2> QED BY <1>3, <1>2, <1>4, <2>1, <2>4, NetworkSessionFrame
<1>9. CASE Enqueue
  <2> DEFINE r == request["network"]
  <2>1. /\ pc["network"] = "enqueue" /\ pc'["network"] = "receive"
        /\ queue' = Append(queue, r) /\ UNCHANGED <<socket, token>>
    BY <1>9, <1>1 DEF Enqueue, Finish, Goto, ThreadsOK
  <2>2. r \in Requests /\ Carried(r) /\ Presented(r) /\ socket[r.client] = r.from
    BY <1>1, <2>1, RequestType DEF InOrder, NetworkInOrder
  <2> HIDE DEF r
  <2>3. \A j \in Slots, c \in Connections, k \in 0 .. Len(queue) :
          Followed(j, c, k) => Followed(j, c, k)'
    BY <1>4, <1>1, <2>1, <2>2, FollowedPush
  <2>4. NetworkInOrder'
    BY <2>1 DEF NetworkInOrder
  <2> QED BY <1>3, <1>2, <2>1, <2>2, <2>3, <2>4, NetworkSession
<1> QED BY <1>5, <1>6, <1>7, <1>8, <1>9 DEF Loop

\* What has happened once stays so: a calm state has only calm ones before it.
LEMMA CalmBefore ==
  ASSUME TypeInv, [Next]_vars, Calm'
  PROVE  Calm
<1>1. dbErrors \in Nat
  BY DEF TypeInv, TypeOK, HistoryOK
<1>2. killed => killed'
  BY DEF Next, Loop, Prepare, Select, AcceptFails, Enqueue, Accept, Connected, ReceiveInit,
     ReceiveMeasure, ReceiveUnknown, ReceiveEnd, ReceiveBadLength, SendPending, SendNothing,
     SensorRequests, ExecuteMeasurement, ExecuteConnected, CheckActive, AddSensor, Register,
     ExecuteDisconnected, EraseRegistration, AdministratorRequests, GenerateToken, ExecuteCommand,
     LookUp, Respond, Calls, Check, Insert, Flush, DisconnectClient, Release, Clear, Report, vars
<1>3. dbErrors' = dbErrors \/ dbErrors' = dbErrors + 1
  BY DEF Next, Loop, Prepare, Select, AcceptFails, Enqueue, Accept, Connected, ReceiveInit,
     ReceiveMeasure, ReceiveUnknown, ReceiveEnd, ReceiveBadLength, SendPending, SendNothing,
     SensorRequests, ExecuteMeasurement, ExecuteConnected, CheckActive, AddSensor, Register,
     ExecuteDisconnected, EraseRegistration, AdministratorRequests, GenerateToken, ExecuteCommand,
     LookUp, Respond, Calls, Check, Insert, Flush, DisconnectClient, Release, Clear, Report, vars,
     StatementWorks, StatementRaises
<1> QED BY <1>1, <1>2, <1>3 DEF Calm

LEMMA InitSession == Init => SessionInv
<1> SUFFICES ASSUME Init PROVE SessionInv
  OBVIOUS
<1>1. ConnectionInv
  BY InitConnection
<1>2. Len(queue) = 0
  BY DEF Init
<1>3. NetworkInOrder /\ ExecutorInOrder /\ StoredPresented
  BY DEF Init, NetworkInOrder, ExecutorInOrder, StoredPresented, Threads
<1>4. QueuePresented /\ QueueInOrder
  BY <1>2 DEF QueuePresented, QueueInOrder
<1>5. SessionsInOrder
  BY ServerAssumption DEF Init, SessionsInOrder, Registered
<1> QED BY <1>1, <1>3, <1>4, <1>5 DEF SessionInv, InOrder

LEMMA SessionInvariant == Spec => []SessionInv
<1>1. Init => SessionInv
  BY InitSession
<1>2. SessionInv /\ ConnectionInv' /\ [Next]_vars => SessionInv'
  <2> SUFFICES ASSUME SessionInv, ConnectionInv', [Next]_vars, Calm' PROVE SessionInv'
    BY DEF SessionInv
  <2>1. Calm
    BY CalmBefore DEF SessionInv, ConnectionInv
  <2>2. CASE UNCHANGED vars
    BY <2>1, <2>2, ExecutorSession
       DEF vars, slotVars, sensorVars, registry, Erasing, client
  <2>3. ASSUME NEW t \in Threads, Calls(t) PROVE SessionInv'
    BY <2>1, <2>3, CallsSession, NetworkCallsSession
  <2> QED BY <2>1, <2>2, <2>3, LoopSession, SensorRequestsSession, AdministratorSession DEF Next
<1> QED BY <1>1, <1>2, ConnectionInvariant, PTL DEF Spec

\* Until an executor closes a connection or a statement raises, every measurement is
\* stored for the sensor whose token its connection presented, although the request
\* names only a slot and slots are used again.
THEOREM AttributionCorrect == Spec => []MeasurementsAttributed
<1>1. SessionInv => MeasurementsAttributed
  BY DEF SessionInv, InOrder, Calm, StoredPresented, MeasurementsAttributed
<1> QED BY <1>1, SessionInvariant, PTL

LEMMA ReportedSession ==
  ASSUME SessionInv, Calm, NEW i \in Slots, NEW s \in Sensors, Registered(i, s)
  PROVE  \/ socket[i] # NoConnection /\ token[socket[i]] = s
         \/ DisconnectionPending(i)
<1>1. CASE Erasing(i)
  BY <1>1 DEF Erasing, DisconnectionPending
<1>2. CASE ~Erasing(i)
  <2>1. PICK c \in Connections : token[c] = s /\ Followed(i, c, 0)
    BY <1>2 DEF SessionInv, InOrder, SessionsInOrder
  <2> QED BY <2>1, ServerAssumption
          DEF Followed, NetworkCloses, Closing, Ends, DisconnectionPending
<1> QED BY <1>1, <1>2

\* Until then no slot stays registered for a sensor that is gone without the news of it
\* being on its way to the executor.
THEOREM SessionsReported == Spec => []DeadSessionsReported
<1>1. SessionInv => DeadSessionsReported
  BY ReportedSession DEF DeadSessionsReported, Calm
<1> QED BY <1>1, SessionInvariant, PTL

-----------------------------------------------------------------------------
(* How long a session lasts                                                  *)

\* The k-th request in the queue came over connection c by slot i.
Comes(k, i, c) == Carried(queue[k]) /\ queue[k].client = i /\ queue[k].from = c

\* Connection c is in slot i, or something it sent from there waits.
Holds(i, c) == socket[i] = c \/ \E k \in 1 .. Len(queue) : Comes(k, i, c)

\* Nothing of c is left behind place j of the queue.
Gone(i, c, j) == socket[i] # c /\ \A l \in 1 .. Len(queue) : j < l => ~Comes(l, i, c)

\* The first disconnection of slot i in the queue is the end of c.
EndsOf(i, c) == \A j \in 1 .. Len(queue) : Ends(j, i) => Gone(i, c, j)

HeardOf ==
  \A c \in Connections :
    /\ token[c] # NoSensor => c \in accepted
    /\ \A k \in 1 .. Len(queue) : Carried(queue[k]) /\ queue[k].from = c => c \in accepted

OneSlot == \A c \in Connections, i, j \in Slots : Holds(i, c) /\ Holds(j, c) => i = j

\* No connection comes back to its slot after the disconnection.
NoReturn ==
  \A i \in Slots, c \in Connections, k, j \in 1 .. Len(queue) :
    Comes(k, i, c) /\ k < j /\ Ends(j, i) => Gone(i, c, j)

ReportFree == pc["network"] = "report" => ~Bound(client("network"))

\* While a connection with a stored measurement is in its slot or has anything waiting,
\* the slot is registered for its sensor and no disconnection of the slot precedes.
StoredHeld ==
  \A i \in Slots, s \in Sensors, c \in Connections :
    <<s, c>> \in stored /\ Holds(i, c) => Registered(i, s) /\ ~Erasing(i) /\ EndsOf(i, c)

HeldInv ==
  SessionInv /\ (Calm => HeardOf /\ OneSlot /\ NoReturn /\ ReportFree /\ StoredHeld)

\* A step that adds neither requests nor connections, and takes no registration from a
\* connection that has one and is still there
LEMMA HeldFrame ==
  ASSUME HeldInv, Calm, SessionInv', UNCHANGED <<queue, stored>>, accepted \subseteq accepted',
         \A i \in Slots, c \in Connections : socket'[i] = c => socket[i] = c,
         \A c \in Connections : token'[c] # NoSensor => c \in accepted',
         ReportFree',
         \A i \in Slots, s \in Sensors, c \in Connections :
           <<s, c>> \in stored /\ Holds(i, c) /\ Registered(i, s) /\ ~Erasing(i) =>
             Registered(i, s)' /\ ~Erasing(i)'
  PROVE  HeldInv'
<1>1. HeardOf /\ OneSlot /\ NoReturn /\ StoredHeld
  BY DEF HeldInv
<1>2. /\ \A i \in Slots, c \in Connections, k \in 1 .. Len(queue) : Comes(k, i, c)' <=> Comes(k, i, c)
      /\ \A i \in Slots, k \in 1 .. Len(queue) : Ends(k, i)' <=> Ends(k, i)
  BY DEF Comes, Ends
<1>3. \A i \in Slots, c \in Connections : Holds(i, c)' => Holds(i, c)
  BY <1>2 DEF Holds
<1>4. \A i \in Slots, c \in Connections, j \in 1 .. Len(queue) : Gone(i, c, j) => Gone(i, c, j)'
  BY <1>2 DEF Gone
<1>5. HeardOf'
  BY <1>1 DEF HeardOf
<1>6. OneSlot'
  BY <1>1, <1>3 DEF OneSlot
<1>7. NoReturn'
  BY <1>1, <1>2, <1>4 DEF NoReturn
<1>8. StoredHeld'
  <2> SUFFICES ASSUME NEW i \in Slots, NEW s \in Sensors, NEW c \in Connections,
                      <<s, c>> \in stored, Holds(i, c)'
               PROVE  Registered(i, s)' /\ ~Erasing(i)' /\ EndsOf(i, c)'
    BY DEF StoredHeld
  <2>1. Holds(i, c) /\ Registered(i, s) /\ ~Erasing(i) /\ EndsOf(i, c)
    BY <1>1, <1>3 DEF StoredHeld
  <2>2. EndsOf(i, c)'
    BY <1>2, <1>4, <2>1 DEF EndsOf
  <2> QED BY <2>1, <2>2
<1> QED BY <1>5, <1>6, <1>7, <1>8 DEF HeldInv

\* The network thread pushes: a request of the connection in the slot, or the end of one
\* that has left it.
LEMMA HeldPush ==
  ASSUME HeldInv, Calm, SessionInv', NEW r \in Requests, queue' = Append(queue, r),
         UNCHANGED <<socket, token, accepted, stored, clientToSensorId>>,
         UNCHANGED <<pc["executor"], request["executor"]>>, ReportFree',
         \/ Carried(r) /\ Presented(r) /\ socket[r.client] = r.from
         \/ r.type = "disconnected" /\ socket[r.client] = NoConnection
  PROVE  HeldInv'
<1>1. /\ HeardOf /\ OneSlot /\ NoReturn /\ StoredHeld /\ Quiet
      /\ queue \in Seq(Requests) /\ Len(queue) \in Nat /\ r.client \in Slots
  BY DEF HeldInv, SessionInv, ConnectionInv, TypeInv, TypeOK, Calm, Requests
<1> PICK n \in Nat : n = Len(queue)
  BY <1>1
<1>2. /\ Len(queue') = n + 1 /\ queue'[n + 1] = r
      /\ \A k \in 1 .. n : queue'[k] = queue[k]
  BY <1>1
<1>3. /\ n \in Nat /\ 1 .. Len(queue') = 1 .. (n + 1)
      /\ \A k \in 1 .. (n + 1) : k \in 1 .. n \/ k = n + 1
      /\ \A k \in 1 .. (n + 1) : ~ (n + 1 < k)
      /\ \A k \in 1 .. (n + 1), j \in 1 .. n : k < j => k \in 1 .. n
  BY <1>1, <1>2
<1>4. /\ \A i \in Slots, c \in Connections, k \in 1 .. n : Comes(k, i, c)' <=> Comes(k, i, c)
      /\ \A i \in Slots, k \in 1 .. n : Ends(k, i)' <=> Ends(k, i)
  BY <1>2 DEF Comes, Ends
<1>5. \A i \in Slots, c \in Connections : Comes(n + 1, i, c)' => socket[i] = c
  BY <1>2 DEF Comes, Carried
<1>6. \A i \in Slots : Ends(n + 1, i)' => socket[i] = NoConnection
  BY <1>2 DEF Ends, Carried
<1>7. \A i \in Slots, c \in Connections : Holds(i, c)' => Holds(i, c)
  BY <1>3, <1>4, <1>5 DEF Holds
<1>8. \A i \in Slots, c \in Connections : Ends(n + 1, i)' => Gone(i, c, n + 1)'
  BY <1>3, <1>6, ServerAssumption DEF Gone
<1>9. \A i \in Slots, c \in Connections, j \in 1 .. n : Gone(i, c, j) => Gone(i, c, j)'
  BY <1>3, <1>4, <1>5 DEF Gone
<1>10. HeardOf'
  <2> SUFFICES ASSUME NEW c \in Connections, NEW k \in 1 .. Len(queue'), Carried(queue'[k]),
                      queue'[k].from = c
               PROVE  c \in accepted
    BY <1>1 DEF HeardOf, Carried
  <2>1. CASE k \in 1 .. n
    BY <1>1, <1>2, <2>1 DEF HeardOf
  <2>2. CASE k = n + 1
    <3>1. socket[r.client] = c
      BY <1>2, <2>2 DEF Carried
    <3> QED BY <1>1, <3>1, ServerAssumption DEF Quiet, Bound
  <2> QED BY <1>3, <2>1, <2>2
<1>11. OneSlot'
  BY <1>1, <1>7 DEF OneSlot
<1>12. NoReturn'
  <2> SUFFICES ASSUME NEW i \in Slots, NEW c \in Connections, NEW k \in 1 .. (n + 1),
                      NEW j \in 1 .. (n + 1), Comes(k, i, c)', k < j, Ends(j, i)'
               PROVE  Gone(i, c, j)'
    BY <1>3 DEF NoReturn
  <2>1. CASE j = n + 1
    BY <1>8, <2>1
  <2>2. CASE j \in 1 .. n
    <3>1. k \in 1 .. n /\ Comes(k, i, c) /\ Ends(j, i)
      BY <1>3, <1>4, <2>2
    <3>2. Gone(i, c, j)
      BY <1>1, <2>2, <3>1 DEF NoReturn
    <3> QED BY <1>9, <2>2, <3>2
  <2> QED BY <1>3, <2>1, <2>2
<1>13. StoredHeld'
  <2> SUFFICES ASSUME NEW i \in Slots, NEW s \in Sensors, NEW c \in Connections,
                      <<s, c>> \in stored, Holds(i, c)'
               PROVE  Registered(i, s)' /\ ~Erasing(i)' /\ EndsOf(i, c)'
    BY DEF StoredHeld
  <2>1. Registered(i, s) /\ ~Erasing(i) /\ EndsOf(i, c)
    BY <1>1, <1>7 DEF StoredHeld
  <2>2. EndsOf(i, c)'
    <3> SUFFICES ASSUME NEW j \in 1 .. (n + 1), Ends(j, i)' PROVE Gone(i, c, j)'
      BY <1>3 DEF EndsOf
    <3>1. CASE j = n + 1
      BY <1>8, <3>1
    <3>2. CASE j \in 1 .. n
      BY <1>4, <1>9, <2>1, <3>2 DEF EndsOf
    <3> QED BY <1>3, <3>1, <3>2
  <2> QED BY <2>1, <2>2 DEF Registered, Erasing, client
<1> QED BY <1>10, <1>11, <1>12, <1>13 DEF HeldInv

\* The executor pops: every place is one nearer.
LEMMA HeldPop ==
  ASSUME HeldInv, Calm, queue # <<>>, queue' = Tail(queue), UNCHANGED <<socket, token, accepted>>
  PROVE  /\ HeardOf' /\ OneSlot' /\ NoReturn'
         /\ \A i \in Slots, c \in Connections :
              /\ Holds(i, c)' => Holds(i, c)
              /\ Comes(1, i, c) \/ EndsOf(i, c) => EndsOf(i, c)'
              /\ Ends(1, i) /\ EndsOf(i, c) => ~Holds(i, c)'
<1>1. /\ HeardOf /\ OneSlot /\ NoReturn
      /\ queue \in Seq(Requests) /\ Len(queue) \in Nat \ {0}
  BY DEF HeldInv, SessionInv, ConnectionInv, TypeInv, TypeOK
<1> DEFINE n == Len(queue')
<1>2. Len(queue) = n + 1 /\ \A l \in 1 .. n : queue'[l] = queue[l + 1]
  BY <1>1
<1>3. /\ n \in Nat /\ 1 \in 1 .. Len(queue)
      /\ \A l \in 1 .. n : l + 1 \in 1 .. Len(queue) /\ 1 < l + 1
      /\ \A l \in 1 .. Len(queue) : 1 < l => l - 1 \in 1 .. n /\ (l - 1) + 1 = l
      /\ \A j, l \in 1 .. n : j < l => j + 1 < l + 1
  BY <1>1, <1>2
<1>4. /\ \A i \in Slots, c \in Connections, k \in 1 .. n : Comes(k, i, c)' <=> Comes(k + 1, i, c)
      /\ \A i \in Slots, k \in 1 .. n : Ends(k, i)' <=> Ends(k + 1, i)
  BY <1>2 DEF Comes, Ends
<1> HIDE DEF n
<1>5. \A i \in Slots, c \in Connections : Holds(i, c)' => Holds(i, c)
  BY <1>3, <1>4 DEF Holds, n
<1>6. \A i \in Slots, c \in Connections, j \in 1 .. n : Gone(i, c, j + 1) => Gone(i, c, j)'
  BY <1>3, <1>4 DEF Gone, n
<1>7. HeardOf'
  BY <1>1, <1>2, <1>3 DEF HeardOf, n
<1>8. OneSlot'
  BY <1>1, <1>5 DEF OneSlot
<1>9. NoReturn'
  <2> SUFFICES ASSUME NEW i \in Slots, NEW c \in Connections, NEW k \in 1 .. n, NEW j \in 1 .. n,
                      Comes(k, i, c)', k < j, Ends(j, i)'
               PROVE  Gone(i, c, j)'
    BY DEF NoReturn, n
  <2>1. Gone(i, c, j + 1)
    BY <1>1, <1>3, <1>4 DEF NoReturn
  <2> QED BY <1>6, <2>1
<1>10. ASSUME NEW i \in Slots, NEW c \in Connections, Comes(1, i, c) \/ EndsOf(i, c)
       PROVE  EndsOf(i, c)'
  <2> SUFFICES ASSUME NEW j \in 1 .. n, Ends(j, i)' PROVE Gone(i, c, j)'
    BY DEF EndsOf, n
  <2>1. Gone(i, c, j + 1)
    BY <1>1, <1>3, <1>4, <1>10 DEF NoReturn, EndsOf
  <2> QED BY <1>6, <2>1
<1>11. ASSUME NEW i \in Slots, NEW c \in Connections, Ends(1, i), EndsOf(i, c), Holds(i, c)'
       PROVE  FALSE
  <2>1. Gone(i, c, 1)
    BY <1>3, <1>11 DEF EndsOf
  <2>2. \A k \in 1 .. n : ~Comes(k, i, c)'
    BY <1>3, <1>4, <2>1 DEF Gone
  <2> QED BY <1>11, <2>1, <2>2 DEF Holds, Gone, n
<1> QED BY <1>5, <1>7, <1>8, <1>9, <1>10, <1>11

\* A new connection: nothing of it is anywhere yet.
LEMMA HeldAccept ==
  ASSUME HeldInv, Calm, SessionInv', NEW d \in Connections, Accept(d)
  PROVE  HeldInv'
<1> USE DEF slotVars, loopVars, sensorVars, registry
<1>1. /\ HeardOf /\ OneSlot /\ NoReturn /\ StoredHeld /\ Quiet /\ StoredPresented
      /\ ThreadsOK /\ SlotsOK
  BY DEF HeldInv, SessionInv, InOrder, ConnectionInv, TypeInv, TypeOK, Calm
<1>2. /\ UNCHANGED <<queue, stored, token, clientToSensorId, request, pc["executor"]>>
      /\ accepted' = accepted \cup {d} /\ d \notin accepted
      /\ pc["network"] = "accept" /\ pc'["network"] = "receive"
  BY <1>1 DEF Accept, Goto, ThreadsOK, Threads
<1> PICK f \in Slots : f = freeHandler /\ socket[f] = NoConnection
  BY <1>2, SlotZero DEF HeldInv, SessionInv, ConnectionInv, ChosenFree, AcceptsIntoSlot
<1>3. socket'[f] = d /\ \A i \in Slots \ {f} : socket'[i] = socket[i]
  BY <1>1 DEF Accept, Connected, SlotsOK
<1>4. \A i \in Slots : socket[i] # d
  BY <1>1, <1>2, ServerAssumption DEF Quiet, Bound
<1>5. /\ \A i \in Slots, c \in Connections, k \in 1 .. Len(queue) :
           (Comes(k, i, c)' <=> Comes(k, i, c)) /\ ~Comes(k, i, d)
      /\ \A i \in Slots, k \in 1 .. Len(queue) : Ends(k, i)' <=> Ends(k, i)
  BY <1>1, <1>2 DEF Comes, Ends, HeardOf
<1>6. \A i \in Slots, c \in Connections \ {d} : socket'[i] = c => socket[i] = c
  BY <1>3
<1>7. \A i \in Slots, c \in Connections \ {d} : Holds(i, c)' => Holds(i, c)
  BY <1>2, <1>5, <1>6 DEF Holds
<1>8. \A i \in Slots : Holds(i, d)' => i = f
  BY <1>2, <1>3, <1>4, <1>5 DEF Holds
<1>9. \A i \in Slots, c \in Connections \ {d}, j \in 1 .. Len(queue) :
        Gone(i, c, j) => Gone(i, c, j)'
  BY <1>2, <1>5, <1>6 DEF Gone
<1>10. HeardOf' /\ ReportFree'
  BY <1>1, <1>2 DEF HeardOf, ReportFree
<1>11. OneSlot'
  <2> SUFFICES ASSUME NEW c \in Connections, NEW i \in Slots, NEW j \in Slots,
                      Holds(i, c)', Holds(j, c)'
               PROVE  i = j
    BY DEF OneSlot
  <2>1. CASE c = d
    BY <1>8, <2>1
  <2>2. CASE c # d
    BY <1>1, <1>7, <2>2 DEF OneSlot
  <2> QED BY <2>1, <2>2
<1>12. NoReturn'
  <2> SUFFICES ASSUME NEW i \in Slots, NEW c \in Connections, NEW k \in 1 .. Len(queue),
                      NEW j \in 1 .. Len(queue), Comes(k, i, c)', k < j, Ends(j, i)'
               PROVE  Gone(i, c, j)'
    BY <1>2 DEF NoReturn
  <2>1. Comes(k, i, c) /\ Ends(j, i) /\ c # d
    BY <1>5
  <2>2. Gone(i, c, j)
    BY <1>1, <2>1 DEF NoReturn
  <2> QED BY <1>9, <2>1, <2>2
<1>13. StoredHeld'
  <2> SUFFICES ASSUME NEW i \in Slots, NEW s \in Sensors, NEW c \in Connections,
                      <<s, c>> \in stored, Holds(i, c)'
               PROVE  Registered(i, s)' /\ ~Erasing(i)' /\ EndsOf(i, c)'
    BY <1>2 DEF StoredHeld
  <2>1. token[c] = s
    BY <1>1 DEF StoredPresented
  <2>2. c # d
    BY <1>1, <1>2, <2>1, ServerAssumption DEF HeardOf
  <2>3. Registered(i, s) /\ ~Erasing(i) /\ EndsOf(i, c)
    BY <1>1, <1>7, <2>2 DEF StoredHeld
  <2>4. EndsOf(i, c)'
    BY <1>2, <1>5, <1>9, <2>2, <2>3 DEF EndsOf
  <2> QED BY <1>2, <2>3, <2>4 DEF Registered, Erasing, client
<1> QED BY <1>10, <1>11, <1>12, <1>13 DEF HeldInv

\* What is to be registered next for slot i is of the connection the slot still holds.
LEMMA HeldIsNext ==
  ASSUME HeldInv, Calm, NEW i \in Slots, NEW c \in Connections, NEW d \in Connections,
         Holds(i, c), EndsOf(i, c), Followed(i, d, 0)
  PROVE  c = d
<1>1. Quiet /\ ReportFree /\ queue \in Seq(Requests) /\ Len(queue) \in Nat
  BY DEF HeldInv, SessionInv, ConnectionInv, TypeInv, TypeOK, Calm
<1>2. CASE socket[i] = c
  <2>1. ~NetworkCloses(i)
    BY <1>1, <1>2, ServerAssumption DEF NetworkCloses, Quiet, ReportFree, Bound
  <2>2. ~ \E j \in 1 .. Len(queue) : Ends(j, i)
    BY <1>2 DEF EndsOf, Gone
  <2> QED BY <1>2, <2>1, <2>2 DEF Followed
<1>3. ASSUME NEW k \in 1 .. Len(queue), Comes(k, i, c) PROVE c = d
  <2>1. ~ \E j \in 1 .. Len(queue) : j < k /\ Ends(j, i)
    BY <1>3 DEF EndsOf, Gone
  <2>2. 0 < k
    BY <1>1
  <2> QED BY <1>3, <2>1, <2>2 DEF Followed, Comes
<1> QED BY <1>2, <1>3 DEF Holds

\* The executor takes a request that stores and registers nothing.
LEMMA HeldTakes ==
  ASSUME HeldInv, Calm, SessionInv', queue # <<>>, queue' = Tail(queue), ReportFree',
         UNCHANGED <<socket, token, accepted, stored, clientToSensorId>>,
         \A i \in Slots : ~Ends(1, i) => ~Erasing(i)'
  PROVE  HeldInv'
<1>1. StoredHeld'
  <2> SUFFICES ASSUME NEW i \in Slots, NEW s \in Sensors, NEW c \in Connections,
                      <<s, c>> \in stored, Holds(i, c)'
               PROVE  Registered(i, s)' /\ ~Erasing(i)' /\ EndsOf(i, c)'
    BY DEF StoredHeld
  <2>1. Registered(i, s) /\ EndsOf(i, c)
    BY HeldPop DEF HeldInv, StoredHeld
  <2>2. EndsOf(i, c)' /\ ~Ends(1, i)
    BY <2>1, HeldPop
  <2> QED BY <2>1, <2>2 DEF Registered
<1> QED BY <1>1, HeldPop DEF HeldInv

LEMMA SensorRequestsHeld ==
  ASSUME HeldInv, Calm, Calm', SessionInv', SensorRequests
  PROVE  HeldInv'
<1> USE DEF slotVars, loopVars, sensorVars, registry
<1>1. /\ TypeInv /\ ThreadsOK /\ RegistryOK /\ InOrder /\ "executor" \in Threads
      /\ HeardOf /\ OneSlot /\ ReportFree /\ StoredHeld
      /\ queue \in Seq(Requests) /\ dbErrors \in Nat
  BY DEF HeldInv, SessionInv, ConnectionInv, TypeInv, TypeOK, HistoryOK, Threads
<1>2. pc'["network"] = pc["network"] /\ request'["network"] = request["network"]
  BY <1>1 DEF SensorRequests, ExecuteMeasurement, ExecuteConnected, CheckActive, AddSensor, Register,
              ExecuteDisconnected, EraseRegistration, Finish, Goto, Work, Keep, ThreadsOK, Threads
<1>3. dbErrors' = dbErrors
  BY DEF Calm
<1>4. UNCHANGED <<socket, token, accepted>>
  BY DEF SensorRequests, ExecuteMeasurement, ExecuteConnected, CheckActive, AddSensor, Register,
         ExecuteDisconnected, EraseRegistration
<1>5. ReportFree' /\ \A c \in Connections : token'[c] # NoSensor => c \in accepted'
  BY <1>1, <1>2, <1>4 DEF ReportFree, HeardOf, Bound, client
<1>6. ASSUME queue # <<>>
      PROVE  Head(queue) = queue[1] /\ 1 \in 1 .. Len(queue) /\ queue[1].client \in Slots
  <2>1. Head(queue) = queue[1] /\ 1 \in 1 .. Len(queue)
    BY <1>1, <1>6
  <2>2. queue[1] \in Requests
    BY <1>1, <2>1
  <2> QED BY <2>1, <2>2 DEF Requests
<1>7. CASE ExecuteMeasurement
  <2> PICK r \in Requests : r = queue[1] /\ r.type = "measure" /\ r.client \in Slots
    BY <1>6, <1>7, <1>1 DEF ExecuteMeasurement, Takes
  <2>1. /\ queue # <<>> /\ queue' = Tail(queue) /\ pc["executor"] = "pop"
        /\ UNCHANGED <<clientToSensorId, pc, request>>
    BY <1>7 DEF ExecuteMeasurement, Takes
  <2>2. stored' = stored \/ stored' = stored \cup {<<clientToSensorId[r.client], r.from>>}
    BY <1>6, <1>7, <2>1 DEF ExecuteMeasurement
  <2>3. Carried(r) /\ r.from \in Connections /\ Comes(1, r.client, r.from)
    BY <1>6, <1>1, <2>1 DEF InOrder, QueuePresented, Carried, Presented, Comes
  <2>4. Holds(r.client, r.from)
    BY <1>6, <2>1, <2>3 DEF Holds
  <2>5. StoredHeld'
    <3> SUFFICES ASSUME NEW i \in Slots, NEW s \in Sensors, NEW c \in Connections,
                        <<s, c>> \in stored', Holds(i, c)'
                 PROVE  Registered(i, s) /\ ~Erasing(i) /\ EndsOf(i, c)'
      BY <2>1 DEF StoredHeld, Registered, Erasing, client
    <3>1. Holds(i, c)
      BY <1>4, <2>1, HeldPop
    <3>2. CASE <<s, c>> \in stored
      <4>1. Registered(i, s) /\ ~Erasing(i) /\ EndsOf(i, c)
        BY <1>1, <3>1, <3>2 DEF StoredHeld
      <4> QED BY <1>4, <2>1, <4>1, HeldPop
    <3>3. CASE s = clientToSensorId[r.client] /\ c = r.from
      <4>1. i = r.client
        BY <1>1, <2>4, <3>1, <3>3 DEF OneSlot
      <4>2. EndsOf(i, c)'
        BY <1>4, <2>1, <2>3, <3>3, <4>1, HeldPop
      <4> QED BY <2>1, <3>3, <4>1, <4>2 DEF Registered, Erasing
    <3> QED BY <2>2, <3>2, <3>3
  <2> QED BY <1>4, <1>5, <2>1, <2>5, HeldPop DEF HeldInv
<1>8. CASE ExecuteConnected
  <2>1. /\ queue # <<>> /\ queue' = Tail(queue) /\ UNCHANGED <<clientToSensorId, stored>>
        /\ pc["executor"] = "pop"
    BY <1>8 DEF ExecuteConnected, Takes
  <2>2. \A i \in Slots : ~Erasing(i)'
    BY <1>8, <1>1, <2>1 DEF ExecuteConnected, Goto, ThreadsOK, Erasing
  <2> QED BY <1>4, <1>5, <2>1, <2>2, HeldTakes
<1>9. CASE ExecuteDisconnected
  <2>1. /\ queue # <<>> /\ queue' = Tail(queue) /\ UNCHANGED <<clientToSensorId, stored>>
        /\ pc["executor"] = "pop" /\ Head(queue).type = "disconnected"
    BY <1>9 DEF ExecuteDisconnected, Takes
  <2>2. pc'["executor"] = "erase" => request'["executor"] = Head(queue)
    BY <1>9, <1>1, <2>1 DEF ExecuteDisconnected, Goto, Work, ThreadsOK
  <2>3. \A i \in Slots : ~Ends(1, i) => ~Erasing(i)'
    BY <1>6, <2>1, <2>2 DEF Ends, Erasing, client
  <2> QED BY <1>4, <1>5, <2>1, <2>3, HeldTakes
<1>10. CASE CheckActive \/ AddSensor
  <2>1. UNCHANGED <<queue, clientToSensorId, stored>>
    BY <1>10 DEF CheckActive, AddSensor
  <2>2. pc'["executor"] # "erase"
    BY <1>10, <1>1 DEF CheckActive, AddSensor, Finish, Goto, Keep, ThreadsOK
  <2> QED BY <1>4, <1>5, <2>1, <2>2, HeldFrame DEF Erasing, Registered
<1>11. CASE Register
  <2> PICK r \in Requests : r = request["executor"] /\ r.client \in Slots
    BY <1>1, RequestType DEF client
  <2>1. /\ pc["executor"] = "register" /\ pc'["executor"] = "check"
        /\ UNCHANGED <<queue, stored>>
        /\ clientToSensorId' = [clientToSensorId EXCEPT ![r.client] = r.token]
    BY <1>11, <1>1 DEF Register, Goto, ThreadsOK
  <2>2. r.type = "connected" /\ Presented(r) /\ Followed(r.client, r.from, 0)
    BY <1>1, <2>1 DEF InOrder, ExecutorInOrder, Presented
  <2>3. token[r.from] = r.token /\ r.from \in Connections
    BY <2>2 DEF Presented
  <2>4. ASSUME NEW i \in Slots, NEW s \in Sensors, NEW c \in Connections,
               <<s, c>> \in stored, Holds(i, c), Registered(i, s), ~Erasing(i)
        PROVE  Registered(i, s)' /\ ~Erasing(i)'
    <3>1. CASE i = r.client
      <4>1. EndsOf(i, c)
        BY <1>1, <2>4 DEF StoredHeld
      <4>2. c = r.from
        BY <2>2, <2>3, <2>4, <3>1, <4>1, HeldIsNext
      <4>3. token[c] = s
        BY <1>1, <2>4 DEF InOrder, StoredPresented, HeldInv
      <4> QED BY <1>1, <2>1, <2>3, <3>1, <4>2, <4>3 DEF RegistryOK, Registered, Erasing
    <3>2. CASE i # r.client
      BY <1>1, <2>1, <2>4, <3>2 DEF RegistryOK, Registered, Erasing
    <3> QED BY <3>1, <3>2
  <2> QED BY <1>4, <1>5, <2>1, <2>4, HeldFrame
<1>12. CASE EraseRegistration
  <2>1. /\ pc["executor"] = "erase" /\ pc'["executor"] = "pop"
        /\ UNCHANGED <<queue, stored>>
        /\ clientToSensorId' = [clientToSensorId EXCEPT ![client("executor")] = NoSensor]
    BY <1>12, <1>1 DEF EraseRegistration, Finish, Goto, ThreadsOK
  <2>2. \A i \in Slots, s \in Sensors :
          Registered(i, s) /\ ~Erasing(i) => Registered(i, s)' /\ ~Erasing(i)'
    BY <1>1, <2>1 DEF RegistryOK, Registered, Erasing
  <2> QED BY <1>4, <1>5, <2>1, <2>2, HeldFrame
<1> QED BY <1>7, <1>8, <1>9, <1>10, <1>11, <1>12 DEF SensorRequests

\* The other steps of the two executors
LEMMA ExecutorsHeld ==
  ASSUME HeldInv, Calm, Calm', SessionInv',
         AdministratorRequests \/ \E t \in Threads \ {"network"} : Calls(t)
  PROVE  HeldInv'
<1> USE DEF slotVars, loopVars, sensorVars, registry
<1>1. ThreadsOK /\ "executor" \in Threads /\ "network" \in Threads /\ ReportFree /\ HeardOf
  BY DEF HeldInv, SessionInv, ConnectionInv, TypeInv, TypeOK, Threads
<1>2. \A t \in Threads \ {"network"} : pc[t] \notin Closing
  BY DEF HeldInv, SessionInv, ConnectionInv, ClosersKill, Calm
<1>3. UNCHANGED <<queue, socket, token, accepted, clientToSensorId, stored>>
  BY <1>2 DEF AdministratorRequests, GenerateToken, ExecuteCommand, LookUp, Respond, Calls, Check,
              Insert, Flush, DisconnectClient, Release, Clear, Report, Closing
<1>4. /\ pc'["network"] = pc["network"] /\ request'["network"] = request["network"]
      /\ \A i \in Slots : ~Erasing(i) => ~Erasing(i)'
  <2>1. CASE AdministratorRequests
    <3>1. \A t \in Threads \ {"admin"} : pc'[t] = pc[t] /\ request'[t] = request[t]
      BY <1>1, <2>1 DEF AdministratorRequests, GenerateToken, ExecuteCommand, LookUp, Respond,
                        Finish, Goto, Work, ThreadsOK
    <3>2. /\ pc'["network"] = pc["network"] /\ request'["network"] = request["network"]
          /\ pc'["executor"] = pc["executor"] /\ request'["executor"] = request["executor"]
      BY <3>1 DEF Threads
    <3> QED BY <3>2 DEF Erasing, client
  <2>2. ASSUME NEW t \in Threads \ {"network"}, Calls(t)
        PROVE  /\ pc'["network"] = pc["network"] /\ request'["network"] = request["network"]
               /\ \A i \in Slots : ~Erasing(i) => ~Erasing(i)'
    <3>1. \A u \in Threads \ {t} : pc'[u] = pc[u] /\ request'[u] = request[u]
      BY <1>1, <2>2 DEF Calls, Check, Insert, Flush, DisconnectClient, Release, Clear, Report,
         AfterSend, AfterDisconnect, Finish, Goto, Work, Keep, ThreadsOK
    <3>2. pc'[t] # "erase"
      BY <1>1, <2>2 DEF Calls, Check, Insert, Flush, DisconnectClient, Release, Clear, Report,
         AfterSend, AfterDisconnect, Finish, Goto, ThreadsOK
    <3> QED BY <1>1, <3>1, <3>2 DEF Erasing, client
  <2> QED BY <2>1, <2>2
<1>5. ReportFree'
  BY <1>1, <1>3, <1>4 DEF ReportFree, Bound, client
<1> QED BY <1>1, <1>3, <1>4, <1>5, HeldFrame DEF HeardOf, Registered

LEMMA NetworkCallsHeld ==
  ASSUME HeldInv, Calm, SessionInv', Calls("network")
  PROVE  HeldInv'
<1> USE DEF slotVars, loopVars, sensorVars, registry
<1>1. /\ TypeInv /\ ThreadsOK /\ SlotsOK /\ HeardOf /\ ReportFree /\ Quiet
      /\ resume \in {"receive", "send"}
      /\ "network" \in Threads /\ client("network") \in Slots
  BY RequestType DEF HeldInv, SessionInv, ConnectionInv, TypeInv, TypeOK, LoopOK, Threads, Calm
<1>2. UNCHANGED <<clientToSensorId, stored, token, accepted>>
  BY DEF Calls, Check, Insert, Flush, DisconnectClient, Release, Clear, Report
<1>3. pc'["executor"] = pc["executor"] /\ request'["executor"] = request["executor"]
  BY <1>1 DEF Calls, Check, Insert, Flush, DisconnectClient, Release, Clear, Report, AfterSend,
              AfterDisconnect, Finish, Goto, Work, Keep, ThreadsOK, Threads
<1>4. CASE \/ Check("network") \/ Insert("network") \/ Flush("network")
           \/ DisconnectClient("network") \/ Release("network") \/ Clear("network")
  <2>1. queue' = queue
    BY <1>4 DEF Check, Insert, Flush, DisconnectClient, Release, Clear
  <2>2. \A i \in Slots, c \in Connections : socket'[i] = c => socket[i] = c
    <3>1. CASE Release("network")
      BY <1>1, <3>1, ServerAssumption DEF Release, SlotsOK
    <3>2. CASE ~Release("network")
      BY <1>4, <3>2 DEF Check, Insert, Flush, DisconnectClient, Clear
    <3> QED BY <3>1, <3>2
  <2>3. ReportFree'
    <3>1. CASE Clear("network")
      <4>1. pc["network"] = "clear" /\ UNCHANGED <<socket, request>>
        BY <3>1 DEF Clear
      <4> QED BY <1>1, <4>1 DEF Quiet, ReportFree, Bound, client
    <3>2. CASE ~Clear("network")
      <4>1. pc'["network"] # "report"
        BY <1>4, <1>1, <3>2 DEF Check, Insert, Flush, DisconnectClient, Release, AfterSend,
                                AfterDisconnect, Finish, Goto, ThreadsOK
      <4> QED BY <4>1 DEF ReportFree
    <3> QED BY <3>1, <3>2
  <2> QED BY <1>1, <1>2, <1>3, <2>1, <2>2, <2>3, HeldFrame
          DEF HeardOf, Registered, Erasing, client
<1>5. CASE Report("network")
  <2> PICK r \in Requests :
             /\ r = Request("disconnected", client("network"), NoSensor, NoConnection)
             /\ r.type = "disconnected" /\ r.client = client("network")
    BY <1>1, DisconnectedType DEF Request
  <2>1. pc["network"] = "report" /\ queue' = Append(queue, r) /\ socket' = socket
    BY <1>5 DEF Report
  <2>2. socket[r.client] = NoConnection
    BY <1>1, <2>1 DEF ReportFree, Bound
  <2>3. pc'["network"] \in {"receive", "send"}
    BY <1>5, <1>1 DEF Report, AfterDisconnect, Finish, Goto, ThreadsOK
  <2>4. ReportFree'
    BY <2>3 DEF ReportFree
  <2> QED BY <1>2, <1>3, <2>1, <2>2, <2>4, HeldPush
<1> QED BY <1>4, <1>5 DEF Calls

LEMMA LoopHeld ==
  ASSUME HeldInv, Calm, SessionInv', Loop
  PROVE  HeldInv'
<1> USE DEF slotVars, loopVars, sensorVars, registry
<1>1. /\ TypeInv /\ ThreadsOK /\ SlotsOK /\ HistoryOK /\ LoopOK /\ InOrder /\ HeardOf
      /\ "network" \in Threads
  BY DEF HeldInv, SessionInv, ConnectionInv, TypeInv, TypeOK, Threads
<1>2. UNCHANGED <<clientToSensorId, stored>>
  BY DEF Loop, Prepare, Select, AcceptFails, Enqueue, Accept, Connected, ReceiveInit, ReceiveMeasure,
         ReceiveUnknown, ReceiveEnd, ReceiveBadLength, SendPending, SendNothing
<1>3. pc'["executor"] = pc["executor"] /\ request'["executor"] = request["executor"]
  BY <1>1 DEF Loop, Prepare, Select, AcceptFails, Enqueue, Accept, Connected, ReceiveInit,
         ReceiveMeasure, ReceiveUnknown, ReceiveEnd, ReceiveBadLength, SendPending, SendNothing, Hand,
         Disconnects, Finish, Goto, Work, Keep, ThreadsOK, Threads
<1>4. ReportFree'
  <2>1. pc'["network"] # "report"
    BY <1>1 DEF Loop, Prepare, Select, AcceptFails, Enqueue, Accept, Connected, ReceiveInit,
         ReceiveMeasure, ReceiveUnknown, ReceiveEnd, ReceiveBadLength, SendPending, SendNothing, Hand,
         Disconnects, Finish, Goto, Work, Keep, ThreadsOK, Receives, Sends
  <2> QED BY <2>1 DEF ReportFree
<1>5. CASE Enqueue
  <2> PICK r \in Requests : r = request["network"]
    BY <1>1, RequestType
  <2>1. /\ pc["network"] = "enqueue" /\ queue' = Append(queue, r)
        /\ UNCHANGED <<socket, token, accepted>>
    BY <1>5 DEF Enqueue
  <2>2. Carried(r) /\ Presented(r) /\ socket[r.client] = r.from
    BY <1>1, <2>1 DEF InOrder, NetworkInOrder
  <2> QED BY <1>2, <1>3, <1>4, <2>1, <2>2, HeldPush
<1>6. CASE Loop /\ ~Enqueue /\ ~\E d \in Connections : Accept(d)
  <2>1. UNCHANGED <<queue, socket, accepted>>
    BY <1>6 DEF Loop, Prepare, Select, AcceptFails, ReceiveInit, ReceiveMeasure,
         ReceiveUnknown, ReceiveEnd, ReceiveBadLength, SendPending, SendNothing
  <2>2. \A c \in Connections : token'[c] # NoSensor => c \in accepted
    <3>1. ASSUME NEW i \in Slots, NEW s \in Sensors, ReceiveInit(i, s)
          PROVE  \A c \in Connections : token'[c] # NoSensor => c \in accepted
      BY <1>1, <3>1 DEF ReceiveInit, HistoryOK, SlotsOK, HeardOf
    <3>2. CASE ~\E i \in Slots, s \in Sensors : ReceiveInit(i, s)
      <4>1. token' = token
        BY <1>6, <3>2 DEF Loop, Prepare, Select, AcceptFails, ReceiveMeasure, ReceiveUnknown,
                          ReceiveEnd, ReceiveBadLength, SendPending, SendNothing
      <4> QED BY <1>1, <4>1 DEF HeardOf
    <3> QED BY <3>1, <3>2
  <2> QED BY <1>2, <1>3, <1>4, <2>1, <2>2, HeldFrame DEF Registered, Erasing, client
<1> QED BY <1>5, <1>6, HeldAccept

LEMMA HeldInvariant == Spec => []HeldInv
<1>1. Init => HeldInv
  <2> SUFFICES ASSUME Init PROVE HeldInv
    OBVIOUS
  <2>1. SessionInv
    BY InitSession
  <2>2. Len(queue) = 0 /\ stored = {} /\ pc["network"] = "receive"
    BY DEF Init, Threads
  <2>3. HeardOf
    BY <2>2 DEF Init, HeardOf
  <2>4. \A i \in Slots, c \in Connections : ~Holds(i, c)
    BY <2>2, ServerAssumption DEF Init, Holds
  <2> QED BY <2>1, <2>2, <2>3, <2>4 DEF HeldInv, OneSlot, NoReturn, ReportFree, StoredHeld
<1>2. HeldInv /\ SessionInv' /\ [Next]_vars => HeldInv'
  <2> SUFFICES ASSUME HeldInv, SessionInv', [Next]_vars, Calm' PROVE HeldInv'
    BY DEF HeldInv
  <2>1. Calm
    BY CalmBefore DEF HeldInv, SessionInv, ConnectionInv
  <2>2. CASE UNCHANGED vars
    BY <2>1, <2>2, HeldFrame
       DEF vars, slotVars, sensorVars, registry, Erasing, client, HeldInv, HeardOf, ReportFree,
           Bound, Registered
  <2>3. ASSUME NEW t \in Threads, Calls(t) PROVE HeldInv'
    BY <2>1, <2>3, ExecutorsHeld, NetworkCallsHeld
  <2> QED BY <2>1, <2>2, <2>3, LoopHeld, SensorRequestsHeld, ExecutorsHeld DEF Next
<1> QED BY <1>1, <1>2, SessionInvariant, PTL DEF Spec

\* Until an executor closes a connection or a statement raises: once a measurement of a
\* connection has been stored, the slot stays registered for its sensor as long as the
\* connection is in it or has a measurement in the queue, so that none of those the
\* listener acknowledged is dropped or stored for another sensor.
THEOREM SessionsLast == Spec => []SessionsHeld
<1>1. HeldInv => SessionsHeld
  <2> SUFFICES ASSUME HeldInv, Calm, NEW i \in Slots, NEW s \in Sensors, NEW c \in Connections,
                      <<s, c>> \in stored,
                      \/ socket[i] = c
                      \/ \E k \in 1 .. Len(queue) :
                           /\ queue[k].type = "measure" /\ queue[k].client = i
                           /\ queue[k].from = c
               PROVE  Registered(i, s)
    BY DEF SessionsHeld, Calm
  <2>1. Holds(i, c)
    BY DEF Holds, Comes, Carried
  <2> QED BY <2>1 DEF HeldInv, StoredHeld
<1> QED BY <1>1, HeldInvariant, PTL

-----------------------------------------------------------------------------
(* Who is refused as already active                                          *)

Sending == {"check", "insert", "flush", "enqueue"}

\* The k-th request in the queue is to register somebody for slot i.
Asks(k, i) == queue[k].type = "connected" /\ queue[k].client = i

\* The executor has such a request in hand.
InHand == pc["executor"] \in {"contains", "add", "register"}

\* Slot i has a session, or is about to get one.
Taken(i) ==
  \/ InHand /\ client("executor") = i
  \/ ~Erasing(i) /\ \E s \in Sensors : Registered(i, s)

\* Who asks for a slot comes after the end of the session the slot has, and of every
\* session asked for before.
QueueAsksFree ==
  \A i \in Slots, k \in 1 .. Len(queue) :
    Asks(k, i) =>
      /\ Taken(i) => \E j \in 1 .. Len(queue) : j < k /\ Ends(j, i)
      /\ \A l \in 1 .. Len(queue) :
           l < k /\ Asks(l, i) => \E j \in 1 .. Len(queue) : l < j /\ j < k /\ Ends(j, i)

\* So does who is about to ask.
NetworkAsksFree ==
  LET i == client("network") IN
  pc["network"] \in Sending /\ request["network"].type = "connected" =>
    /\ Taken(i) => \E j \in 1 .. Len(queue) : Ends(j, i)
    /\ \A l \in 1 .. Len(queue) : Asks(l, i) => \E j \in 1 .. Len(queue) : l < j /\ Ends(j, i)

Refuses == message["executor"] = "active"

RefusalUnderWay == Refuses => pc["executor"] \in {"check", "insert", "flush", "disconnect"} \cup Closing

\* The slot of whoever the executor registers or refuses has no session.
HandFree == InHand \/ Refuses => clientToSensorId[client("executor")] = NoSensor

KnownRegistered ==
  \A i \in Slots, s \in Sensors \ commanded : sensorToClientId[s] = i => Registered(i, s)

RefusedRegistered ==
  \A s \in Sensors \ commanded : Refusing("executor", s) => \E i \in Slots : Registered(i, s)

MapsInv == RefusalUnderWay /\ HandFree /\ KnownRegistered /\ RefusedRegistered

RefusalInv == SessionInv /\ (Calm => QueueAsksFree /\ NetworkAsksFree /\ MapsInv)

executorVars == <<clientToSensorId, pc["executor"], request["executor"], message["executor"]>>

\* A step that leaves the executor and the maps alone, as far as no command has named a
\* sensor
LEMMA MapsFrame ==
  ASSUME MapsInv, UNCHANGED executorVars, commanded \subseteq commanded',
         \A s \in Sensors \ commanded' : sensorToClientId'[s] = sensorToClientId[s]
  PROVE  MapsInv' /\ \A i \in Slots : Taken(i)' <=> Taken(i)
BY DEF MapsInv, RefusalUnderWay, HandFree, KnownRegistered, RefusedRegistered, Refuses, Refusing,
       InHand, Taken, Erasing, Registered, client, executorVars

\* A step after which no slot is taken that was not
LEMMA AsksKept ==
  ASSUME RefusalInv, Calm, UNCHANGED queue, \A i \in Slots : Taken(i)' => Taken(i),
         \/ pc'["network"] \notin Sending
         \/ request'["network"].type # "connected"
         \/ pc["network"] \in Sending /\ request'["network"] = request["network"]
  PROVE  QueueAsksFree' /\ NetworkAsksFree'
<1>1. QueueAsksFree /\ NetworkAsksFree /\ client("network") \in Slots
  BY RequestType DEF RefusalInv, SessionInv, ConnectionInv, Threads
<1>2. /\ \A i \in Slots, k \in 1 .. Len(queue) : Asks(k, i)' <=> Asks(k, i)
      /\ \A i \in Slots, k \in 1 .. Len(queue) : Ends(k, i)' <=> Ends(k, i)
  BY DEF Asks, Ends
<1>3. QueueAsksFree'
  BY <1>1, <1>2 DEF QueueAsksFree
<1>4. NetworkAsksFree'
  BY <1>1, <1>2 DEF NetworkAsksFree, client
<1> QED BY <1>3, <1>4

\* The network thread pushes what it was about to, or the end of a session.
LEMMA AsksPush ==
  ASSUME RefusalInv, Calm, NEW r \in Requests, queue' = Append(queue, r),
         \A i \in Slots : Taken(i)' <=> Taken(i), pc'["network"] \notin Sending,
         r.type = "connected" => pc["network"] \in Sending /\ r = request["network"]
  PROVE  QueueAsksFree' /\ NetworkAsksFree'
<1>1. /\ QueueAsksFree /\ NetworkAsksFree
      /\ queue \in Seq(Requests) /\ Len(queue) \in Nat
  BY DEF RefusalInv, SessionInv, ConnectionInv, TypeInv, TypeOK
<1> PICK n \in Nat : n = Len(queue)
  BY <1>1
<1>2. /\ Len(queue') = n + 1 /\ queue'[n + 1] = r
      /\ \A k \in 1 .. n : queue'[k] = queue[k]
  BY <1>1
<1>3. /\ 1 .. Len(queue') = 1 .. (n + 1)
      /\ \A k \in 1 .. (n + 1) : k \in 1 .. n \/ k = n + 1
      /\ \A k \in 1 .. n : k \in 1 .. (n + 1) /\ k < n + 1
      /\ \A k \in 1 .. n, j \in 1 .. (n + 1) : j < k => j \in 1 .. n
      /\ \A l \in 1 .. (n + 1) : l < n + 1 => l \in 1 .. n
  BY <1>2
<1>4. /\ \A i \in Slots, k \in 1 .. n : Asks(k, i)' <=> Asks(k, i)
      /\ \A i \in Slots, k \in 1 .. n : Ends(k, i)' <=> Ends(k, i)
  BY <1>2 DEF Asks, Ends
<1>5. ASSUME NEW i \in Slots, NEW k \in 1 .. n, Asks(k, i)
      PROVE  /\ Taken(i)' => \E j \in 1 .. (n + 1) : j < k /\ Ends(j, i)'
             /\ \A l \in 1 .. (n + 1) : l < k /\ Asks(l, i)' =>
                  \E j \in 1 .. (n + 1) : l < j /\ j < k /\ Ends(j, i)'
  BY <1>1, <1>3, <1>4, <1>5 DEF QueueAsksFree
<1>6. ASSUME NEW i \in Slots, Asks(n + 1, i)'
      PROVE  /\ Taken(i)' => \E j \in 1 .. (n + 1) : j < n + 1 /\ Ends(j, i)'
             /\ \A l \in 1 .. (n + 1) : l < n + 1 /\ Asks(l, i)' =>
                  \E j \in 1 .. (n + 1) : l < j /\ j < n + 1 /\ Ends(j, i)'
  <2>1. /\ pc["network"] \in Sending /\ request["network"].type = "connected"
        /\ client("network") = i
    BY <1>2, <1>6 DEF Asks, client
  <2>2. /\ Taken(i) => \E j \in 1 .. n : Ends(j, i)
        /\ \A l \in 1 .. n : Asks(l, i) => \E j \in 1 .. n : l < j /\ Ends(j, i)
    BY <1>1, <2>1 DEF NetworkAsksFree
  <2> QED BY <1>3, <1>4, <2>2
<1>7. QueueAsksFree'
  <2> SUFFICES ASSUME NEW i \in Slots, NEW k \in 1 .. (n + 1), Asks(k, i)'
               PROVE  /\ Taken(i)' => \E j \in 1 .. (n + 1) : j < k /\ Ends(j, i)'
                      /\ \A l \in 1 .. (n + 1) : l < k /\ Asks(l, i)' =>
                           \E j \in 1 .. (n + 1) : l < j /\ j < k /\ Ends(j, i)'
    BY <1>3 DEF QueueAsksFree
  <2>1. CASE k \in 1 .. n
    BY <1>4, <1>5, <2>1
  <2>2. CASE k = n + 1
    BY <1>6, <2>2
  <2> QED BY <1>3, <2>1, <2>2
<1>8. NetworkAsksFree'
  BY DEF NetworkAsksFree
<1> QED BY <1>7, <1>8

\* The executor pops: every place is one nearer, and what was at the first is in hand or
\* done with.
LEMMA AsksPop ==
  ASSUME RefusalInv, Calm, queue # <<>>, queue' = Tail(queue),
         UNCHANGED <<pc["network"], request["network"]>>,
         \A i \in Slots : Taken(i)' => (Taken(i) /\ ~Ends(1, i)) \/ Asks(1, i)
  PROVE  QueueAsksFree' /\ NetworkAsksFree'
<1>1. /\ QueueAsksFree /\ NetworkAsksFree /\ client("network") \in Slots
      /\ queue \in Seq(Requests) /\ Len(queue) \in Nat \ {0}
  BY RequestType DEF RefusalInv, SessionInv, ConnectionInv, TypeInv, TypeOK, Threads
<1> PICK n \in Nat : n + 1 = Len(queue)
  BY <1>1
<1>2. Len(queue') = n /\ \A k \in 1 .. n : queue'[k] = queue[k + 1]
  BY <1>1
<1>3. /\ 1 .. Len(queue') = 1 .. n /\ 1 .. Len(queue) = 1 .. (n + 1)
      /\ 1 \in 1 .. (n + 1) /\ \A k \in 1 .. n : k + 1 \in 1 .. (n + 1) /\ 1 < k + 1
      /\ \A j \in 1 .. (n + 1) : j = 1 \/ (j - 1 \in 1 .. n /\ (j - 1) + 1 = j)
      /\ \A j \in 2 .. (n + 1), k \in 1 .. n : j < k + 1 => j - 1 < k
      /\ \A l \in 1 .. n, k \in 1 .. n : l < k => l + 1 < k + 1
      /\ \A l \in 1 .. n, j \in 2 .. (n + 1) : l + 1 < j => l < j - 1
      /\ \A j \in 1 .. (n + 1) : j # 1 => j \in 2 .. (n + 1)
      /\ \A j \in 1 .. (n + 1) : 1 < j => j # 1
      /\ \A l \in 1 .. n, j \in 1 .. (n + 1) : l + 1 < j => j # 1
  BY <1>1, <1>2
<1>4. /\ \A i \in Slots, k \in 1 .. n : Asks(k, i)' <=> Asks(k + 1, i)
      /\ \A i \in Slots, j \in 2 .. (n + 1) : Ends(j, i) => Ends(j - 1, i)'
  <2>1. \A j \in 2 .. (n + 1) : queue'[j - 1] = queue[j]
    BY <1>2
  <2> QED BY <1>2, <2>1 DEF Asks, Ends
<1>5. ASSUME NEW i \in Slots, NEW k \in 1 .. n, Asks(k, i)'
      PROVE  /\ Taken(i)' => \E j \in 1 .. n : j < k /\ Ends(j, i)'
             /\ \A l \in 1 .. n : l < k /\ Asks(l, i)' =>
                  \E j \in 1 .. n : l < j /\ j < k /\ Ends(j, i)'
  <2>1. /\ Taken(i) => \E j \in 1 .. (n + 1) : j < k + 1 /\ Ends(j, i)
        /\ \A l \in 1 .. (n + 1) : l < k + 1 /\ Asks(l, i) =>
             \E j \in 1 .. (n + 1) : l < j /\ j < k + 1 /\ Ends(j, i)
    BY <1>1, <1>3, <1>4, <1>5 DEF QueueAsksFree
  <2>2. ASSUME Taken(i)' PROVE \E j \in 1 .. n : j < k /\ Ends(j, i)'
    <3>1. PICK j \in 1 .. (n + 1) : j # 1 /\ j < k + 1 /\ Ends(j, i)
      <4>1. CASE Taken(i) /\ ~Ends(1, i)
        BY <2>1, <4>1
      <4>2. CASE Asks(1, i)
        BY <1>3, <2>1, <4>2
      <4> QED BY <2>2, <4>1, <4>2
    <3> QED BY <1>3, <1>4, <3>1
  <2>3. ASSUME NEW l \in 1 .. n, l < k, Asks(l, i)'
        PROVE  \E j \in 1 .. n : l < j /\ j < k /\ Ends(j, i)'
    <3>1. PICK j \in 1 .. (n + 1) : l + 1 < j /\ j < k + 1 /\ Ends(j, i)
      BY <1>3, <1>4, <2>1, <2>3
    <3>2. j \in 2 .. (n + 1)
      BY <1>3, <3>1
    <3> QED BY <1>3, <1>4, <3>1, <3>2
  <2> QED BY <2>2, <2>3
<1>6. QueueAsksFree'
  BY <1>3, <1>5 DEF QueueAsksFree
<1>7. NetworkAsksFree'
  <2> DEFINE i == client("network")
  <2> SUFFICES ASSUME pc["network"] \in Sending, request["network"].type = "connected"
               PROVE  /\ Taken(i)' => \E j \in 1 .. n : Ends(j, i)'
                      /\ \A l \in 1 .. n : Asks(l, i)' => \E j \in 1 .. n : l < j /\ Ends(j, i)'
    BY <1>3 DEF NetworkAsksFree, client
  <2>1. i \in Slots /\ i' = i
    BY <1>1 DEF client
  <2> HIDE DEF i
  <2>2. /\ Taken(i) => \E j \in 1 .. (n + 1) : Ends(j, i)
        /\ \A l \in 1 .. (n + 1) : Asks(l, i) => \E j \in 1 .. (n + 1) : l < j /\ Ends(j, i)
    BY <1>1, <1>3 DEF NetworkAsksFree, i
  <2>3. ASSUME Taken(i)' PROVE \E j \in 1 .. n : Ends(j, i)'
    <3>1. PICK j \in 1 .. (n + 1) : j # 1 /\ Ends(j, i)
      <4>1. CASE Taken(i) /\ ~Ends(1, i)
        BY <2>2, <4>1
      <4>2. CASE Asks(1, i)
        BY <1>3, <2>2, <4>2
      <4> QED BY <2>1, <2>3, <4>1, <4>2
    <3> QED BY <1>3, <1>4, <2>1, <3>1
  <2>4. ASSUME NEW l \in 1 .. n, Asks(l, i)'
        PROVE  \E j \in 1 .. n : l < j /\ Ends(j, i)'
    <3>1. PICK j \in 1 .. (n + 1) : l + 1 < j /\ Ends(j, i)
      BY <1>3, <1>4, <2>1, <2>2, <2>4
    <3>2. j \in 2 .. (n + 1)
      BY <1>3, <3>1
    <3> QED BY <1>3, <1>4, <2>1, <3>1, <3>2
  <2> QED BY <2>1, <2>3, <2>4
<1> QED BY <1>6, <1>7

\* The network thread alone
LEMMA NetworkRefusal ==
  ASSUME RefusalInv, Calm, SessionInv', Loop \/ Calls("network")
  PROVE  RefusalInv'
<1> USE DEF slotVars, loopVars, sensorVars, registry, adminVars
<1>1. /\ TypeInv /\ ThreadsOK /\ InOrder /\ MapsInv /\ QueueAsksFree
      /\ "network" \in Threads /\ client("network") \in Slots
      /\ request["network"] \in Requests /\ queue \in Seq(Requests)
      /\ resume \in {"receive", "send"}
  BY RequestType
     DEF RefusalInv, SessionInv, ConnectionInv, TypeInv, TypeOK, LoopOK, Threads
<1>2. UNCHANGED <<registry, commanded>>
  BY DEF Loop, Prepare, Select, AcceptFails, Enqueue, Accept, Connected, ReceiveInit, ReceiveMeasure,
         ReceiveUnknown, ReceiveEnd, ReceiveBadLength, SendPending, SendNothing,
         Calls, Check, Insert, Flush, DisconnectClient, Release, Clear, Report
<1>3. UNCHANGED executorVars
  <2>1. CASE Loop
    BY <1>1, <1>2, <2>1 DEF Loop, Prepare, Select, AcceptFails, Enqueue, Accept, Connected,
       ReceiveInit, ReceiveMeasure, ReceiveUnknown, ReceiveEnd, ReceiveBadLength, SendPending,
       SendNothing, Hand, Disconnects, Finish, Goto, Work, Keep, ThreadsOK, Threads, executorVars
  <2>2. CASE Calls("network")
    BY <1>1, <1>2, <2>2 DEF Calls, Check, Insert, Flush, DisconnectClient, Release, Clear, Report,
       AfterSend, AfterDisconnect, Finish, Goto, Work, Keep, ThreadsOK, Threads, executorVars
  <2> QED BY <2>1, <2>2
<1>4. MapsInv' /\ \A i \in Slots : Taken(i)' <=> Taken(i)
  BY <1>1, <1>2, <1>3, MapsFrame
<1>5. CASE \/ Prepare \/ Select \/ AcceptFails \/ \E c \in Connections : Accept(c)
           \/ \E i \in Slots : \/ ReceiveEnd(i) \/ ReceiveBadLength(i)
                               \/ SendPending(i) \/ SendNothing(i)
  <2>1. UNCHANGED queue
    BY <1>5 DEF Prepare, Select, AcceptFails, Accept, ReceiveEnd, ReceiveBadLength, SendPending,
                SendNothing
  <2>2. pc'["network"] \notin Sending
    BY <1>5, <1>1 DEF Prepare, Select, AcceptFails, Accept, ReceiveEnd, ReceiveBadLength,
       SendPending, SendNothing, Disconnects, Goto, ThreadsOK, Sending
  <2> QED BY <1>4, <2>1, <2>2, AsksKept DEF RefusalInv
<1>6. ASSUME NEW i \in Slots, ReceiveMeasure(i) \/ ReceiveUnknown(i) PROVE RefusalInv'
  <2>1. UNCHANGED queue
    BY <1>6 DEF ReceiveMeasure, ReceiveUnknown
  <2>2. pc'["network"] \notin Sending \/ request'["network"].type # "connected"
    BY <1>6, <1>1 DEF ReceiveMeasure, ReceiveUnknown, Hand, Goto, Work, ThreadsOK, Sending, Request
  <2> QED BY <1>4, <2>1, <2>2, AsksKept DEF RefusalInv
<1>7. ASSUME NEW i \in Slots, NEW s \in Sensors, ReceiveInit(i, s) PROVE RefusalInv'
  <2> DEFINE c == socket[i]
  <2>1. /\ UNCHANGED queue /\ c \in Connections /\ token[c] = NoSensor
        /\ pc["network"] = "receive"
    BY <1>7, <1>1 DEF ReceiveInit, Receives, TypeInv, TypeOK, LoopOK
  <2>2. pc'["network"] \in Sending => client("network")' = i
    BY <1>7, <1>1, <2>1 DEF ReceiveInit, Hand, Goto, Work, ThreadsOK, Sending, Request, client
  <2>3. ASSUME NEW d \in Connections, token[d] \in Sensors, NEW l \in Nat, Followed(i, d, l)
        PROVE  \E j \in 1 .. Len(queue) : l < j /\ Ends(j, i)
    BY <2>1, <2>3, ServerAssumption DEF Followed, NetworkCloses
  <2>4. Taken(i) => \E j \in 1 .. Len(queue) : Ends(j, i)
    <3>1. CASE InHand /\ client("executor") = i
      <4>1. PICK d \in Connections : token[d] \in Sensors /\ Followed(i, d, 0)
        BY <1>1, <3>1 DEF InHand, InOrder, ExecutorInOrder, Presented, client
      <4> QED BY <2>3, <4>1
    <3>2. ASSUME ~Erasing(i), NEW u \in Sensors, Registered(i, u)
          PROVE  \E j \in 1 .. Len(queue) : Ends(j, i)
      <4>1. PICK d \in Connections : token[d] \in Sensors /\ Followed(i, d, 0)
        BY <1>1, <3>2 DEF InOrder, SessionsInOrder
      <4> QED BY <2>3, <4>1
    <3> QED BY <3>1, <3>2 DEF Taken
  <2>5. ASSUME NEW l \in 1 .. Len(queue), Asks(l, i)
        PROVE  \E j \in 1 .. Len(queue) : l < j /\ Ends(j, i)
    <3> DEFINE d == queue[l].from
    <3>1. Carried(queue[l]) /\ queue[l].client = i
      BY <2>5 DEF Asks, Carried
    <3>2. d \in Connections /\ token[d] \in Sensors
      BY <1>1, <2>5, <3>1 DEF InOrder, QueuePresented, Presented, Asks
    <3>3. Followed(i, d, l)
      BY <1>1, <3>1, <3>2 DEF InOrder, QueueInOrder
    <3> QED BY <2>3, <3>2, <3>3
  <2>6. /\ \A k \in 1 .. Len(queue) : Asks(k, i)' <=> Asks(k, i)
        /\ \A k \in 1 .. Len(queue) : Ends(k, i)' <=> Ends(k, i)
    BY <2>1 DEF Asks, Ends
  <2>7. NetworkAsksFree'
    BY <1>4, <2>1, <2>2, <2>4, <2>5, <2>6 DEF NetworkAsksFree
  <2>8. QueueAsksFree'
    BY <1>1, <1>4, <2>1 DEF QueueAsksFree, Asks, Ends
  <2> QED BY <1>4, <2>7, <2>8 DEF RefusalInv
<1>8. CASE Enqueue
  <2>1. /\ pc["network"] = "enqueue" /\ pc'["network"] = "receive"
        /\ queue' = Append(queue, request["network"])
    BY <1>8, <1>1 DEF Enqueue, Finish, Goto, ThreadsOK
  <2> QED BY <1>1, <1>4, <2>1, AsksPush DEF RefusalInv, Sending
<1>9. CASE Check("network") \/ Insert("network") \/ Flush("network")
  <2>1. UNCHANGED <<queue, request>> /\ pc["network"] \in Sending
    BY <1>9 DEF Check, Insert, Flush, AfterSend, Keep, Sending
  <2> QED BY <1>4, <2>1, AsksKept DEF RefusalInv
<1>10. CASE DisconnectClient("network") \/ Release("network") \/ Clear("network")
  <2>1. UNCHANGED queue
    BY <1>10 DEF DisconnectClient, Release, Clear
  <2>2. pc'["network"] \notin Sending
    BY <1>10, <1>1 DEF DisconnectClient, Release, Clear, AfterDisconnect, Finish, Goto, ThreadsOK,
       Sending
  <2> QED BY <1>4, <2>1, <2>2, AsksKept DEF RefusalInv
<1>11. CASE Report("network")
  <2> DEFINE r == Request("disconnected", client("network"), NoSensor, NoConnection)
  <2>1. queue' = Append(queue, r) /\ pc'["network"] \notin Sending
    BY <1>11, <1>1 DEF Report, AfterDisconnect, Finish, Goto, ThreadsOK, Sending
  <2>2. r \in Requests /\ r.type = "disconnected"
    BY <1>1, DisconnectedType DEF Request
  <2> HIDE DEF r
  <2> QED BY <1>4, <2>1, <2>2, AsksPush DEF RefusalInv
<1> QED BY <1>5, <1>6, <1>7, <1>8, <1>9, <1>10, <1>11 DEF Loop, Calls

\* send() and disconnectClient() by an executor: what it refuses it goes on refusing, until
\* it has closed the connection.
LEMMA ExecutorsRefusal ==
  ASSUME RefusalInv, Calm, Calm', SessionInv', NEW t \in {"executor", "admin"}, Calls(t)
  PROVE  RefusalInv'
<1> USE DEF slotVars, loopVars, sensorVars, registry, adminVars
<1>1. /\ TypeInv /\ ThreadsOK /\ MapsInv /\ {"executor", "admin", "network"} \subseteq Threads
      /\ pc[t] \notin Closing
  BY DEF RefusalInv, SessionInv, ConnectionInv, ClosersKill, Calm, TypeInv, TypeOK, Threads
<1>2. UNCHANGED <<registry, commanded, queue>>
  BY <1>1 DEF Calls, Check, Insert, Flush, DisconnectClient, Release, Clear, Report, Closing
<1>3. pc'["network"] = pc["network"] /\ request'["network"] = request["network"]
  BY <1>1 DEF Calls, Check, Insert, Flush, DisconnectClient, Release, Clear, Report, AfterSend,
     AfterDisconnect, Finish, Goto, Work, Keep, ThreadsOK
<1>4. CASE t = "admin"
  <2>1. UNCHANGED executorVars
    BY <1>1, <1>2, <1>4 DEF Calls, Check, Insert, Flush, DisconnectClient, Release, Clear, Report,
       AfterSend, AfterDisconnect, Finish, Goto, Work, Keep, ThreadsOK, executorVars
  <2>2. MapsInv' /\ \A i \in Slots : Taken(i)' <=> Taken(i)
    BY <1>1, <1>2, <2>1, MapsFrame
  <2> QED BY <1>2, <1>3, <2>2, AsksKept DEF RefusalInv
<1>5. CASE t = "executor"
  <2>1. /\ pc["executor"] \in {"check", "insert", "flush", "disconnect"}
        /\ pc'["executor"] \in {"insert", "flush", "disconnect", "release", "pop"}
        /\ \/ UNCHANGED <<request, message>> /\ pc'["executor"] # "pop"
           \/ pc'["executor"] = "pop" /\ message'["executor"] = NoMessage
    BY <1>1, <1>5 DEF Calls, Check, Insert, Flush, DisconnectClient, Release, Clear, Report, AfterSend,
       AfterDisconnect, Finish, Goto, Work, Keep, ThreadsOK, Closing
  <2>2. ~InHand /\ ~InHand' /\ (Refuses' => Refuses)
    BY <2>1 DEF InHand, Refuses, NoMessage
  <2>3. Refuses' => UNCHANGED <<request, message>>
    BY <2>1 DEF Refuses, NoMessage
  <2>4. RefusalUnderWay'
    BY <1>1, <2>1, <2>3 DEF MapsInv, RefusalUnderWay, Refuses, NoMessage, Closing
  <2>5. HandFree'
    BY <1>1, <1>2, <2>2, <2>3 DEF MapsInv, HandFree, client
  <2>6. KnownRegistered'
    BY <1>1, <1>2 DEF MapsInv, KnownRegistered, Registered
  <2>7. RefusedRegistered'
    BY <1>1, <1>2, <2>3 DEF MapsInv, RefusedRegistered, Refusing, Refuses, Registered
  <2>8. \A i \in Slots : Taken(i)' <=> Taken(i)
    BY <1>2, <2>1, <2>2 DEF Taken, Erasing, Registered
  <2> QED BY <1>2, <1>3, <2>4, <2>5, <2>6, <2>7, <2>8, AsksKept DEF RefusalInv, MapsInv
<1> QED BY <1>4, <1>5

LEMMA AdministratorRefusal ==
  ASSUME RefusalInv, Calm, SessionInv', AdministratorRequests
  PROVE  RefusalInv'
<1> USE DEF slotVars, loopVars, sensorVars, registry, adminVars
<1>1. /\ TypeInv /\ ThreadsOK /\ RegistryOK /\ CommandNoted /\ MapsInv
      /\ {"executor", "admin", "network"} \subseteq Threads
  BY DEF RefusalInv, SessionInv, ConnectionInv, TypeInv, TypeOK, Threads
<1>2. /\ UNCHANGED <<queue, executorVars>> /\ commanded \subseteq commanded'
      /\ pc'["network"] = pc["network"] /\ request'["network"] = request["network"]
  BY <1>1 DEF AdministratorRequests, GenerateToken, ExecuteCommand, LookUp, Respond, Finish, Goto,
     Work, ThreadsOK, executorVars
<1>3. \A s \in Sensors \ commanded' : sensorToClientId'[s] = sensorToClientId[s]
  <2>1. CASE LookUp \/ Respond
    <3>1. request["admin"].token \in commanded /\ UNCHANGED commanded
      BY <1>1, <2>1 DEF LookUp, Respond, CommandNoted
    <3> QED BY <1>1, <2>1, <3>1 DEF LookUp, Respond, RegistryOK
  <2>2. CASE UNCHANGED sensorToClientId
    BY <2>2
  <2> QED BY <2>1, <2>2 DEF AdministratorRequests, GenerateToken, ExecuteCommand
<1>4. MapsInv' /\ \A i \in Slots : Taken(i)' <=> Taken(i)
  BY <1>1, <1>2, <1>3, MapsFrame
<1> QED BY <1>2, <1>4, AsksKept DEF RefusalInv

LEMMA SensorRequestsRefusal ==
  ASSUME RefusalInv, Calm, Calm', SessionInv', SensorRequests
  PROVE  RefusalInv'
<1> USE DEF slotVars, loopVars, sensorVars, registry, adminVars
<1>1. /\ TypeInv /\ ThreadsOK /\ RegistryOK /\ MapsInv /\ QueueAsksFree /\ queue \in Seq(Requests)
      /\ dbErrors \in Nat /\ {"executor", "network"} \subseteq Threads
  BY DEF RefusalInv, SessionInv, ConnectionInv, TypeInv, TypeOK, HistoryOK, Threads
<1>2. /\ pc'["network"] = pc["network"] /\ request'["network"] = request["network"]
      /\ commanded' = commanded
  BY <1>1 DEF SensorRequests, ExecuteMeasurement, ExecuteConnected, CheckActive, AddSensor, Register,
     ExecuteDisconnected, EraseRegistration, Finish, Goto, Work, Keep, ThreadsOK
<1>3. dbErrors' = dbErrors
  BY DEF Calm
<1>4. ASSUME queue # <<>>
      PROVE  Head(queue) = queue[1] /\ 1 \in 1 .. Len(queue) /\ queue[1] \in Requests
  BY <1>1, <1>4
<1>5. CASE ExecuteMeasurement
  <2>1. /\ queue # <<>> /\ queue' = Tail(queue) /\ Head(queue).type = "measure"
        /\ UNCHANGED <<executorVars, sensorToClientId>>
    BY <1>5 DEF ExecuteMeasurement, Takes, executorVars
  <2>2. MapsInv' /\ \A i \in Slots : Taken(i)' <=> Taken(i)
    BY <1>1, <1>2, <2>1, MapsFrame
  <2>3. \A i \in Slots : ~Ends(1, i)
    BY <1>4, <2>1 DEF Ends
  <2> QED BY <1>2, <2>1, <2>2, <2>3, AsksPop DEF RefusalInv
<1>6. CASE ExecuteConnected
  <2> DEFINE r == queue[1]
  <2>1. /\ queue # <<>> /\ queue' = Tail(queue) /\ r.type = "connected" /\ r \in Requests
        /\ pc["executor"] = "pop" /\ UNCHANGED registry
    BY <1>4, <1>6 DEF ExecuteConnected, Takes
  <2>2. \/ UNCHANGED executorVars
        \/ /\ request'["executor"] = r /\ pc'["executor"] \in {"check", "contains"}
           /\ message'["executor"] \in {"incorrect", NoMessage}
    BY <1>1, <1>4, <1>6, <2>1 DEF ExecuteConnected, Goto, Work, ThreadsOK, executorVars
  <2>3. r.client \in Slots
    BY <2>1 DEF Requests
  <2>4. clientToSensorId[r.client] = NoSensor
    <3>1. Asks(1, r.client)
      BY <2>1 DEF Asks
    <3>2. ~Taken(r.client)
      BY <1>1, <1>4, <2>1, <2>3, <3>1 DEF QueueAsksFree
    <3> HIDE DEF r
    <3> QED BY <1>1, <2>1, <2>3, <3>2 DEF Taken, Erasing, Registered, RegistryOK
  <2>5. CASE UNCHANGED executorVars
    <3>1. MapsInv' /\ \A i \in Slots : Taken(i)' <=> Taken(i)
      BY <1>1, <1>2, <2>1, <2>5, MapsFrame
    <3>2. \A i \in Slots : ~Ends(1, i)
      BY <2>1 DEF Ends
    <3> QED BY <1>2, <2>1, <3>1, <3>2, AsksPop DEF RefusalInv
  <2>6. CASE ~UNCHANGED executorVars
    <3>1. /\ request'["executor"] = r /\ pc'["executor"] \in {"check", "contains"} /\ ~Refuses'
      BY <2>2, <2>6 DEF Refuses, NoMessage
    <3>2. \A i \in Slots : Taken(i)' => (Taken(i) /\ ~Ends(1, i)) \/ Asks(1, i)
      BY <2>1, <3>1 DEF Taken, InHand, Erasing, Registered, client, Asks, Ends
    <3>3. HandFree'
      BY <2>1, <2>4, <3>1 DEF HandFree, client
    <3>4. MapsInv'
      BY <1>1, <1>2, <2>1, <3>1, <3>3
         DEF MapsInv, RefusalUnderWay, KnownRegistered, RefusedRegistered, Refusing, Refuses,
             Registered
    <3> QED BY <1>2, <2>1, <3>2, <3>4, AsksPop DEF RefusalInv
  <2> QED BY <2>5, <2>6
<1>7. CASE CheckActive
  <2> DEFINE r == request["executor"]
  <2>1. /\ pc["executor"] = "contains" /\ UNCHANGED <<queue, registry>> /\ InHand
        /\ clientToSensorId[r.client] = NoSensor
    BY <1>7, <1>1 DEF CheckActive, InHand, MapsInv, HandFree, client
  <2>2. \/ /\ IsActive(r.token) /\ pc'["executor"] = "check" /\ request'["executor"] = r
        \/ /\ pc'["executor"] = "add" /\ request'["executor"] = r
           /\ message'["executor"] = message["executor"]
    BY <1>7, <1>1, <1>3 DEF CheckActive, StatementRaises, Goto, Work, Keep, ThreadsOK
  <2>3. ~Refuses
    BY <1>1, <2>1 DEF MapsInv, RefusalUnderWay, Closing
  <2>4. \A i \in Slots : Taken(i)' => Taken(i)
    BY <2>1, <2>2 DEF Taken, InHand, Erasing, Registered, client
  <2>5. RefusalUnderWay' /\ HandFree' /\ KnownRegistered'
    BY <1>1, <1>2, <2>1, <2>2, <2>3
       DEF MapsInv, RefusalUnderWay, HandFree, KnownRegistered, Registered, Refuses, client
  <2>6. RefusedRegistered'
    <3> SUFFICES ASSUME NEW s \in Sensors \ commanded, Refusing("executor", s)'
                 PROVE  \E i \in Slots : Registered(i, s)
      BY <1>2, <2>1 DEF RefusedRegistered, Registered
    <3>1. IsActive(s)
      BY <2>2, <2>3 DEF Refusing, Refuses
    <3>2. sensorToClientId[s] \in Slots
      BY <1>1, <3>1 DEF IsActive, RegistryOK
    <3> QED BY <1>1, <3>2 DEF MapsInv, KnownRegistered
  <2> QED BY <1>2, <2>1, <2>4, <2>5, <2>6, AsksKept DEF RefusalInv, MapsInv
<1>8. CASE AddSensor
  <2>1. /\ pc["executor"] = "add" /\ UNCHANGED <<queue, registry>> /\ InHand
    BY <1>8 DEF AddSensor, InHand
  <2>2. \/ /\ pc'["executor"] = "register" /\ request'["executor"] = request["executor"]
           /\ message'["executor"] = message["executor"]
        \/ pc'["executor"] = "pop" /\ message'["executor"] = NoMessage
    BY <1>8, <1>1 DEF AddSensor, Goto, Work, Keep, Finish, ThreadsOK
  <2>3. ~Refuses
    BY <1>1, <2>1 DEF MapsInv, RefusalUnderWay, Closing
  <2>4. ~Refuses' /\ (InHand' => request'["executor"] = request["executor"])
    BY <2>2, <2>3 DEF Refuses, InHand, NoMessage
  <2>5. \A i \in Slots : Taken(i)' => Taken(i)
    BY <2>1, <2>2 DEF Taken, InHand, Erasing, Registered, client
  <2>6. MapsInv'
    BY <1>1, <1>2, <2>1, <2>4
       DEF MapsInv, RefusalUnderWay, HandFree, KnownRegistered, RefusedRegistered, Registered,
           Refuses, Refusing, client
  <2> QED BY <1>2, <2>1, <2>5, <2>6, AsksKept DEF RefusalInv
<1>9. CASE Register
  <2> DEFINE r == request["executor"]
  <2>1. /\ pc["executor"] = "register" /\ pc'["executor"] = "check" /\ UNCHANGED queue
        /\ InHand /\ r.client \in Slots /\ request'["executor"] = r /\ ~Refuses'
        /\ clientToSensorId[r.client] = NoSensor
    BY <1>9, <1>1, RequestType
       DEF Register, Goto, Work, ThreadsOK, InHand, Refuses, MapsInv, HandFree, client
  <2>2. /\ clientToSensorId' = [clientToSensorId EXCEPT ![r.client] = r.token]
        /\ sensorToClientId' = [sensorToClientId EXCEPT ![r.token] = r.client]
    BY <1>9 DEF Register
  <2> HIDE DEF r
  <2>3. \A i \in Slots : Taken(i)' => Taken(i)
    <3> SUFFICES ASSUME NEW i \in Slots, Taken(i)' PROVE Taken(i)
      OBVIOUS
    <3>1. CASE i = r.client
      BY <2>1, <3>1 DEF Taken, client, r
    <3>2. CASE i # r.client
      BY <1>1, <2>1, <2>2, <3>2 DEF Taken, InHand, Erasing, Registered, RegistryOK
    <3> QED BY <3>1, <3>2
  <2>4. KnownRegistered'
    <3> SUFFICES ASSUME NEW i \in Slots, NEW s \in Sensors \ commanded, sensorToClientId'[s] = i
                 PROVE  clientToSensorId'[i] = s
      BY <1>2 DEF KnownRegistered, Registered
    <3>1. CASE s = r.token
      BY <1>1, <2>1, <2>2, <3>1 DEF RegistryOK
    <3>2. CASE s # r.token
      <4>1. clientToSensorId[i] = s
        BY <1>1, <2>2, <3>2 DEF RegistryOK, MapsInv, KnownRegistered, Registered
      <4> QED BY <1>1, <2>1, <2>2, <4>1, ServerAssumption DEF RegistryOK
    <3> QED BY <3>1, <3>2
  <2>5. MapsInv'
    BY <2>1, <2>4 DEF MapsInv, RefusalUnderWay, HandFree, RefusedRegistered, Refuses, Refusing, InHand
  <2> QED BY <1>2, <2>1, <2>3, <2>5, AsksKept DEF RefusalInv
<1>10. CASE ExecuteDisconnected
  <2> DEFINE r == queue[1]
  <2>1. /\ queue # <<>> /\ queue' = Tail(queue) /\ r.type = "disconnected" /\ r \in Requests
        /\ pc["executor"] = "pop" /\ UNCHANGED registry
    BY <1>4, <1>10 DEF ExecuteDisconnected, Takes
  <2>2. \/ /\ UNCHANGED executorVars /\ clientToSensorId[r.client] = NoSensor
        \/ /\ pc'["executor"] = "erase" /\ request'["executor"] = r
           /\ message'["executor"] = NoMessage
    BY <1>1, <1>3, <1>4, <1>10, <2>1
       DEF ExecuteDisconnected, StatementRaises, Goto, Work, ThreadsOK, executorVars
  <2>3. ~InHand' /\ ~InHand /\ ~Refuses'
    BY <1>1, <2>1, <2>2
       DEF InHand, Refuses, NoMessage, MapsInv, RefusalUnderWay, Closing, executorVars
  <2>4. \A i \in Slots : Taken(i)' => Taken(i) /\ ~Ends(1, i)
    <3> SUFFICES ASSUME NEW i \in Slots, NEW s \in Sensors, ~Erasing(i)', Registered(i, s)
                 PROVE  Taken(i) /\ ~Ends(1, i)
      BY <2>1, <2>3 DEF Taken, InHand, Registered
    <3>1. Taken(i)
      BY <2>1 DEF Taken, Erasing
    <3>2. i # r.client
      BY <2>2, ServerAssumption DEF Erasing, Registered, client
    <3> QED BY <3>1, <3>2 DEF Ends
  <2>5. MapsInv'
    BY <1>1, <1>2, <2>1, <2>3
       DEF MapsInv, RefusalUnderWay, HandFree, KnownRegistered, RefusedRegistered, Registered,
           Refuses, Refusing
  <2> QED BY <1>2, <2>1, <2>4, <2>5, AsksPop DEF RefusalInv
<1>11. CASE EraseRegistration
  <2> DEFINE e == client("executor")
  <2>1. /\ pc["executor"] = "erase" /\ pc'["executor"] = "pop" /\ e \in Slots
        /\ message'["executor"] = NoMessage /\ UNCHANGED queue
    BY <1>11, <1>1, RequestType DEF EraseRegistration, Finish, Goto, Work, ThreadsOK
  <2>2. /\ clientToSensorId' = [clientToSensorId EXCEPT ![e] = NoSensor]
        /\ sensorToClientId' = [sensorToClientId EXCEPT ![clientToSensorId[e]] = NoSlot]
    BY <1>11 DEF EraseRegistration
  <2>3. ~InHand' /\ ~Refuses'
    BY <2>1 DEF InHand, Refuses, NoMessage
  <2>4. \A i \in Slots : Taken(i)' => Taken(i)
    BY <1>1, <2>1, <2>2, <2>3, ServerAssumption DEF Taken, Erasing, Registered, RegistryOK
  <2>5. KnownRegistered'
    <3> SUFFICES ASSUME NEW i \in Slots, NEW s \in Sensors \ commanded, sensorToClientId'[s] = i
                 PROVE  clientToSensorId'[i] = s
      BY <1>2 DEF KnownRegistered, Registered
    <3>1. s # clientToSensorId[e] /\ sensorToClientId[s] = i
      BY <1>1, <2>2, SlotZero DEF RegistryOK
    <3>2. clientToSensorId[i] = s
      BY <1>1, <3>1 DEF MapsInv, KnownRegistered, Registered
    <3> QED BY <1>1, <2>1, <2>2, <3>1, <3>2 DEF RegistryOK
  <2>6. MapsInv'
    BY <2>3, <2>5 DEF MapsInv, RefusalUnderWay, HandFree, RefusedRegistered, Refuses, Refusing
  <2> QED BY <1>2, <2>1, <2>4, <2>6, AsksKept DEF RefusalInv
<1> QED BY <1>5, <1>6, <1>7, <1>8, <1>9, <1>10, <1>11 DEF SensorRequests

LEMMA RefusalInvariant == Spec => []RefusalInv
<1>1. Init => RefusalInv
  <2> SUFFICES ASSUME Init PROVE RefusalInv
    OBVIOUS
  <2>1. SessionInv
    BY InitSession
  <2>2. Len(queue) = 0
    BY DEF Init
  <2>3. QueueAsksFree /\ NetworkAsksFree
    BY <2>2 DEF Init, QueueAsksFree, NetworkAsksFree, Sending, Threads
  <2>4. ~InHand /\ ~Refuses
    BY DEF Init, InHand, Refuses, NoMessage, Threads
  <2>5. MapsInv
    BY <2>4, SlotZero
       DEF Init, MapsInv, RefusalUnderWay, HandFree, KnownRegistered, RefusedRegistered, Refuses,
           Refusing
  <2> QED BY <2>1, <2>3, <2>5 DEF RefusalInv
<1>2. RefusalInv /\ SessionInv' /\ [Next]_vars => RefusalInv'
  <2> SUFFICES ASSUME RefusalInv, SessionInv', [Next]_vars, Calm' PROVE RefusalInv'
    BY DEF RefusalInv
  <2>1. Calm
    BY CalmBefore DEF RefusalInv, SessionInv, ConnectionInv
  <2>2. CASE UNCHANGED vars
    <3>1. UNCHANGED <<executorVars, queue, sensorToClientId, commanded>>
      BY <2>2 DEF vars, executorVars, registry, adminVars
    <3>2. pc'["network"] = pc["network"] /\ request'["network"] = request["network"]
      BY <2>2 DEF vars
    <3>3. MapsInv' /\ \A i \in Slots : Taken(i)' <=> Taken(i)
      BY <2>1, <3>1, MapsFrame DEF RefusalInv
    <3> QED BY <2>1, <3>1, <3>2, <3>3, AsksKept DEF RefusalInv
  <2>3. ASSUME NEW t \in Threads, Calls(t) PROVE RefusalInv'
    BY <2>1, <2>3, NetworkRefusal, ExecutorsRefusal DEF Threads
  <2> QED BY <2>1, <2>2, <2>3, NetworkRefusal, SensorRequestsRefusal, AdministratorRefusal DEF Next
<1> QED BY <1>1, <1>2, SessionInvariant, PTL DEF Spec

\* A sensor is refused as already active only while its token is in use over another slot,
\* or the disconnection of that slot is on its way: a request comes after the end of the
\* session its slot had, so that no sensor is refused for its own slot.
THEOREM RefusalsJustified == Spec => []RefusedWhileInUse
<1>1. RefusalInv => RefusedWhileInUse
  <2> SUFFICES ASSUME RefusalInv, Calm, NEW s \in Sensors \ commanded, Refusing("executor", s)
               PROVE  \E i \in Slots \ {client("executor")} : InUse(i, s)
    BY DEF RefusedWhileInUse, Calm
  <2>1. PICK i \in Slots : Registered(i, s)
    BY DEF RefusalInv, MapsInv, RefusedRegistered
  <2>2. i # client("executor")
    BY <2>1, ServerAssumption DEF RefusalInv, MapsInv, HandFree, Refuses, Refusing, Registered
  <2>3. InUse(i, s)
    BY <2>1, ReportedSession DEF RefusalInv, InUse
  <2> QED BY <2>2, <2>3
<1> QED BY <1>1, RefusalInvariant, PTL

=============================================================================
