-------------------------- MODULE ConsoleClientProofs --------------------------
(***************************************************************************)
(* The Java panels keep their state consistent, whatever the three threads *)
(* and the server interleave, for any sensors and spans and any bounds.    *)
(***************************************************************************)
EXTENDS ConsoleClient, SequenceTheorems, TLAPS

-----------------------------------------------------------------------------
(* Types *)

\* What a panel is sent
Answers == (PanelCommands \ {List}) \cup [type : {"list"}, sensors : Lists]

Buffered == Answers \cup {[type |-> "refresh"]}

AppOK ==
  /\ panel \in {"administrator", "monitoring"} /\ app \in {"running", "alert", "closed"}
  /\ ready \in BOOLEAN /\ active \in BOOLEAN /\ link \in {"none", "up", "closed", "failed"}
  /\ given \in Nat /\ dropped \in Nat

ChannelOK ==
  /\ bufferedMessages \in Seq(PanelCommands) /\ toServer \in Seq(PanelCommands)
  /\ toClient \in Seq(Answers) /\ buffer \in Seq(Buffered)

LaterOK == later \in Seq({"list", "check", "refresh", "token", "data"})

Currents == IF panel = "administrator" THEN Ids \cup {None} ELSE [id : Ids, row : Row] \cup {None}

ModelOK == sensors \in Lists /\ rows \in Lists /\ table \in Lists /\ current \in Currents

ViewOK == details \in Ids \cup {None} /\ enabled \in BOOLEAN /\ editing \in BOOLEAN

DataOK ==
  /\ measurementsType \in Spans \cup {None} /\ measurements \in Points
  /\ chart \in [data : Points, title : Spans \cup {None}]

TypeInv == AppOK /\ ChannelOK /\ LaterOK /\ ModelOK /\ ViewOK /\ DataOK

LEMMA TypeInvOK == TypeInv => TypeOK
<1> SUFFICES ASSUME TypeInv PROVE TypeOK
  OBVIOUS
<1>1. PanelCommands \subseteq Commands
  BY DEF PanelCommands, Commands
<1>2. bufferedMessages \in Seq(Commands) /\ toServer \in Seq(Commands)
  BY <1>1, SeqMonotonic DEF TypeInv, ChannelOK
<1> QED BY <1>2 DEF TypeInv, AppOK, LaterOK, ModelOK, ViewOK, DataOK, Currents, TypeOK

\* No step changes the panel, and the types depend on nothing else.
LEMMA PanelStays ==
  ASSUME [Next]_vars
  PROVE  panel' = panel
BY DEF Next, Clicked, SelectSensor, SelectMonitored, addNewSensorClicked, CommandClicked, EditName,
       StopEditing, SaveName, LoadData, Close, ClickSelects, ClickCommands, Click, RunLater,
       RunsLater, sendRequestGetAllSensors, isConnectionEstablished, refreshAllViews, displayToken,
       showData, Tick, Reader, Netty, Analyze, channelActive, channelRead,
       executeResponseGetAllSensors, executeResponseGetAllMonitored, refreshSensorTable,
       executeResponse, executeResponseGetSetOfMeasurements, exceptionCaught, Serve, Drop,
       SensorChanges, LinkEnds, vars

LEMMA PanelTypes ==
  ASSUME panel' = panel
  PROVE  /\ Row' = Row /\ Lists' = Lists /\ PanelCommands' = PanelCommands
         /\ Answers' = Answers /\ Buffered' = Buffered /\ Currents' = Currents
BY DEF Row, Lists, PanelCommands, Answers, Buffered, Currents

LEMMA ListType ==
  ASSUME NEW f
  PROVE  f \in Lists <=> DOMAIN f \subseteq Ids /\ f \in [DOMAIN f -> Row]
BY DEF Lists

LEMMA EmptyList == <<>> \in Lists
<1>1. <<>> \in [1 .. 0 -> Row]
  BY EmptySeq, LenProperties
<1>2. 1 .. 0 = {} /\ {} \in SUBSET Ids
  OBVIOUS
<1> QED BY <1>1, <1>2 DEF Lists

LEMMA RestrictList ==
  ASSUME NEW f \in Lists, NEW s
  PROVE  Restrict(f, DOMAIN f \ {s}) \in Lists
<1>1. DOMAIN f \subseteq Ids /\ f \in [DOMAIN f -> Row]
  BY ListType
<1> DEFINE g == Restrict(f, DOMAIN f \ {s})
<1>2. g \in [DOMAIN f \ {s} -> Row]
  BY <1>1 DEF Restrict
<1>3. DOMAIN f \ {s} \in SUBSET Ids
  BY <1>1
<1> HIDE DEF g
<1> QED BY <1>2, <1>3 DEF Lists, g

\* A row of the list is replaced by another.
LEMMA ReplaceRow ==
  ASSUME NEW f \in Lists, NEW s \in DOMAIN f, NEW r \in Row
  PROVE  [f EXCEPT ![s] = r] \in Lists
<1>1. DOMAIN f \subseteq Ids /\ f \in [DOMAIN f -> Row]
  BY ListType
<1>2. [f EXCEPT ![s] = r] \in [DOMAIN f -> Row]
  BY <1>1
<1> QED BY <1>1, <1>2 DEF Lists

LEMMA ChangeRow ==
  ASSUME NEW f \in Lists, NEW s \in DOMAIN f
  PROVE  /\ panel = "administrator" =>
              /\ [f EXCEPT ![s].name = "new"] \in Lists
              /\ \A b \in BOOLEAN : [f EXCEPT ![s].connected = b] \in Lists
              /\ [f EXCEPT ![s].connected = ~@] \in Lists
         /\ panel = "monitoring" => [f EXCEPT ![s].value = 1 - @] \in Lists
<1>1. DOMAIN f \subseteq Ids /\ f \in [DOMAIN f -> Row] /\ f[s] \in Row
  BY ListType
<1>2. ASSUME panel = "administrator"
      PROVE  /\ [f EXCEPT ![s].name = "new"] \in Lists
             /\ \A b \in BOOLEAN : [f EXCEPT ![s].connected = b] \in Lists
  <2>1. [f[s] EXCEPT !.name = "new"] \in Row
    BY <1>1, <1>2 DEF Row
  <2>2. \A b \in BOOLEAN : [f[s] EXCEPT !.connected = b] \in Row
    BY <1>1, <1>2 DEF Row
  <2>3. [f EXCEPT ![s].name = "new"] = [f EXCEPT ![s] = [f[s] EXCEPT !.name = "new"]]
    BY <1>1
  <2>4. \A b \in BOOLEAN :
          [f EXCEPT ![s].connected = b] = [f EXCEPT ![s] = [f[s] EXCEPT !.connected = b]]
    BY <1>1
  <2> QED BY <2>1, <2>2, <2>3, <2>4, ReplaceRow
<1>3. ASSUME panel = "administrator" PROVE [f EXCEPT ![s].connected = ~@] \in Lists
  <2>1. (~f[s].connected) \in BOOLEAN
    OBVIOUS
  <2>2. [f EXCEPT ![s].connected = ~@] = [f EXCEPT ![s].connected = ~f[s].connected]
    BY <1>1
  <2> QED BY <1>2, <1>3, <2>1, <2>2
<1>4. ASSUME panel = "monitoring" PROVE [f EXCEPT ![s].value = 1 - @] \in Lists
  <2>1. [f[s] EXCEPT !.value = 1 - @] \in Row
    BY <1>1, <1>4 DEF Row
  <2>2. [f EXCEPT ![s].value = 1 - @] = [f EXCEPT ![s] = [f[s] EXCEPT !.value = 1 - @]]
    BY <1>1
  <2> QED BY <2>1, <2>2, ReplaceRow
<1> QED BY <1>2, <1>3, <1>4

LEMMA AnswerType ==
  ASSUME table \in Lists, NEW m \in PanelCommands
  PROVE  /\ Answer(m) \in Answers /\ Answer(m).type = m.type
         /\ m.type = "data" => Answer(m) = m
<1>1. CASE m = List
  BY <1>1 DEF Answer, Answers, List
<1>2. CASE m # List
  <2>1. m.type # "list"
    BY <1>2 DEF PanelCommands, List
  <2> QED BY <1>2, <2>1 DEF Answer, Answers
<1> QED BY <1>1, <1>2

LEMMA ServedType ==
  ASSUME table \in Lists, panel \in {"administrator", "monitoring"}, NEW m \in PanelCommands
  PROVE  Served(m) \in Lists
<1>1. CASE panel = "administrator"
  <2>1. \A s \in DOMAIN table : /\ [table EXCEPT ![s].name = "new"] \in Lists
                                /\ [table EXCEPT ![s].connected = FALSE] \in Lists
    BY <1>1, ChangeRow
  <2>2. Restrict(table, DOMAIN table \ {m.id}) \in Lists
    BY RestrictList
  <2> QED BY <2>1, <2>2 DEF Served
<1>2. CASE panel # "administrator"
  <2>1. m.type \in {"list", "data"}
    BY <1>2 DEF PanelCommands, List
  <2> QED BY <2>1 DEF Served
<1> QED BY <1>1, <1>2

LEMMA InitType == Init => TypeInv
<1> SUFFICES ASSUME Init PROVE TypeInv
  OBVIOUS
<1>1. AppOK /\ ViewOK
  BY DEF Init, AppOK, ViewOK
<1>3. table \in Lists
  <2>1. panel = "administrator" => [name |-> "old", connected |-> TRUE] \in Row
    BY DEF Row
  <2>2. panel # "administrator" => [value |-> 0] \in Row
    BY DEF Row
  <2>3. table \in [Ids -> Row] /\ Ids \in SUBSET Ids
    BY <2>1, <2>2 DEF Init
  <2> QED BY <2>3 DEF Lists
<1>2. ChannelOK /\ LaterOK
  <2>1. {Answer(command) : command \in PanelCommands} \subseteq Answers
    BY <1>3, AnswerType
  <2>2. toClient \in Seq({Answer(command) : command \in PanelCommands})
    BY ConsoleAssumption DEF Init, SeqOf
  <2>3. toClient \in Seq(Answers)
    BY <2>1, <2>2, SeqMonotonic
  <2> QED BY <2>3, EmptySeq DEF Init, ChannelOK, LaterOK
<1>4. ModelOK
  BY <1>3, EmptyList DEF Init, ModelOK, Currents
<1>5. DataOK
  BY DEF Init, DataOK, Points, NoChart
<1> QED BY <1>1, <1>2, <1>4, <1>5 DEF TypeInv

Sent == bufferedMessages \in Seq(PanelCommands) /\ toServer \in Seq(PanelCommands)

LEMMA SendType ==
  ASSUME TypeInv, panel' = panel, NEW messages \in Seq(PanelCommands), Send(messages)
  PROVE  Sent'
<1>1. bufferedMessages \in Seq(PanelCommands) /\ toServer \in Seq(PanelCommands)
  BY DEF TypeInv, ChannelOK
<1>2. /\ bufferedMessages \o messages \in Seq(PanelCommands)
      /\ toServer \o bufferedMessages \o messages \in Seq(PanelCommands)
  BY <1>1, ConcatProperties
<1>3. /\ bufferedMessages' \in Seq(PanelCommands) /\ toServer' \in Seq(PanelCommands)
  BY <1>1, <1>2, EmptySeq DEF Send
<1> QED BY <1>3, PanelTypes DEF Sent

LEMMA CloseType ==
  ASSUME TypeInv, panel' = panel, closeApp
  PROVE  Sent' /\ app' \in {"running", "closed"}
<1>1. bufferedMessages \in Seq(PanelCommands) /\ toServer \in Seq(PanelCommands)
  BY DEF TypeInv, ChannelOK
<1>2. toServer \o bufferedMessages \in Seq(PanelCommands)
  BY <1>1, ConcatProperties
<1>3. bufferedMessages # <<>> => Tail(bufferedMessages) \in Seq(PanelCommands)
  BY <1>1, HeadTailProperties
<1>4. /\ bufferedMessages' \in Seq(PanelCommands) /\ toServer' \in Seq(PanelCommands)
  BY <1>1, <1>2, <1>3, EmptySeq DEF closeApp
<1> QED BY <1>4, PanelTypes DEF Sent, closeApp

\* The messages a panel sends
LEMMA CommandTypes ==
  /\ List \in PanelCommands
  /\ panel = "administrator" =>
       /\ << [type |-> "token"] >> \in Seq(PanelCommands)
       /\ \A type \in {"revoke", "disconnect"}, id \in Ids :
            << [type |-> type, id |-> id], List >> \in Seq(PanelCommands)
       /\ \A id \in Ids : << [type |-> "rename", id |-> id] >> \in Seq(PanelCommands)
  /\ panel # "administrator" =>
       \A id \in Ids, span \in Spans :
         << [type |-> "data", id |-> id, span |-> span] >> \in Seq(PanelCommands)
<1>1. \A a, b \in PanelCommands : <<a>> \in Seq(PanelCommands) /\ <<a, b>> \in Seq(PanelCommands)
  OBVIOUS
<1>2. List \in PanelCommands
  BY DEF PanelCommands
<1>3. panel = "administrator" =>
        /\ [type |-> "token"] \in PanelCommands
        /\ \A type \in {"revoke", "disconnect", "rename"}, id \in Ids :
             [type |-> type, id |-> id] \in PanelCommands
  BY DEF PanelCommands
<1>4. panel # "administrator" =>
        \A id \in Ids, span \in Spans :
          [type |-> "data", id |-> id, span |-> span] \in PanelCommands
  BY DEF PanelCommands
<1> QED BY <1>1, <1>2, <1>3, <1>4

LEMMA ClicksType ==
  ASSUME TypeInv, Clicked
  PROVE  TypeInv'
<1> USE DEF TypeInv
<1>1. panel' = panel
  BY PanelStays DEF Next
<1>2. /\ Lists' = Lists /\ PanelCommands' = PanelCommands /\ Answers' = Answers
      /\ Buffered' = Buffered /\ Currents' = Currents /\ Row' = Row
  BY <1>1, PanelTypes
<1>3. DOMAIN rows \subseteq Ids /\ DOMAIN sensors \subseteq Ids
  BY ListType DEF ModelOK
<1>4. /\ UNCHANGED <<toClient, buffer, later, table, chart, measurements>>
      /\ UNCHANGED <<ready, active, link, dropped>>
  BY DEF Clicked, SelectSensor, SelectMonitored, addNewSensorClicked, CommandClicked, EditName,
     StopEditing, SaveName, LoadData, Close, ClickSelects, ClickCommands, Click, view, data, model,
     bounds
<1>5. given' \in Nat
  <2>1. given' = given \/ given' = given + 1
    BY DEF Clicked, SelectSensor, SelectMonitored, addNewSensorClicked, CommandClicked, EditName,
       StopEditing, SaveName, LoadData, Close, ClickSelects, ClickCommands, bounds
  <2> QED BY <2>1 DEF AppOK
<1>6. app' \in {"running", "alert", "closed"}
  BY <1>1, CloseType DEF AppOK, Clicked, SelectSensor, SelectMonitored, addNewSensorClicked,
     CommandClicked, EditName, StopEditing, SaveName, LoadData, Close, ClickSelects, ClickCommands,
     Click
<1>7. AppOK'
  BY <1>1, <1>6, <1>4, <1>5 DEF AppOK
<1>8. LaterOK'
  BY <1>4 DEF LaterOK
<1>9. DataOK'
  BY <1>4 DEF DataOK, Clicked, SelectSensor, SelectMonitored, addNewSensorClicked, CommandClicked,
     EditName, StopEditing, SaveName, LoadData, Close, view, data
<1>10. Sent'
  <2>1. ASSUME NEW s \in Ids, SelectSensor(s) \/ SelectMonitored(s) PROVE Sent'
    BY <1>2, <2>1 DEF SelectSensor, SelectMonitored, Sent, ChannelOK
  <2>2. CASE EditName \/ StopEditing
    BY <1>2, <2>2 DEF EditName, StopEditing, Sent, ChannelOK
  <2>3. CASE addNewSensorClicked
    BY <1>1, <2>3, CommandTypes, SendType DEF addNewSensorClicked
  <2>4. ASSUME NEW type \in {"revoke", "disconnect"}, CommandClicked(type) PROVE Sent'
    <3>1. current \in Ids
      BY <2>4 DEF CommandClicked, ModelOK, Currents
    <3> QED BY <1>1, <2>4, <3>1, CommandTypes, SendType DEF CommandClicked
  <2>5. CASE SaveName
    <3>1. CASE current \in DOMAIN sensors
      BY <1>1, <1>3, <2>5, <3>1, CommandTypes, SendType DEF SaveName
    <3>2. CASE current \notin DOMAIN sensors
      BY <1>2, <2>5, <3>2 DEF SaveName, Sent, ChannelOK
    <3> QED BY <3>1, <3>2
  <2>6. ASSUME NEW span \in Spans, LoadData(span) PROVE Sent'
    <3>1. CASE current = None
      BY <1>2, <2>6, <3>1 DEF LoadData, Sent, ChannelOK
    <3>2. CASE current # None
      <4>1. current.id \in Ids /\ panel # "administrator"
        BY <2>6, <3>2 DEF LoadData, ModelOK, Currents
      <4> QED BY <1>1, <2>6, <3>2, <4>1, CommandTypes, SendType DEF LoadData
    <3> QED BY <3>1, <3>2
  <2>7. CASE Close
    BY <1>1, <2>7, CloseType DEF Close
  <2> QED BY <2>1, <2>2, <2>3, <2>4, <2>5, <2>6, <2>7 DEF Clicked
<1>11. ChannelOK'
  BY <1>4, <1>2, <1>10 DEF ChannelOK, Sent
<1>12. ModelOK' /\ ViewOK'
  <2>1. ASSUME NEW s \in Ids, SelectSensor(s) PROVE ModelOK' /\ ViewOK'
    BY <1>4, <1>3, <1>2, <2>1 DEF SelectSensor, ModelOK, ViewOK, Currents
  <2>2. ASSUME NEW s \in Ids, SelectMonitored(s) PROVE ModelOK' /\ ViewOK'
    <3>1. s \in DOMAIN sensors => SensorOf(s) \in [id : Ids, row : Row]
      BY ListType DEF SensorOf, ModelOK
    <3>2. panel = "monitoring" /\ current' \in Currents
      BY <2>2, <3>1 DEF SelectMonitored, Currents
    <3> QED BY <1>4, <1>2, <2>2, <3>2 DEF SelectMonitored, ModelOK, ViewOK
  <2>3. CASE SaveName
    <3>1. current \in DOMAIN sensors => [sensors EXCEPT ![current].name = "new"] \in Lists
      BY <2>3, ChangeRow DEF SaveName, ModelOK
    <3>2. sensors' \in Lists /\ rows' \in Lists
      BY <2>3, <3>1 DEF SaveName, ModelOK
    <3>3. ViewOK'
      BY <2>3 DEF SaveName, ViewOK
    <3> QED BY <1>4, <1>2, <2>3, <3>2, <3>3 DEF SaveName, ModelOK
  <2>4. CASE \/ addNewSensorClicked \/ CommandClicked("revoke") \/ CommandClicked("disconnect")
             \/ EditName \/ StopEditing \/ (\E span \in Spans : LoadData(span)) \/ Close
    <3>1. ModelOK' /\ details' = details
      BY <1>4, <1>2, <2>4 DEF addNewSensorClicked, CommandClicked, EditName, StopEditing, LoadData,
         Close, ModelOK, model, view
    <3>2. enabled' \in BOOLEAN
      BY <2>4 DEF addNewSensorClicked, CommandClicked, EditName, StopEditing, LoadData, Close,
         ViewOK, view
    <3>3. editing' \in BOOLEAN
      <4>1. CASE EditName
        BY <4>1 DEF EditName
      <4>2. CASE StopEditing
        BY <4>2 DEF StopEditing
      <4>3. CASE ~EditName /\ ~StopEditing
        BY <2>4, <4>3 DEF addNewSensorClicked, CommandClicked, LoadData, Close, ViewOK, view
      <4> QED BY <4>1, <4>2, <4>3
    <3> QED BY <3>1, <3>2, <3>3 DEF ViewOK
  <2> QED BY <2>1, <2>2, <2>3, <2>4 DEF Clicked
<1> QED BY <1>7, <1>8, <1>9, <1>11, <1>12

Tasks == {"list", "check", "refresh", "token", "data"}

\* JavaFX runs what waits in runLater(), and the timer adds to it.
LEMMA LaterType ==
  ASSUME TypeInv, RunLater \/ Tick
  PROVE  TypeInv'
<1> USE DEF TypeInv
<1>1. panel' = panel
  BY PanelStays DEF Next
<1>2. /\ Lists' = Lists /\ PanelCommands' = PanelCommands /\ Answers' = Answers
      /\ Buffered' = Buffered /\ Currents' = Currents /\ Row' = Row
  BY <1>1, PanelTypes
<1>3. UNCHANGED <<ready, active, link, toClient, buffer, table, given, dropped, sensors, current,
                  editing, measurementsType, measurements>>
  BY DEF RunLater, sendRequestGetAllSensors, isConnectionEstablished, refreshAllViews, displayToken,
         showData, RunsLater, Tick, bounds, model, view, data, channel
<1>4. AppOK'
  BY <1>1, <1>3 DEF AppOK, RunLater, sendRequestGetAllSensors, isConnectionEstablished,
     refreshAllViews, displayToken, showData, Tick
<1>5. LaterOK'
  <2>1. \A q \in Seq(Tasks) : q # <<>> => Tail(q) \in Seq(Tasks)
    BY HeadTailProperties
  <2>2. ASSUME Tick PROVE later' \in Seq(Tasks)
    BY <2>2 DEF Tick, LaterOK, Tasks
  <2>3. ASSUME RunLater PROVE later # <<>> /\ later' = Tail(later)
    BY <2>3 DEF RunLater, sendRequestGetAllSensors, isConnectionEstablished, refreshAllViews,
       displayToken, showData, RunsLater
  <2> QED BY <2>1, <2>2, <2>3 DEF LaterOK, Tasks
<1>6. Sent'
  <2>1. CASE sendRequestGetAllSensors
    <3>1. << List >> \in Seq(PanelCommands)
      BY CommandTypes
    <3> QED BY <1>1, <2>1, <3>1, SendType DEF sendRequestGetAllSensors
  <2>2. CASE ~sendRequestGetAllSensors
    BY <1>2, <2>2 DEF RunLater, isConnectionEstablished, refreshAllViews, displayToken, showData,
       Tick, channel, Sent, ChannelOK
  <2> QED BY <2>1, <2>2
<1>7. ChannelOK'
  BY <1>3, <1>2, <1>6 DEF ChannelOK, Sent
<1>8. rows' \in Lists
  BY DEF RunLater, sendRequestGetAllSensors, isConnectionEstablished, refreshAllViews, displayToken,
         showData, Tick, view, ModelOK
<1>9. details' \in Ids \cup {None} /\ enabled' \in BOOLEAN
  <2>1. DOMAIN sensors \subseteq Ids
    BY ListType DEF ModelOK
  <2> QED BY <2>1 DEF RunLater, sendRequestGetAllSensors, isConnectionEstablished, refreshAllViews,
             displayToken, showData, Tick, view, ViewOK
<1>10. ModelOK' /\ ViewOK'
  BY <1>3, <1>2, <1>8, <1>9 DEF ModelOK, ViewOK
<1>11. DataOK'
  BY <1>3 DEF DataOK, RunLater, sendRequestGetAllSensors, isConnectionEstablished, refreshAllViews,
     displayToken, showData, Tick, view
<1> QED BY <1>4, <1>5, <1>7, <1>10, <1>11

\* What netty has read whole
LEMMA HeadType ==
  ASSUME TypeInv, buffer # <<>>
  PROVE  /\ Head(buffer) \in Buffered /\ Tail(buffer) \in Seq(Buffered)
         /\ Head(buffer).type = "list" => Head(buffer).sensors \in Lists
         /\ Head(buffer).type = "data" => Head(buffer).id \in Ids /\ Head(buffer).span \in Spans
<1>1. Head(buffer) \in Buffered /\ Tail(buffer) \in Seq(Buffered)
  BY HeadTailProperties DEF TypeInv, ChannelOK
<1>2. ASSUME NEW m \in Buffered
      PROVE  /\ m.type = "list" => m.sensors \in Lists
             /\ m.type = "data" => m.id \in Ids /\ m.span \in Spans
  <2>1. CASE m \in [type : {"list"}, sensors : Lists]
    BY <2>1
  <2>2. CASE m = [type |-> "refresh"]
    BY <2>2
  <2>3. CASE m \in PanelCommands \ {List}
    BY <2>3 DEF PanelCommands, List
  <2> QED BY <2>1, <2>2, <2>3 DEF Buffered, Answers
<1> QED BY <1>1, <1>2

LEMMA ReaderType ==
  ASSUME TypeInv, Reader
  PROVE  TypeInv'
<1> USE DEF TypeInv
<1>1. panel' = panel
  BY PanelStays DEF Next
<1>2. /\ Lists' = Lists /\ PanelCommands' = PanelCommands /\ Answers' = Answers
      /\ Buffered' = Buffered /\ Currents' = Currents /\ Row' = Row
  BY <1>1, PanelTypes
<1>3. UNCHANGED <<app, given, dropped, bufferedMessages, toServer, editing, details, chart,
                  measurementsType, table>>
  BY DEF Reader, channelActive, channelRead, executeResponseGetAllSensors,
         executeResponseGetAllMonitored, refreshSensorTable, executeResponse,
         executeResponseGetSetOfMeasurements, exceptionCaught, Analyze, Netty, bounds
<1>4. AppOK'
  BY <1>1, <1>3 DEF AppOK, Reader, channelActive, channelRead, executeResponseGetAllSensors,
         executeResponseGetAllMonitored, refreshSensorTable, executeResponse,
         executeResponseGetSetOfMeasurements, exceptionCaught, Analyze
<1>5. LaterOK'
  <2>1. \/ later' = later
        \/ \E task \in Tasks : later' = Append(later, task)
    BY DEF Tasks, Reader, channelActive, channelRead, executeResponseGetAllSensors,
           executeResponseGetAllMonitored, refreshSensorTable, executeResponse,
           executeResponseGetSetOfMeasurements, exceptionCaught
  <2> QED BY <2>1 DEF LaterOK, Tasks
<1>6. toClient' \in Seq(Answers) /\ buffer' \in Seq(Buffered)
  <2>1. CASE channelRead
    <3>1. PICK n \in 0 .. Len(toClient) :
            /\ buffer' = SubSeq(toClient, 1, n)
            /\ toClient' = SubSeq(toClient, n + 1, Len(toClient))
      BY <2>1 DEF channelRead
    <3>2. Len(toClient) \in Nat /\ \A i \in 1 .. Len(toClient) : toClient[i] \in Answers
      BY ElementOfSeq, LenProperties DEF ChannelOK
    <3>3. SubSeq(toClient, 1, n) \in Seq(Answers)
      BY <3>2, SubSeqProperties
    <3>4. SubSeq(toClient, n + 1, Len(toClient)) \in Seq(Answers)
      BY <3>2, SubSeqProperties
    <3>5. SubSeq(toClient, 1, n) \in Seq(Buffered)
      BY <3>3, SeqMonotonic DEF Buffered
    <3> QED BY <3>1, <3>4, <3>5
  <2>2. CASE executeResponseGetAllMonitored
    <3>1. buffer # <<>> /\ toClient' = toClient
      BY <2>2 DEF executeResponseGetAllMonitored
    <3>2. << [type |-> "refresh"] >> \in Seq(Buffered) /\ Tail(buffer) \in Seq(Buffered)
      BY <3>1, HeadType DEF Buffered
    <3>3. << [type |-> "refresh"] >> \o Tail(buffer) \in Seq(Buffered)
      BY <3>2, ConcatProperties
    <3> QED BY <2>2, <3>1, <3>3 DEF executeResponseGetAllMonitored, ChannelOK
  <2>3. CASE \/ executeResponseGetAllSensors \/ refreshSensorTable \/ executeResponse
             \/ executeResponseGetSetOfMeasurements
    <3>1. buffer # <<>> /\ buffer' = Tail(buffer) /\ toClient' = toClient
      BY <2>3 DEF executeResponseGetAllSensors, refreshSensorTable, executeResponse,
         executeResponseGetSetOfMeasurements, Analyze
    <3> QED BY <3>1, HeadType DEF ChannelOK
  <2>4. CASE channelActive \/ exceptionCaught
    BY <2>4, EmptySeq DEF channelActive, exceptionCaught, ChannelOK
  <2> QED BY <2>1, <2>2, <2>3, <2>4 DEF Reader
<1>7. ChannelOK'
  BY <1>3, <1>2, <1>6 DEF ChannelOK
<1>8. sensors' \in Lists /\ rows' \in Lists /\ current' \in Currents
  BY HeadType DEF ModelOK, Currents, Reader, channelActive, channelRead,
         executeResponseGetAllSensors, executeResponseGetAllMonitored, refreshSensorTable,
         executeResponse, executeResponseGetSetOfMeasurements, exceptionCaught, Analyze, model
<1>9. ModelOK'
  BY <1>3, <1>2, <1>8 DEF ModelOK
<1>10. ViewOK'
  BY <1>3 DEF ViewOK, Reader, channelActive, channelRead, executeResponseGetAllSensors,
         executeResponseGetAllMonitored, refreshSensorTable, executeResponse,
         executeResponseGetSetOfMeasurements, exceptionCaught
<1>11. DataOK'
  <2>1. CASE executeResponseGetSetOfMeasurements
    <3>1. measurements' \in [id : Ids, span : Spans]
      BY <2>1, HeadType DEF executeResponseGetSetOfMeasurements, Analyze
    <3> QED BY <1>3, <3>1 DEF DataOK, Points
  <2>2. CASE ~executeResponseGetSetOfMeasurements
    BY <1>3, <2>2 DEF DataOK, Reader, channelActive, channelRead, executeResponseGetAllSensors,
         executeResponseGetAllMonitored, refreshSensorTable, executeResponse, exceptionCaught
  <2> QED BY <2>1, <2>2
<1> QED BY <1>4, <1>5, <1>7, <1>9, <1>10, <1>11

\* The server and the network
LEMMA ServerType ==
  ASSUME TypeInv, Serve \/ Drop \/ SensorChanges \/ LinkEnds
  PROVE  TypeInv'
<1> USE DEF TypeInv
<1>1. panel' = panel
  BY PanelStays DEF Next
<1>2. /\ Lists' = Lists /\ PanelCommands' = PanelCommands /\ Answers' = Answers
      /\ Buffered' = Buffered /\ Currents' = Currents /\ Row' = Row
  BY <1>1, PanelTypes
<1>3. UNCHANGED <<app, active, given, buffer, bufferedMessages, later, model, view, data>>
  BY DEF Serve, Drop, SensorChanges, LinkEnds, bounds, channel
<1>4. AppOK'
  <2>1. dropped' = dropped \/ dropped' = dropped + 1
    BY DEF Serve, Drop, SensorChanges, LinkEnds, bounds
  <2>2. dropped' \in Nat
    BY <2>1 DEF AppOK
  <2> QED BY <1>1, <1>3, <2>2 DEF AppOK, Serve, Drop, SensorChanges, LinkEnds, channel
<1>5. LaterOK' /\ ViewOK' /\ DataOK'
  BY <1>3 DEF LaterOK, ViewOK, DataOK, view, data
<1>6. CASE Serve
  <2> DEFINE m == Head(toServer)
  <2>1. m \in PanelCommands /\ Tail(toServer) \in Seq(PanelCommands)
    BY <1>6, HeadTailProperties DEF Serve, ChannelOK
  <2>2. Answer(m) \in Answers
    BY <2>1, AnswerType DEF ModelOK
  <2>3. Served(m) \in Lists
    BY <2>1, ServedType DEF AppOK, ModelOK
  <2>4. toServer' = Tail(toServer) /\ toClient' = Append(toClient, Answer(m)) /\ table' = Served(m)
    BY <1>6 DEF Serve
  <2> HIDE DEF m
  <2>5. Append(toClient, Answer(m)) \in Seq(Answers)
    BY <2>2 DEF ChannelOK
  <2> QED BY <1>4, <1>5, <1>3, <1>2, <2>1, <2>3, <2>4, <2>5 DEF ChannelOK, ModelOK, model, view
<1>7. CASE SensorChanges
  <2>1. PICK s \in DOMAIN table :
          \/ table' = Restrict(table, DOMAIN table \ {s})
          \/ panel = "administrator" /\ table' = [table EXCEPT ![s].connected = ~@]
          \/ panel = "monitoring" /\ table' = [table EXCEPT ![s].value = 1 - @]
    BY <1>7 DEF SensorChanges
  <2>2. table' \in Lists
    BY <2>1, RestrictList, ChangeRow DEF ModelOK
  <2>3. UNCHANGED channel
    BY <1>7 DEF SensorChanges
  <2> QED BY <1>4, <1>5, <1>3, <1>2, <2>2, <2>3 DEF ChannelOK, ModelOK, model, view, channel
<1>8. CASE LinkEnds
  <2>1. toServer' = <<>> /\ (toClient' = toClient \/ toClient' = <<>>) /\ table' = table
    BY <1>8 DEF LinkEnds
  <2>2. <<>> \in Seq(PanelCommands) /\ <<>> \in Seq(Answers)
    BY EmptySeq
  <2> QED BY <1>4, <1>5, <1>3, <1>2, <2>1, <2>2 DEF ChannelOK, ModelOK, model, view
<1>9. CASE Drop
  <2> DEFINE m == Head(toServer)
  <2>1. m \in PanelCommands /\ Tail(toServer) \in Seq(PanelCommands)
    BY <1>9, HeadTailProperties DEF Drop, ChannelOK
  <2>2. Served(m) \in Lists
    BY <2>1, ServedType DEF AppOK, ModelOK
  <2>3. toServer' = Tail(toServer) /\ toClient' = toClient /\ table' \in {table, Served(m)}
    BY <1>9 DEF Drop
  <2> HIDE DEF m
  <2> QED BY <1>4, <1>5, <1>3, <1>2, <2>1, <2>2, <2>3 DEF ChannelOK, ModelOK, model, view
<1> QED BY <1>6, <1>7, <1>8, <1>9

LEMMA StepType == TypeInv /\ [Next]_vars => TypeInv'
<1> SUFFICES ASSUME TypeInv, [Next]_vars PROVE TypeInv'
  OBVIOUS
<1>1. CASE UNCHANGED vars
  <2>1. panel' = panel
    BY <1>1 DEF vars
  <2> QED BY <1>1, <2>1, PanelTypes DEF vars, channel, model, view, data, bounds, TypeInv, AppOK,
             ChannelOK, LaterOK, ModelOK, ViewOK, DataOK
<1> QED BY <1>1, ClicksType, LaterType, ReaderType, ServerType DEF Next

LEMMA TypeInvariant == Spec => []TypeInv
<1> QED BY InitType, StepType, PTL DEF Spec

\* Every variable of the panels keeps its type.
THEOREM TypeCorrect == Spec => []TypeOK
<1> QED BY TypeInvariant, TypeInvOK, PTL

-----------------------------------------------------------------------------
(* The buttons *)

\* The administrator's buttons work on the sensor whose details are shown, whatever
\* netty does to the model between the refreshes of the view.
THEOREM ButtonsCorrect == Spec => []ButtonsAgree
<1>1. Init => ButtonsAgree
  BY DEF Init, ButtonsAgree
<1>2. TypeInv /\ ButtonsAgree /\ [Next]_vars => ButtonsAgree'
  <2> SUFFICES ASSUME TypeInv, ButtonsAgree, [Next]_vars, panel = "administrator", enabled'
               PROVE  current' # None /\ details' = current'
    BY PanelStays DEF ButtonsAgree
  <2>1. DOMAIN rows \subseteq Ids /\ DOMAIN sensors \subseteq Ids /\ None \notin Ids
    BY ListType, ConsoleAssumption DEF TypeInv, ModelOK
  <2>2. ASSUME NEW s \in Ids, SelectSensor(s) PROVE current' # None /\ details' = current'
    BY <2>1, <2>2 DEF SelectSensor
  <2>3. CASE refreshAllViews
    BY <2>1, <2>3 DEF refreshAllViews, model
  <2>4. CASE refreshSensorTable
    BY <2>4 DEF refreshSensorTable, Analyze, Netty, ButtonsAgree
  <2>5. CASE Clicked /\ ~\E s \in Ids : SelectSensor(s)
    BY <2>5 DEF ButtonsAgree, Clicked, SelectMonitored, addNewSensorClicked, CommandClicked,
       EditName, StopEditing, SaveName, LoadData, Close, model, view
  <2>6. CASE \/ sendRequestGetAllSensors \/ isConnectionEstablished \/ displayToken \/ showData
             \/ Tick \/ Serve \/ Drop \/ SensorChanges \/ LinkEnds \/ UNCHANGED vars
    BY <2>6 DEF ButtonsAgree, sendRequestGetAllSensors, isConnectionEstablished, displayToken,
       showData, Tick, Serve, Drop, SensorChanges, LinkEnds, vars, model, view
  <2>7. CASE Reader /\ ~refreshSensorTable
    BY <2>7 DEF ButtonsAgree, Reader, channelActive, channelRead, executeResponseGetAllSensors,
       executeResponseGetAllMonitored, executeResponse, executeResponseGetSetOfMeasurements,
       exceptionCaught, Analyze, Netty, model
  <2> QED BY <2>2, <2>3, <2>4, <2>5, <2>6, <2>7 DEF Next, RunLater
<1> QED BY <1>1, <1>2, TypeInvariant, PTL DEF Spec

-----------------------------------------------------------------------------
(* The connection *)

\* No list has been asked for before there was a connection.
NoLists == \A k \in DOMAIN later : later[k] # "list"

\* What connectionReady, ctx and the channel say of each other: there is one
\* connection, and what it has ended stays ended.
LinkInv ==
  /\ ready <=> link \in {"up", "closed"}
  /\ link = "failed" \/ split => active
  /\ link = "none" => ~active /\ NoLists /\ (bufferedMessages # <<>> => given > 0)
  /\ ready => bufferedMessages = <<>>
  /\ alerted => ~ready

ConnectionInv == TypeInv /\ LinkInv /\ GoesOnUnconnected

LEMMA InitConnection == Init => ConnectionInv
BY InitType DEF Init, ConnectionInv, LinkInv, GoesOnUnconnected, NoLists

\* A command is given: it may be buffered.
LEMMA ClicksConnection ==
  ASSUME ConnectionInv, TypeInv', Clicked
  PROVE  ConnectionInv'
<1>1. given \in Nat
  BY DEF ConnectionInv, TypeInv, AppOK
<1>2. CASE Close
  <2>1. UNCHANGED <<ready, active, link, split, later, alerted, given>>
    BY <1>2 DEF Close, bounds
  <2>2. bufferedMessages' # <<>> => bufferedMessages # <<>>
    BY <1>2 DEF Close, closeApp
  <2>3. app' = "running" => (bufferedMessages # <<>> \/ ready) /\ ~active
    BY <1>2 DEF Close, closeApp
  <2>4. LinkInv'
    BY <2>1, <2>2 DEF ConnectionInv, LinkInv, NoLists
  <2>5. GoesOnUnconnected'
    BY <2>1, <2>3 DEF ConnectionInv, LinkInv, TypeInv, AppOK, GoesOnUnconnected
  <2> QED BY <2>4, <2>5 DEF ConnectionInv
<1>3. CASE ~Close
  <2>1. Click /\ (given' = given \/ given' = given + 1)
    BY <1>3 DEF Clicked, SelectSensor, SelectMonitored, addNewSensorClicked, CommandClicked,
       EditName, StopEditing, SaveName, LoadData, ClickSelects, ClickCommands
  <2>2. bufferedMessages' = bufferedMessages \/ given' = given + 1
    BY <1>3 DEF Clicked, SelectSensor, SelectMonitored, addNewSensorClicked, CommandClicked,
       EditName, StopEditing, SaveName, LoadData, ClickSelects, ClickCommands
  <2>3. ready => bufferedMessages' = bufferedMessages \/ bufferedMessages' = <<>>
    BY <1>3 DEF Clicked, SelectSensor, SelectMonitored, addNewSensorClicked, CommandClicked,
       EditName, StopEditing, SaveName, LoadData, Send
  <2>4. LinkInv'
    BY <1>1, <2>1, <2>2, <2>3 DEF ConnectionInv, LinkInv, NoLists, Click
  <2>5. GoesOnUnconnected'
    BY <1>1, <2>1 DEF ConnectionInv, GoesOnUnconnected, Click
  <2> QED BY <2>4, <2>5 DEF ConnectionInv
<1> QED BY <1>2, <1>3

LEMMA LaterConnection ==
  ASSUME ConnectionInv, TypeInv', RunLater \/ Tick
  PROVE  ConnectionInv'
<1>1. later \in Seq(Tasks)
  BY DEF ConnectionInv, TypeInv, LaterOK, Tasks
<1>2. UNCHANGED <<ready, active, link, split, given>>
  BY DEF RunLater, sendRequestGetAllSensors, isConnectionEstablished, refreshAllViews, displayToken,
         showData, RunsLater, Tick, bounds, channel
<1>3. ASSUME NoLists, link = "none" PROVE NoLists'
  <2>1. CASE RunLater
    <3>1. later # <<>> /\ later' = Tail(later)
      BY <2>1 DEF RunLater, sendRequestGetAllSensors, isConnectionEstablished, refreshAllViews,
         displayToken, showData, RunsLater
    <3>2. \A k \in DOMAIN Tail(later) : k + 1 \in DOMAIN later /\ Tail(later)[k] = later[k + 1]
      BY <1>1, <3>1
    <3> QED BY <1>3, <3>1, <3>2 DEF NoLists
  <2>2. CASE Tick
    <3>1. later' = Append(later, "check")
      BY <1>3, <2>2 DEF Tick, ConnectionInv, LinkInv
    <3>2. \A k \in DOMAIN Append(later, "check") :
            \/ k \in DOMAIN later /\ Append(later, "check")[k] = later[k]
            \/ Append(later, "check")[k] = "check"
      BY <1>1
    <3> QED BY <1>3, <3>1, <3>2 DEF NoLists
  <2> QED BY <2>1, <2>2
<1>4. CASE sendRequestGetAllSensors
  <2>1. later # <<>> /\ Head(later) = "list" /\ UNCHANGED <<app, alerted>> /\ Send(<< List >>)
    BY <1>4 DEF sendRequestGetAllSensors, RunsLater
  <2>2. ~NoLists
    BY <1>1, <2>1 DEF NoLists
  <2>3. ready => bufferedMessages' = bufferedMessages \/ bufferedMessages' = <<>>
    BY <2>1 DEF Send
  <2> QED BY <1>2, <2>1, <2>2, <2>3 DEF ConnectionInv, LinkInv, GoesOnUnconnected
<1>5. CASE isConnectionEstablished
  <2>1. bufferedMessages' = bufferedMessages
    BY <1>5 DEF isConnectionEstablished
  <2>2. \/ UNCHANGED <<alerted, app>>
        \/ ~ready /\ app' = "alert"
    BY <1>5 DEF isConnectionEstablished
  <2>3. alerted' => ~ready
    BY <1>5 DEF isConnectionEstablished, ConnectionInv, LinkInv
  <2> QED BY <1>3, <1>5, <1>2, <2>1, <2>2, <2>3
          DEF ConnectionInv, LinkInv, GoesOnUnconnected, RunLater
<1>6. CASE refreshAllViews \/ displayToken \/ showData \/ Tick
  <2>1. UNCHANGED <<bufferedMessages, alerted, app>>
    BY <1>6 DEF refreshAllViews, displayToken, showData, Tick
  <2> QED BY <1>3, <1>2, <2>1 DEF ConnectionInv, LinkInv, GoesOnUnconnected
<1> QED BY <1>4, <1>5, <1>6 DEF RunLater

\* Netty and the network: the channel goes from up to closed or failed, if at all.
LEMMA NetworkConnection ==
  ASSUME ConnectionInv, TypeInv', Reader \/ Serve \/ Drop \/ SensorChanges \/ LinkEnds
  PROVE  ConnectionInv'
<1>1. UNCHANGED <<app, alerted, bufferedMessages, given>>
  BY DEF Reader, channelActive, channelRead, executeResponseGetAllSensors,
         executeResponseGetAllMonitored, refreshSensorTable, executeResponse,
         executeResponseGetSetOfMeasurements, exceptionCaught, Analyze, Netty, Serve, Drop,
         SensorChanges, LinkEnds, bounds
<1>2. CASE exceptionCaught
  <2>1. ready' = FALSE /\ link' = "failed" /\ active' = active /\ split /\ ~split'
    BY <1>2 DEF exceptionCaught
  <2> QED BY <1>1, <2>1 DEF ConnectionInv, LinkInv, GoesOnUnconnected
<1>3. CASE channelActive \/ channelRead
  <2>1. /\ UNCHANGED <<ready, link, later>> /\ link \in {"up", "closed"} /\ active' = TRUE
    BY <1>3 DEF channelActive, channelRead, ConnectionInv, TypeInv, AppOK
  <2> QED BY <1>1, <2>1 DEF ConnectionInv, LinkInv, GoesOnUnconnected
<1>4. CASE \/ executeResponseGetAllSensors \/ executeResponseGetAllMonitored \/ refreshSensorTable
           \/ executeResponse \/ executeResponseGetSetOfMeasurements
  <2>1. UNCHANGED <<ready, active, link, split>>
    BY <1>4 DEF executeResponseGetAllSensors, executeResponseGetAllMonitored, refreshSensorTable,
       executeResponse, executeResponseGetSetOfMeasurements, Analyze
  <2>2. \/ later' = later
        \/ \E task \in Tasks \ {"list"} : later' = Append(later, task)
    BY <1>4 DEF Tasks, executeResponseGetAllSensors, executeResponseGetAllMonitored,
       refreshSensorTable, executeResponse, executeResponseGetSetOfMeasurements
  <2>3. later \in Seq(Tasks)
    BY DEF ConnectionInv, TypeInv, LaterOK, Tasks
  <2>4. NoLists => NoLists'
    <3>1. ASSUME NEW task \in Tasks \ {"list"}, later' = Append(later, task), NoLists
          PROVE  NoLists'
      <4>1. \A k \in DOMAIN later' : (k \in DOMAIN later /\ later'[k] = later[k]) \/ later'[k] = task
        BY <2>3, <3>1
      <4> QED BY <3>1, <4>1 DEF NoLists
    <3> QED BY <2>2, <3>1 DEF NoLists
  <2> QED BY <1>1, <2>1, <2>4 DEF ConnectionInv, LinkInv, GoesOnUnconnected
<1>5. CASE Serve \/ Drop \/ SensorChanges
  <2>1. UNCHANGED <<ready, active, link, split, later>>
    BY <1>5 DEF Serve, Drop, SensorChanges, channel
  <2> QED BY <1>1, <2>1 DEF ConnectionInv, LinkInv, GoesOnUnconnected, NoLists
<1>6. CASE LinkEnds
  <2>1. /\ UNCHANGED <<active, split, later>> /\ link = "up"
        /\ \/ link' = "closed" /\ ready' = ready
           \/ active /\ link' = "failed" /\ ready' = FALSE
    BY <1>6 DEF LinkEnds
  <2> QED BY <1>1, <2>1 DEF ConnectionInv, LinkInv, GoesOnUnconnected
<1> QED BY <1>2, <1>3, <1>4, <1>5, <1>6 DEF Reader

LEMMA ConnectionInvariant == Spec => []ConnectionInv
<1>1. ConnectionInv /\ [Next]_vars => ConnectionInv'
  <2> SUFFICES ASSUME ConnectionInv, [Next]_vars PROVE ConnectionInv'
    OBVIOUS
  <2>1. TypeInv'
    BY StepType DEF ConnectionInv
  <2>2. CASE UNCHANGED vars
    BY <2>1, <2>2 DEF vars, channel, bounds, ConnectionInv, LinkInv, NoLists, GoesOnUnconnected
  <2> QED BY <2>1, <2>2, ClicksConnection, LaterConnection, NetworkConnection DEF Next
<1> QED BY <1>1, InitConnection, PTL DEF Spec

\* The application goes on after its alert only when it never had a connection, and
\* commands were given all the same.
THEOREM AlertCorrect == Spec => []GoesOnUnconnected
<1>1. ConnectionInv => GoesOnUnconnected
  BY DEF ConnectionInv
<1> QED BY <1>1, ConnectionInvariant, PTL

-----------------------------------------------------------------------------
(* The chart.  Requests for data and their answers are on their way one after *)
(* the other: in toServer, toClient, the buffer and runLater().               *)

\* Before ctx is set nothing has come, so there is nothing to select.
Unread == ~active => buffer = <<>> /\ DOMAIN sensors = {} /\ DOMAIN rows = {} /\ ~enabled

HasData(q) == \E k \in DOMAIN q : q[k].type = "data"

\* The last request or answer of q that is about data is about this span.
LastData(q, span) ==
  \A k \in DOMAIN q :
    (q[k].type = "data" /\ \A l \in DOMAIN q : l > k => q[l].type # "data") => q[k].span = span

\* The data that netty has read last waits to be shown.
Showing == \E k \in DOMAIN later : later[k] = "data"

\* Wherever the last of the requests, its answer or its data is, it is about the span
\* the user chose last, and so is the chart when there are none: until a request is
\* dropped, and once there has been one.
DataInv ==
  link = "up" /\ dropped = 0 /\ measurementsType # None =>
    /\ LastData(toServer, measurementsType)
    /\ ~HasData(toServer) => LastData(toClient, measurementsType)
    /\ ~HasData(toServer) /\ ~HasData(toClient) => LastData(buffer, measurementsType)
    /\ ~HasData(toServer) /\ ~HasData(toClient) /\ ~HasData(buffer) =>
         IF Showing THEN measurements.span = measurementsType
         ELSE chart # NoChart => chart.title = chart.data.span

PanelInv == ConnectionInv /\ Unread /\ DataInv

LEMMA TailData ==
  ASSUME NEW S, NEW q \in Seq(S), q # <<>>
  PROVE  /\ HasData(q) <=> Head(q).type = "data" \/ HasData(Tail(q))
         /\ \A span : LastData(q, span) =>
              /\ LastData(Tail(q), span)
              /\ Head(q).type = "data" /\ ~HasData(Tail(q)) => Head(q).span = span
<1>1. /\ Len(q) \in Nat \ {0} /\ DOMAIN q = 1 .. Len(q) /\ Head(q) = q[1]
      /\ DOMAIN Tail(q) = 1 .. Len(q) - 1
      /\ \A k \in DOMAIN Tail(q) : Tail(q)[k] = q[k + 1]
  OBVIOUS
<1>2. \A k \in DOMAIN Tail(q) : k + 1 \in DOMAIN q
  BY <1>1
<1>3. \A k \in DOMAIN q : k = 1 \/ (k - 1 \in DOMAIN Tail(q) /\ Tail(q)[k - 1] = q[k])
  BY <1>1
<1>4. HasData(q) <=> Head(q).type = "data" \/ HasData(Tail(q))
  BY <1>1, <1>2, <1>3 DEF HasData
<1>5. ASSUME NEW span, LastData(q, span)
      PROVE  LastData(Tail(q), span)
  <2> SUFFICES ASSUME NEW k \in DOMAIN Tail(q), Tail(q)[k].type = "data",
                      \A l \in DOMAIN Tail(q) : l > k => Tail(q)[l].type # "data"
               PROVE  Tail(q)[k].span = span
    BY DEF LastData
  <2>1. ASSUME NEW l \in DOMAIN q, l > k + 1 PROVE q[l].type # "data"
    <3>1. l - 1 \in DOMAIN Tail(q) /\ Tail(q)[l - 1] = q[l] /\ l - 1 > k
      BY <1>1, <1>3, <2>1
    <3> QED BY <3>1
  <2> QED BY <1>1, <1>2, <1>5, <2>1 DEF LastData
<1>6. ASSUME NEW span, LastData(q, span), Head(q).type = "data", ~HasData(Tail(q))
      PROVE  Head(q).span = span
  <2>1. ASSUME NEW l \in DOMAIN q, l > 1 PROVE q[l].type # "data"
    <3>1. l - 1 \in DOMAIN Tail(q) /\ Tail(q)[l - 1] = q[l]
      BY <1>1, <1>3, <2>1
    <3> QED BY <1>6, <3>1 DEF HasData
  <2> QED BY <1>1, <1>6, <2>1 DEF LastData
<1> QED BY <1>4, <1>5, <1>6

LEMMA ConcatData ==
  ASSUME NEW S, NEW p \in Seq(S), NEW q \in Seq(S)
  PROVE  /\ HasData(p \o q) <=> HasData(p) \/ HasData(q)
         /\ \A span : LastData(p \o q, span) <=>
              LastData(q, span) /\ (~HasData(q) => LastData(p, span))
<1>1. /\ Len(p) \in Nat /\ Len(q) \in Nat /\ DOMAIN p = 1 .. Len(p) /\ DOMAIN q = 1 .. Len(q)
      /\ DOMAIN (p \o q) = 1 .. Len(p) + Len(q)
      /\ \A k \in DOMAIN p : (p \o q)[k] = p[k]
      /\ \A k \in DOMAIN q : (p \o q)[Len(p) + k] = q[k]
  OBVIOUS
<1>2. /\ \A k \in DOMAIN p : k \in DOMAIN (p \o q)
      /\ \A k \in DOMAIN q : Len(p) + k \in DOMAIN (p \o q)
  BY <1>1
<1>3. \A k \in DOMAIN (p \o q) :
        \/ k \in DOMAIN p
        \/ k > Len(p) /\ k - Len(p) \in DOMAIN q /\ (p \o q)[k] = q[k - Len(p)]
  BY <1>1
<1>4. HasData(p \o q) <=> HasData(p) \/ HasData(q)
  BY <1>1, <1>2, <1>3 DEF HasData
<1>5. ASSUME NEW span, LastData(p \o q, span) PROVE LastData(q, span)
  <2> SUFFICES ASSUME NEW k \in DOMAIN q, q[k].type = "data",
                      \A l \in DOMAIN q : l > k => q[l].type # "data"
               PROVE  q[k].span = span
    BY DEF LastData
  <2>1. \A l \in DOMAIN (p \o q) : l > Len(p) + k => (p \o q)[l].type # "data"
    BY <1>1, <1>3
  <2> QED BY <1>1, <1>2, <1>5, <2>1 DEF LastData
<1>6. ASSUME NEW span, LastData(p \o q, span), ~HasData(q) PROVE LastData(p, span)
  <2> SUFFICES ASSUME NEW k \in DOMAIN p, p[k].type = "data",
                      \A l \in DOMAIN p : l > k => p[l].type # "data"
               PROVE  p[k].span = span
    BY DEF LastData
  <2>1. \A l \in DOMAIN (p \o q) : l > k => (p \o q)[l].type # "data"
    BY <1>1, <1>3, <1>6 DEF HasData
  <2> QED BY <1>1, <1>2, <1>6, <2>1 DEF LastData
<1>7. ASSUME NEW span, LastData(q, span), ~HasData(q) => LastData(p, span)
      PROVE  LastData(p \o q, span)
  <2> SUFFICES ASSUME NEW k \in DOMAIN (p \o q), (p \o q)[k].type = "data",
                      \A l \in DOMAIN (p \o q) : l > k => (p \o q)[l].type # "data"
               PROVE  (p \o q)[k].span = span
    BY DEF LastData
  <2>1. CASE k \in DOMAIN p
    <3>1. ASSUME NEW j \in DOMAIN q, q[j].type = "data" PROVE FALSE
      <4>1. Len(p) + j \in DOMAIN (p \o q) /\ (p \o q)[Len(p) + j] = q[j] /\ Len(p) + j > k
        BY <1>1, <1>2, <2>1
      <4> QED BY <3>1, <4>1
    <3>2. \A l \in DOMAIN p : l > k => p[l].type # "data"
      BY <1>1, <1>2
    <3>3. LastData(p, span)
      BY <1>7, <3>1 DEF HasData
    <3> QED BY <1>1, <2>1, <3>2, <3>3 DEF LastData
  <2>2. CASE k > Len(p) /\ k - Len(p) \in DOMAIN q /\ (p \o q)[k] = q[k - Len(p)]
    <3>1. ASSUME NEW l \in DOMAIN q, l > k - Len(p) PROVE q[l].type # "data"
      <4>1. Len(p) + l \in DOMAIN (p \o q) /\ (p \o q)[Len(p) + l] = q[l] /\ Len(p) + l > k
        BY <1>1, <1>2, <3>1
      <4> QED BY <4>1
    <3> QED BY <1>7, <2>2, <3>1 DEF LastData
  <2> QED BY <1>3, <2>1, <2>2
<1> QED BY <1>4, <1>5, <1>6, <1>7

LEMMA AppendData ==
  ASSUME NEW S, NEW q \in Seq(S), NEW e \in S
  PROVE  /\ HasData(Append(q, e)) <=> HasData(q) \/ e.type = "data"
         /\ \A span : LastData(Append(q, e), span) <=>
              IF e.type = "data" THEN e.span = span ELSE LastData(q, span)
<1>1. Append(q, e) = q \o <<e>> /\ <<e>> \in Seq(S)
  OBVIOUS
<1>2. HasData(<<e>>) <=> e.type = "data"
  BY DEF HasData
<1>3. \A span : LastData(<<e>>, span) <=> (e.type = "data" => e.span = span)
  BY DEF LastData
<1>4. /\ HasData(q \o <<e>>) <=> HasData(q) \/ HasData(<<e>>)
      /\ \A span : LastData(q \o <<e>>, span) <=>
           LastData(<<e>>, span) /\ (~HasData(<<e>>) => LastData(q, span))
  BY <1>1, ConcatData
<1> QED BY <1>1, <1>2, <1>3, <1>4

\* A sequence cut in two
LEMMA CutData ==
  ASSUME NEW S, NEW q \in Seq(S), NEW n \in 0 .. Len(q)
  PROVE  LET p == SubSeq(q, 1, n)
             r == SubSeq(q, n + 1, Len(q)) IN
         /\ HasData(q) <=> HasData(p) \/ HasData(r)
         /\ \A span : LastData(q, span) <=>
              LastData(r, span) /\ (~HasData(r) => LastData(p, span))
<1> DEFINE p == SubSeq(q, 1, n)
           r == SubSeq(q, n + 1, Len(q))
<1>1. Len(q) \in Nat /\ \A i \in 1 .. Len(q) : q[i] \in S
  OBVIOUS
<1>2. p \in Seq(S) /\ Len(p) = n /\ \A i \in 1 .. n : p[i] = q[i]
  BY <1>1, SubSeqProperties
<1>3. /\ r \in Seq(S) /\ Len(r) = Len(q) - n
      /\ \A i \in 1 .. Len(q) - n : r[i] = q[n + i]
  BY <1>1, SubSeqProperties
<1>4. p \o r \in Seq(S) /\ Len(p \o r) = Len(q) /\ \A i \in 1 .. Len(q) : (p \o r)[i] = q[i]
  <2> HIDE DEF p, r
  <2>1. p \o r \in Seq(S) /\ Len(p \o r) = n + (Len(q) - n)
    BY <1>2, <1>3, ConcatProperties
  <2>2. ASSUME NEW i \in 1 .. Len(q) PROVE (p \o r)[i] = q[i]
    <3>1. CASE i <= n
      BY <1>1, <1>2, <1>3, <3>1
    <3>2. CASE i > n
      <4>1. i - n \in 1 .. Len(q) - n /\ n + (i - n) = i
        BY <1>1, <3>2
      <4>2. (p \o r)[i] = r[i - n]
        BY <1>1, <1>2, <1>3, <3>2
      <4>3. r[i - n] = q[n + (i - n)]
        BY <1>3, <4>1
      <4> QED BY <4>1, <4>2, <4>3
    <3>3. i <= n \/ i > n
      BY <1>1
    <3> QED BY <3>1, <3>2, <3>3
  <2>3. n + (Len(q) - n) = Len(q)
    BY <1>1
  <2> QED BY <2>1, <2>2, <2>3
<1>5. p \o r = q
  <2> HIDE DEF p, r
  <2> QED BY <1>4, SeqEqual
<1>6. /\ HasData(q) <=> HasData(p) \/ HasData(r)
      /\ \A span : LastData(q, span) <=>
           LastData(r, span) /\ (~HasData(r) => LastData(p, span))
  <2> HIDE DEF p, r
  <2> QED BY <1>2, <1>3, <1>5, ConcatData
<1> QED BY <1>6

LEMMA NoData ==
  /\ ~HasData(<<>>) /\ \A span : LastData(<<>>, span)
  /\ \A m : m.type # "data" => ~HasData(<<m>>)
  /\ \A m, n : m.type # "data" /\ n.type # "data" => ~HasData(<<m, n>>)
  /\ DOMAIN <<>> = {}
<1>1. DOMAIN <<>> = {}
  OBVIOUS
<1> QED BY <1>1 DEF HasData, LastData

LEMMA InitPanel == Init => PanelInv
<1> SUFFICES ASSUME Init PROVE PanelInv
  OBVIOUS
<1>1. Unread
  BY NoData DEF Init, Unread
<1>2. ~Showing
  BY NoData DEF Init, Showing
<1>3. DataInv
  BY <1>2, NoData DEF Init, DataInv
<1> QED BY <1>1, <1>3, InitConnection DEF PanelInv

LEMMA UnreadKept ==
  ASSUME PanelInv, [Next]_vars
  PROVE  Unread'
<1> SUFFICES ASSUME ~active' PROVE Unread'
  BY DEF Unread
<1>1. ~active
  BY DEF Next, Clicked, SelectSensor, SelectMonitored, addNewSensorClicked, CommandClicked,
         EditName, StopEditing, SaveName, LoadData, Close, ClickSelects, ClickCommands, Click,
         RunLater, RunsLater, sendRequestGetAllSensors, isConnectionEstablished, refreshAllViews,
         displayToken, showData, Tick, Reader, channelActive, channelRead,
         executeResponseGetAllSensors, executeResponseGetAllMonitored, refreshSensorTable,
         executeResponse, executeResponseGetSetOfMeasurements, exceptionCaught, Analyze, Serve,
         Drop, SensorChanges, LinkEnds, vars
<1>2. buffer = <<>> /\ DOMAIN sensors = {} /\ DOMAIN rows = {} /\ ~enabled
  BY <1>1 DEF PanelInv, Unread
<1>3. ~Reader \/ exceptionCaught
  BY <1>1, <1>2 DEF Reader, channelActive, channelRead, executeResponseGetAllSensors,
     executeResponseGetAllMonitored, refreshSensorTable, executeResponse,
     executeResponseGetSetOfMeasurements, Analyze
<1>4. UNCHANGED <<buffer, sensors>>
  BY <1>2, <1>3 DEF Next, Clicked, SelectSensor, SelectMonitored, addNewSensorClicked,
     CommandClicked, EditName, StopEditing, SaveName, LoadData, Close, ClickSelects, ClickCommands,
     Click, RunLater, RunsLater, sendRequestGetAllSensors, isConnectionEstablished,
     refreshAllViews, displayToken, showData, Tick, exceptionCaught, Serve, Drop, SensorChanges,
     LinkEnds, vars, model, channel
<1>5. (rows' = rows \/ rows' = sensors) /\ ~enabled'
  <2>1. CASE Clicked
    <3>1. \A s \in Ids : ~SelectSensor(s) /\ ~SelectMonitored(s)
      BY <1>2 DEF SelectSensor, SelectMonitored
    <3>2. addNewSensorClicked \/ StopEditing \/ Close
      BY <1>2, <2>1, <3>1 DEF Clicked, CommandClicked, EditName, SaveName, LoadData
    <3> QED BY <1>2, <3>2 DEF addNewSensorClicked, StopEditing, Close, view
  <2>2. CASE RunLater
    BY <1>2, <2>2 DEF RunLater, sendRequestGetAllSensors, isConnectionEstablished, refreshAllViews,
       displayToken, showData, view
  <2>3. CASE Tick \/ Reader \/ Serve \/ Drop \/ SensorChanges \/ LinkEnds \/ UNCHANGED vars
    BY <1>2, <1>3, <2>3 DEF Tick, exceptionCaught, Serve, Drop, SensorChanges, LinkEnds, vars, view
  <2> QED BY <2>1, <2>2, <2>3 DEF Next
<1> QED BY <1>2, <1>4, <1>5 DEF Unread

\* A step that moves no data
LEMMA DataFrame ==
  ASSUME DataInv, link' = link, UNCHANGED <<dropped, measurements, measurementsType, chart>>,
         Showing' <=> Showing,
         /\ HasData(toServer') <=> HasData(toServer)
         /\ HasData(toClient') <=> HasData(toClient)
         /\ HasData(buffer') <=> HasData(buffer),
         \A span : /\ LastData(toServer, span) => LastData(toServer', span)
                   /\ LastData(toClient, span) => LastData(toClient', span)
                   /\ LastData(buffer, span) => LastData(buffer', span)
  PROVE  DataInv'
BY DEF DataInv

LEMMA SendPlain ==
  ASSUME PanelInv, link = "up", NEW messages \in Seq(PanelCommands), ~HasData(messages),
         Send(messages)
  PROVE  /\ HasData(toServer') <=> HasData(toServer)
         /\ \A span : LastData(toServer, span) => LastData(toServer', span)
<1>1. toServer \in Seq(PanelCommands) /\ bufferedMessages = <<>> /\ ready
  BY DEF PanelInv, ConnectionInv, TypeInv, ChannelOK, LinkInv
<1>2. toServer \o bufferedMessages \o messages = toServer \o messages
  BY <1>1
<1>3. toServer' = toServer \/ toServer' = toServer \o messages
  BY <1>1, <1>2 DEF Send
<1>4. /\ HasData(toServer \o messages) <=> HasData(toServer)
      /\ \A span : LastData(toServer, span) => LastData(toServer \o messages, span)
  <2>1. \A span : LastData(messages, span)
    BY DEF HasData, LastData
  <2> QED BY <1>1, <2>1, ConcatData
<1> QED BY <1>3, <1>4

\* What runLater() holds
LEMMA ShowingSteps ==
  ASSUME TypeInv
  PROVE  /\ later # <<>> /\ later' = Tail(later) /\ Head(later) # "data" => (Showing' <=> Showing)
         /\ \A task \in Tasks : later' = Append(later, task) =>
              (Showing' <=> Showing \/ task = "data")
         /\ later # <<>> /\ Head(later) = "data" => Showing
<1>1. later \in Seq(Tasks)
  BY DEF TypeInv, LaterOK, Tasks
<1>2. ASSUME later # <<>>
      PROVE  /\ \A k \in DOMAIN Tail(later) :
                  k + 1 \in DOMAIN later /\ Tail(later)[k] = later[k + 1]
             /\ \A k \in DOMAIN later :
                  k = 1 \/ (k - 1 \in DOMAIN Tail(later) /\ Tail(later)[k - 1] = later[k])
             /\ 1 \in DOMAIN later /\ Head(later) = later[1]
  BY <1>1, <1>2
<1>3. ASSUME NEW task \in Tasks
      PROVE  /\ \A k \in DOMAIN Append(later, task) :
                  \/ k \in DOMAIN later /\ Append(later, task)[k] = later[k]
                  \/ Append(later, task)[k] = task
             /\ \A k \in DOMAIN later :
                  k \in DOMAIN Append(later, task) /\ Append(later, task)[k] = later[k]
             /\ Len(later) + 1 \in DOMAIN Append(later, task)
             /\ Append(later, task)[Len(later) + 1] = task
  BY <1>1
<1>4. ASSUME later # <<>>, later' = Tail(later), Head(later) # "data"
      PROVE  Showing' <=> Showing
  BY ZenonT(30), <1>2, <1>4 DEF Showing
<1>5. ASSUME NEW task \in Tasks, later' = Append(later, task)
      PROVE  Showing' <=> Showing \/ task = "data"
  BY <1>3, <1>5 DEF Showing
<1>6. later # <<>> /\ Head(later) = "data" => Showing
  BY <1>2 DEF Showing
<1> QED BY <1>4, <1>5, <1>6

LEMMA ClicksData ==
  ASSUME PanelInv, TypeInv', Clicked, link' = "up"
  PROVE  DataInv'
<1>1. UNCHANGED <<dropped, toClient, buffer, later, chart, measurements, link>>
  BY DEF Clicked, SelectSensor, SelectMonitored, addNewSensorClicked, CommandClicked, EditName,
     StopEditing, SaveName, LoadData, Close, ClickSelects, ClickCommands, Click, view, data, bounds
<1>2. Showing' <=> Showing
  BY <1>1 DEF Showing
<1>3. link = "up" /\ ready /\ bufferedMessages = <<>>
  BY <1>1 DEF PanelInv, ConnectionInv, LinkInv
<1>4. DataInv
  BY DEF PanelInv
<1>5. TypeInv /\ toServer \in Seq(PanelCommands)
  BY DEF PanelInv, ConnectionInv, TypeInv, ChannelOK
<1>6. ASSUME /\ HasData(toServer') <=> HasData(toServer)
             /\ \A span : LastData(toServer, span) => LastData(toServer', span),
             UNCHANGED measurementsType
      PROVE  DataInv'
  BY <1>6, <1>1, <1>2, <1>4, DataFrame
<1>7. ASSUME NEW s \in Ids, SelectSensor(s) \/ SelectMonitored(s) PROVE DataInv'
  BY <1>6, <1>7 DEF SelectSensor, SelectMonitored, data
<1>8. CASE EditName \/ StopEditing
  BY <1>6, <1>8 DEF EditName, StopEditing, data
<1>9. CASE addNewSensorClicked
  <2>1. ~HasData(<< [type |-> "token"] >>)
    BY NoData
  <2> QED BY <1>6, <1>9, <1>3, <2>1, CommandTypes, SendPlain DEF addNewSensorClicked, data
<1>10. ASSUME NEW type \in {"revoke", "disconnect"}, CommandClicked(type) PROVE DataInv'
  <2>1. current \in Ids
    BY <1>10, <1>5 DEF CommandClicked, TypeInv, ModelOK, Currents
  <2>2. ~HasData(<< [type |-> type, id |-> current], List >>)
    BY NoData DEF List
  <2> QED BY <1>6, <1>10, <1>3, <2>1, <2>2, CommandTypes, SendPlain DEF CommandClicked, data
<1>11. CASE SaveName
  <2>1. CASE current \in DOMAIN sensors
    <3>1. current \in Ids
      BY <1>11, <1>5, <2>1, ListType DEF TypeInv, ModelOK
    <3>2. ~HasData(<< [type |-> "rename", id |-> current] >>)
      BY NoData
    <3> QED BY <1>6, <1>11, <1>3, <2>1, <3>1, <3>2, CommandTypes, SendPlain DEF SaveName, data
  <2>2. CASE current \notin DOMAIN sensors
    BY <1>6, <1>11, <2>2 DEF SaveName, data
  <2> QED BY <2>1, <2>2
<1>12. ASSUME NEW span \in Spans, LoadData(span) PROVE DataInv'
  <2>1. CASE current = None
    BY <1>6, <1>12, <2>1 DEF LoadData
  <2>2. CASE current # None
    <3> DEFINE m == [type |-> "data", id |-> current.id, span |-> span]
    <3>1. active
      BY <1>12 DEF LoadData, PanelInv, Unread
    <3>2. current.id \in Ids /\ panel # "administrator"
      BY <1>12, <1>5, <2>2 DEF LoadData, TypeInv, ModelOK, Currents
    <3>3. m \in PanelCommands /\ m.type = "data" /\ m.span = span
      BY <3>2 DEF PanelCommands
    <3>4. Send(<< m >>) /\ measurementsType' = span
      BY <1>12, <2>2 DEF LoadData
    <3> HIDE DEF m
    <3>5. toServer' = Append(toServer, m)
      BY <1>3, <1>5, <3>1, <3>4 DEF Send
    <3>6. HasData(toServer') /\ LastData(toServer', measurementsType')
      BY <1>5, <3>3, <3>4, <3>5, AppendData
    <3> QED BY <3>6 DEF DataInv
  <2> QED BY <2>1, <2>2
<1>13. CASE Close
  <2>1. toServer' = toServer
    BY <1>13, <1>3, <1>5 DEF Close, closeApp
  <2> QED BY <1>6, <1>13, <2>1 DEF Close, data
<1> QED BY <1>7, <1>8, <1>9, <1>10, <1>11, <1>12, <1>13 DEF Clicked

LEMMA LaterData ==
  ASSUME PanelInv, TypeInv', RunLater \/ Tick, link' = "up"
  PROVE  DataInv'
<1>1. UNCHANGED <<dropped, toClient, buffer, measurementsType, measurements, link>>
  BY DEF RunLater, sendRequestGetAllSensors, isConnectionEstablished, refreshAllViews, displayToken,
         showData, RunsLater, Tick, data, channel, bounds
<1>2. DataInv /\ TypeInv
  BY DEF PanelInv, ConnectionInv
<1>3. ASSUME /\ HasData(toServer') <=> HasData(toServer)
             /\ \A span : LastData(toServer, span) => LastData(toServer', span),
             UNCHANGED chart, Showing' <=> Showing
      PROVE  DataInv'
  BY <1>3, <1>1, <1>2, DataFrame
<1>4. CASE sendRequestGetAllSensors
  <2>1. Showing' <=> Showing
    BY <1>4, <1>2, ShowingSteps DEF sendRequestGetAllSensors, RunsLater
  <2>2. ~HasData(<< List >>) /\ << List >> \in Seq(PanelCommands)
    BY NoData, CommandTypes DEF List
  <2>3. Send(<< List >>) /\ chart' = chart /\ link = "up"
    BY <1>4, <1>1 DEF sendRequestGetAllSensors, view
  <2> QED BY <1>3, <2>1, <2>2, <2>3, SendPlain
<1>5. CASE isConnectionEstablished \/ refreshAllViews \/ displayToken
  <2>1. Showing' <=> Showing
    BY <1>5, <1>2, ShowingSteps DEF isConnectionEstablished, refreshAllViews, displayToken,
       RunsLater
  <2> QED BY <1>3, <1>5, <2>1 DEF isConnectionEstablished, refreshAllViews, displayToken, view
<1>6. CASE Tick
  <2>1. Showing' <=> Showing
    BY <1>6, <1>2, ShowingSteps DEF Tick, Tasks
  <2> QED BY <1>3, <1>6, <2>1 DEF Tick, view, channel
<1>7. CASE showData
  <2>1. Showing
    BY <1>7, <1>2, ShowingSteps DEF showData, RunsLater
  <2>2. toServer' = toServer /\ chart' = [data |-> measurements, title |-> measurementsType]
    BY <1>7 DEF showData
  <2>3. chart'.title = measurementsType /\ chart'.data.span = measurements.span
    BY <2>2
  <2> QED BY <1>1, <1>2, <2>1, <2>2, <2>3 DEF DataInv
<1> QED BY <1>4, <1>5, <1>6, <1>7 DEF RunLater

LEMMA ReaderData ==
  ASSUME PanelInv, TypeInv', Reader, link' = "up"
  PROVE  DataInv'
<1>1. UNCHANGED <<dropped, toServer, measurementsType, chart>>
  BY DEF Reader, Netty, Analyze, channelActive, channelRead, executeResponseGetAllSensors,
         executeResponseGetAllMonitored, refreshSensorTable, executeResponse,
         executeResponseGetSetOfMeasurements, exceptionCaught, bounds
<1>2. DataInv /\ TypeInv
  BY DEF PanelInv, ConnectionInv
<1>3. toClient \in Seq(Answers) /\ buffer \in Seq(Buffered)
  BY <1>2 DEF TypeInv, ChannelOK
<1>4. CASE channelActive
  <2>1. UNCHANGED <<link, toClient, buffer, later, measurements>>
    BY <1>4 DEF channelActive
  <2> QED BY <1>1, <1>2, <2>1, DataFrame DEF Showing
<1>5. CASE channelRead
  <2>1. PICK n \in 0 .. Len(toClient) :
          /\ buffer' = SubSeq(toClient, 1, n)
          /\ toClient' = SubSeq(toClient, n + 1, Len(toClient))
    BY <1>5 DEF channelRead
  <2>2. /\ HasData(toClient) <=> HasData(buffer') \/ HasData(toClient')
        /\ \A span : LastData(toClient, span) <=>
             LastData(toClient', span) /\ (~HasData(toClient') => LastData(buffer', span))
    BY <1>3, <2>1, CutData
  <2>3. buffer = <<>> /\ UNCHANGED <<link, later, measurements>>
    BY <1>5 DEF channelRead
  <2>4. ~HasData(buffer) /\ (Showing' <=> Showing)
    BY <2>3, NoData DEF Showing
  <2> QED BY <1>1, <1>2, <2>2, <2>3, <2>4 DEF DataInv
<1>6. CASE executeResponseGetAllMonitored
  <2>1. /\ buffer # <<>> /\ Head(buffer).type = "list"
        /\ buffer' = << [type |-> "refresh"] >> \o Tail(buffer)
        /\ UNCHANGED <<link, toClient, later, measurements>>
    BY <1>6 DEF executeResponseGetAllMonitored
  <2>2. /\ << [type |-> "refresh"] >> \in Seq(Buffered) /\ Tail(buffer) \in Seq(Buffered)
        /\ ~HasData(<< [type |-> "refresh"] >>)
    BY <1>2, <2>1, HeadType, NoData DEF Buffered
  <2>3. \A span : LastData(<< [type |-> "refresh"] >>, span)
    BY <2>2 DEF HasData, LastData
  <2>4. /\ HasData(buffer') <=> HasData(Tail(buffer))
        /\ \A span : LastData(buffer', span) <=> LastData(Tail(buffer), span)
    BY <2>1, <2>2, <2>3, ConcatData
  <2>5. /\ HasData(buffer) <=> HasData(Tail(buffer))
        /\ \A span : LastData(buffer, span) => LastData(Tail(buffer), span)
    BY <1>3, <2>1, TailData
  <2>6. Showing' <=> Showing
    BY <2>1 DEF Showing
  <2> QED BY <1>1, <1>2, <2>1, <2>4, <2>5, <2>6, DataFrame
<1>7. CASE executeResponseGetAllSensors \/ refreshSensorTable \/ executeResponse
  <2>1. /\ buffer # <<>> /\ Head(buffer).type # "data" /\ buffer' = Tail(buffer)
        /\ UNCHANGED <<link, toClient, measurements>>
    BY <1>7 DEF executeResponseGetAllSensors, refreshSensorTable, executeResponse, Analyze
  <2>2. /\ HasData(buffer) <=> HasData(Tail(buffer))
        /\ \A span : LastData(buffer, span) => LastData(Tail(buffer), span)
    BY <1>3, <2>1, TailData
  <2>3. \/ later' = later
        \/ \E task \in Tasks \ {"data"} : later' = Append(later, task)
    BY <1>7 DEF executeResponseGetAllSensors, refreshSensorTable, executeResponse, Tasks
  <2>4. Showing' <=> Showing
    <3>1. CASE later' = later
      BY <3>1 DEF Showing
    <3> QED BY <1>2, <2>3, <3>1, ShowingSteps
  <2> QED BY <1>1, <1>2, <2>1, <2>2, <2>4, DataFrame
<1>8. CASE executeResponseGetSetOfMeasurements
  <2>1. /\ buffer # <<>> /\ Head(buffer).type = "data" /\ buffer' = Tail(buffer)
        /\ UNCHANGED <<link, toClient>>
        /\ measurements' = [id |-> Head(buffer).id, span |-> Head(buffer).span]
        /\ later' = Append(later, "data")
    BY <1>8 DEF executeResponseGetSetOfMeasurements, Analyze
  <2>2. /\ HasData(buffer)
        /\ \A span : LastData(buffer, span) =>
             /\ LastData(Tail(buffer), span)
             /\ ~HasData(Tail(buffer)) => Head(buffer).span = span
    BY <1>3, <2>1, TailData
  <2>3. Showing' /\ measurements'.span = Head(buffer).span
    BY <1>2, <2>1, ShowingSteps DEF Tasks
  <2> QED BY <1>1, <1>2, <2>1, <2>2, <2>3 DEF DataInv
<1>9. CASE exceptionCaught
  BY <1>9 DEF exceptionCaught
<1> QED BY <1>4, <1>5, <1>6, <1>7, <1>8, <1>9 DEF Reader

LEMMA ServerData ==
  ASSUME PanelInv, TypeInv', Serve \/ Drop \/ SensorChanges \/ LinkEnds, link' = "up"
  PROVE  DataInv'
<1>1. UNCHANGED <<buffer, later, measurementsType, measurements, chart>>
  BY DEF Serve, Drop, SensorChanges, LinkEnds, view, data, channel
<1>2. Showing' <=> Showing
  BY <1>1 DEF Showing
<1>3. DataInv /\ TypeInv
  BY DEF PanelInv, ConnectionInv
<1>4. toServer \in Seq(PanelCommands) /\ toClient \in Seq(Answers)
  BY <1>3 DEF TypeInv, ChannelOK
<1>5. CASE Serve
  <2> DEFINE m == Head(toServer)
  <2>1. /\ toServer # <<>> /\ toServer' = Tail(toServer)
        /\ toClient' = Append(toClient, Answer(m)) /\ link' = link /\ dropped' = dropped
    BY <1>5 DEF Serve, bounds
  <2>2. m \in PanelCommands
    BY <1>4, <2>1, HeadTailProperties
  <2>3. Answer(m) \in Answers /\ Answer(m).type = m.type /\ (m.type = "data" => Answer(m) = m)
    BY <1>3, <2>2, AnswerType DEF TypeInv, ModelOK
  <2>4. /\ HasData(toServer) <=> m.type = "data" \/ HasData(toServer')
        /\ \A span : LastData(toServer, span) =>
             /\ LastData(toServer', span)
             /\ m.type = "data" /\ ~HasData(toServer') => m.span = span
    BY <1>4, <2>1, TailData
  <2>5. /\ HasData(toClient') <=> HasData(toClient) \/ m.type = "data"
        /\ \A span : LastData(toClient', span) <=>
             IF m.type = "data" THEN m.span = span ELSE LastData(toClient, span)
    BY <1>4, <2>1, <2>3, AppendData
  <2> HIDE DEF m
  <2> QED BY <1>1, <1>2, <1>3, <2>1, <2>4, <2>5 DEF DataInv
<1>6. CASE SensorChanges
  <2>1. UNCHANGED <<dropped, link, toServer, toClient>>
    BY <1>6 DEF SensorChanges, channel
  <2> QED BY <1>1, <1>2, <1>3, <2>1, DataFrame
<1>7. CASE LinkEnds
  BY <1>7 DEF LinkEnds
<1>8. CASE Drop
  <2>1. dropped' = dropped + 1 /\ dropped \in Nat
    BY <1>3, <1>8 DEF Drop, TypeInv, AppOK
  <2> QED BY <2>1 DEF DataInv
<1> QED BY <1>5, <1>6, <1>7, <1>8

LEMMA PanelInvariant == Spec => []PanelInv
<1>1. PanelInv /\ [Next]_vars => PanelInv'
  <2> SUFFICES ASSUME PanelInv, [Next]_vars PROVE PanelInv'
    OBVIOUS
  <2>1. ConnectionInv' /\ TypeInv'
    <3>1. TypeInv'
      BY StepType DEF PanelInv, ConnectionInv
    <3>2. CASE UNCHANGED vars
      BY <3>1, <3>2 DEF vars, channel, bounds, PanelInv, ConnectionInv, LinkInv, NoLists,
                        GoesOnUnconnected
    <3> QED BY <3>1, <3>2, ClicksConnection, LaterConnection, NetworkConnection DEF Next, PanelInv
  <2>2. Unread'
    BY UnreadKept
  <2>3. DataInv'
    <3>1. CASE link' # "up"
      BY <3>1 DEF DataInv
    <3>2. CASE UNCHANGED vars
      BY <3>2 DEF vars, channel, view, data, bounds, DataInv, Showing, PanelInv
    <3> QED BY <2>1, <3>1, <3>2, ClicksData, LaterData, ReaderData, ServerData DEF Next
  <2> QED BY <2>1, <2>2, <2>3 DEF PanelInv
<1> QED BY <1>1, InitPanel, PTL DEF Spec

\* Nothing that is under way anywhere is what DataInv calls the last of the data.
LEMMA PanelChart == PanelInv => ChartAgrees
<1> SUFFICES ASSUME PanelInv, link = "up", ~DataUnderWay, dropped = 0,
                    measurementsType # None, chart # NoChart
             PROVE  chart.title = chart.data.span
  BY DEF ChartAgrees
<1>1. ~HasData(toServer) /\ ~HasData(toClient) /\ ~HasData(buffer)
  BY DEF DataUnderWay, HasData
<1>2. ~Showing
  BY DEF DataUnderWay, Showing, ToSet
<1> QED BY <1>1, <1>2 DEF PanelInv, DataInv

\* The title of the chart names the span of the data under it, once every request has
\* had its answer and none has raised, although the one is taken from the last click
\* and the other from the last answer, whoever that was for.
THEOREM ChartCorrect == Spec => []ChartAgrees
<1> QED BY PanelInvariant, PanelChart, PTL

=============================================================================
