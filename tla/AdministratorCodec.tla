-------------------------- MODULE AdministratorCodec --------------------------
(***************************************************************************)
(* The messages between the administrator's client (CommunicationManager)  *)
(* and the server (SerializerAdministratorMessage).                        *)
(***************************************************************************)
EXTENDS MessageFields

GET_ALL_SENSORS == 0
UPDATE_SENSOR_NAME == 1
REVOKE_SENSOR == 2
DISCONNECT_SENSOR == 3
GENERATE_TOKEN == 4

-----------------------------------------------------------------------------
(* Commands: from the client ... *)

prepareMessageGetAllSensors == prepareIntegerMessageWithSize(GET_ALL_SENSORS)

prepareMessageUpdateSensorName(id, name) ==
  prepareIntegerMessageWithSize(UPDATE_SENSOR_NAME)
    \o prepareIntegerMessageWithSize(id) \o prepareStringMessageWithSize(name)

prepareMessageRevokeSensor(id) ==
  prepareIntegerMessageWithSize(REVOKE_SENSOR) \o prepareIntegerMessageWithSize(id)

prepareMessageDisconnectSensor(id) ==
  prepareIntegerMessageWithSize(DISCONNECT_SENSOR) \o prepareIntegerMessageWithSize(id)

prepareMessageGenerateToken(tokenName) ==
  prepareIntegerMessageWithSize(GENERATE_TOKEN) \o prepareStringMessageWithSize(tokenName)

prepareMessage(command) ==
  CASE command.type = GET_ALL_SENSORS    -> prepareMessageGetAllSensors
    [] command.type = UPDATE_SENSOR_NAME -> prepareMessageUpdateSensorName(command.id, command.name)
    [] command.type = REVOKE_SENSOR      -> prepareMessageRevokeSensor(command.id)
    [] command.type = DISCONNECT_SENSOR  -> prepareMessageDisconnectSensor(command.id)
    [] command.type = GENERATE_TOKEN     -> prepareMessageGenerateToken(command.name)

(* ... to the server.  The fields a command does not use stay unset. *)

analyzeUpdateSensorName(message) ==
  [type |-> UPDATE_SENSOR_NAME, id |-> ByteToInt(message, 4), name |-> StringAt(message, 8)]

analyzeRevokeSensor(message) == [type |-> REVOKE_SENSOR, id |-> ByteToInt(message, 4)]

analyzeDisconnectSensor(message) == [type |-> DISCONNECT_SENSOR, id |-> ByteToInt(message, 4)]

analyzeGenerateToken(message) == [type |-> GENERATE_TOKEN, name |-> StringAt(message, 0)]

analyzeMessage(message) ==
  LET commandType == ByteToInt(message, 4)
      rest == after(message, 8) IN
  CASE commandType = GET_ALL_SENSORS    -> [type |-> GET_ALL_SENSORS]
    [] commandType = UPDATE_SENSOR_NAME -> analyzeUpdateSensorName(rest)
    [] commandType = REVOKE_SENSOR      -> analyzeRevokeSensor(rest)
    [] commandType = DISCONNECT_SENSOR  -> analyzeDisconnectSensor(rest)
    [] commandType = GENERATE_TOKEN     -> analyzeGenerateToken(rest)

-----------------------------------------------------------------------------
(* Responses: from the server ... *)

constructSensorMessage(sensor) ==
  constructIntMessageWithSize(sensor.id) \o constructStringMessageWithSize(sensor.name)
    \o constructStringMessageWithSize(sensor.ip) \o constructIntMessageWithSize(sensor.port)
    \o constructBoolMessageWithSize(sensor.connected)

constructSensorListMessage(sensors) ==
  IntToByte(Len(sensors))
    \o FlattenSeq([i \in 1 .. Len(sensors) |-> WithLength(constructSensorMessage(sensors[i]))])

constructGetAllSensorsMessage(sensors) ==
  IntToByte(GET_ALL_SENSORS) \o constructSensorListMessage(sensors)

constructUpdateSensorNameMessage(id) == IntToByte(UPDATE_SENSOR_NAME) \o IntToByte(id)

constructRevokeSensorMessage(id) == IntToByte(REVOKE_SENSOR) \o IntToByte(id)

\* Fault: the type is that of the function it was copied from.
constructDisconnectAsRevoke(id) == IntToByte(REVOKE_SENSOR) \o IntToByte(id)

constructDisconnectSensorMessage(id) == IntToByte(DISCONNECT_SENSOR) \o IntToByte(id)

constructGenerateTokenMessage(token) ==
  IntToByte(GENERATE_TOKEN) \o constructStringMessageWithSize(token)

serializeResponseMessage(response) ==
  CASE response.type = GET_ALL_SENSORS    -> constructGetAllSensorsMessage(response.sensors)
    [] response.type = UPDATE_SENSOR_NAME -> constructUpdateSensorNameMessage(response.id)
    [] response.type = REVOKE_SENSOR      -> constructRevokeSensorMessage(response.id)
    [] response.type = DISCONNECT_SENSOR  -> constructDisconnectSensorMessage(response.id)
    [] response.type = GENERATE_TOKEN     -> constructGenerateTokenMessage(response.token)

(* ... to the client *)

constructSensorFromByteMessage(message) ==
  LET value == Values(message, 5) IN
  [id |-> byteListToInt(value[1]), name |-> byteListToString(value[2]),
   ip |-> byteListToString(value[3]), port |-> byteListToInt(value[4]),
   connected |-> byteListToBoolean(value[5])]

constructSensors(message) ==
  LET element == ListElements(message) IN
  [i \in DOMAIN element |-> constructSensorFromByteMessage(element[i])]

analyzeGenerateTokenResponse(message) == byteListToString(after(message, 4))

analyzeResponse(message) ==
  LET commandType == byteListToInt(subList(message, 0, 4))
      rest == after(message, 4) IN
  CASE commandType = GET_ALL_SENSORS -> [type |-> commandType, sensors |-> constructSensors(rest)]
    [] commandType \in {UPDATE_SENSOR_NAME, REVOKE_SENSOR, DISCONNECT_SENSOR} ->
         [type |-> commandType, id |-> byteListToInt(rest)]
    [] commandType = GENERATE_TOKEN ->
         [type |-> commandType, token |-> analyzeGenerateTokenResponse(rest)]

=============================================================================
