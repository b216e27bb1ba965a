--------------------------- MODULE MonitoringCodec ---------------------------
(***************************************************************************)
(* The messages between the monitoring client (CommunicationManager) and   *)
(* the server (SerializerMonitoringMessage).                               *)
(***************************************************************************)
EXTENDS MessageFields

GET_ALL_SENSORS_MONITORING == 0
GET_SET_OF_MEASUREMENTS == 1

-----------------------------------------------------------------------------
(* Commands: the client puts a length of its own before the message, which    *)
(* the server skips.                                                          *)

prefixMessageSize(message) == intToByteListLittleEndian(Len(message)) \o message

prepareMessageGetAllSensors == prepareIntegerMessageWithSize(GET_ALL_SENSORS_MONITORING)

prepareMessageGetSetOfMeasurements(sensorId, type) ==
  prepareIntegerMessageWithSize(GET_SET_OF_MEASUREMENTS)
    \o prepareIntegerMessageWithSize(sensorId) \o prepareIntegerMessageWithSize(type)

prepareMessage(command) ==
  prefixMessageSize(
    IF command.type = GET_ALL_SENSORS_MONITORING THEN prepareMessageGetAllSensors
    ELSE prepareMessageGetSetOfMeasurements(command.id, command.span))

\* Fault: the sensor is read where the span is.
analyzeSpanTwice(message) ==
  IF ByteToInt(message, 8) = GET_ALL_SENSORS_MONITORING THEN [type |-> GET_ALL_SENSORS_MONITORING]
  ELSE [type |-> GET_SET_OF_MEASUREMENTS,
        id |-> ByteToInt(message, 16), span |-> ByteToInt(message, 16)]

analyzeMessage(message) ==
  IF ByteToInt(message, 8) = GET_ALL_SENSORS_MONITORING THEN [type |-> GET_ALL_SENSORS_MONITORING]
  ELSE [type |-> GET_SET_OF_MEASUREMENTS,
        id |-> ByteToInt(message, 16), span |-> ByteToInt(message, 24)]

-----------------------------------------------------------------------------
(* Responses *)

constructSensorMessage(sensor) ==
  constructIntMessageWithSize(sensor.id) \o constructStringMessageWithSize(sensor.name)
    \o constructStringMessageWithSize(sensor.ip) \o constructIntMessageWithSize(sensor.port)
    \o constructIntMessageWithSize(sensor.current)

constructSensorListMessage(sensors) ==
  IntToByte(Len(sensors))
    \o FlattenSeq([i \in 1 .. Len(sensors) |-> WithLength(constructSensorMessage(sensors[i]))])

constructGetAllSensorsMessage(sensors) ==
  IntToByte(GET_ALL_SENSORS_MONITORING) \o constructSensorListMessage(sensors)

constructMeasurementMessage(measurement) ==
  constructIntMessageWithSize(measurement.value) \o constructStringMessageWithSize(measurement.label)

constructMeasurementsListMessage(measurements) ==
  IntToByte(Len(measurements))
    \o FlattenSeq([i \in 1 .. Len(measurements) |->
         WithLength(constructMeasurementMessage(measurements[i]))])

constructGetSetOfMeasurements(id, measurements) ==
  IntToByte(GET_SET_OF_MEASUREMENTS) \o IntToByte(id) \o constructMeasurementsListMessage(measurements)

serializeResponseMessage(response) ==
  IF response.type = GET_ALL_SENSORS_MONITORING
  THEN constructGetAllSensorsMessage(response.sensors)
  ELSE constructGetSetOfMeasurements(response.id, response.measurements)

constructSensorFromByteMessage(message) ==
  LET value == Values(message, 5) IN
  [id |-> byteListToInt(value[1]), name |-> byteListToString(value[2]),
   ip |-> byteListToString(value[3]), port |-> byteListToInt(value[4]),
   current |-> byteListToInt(value[5])]

constructSensors(message) ==
  LET element == ListElements(message) IN
  [i \in DOMAIN element |-> constructSensorFromByteMessage(element[i])]

constructMeasurementFromByteMessage(message, sensorID) ==
  LET value == Values(message, 2) IN
  [id |-> sensorID, value |-> byteListToInt(value[1]), label |-> byteListToString(value[2])]

constructMeasurements(message) ==
  LET element == ListElements(after(message, 4)) IN
  [i \in DOMAIN element |->
     constructMeasurementFromByteMessage(element[i], byteListToInt(message))]

analyzeResponse(message) ==
  LET commandType == byteListToInt(subList(message, 0, 4))
      rest == after(message, 4) IN
  IF commandType = GET_ALL_SENSORS_MONITORING
  THEN [type |-> commandType, sensors |-> constructSensors(rest)]
  ELSE [type |-> commandType, measurements |-> constructMeasurements(rest)]

=============================================================================
