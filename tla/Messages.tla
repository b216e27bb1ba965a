------------------------------- MODULE Messages -------------------------------
(***************************************************************************)
(* The messages of the administrator's and of the monitoring port, from    *)
(* what one side means to what the other side reads: bytes, put in a       *)
(* frame, taken out of it and analyzed.                                    *)
(***************************************************************************)
EXTENDS MessageFields

Administrator == INSTANCE AdministratorCodec
Monitoring == INSTANCE MonitoringCodec

\* The commands about sensors of ids that give names
AdministratorCommands(ids, names) ==
  [type : {Administrator!GET_ALL_SENSORS}]
    \cup [type : {Administrator!UPDATE_SENSOR_NAME}, id : ids, name : names]
    \cup [type : {Administrator!REVOKE_SENSOR, Administrator!DISCONNECT_SENSOR}, id : ids]
    \cup [type : {Administrator!GENERATE_TOKEN}, name : names]

MonitoringCommands(ids) ==
  [type : {Monitoring!GET_ALL_SENSORS_MONITORING}]
    \cup [type : {Monitoring!GET_SET_OF_MEASUREMENTS}, id : ids, span : 0 .. 2]

\* What the tables put in messages: ASCII texts, and lists that an int can count the
\* bytes of
Characters == 0 .. 127
Short == {text \in Seq(Characters) : Len(text) <= 500}
LongestList == 500000

Unframed(bytes) == subList(bytes, 4, 4 + parse(bytes))

\* What the listener of port p makes of a command
CommandRead(p, command) ==
  IF p = "administrator"
  THEN Administrator!analyzeMessage(Unframed(addPrefixMessageSize(Administrator!prepareMessage(command))))
  ELSE Monitoring!analyzeMessage(Unframed(addPrefixMessageSize(Monitoring!prepareMessage(command))))

\* What a client of port p makes of a response
ResponseRead(p, response) ==
  IF p = "administrator"
  THEN Administrator!analyzeResponse(
         Unframed(addPrefixMessageSize(Administrator!serializeResponseMessage(response))))
  ELSE Monitoring!analyzeResponse(
         Unframed(addPrefixMessageSize(Monitoring!serializeResponseMessage(response))))

=============================================================================
