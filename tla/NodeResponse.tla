----------------------------- MODULE NodeResponse ------------------------------
(***************************************************************************)
(* app/node_response.c: the DATA or ERROR packet built from one sensor     *)
(* result.  The wire form of a message is the business of the packet       *)
(* codec; here a build yields the message that was encoded.                *)
(***************************************************************************)
EXTENDS PacketContract

SENSOR_OK            == "SENSOR_OK"
SENSOR_INIT_FAILED   == "SENSOR_INIT_FAILED"
SENSOR_READ_FAILED   == "SENSOR_READ_FAILED"
SENSOR_VALUE_INVALID == "SENSOR_VALUE_INVALID"
SensorFailures == {SENSOR_INIT_FAILED, SENSOR_READ_FAILED, SENSOR_VALUE_INVALID}

INVALID_ARGUMENT == "INVALID_ARGUMENT"
DATA_READY       == "DATA_READY"
ERROR_READY      == "ERROR_READY"
LOCAL_ERROR      == "LOCAL_ERROR"

\* Faulty variant: the sign is dropped.
HighOfMagnitude(n) == (IF n < 0 THEN -n ELSE n) \div 256

\* The low and the high byte of a 16-bit field; a negative value is first taken
\* to its two's complement.
Low(n)  == n % 256
High(n) == (n % 65536) \div 256

PACKET_BUILD_FAILED == 4

MapSensorError(status) ==
  CASE status = SENSOR_INIT_FAILED   -> 1
    [] status = SENSOR_READ_FAILED   -> 2
    [] status = SENSOR_VALUE_INVALID -> 3
    [] OTHER                         -> PACKET_BUILD_FAILED

InitializeMessage(request, type, payload) ==
  [type |-> type, source |-> request.node_address,
   destination |-> GatewayAddress, transaction_id |-> request.transaction_id,
   sequence |-> request.sequence, payload |-> payload]

BuildError(request, code) ==
  LET message == InitializeMessage(request, ERROR, <<code>>)
  IN [result |-> IF IsMessageValid(message) THEN ERROR_READY ELSE LOCAL_ERROR,
      message |-> message]

DataMessage(request) ==
  LET sensor == request.sensor
  IN InitializeMessage(request, DATA,
       << High(sensor.temperature_x10), Low(sensor.temperature_x10),
          High(sensor.humidity_x10), Low(sensor.humidity_x10) >>)

\* The outcome of NODE_RESPONSE_Build and the message it encoded, which is
\* meaningful only for DATA_READY and ERROR_READY.
Build(request) ==
  LET sensor  == request.sensor
      message == DataMessage(request)
  IN IF \/ request.node_address \notin NodeAddresses
        \/ sensor.status \notin SensorFailures \cup {SENSOR_OK}
     THEN [result |-> INVALID_ARGUMENT, message |-> message]
     ELSE IF sensor.status # SENSOR_OK
     THEN BuildError(request, MapSensorError(sensor.status))
     ELSE IF IsMessageValid(message)
     THEN [result |-> DATA_READY, message |-> message]
     ELSE BuildError(request, PACKET_BUILD_FAILED)
================================================================================
