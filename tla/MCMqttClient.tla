------------------------------ MODULE MCMqttClient ------------------------------
(* Instances of MqttClient.                                                    *)
EXTENDS MqttClient
CONSTANTS ack, event, reading
MCMessages == {ack, event, reading}
MCCritical == {ack, event}
============================================================================
