---------------------------- MODULE MCMqttBridge ----------------------------
(* Model-checking instances of MqttBridge alone. *)
EXTENDS MqttBridge
=============================================================================
