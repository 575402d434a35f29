-------------------------- MODULE MCBridgeLifecycle --------------------------
(* Model-checking instances of MqttBridge and main's loop around it. *)
EXTENDS BridgeLifecycle
=============================================================================
