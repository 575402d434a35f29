---------------------------- MODULE MCStatusCache ----------------------------
(* Model-checking instances of StatusCache: one zone and one partition, each  *)
(* in a batch of its own.                                                    *)
EXTENDS StatusCache

MCDevices  == {"zone", "part"}
MCBatches  == <<{"zone"}, {"part"}>>
MCFirstOf  == <<"zone", "part">>
(* All flags of a device change at once.  The end of the partition's trouble   *)
(* is published, that of the zone's is not.                                  *)
MCStatuses  == {{}, {"open", "trouble"}}
MCSetTold   == [zone |-> {"open", "trouble"}, part |-> {"open", "trouble"}]
MCUnsetTold == [zone |-> {"open"}, part |-> {"open", "trouble"}]
MCErrorStatus == {}
=============================================================================
