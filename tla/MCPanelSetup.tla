---------------------------- MODULE MCPanelSetup ----------------------------
(* A panel that may be of the configured type, another or an unknown one,     *)
(* firmware on both sides of a limit, and two settings.                     *)
EXTENDS PanelSetup

MCSettings == <<"cloud", "ntp">>
MCTakenForRight == {"cloud"}
MCConfigured == {"LightSys", "GTPlus"}
MCHardware == {"RP432", "RP512", "RW132", "RP000"}
MCVersions == {<<3>>, <<3, 0>>, <<1, 2, 0, 6>>, <<1, 10, 0, 1>>}
=============================================================================
