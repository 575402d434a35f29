---------------------------- MODULE MCArmCommands ----------------------------
(* Model-checking instances of ArmCommands. *)
EXTENDS ArmCommands

CONSTANTS z1, z2, unknown

AllCommands == {Arm(<<unknown, z1>>, <<z2>>), Arm(<<>>, <<>>), Disarm, Bypass(z1, TRUE),
                Bypass(z1, FALSE), Bypass(unknown, TRUE)}
ExcludeZone == {Arm(<<z1>>, <<>>), Disarm}
=============================================================================
