------------------------ MODULE MCUnsolicitedDelivery ------------------------
(* Model-checking instance of UnsolicitedDelivery: three ids in a cycle, so    *)
(* that an id comes back within the messages of the run.                     *)
EXTENDS UnsolicitedDelivery

MCIds == 50..52
MCIdOf == [n \in 1..MaxMessages |-> 50 + (n % 3)]
=============================================================================
