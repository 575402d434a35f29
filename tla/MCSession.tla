------------------------------ MODULE MCSession ------------------------------
(* Model-checking instances of Session: the panel's key is the middle of      *)
(* three, so that discovery can guess wrong; the panel has fewer zones than   *)
(* the limits allow, and as many partitions and outputs.                     *)
EXTENDS Session
MCKeys == 0..2
MCLimit == [zones |-> 3, outputs |-> 1, parts |-> 1]
MCInstalled == [zones |-> 2, outputs |-> 1, parts |-> 1]
=============================================================================
