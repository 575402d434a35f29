--------------------------- MODULE InOrderDelivery ---------------------------
(***************************************************************************)
(* What the acknowledged push channel promises its consumer: the messages   *)
(* the panel offers are received in the order they were offered, each once. *)
(***************************************************************************)
EXTENDS Naturals, Sequences

VARIABLES
    offered,   \* number of messages offered; the last one is message offered
    received   \* the messages received, in order

Init == offered = 0 /\ received = <<>>

Offer ==
    /\ Len(received) = offered
    /\ offered' = offered + 1
    /\ UNCHANGED received

Take ==
    /\ Len(received) < offered
    /\ received' = Append(received, offered)
    /\ UNCHANGED offered

Next == Offer \/ Take

Spec == Init /\ [][Next]_<<offered, received>>
=============================================================================
