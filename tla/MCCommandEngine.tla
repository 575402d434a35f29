--------------------------- MODULE MCCommandEngine ---------------------------
(* Model-checking instances of CommandEngine. *)
EXTENDS CommandEngine, TLC

CallerSymmetry == Permutations(Callers)

(* Bound: at most one of the things that end a connection in a behaviour. *)
Faults ==
    {f \in {"peer", "reader", "flag", "dcn"} :
        \/ f = "peer" /\ ~link
        \/ f = "reader" /\ ~reading
        \/ f = "flag" /\ ~connected /\ reading /\ dcn # "done"
        \/ f = "dcn" /\ dcn # "no"}

OneFault == Cardinality(Faults) <= 1

=============================================================================
