--------------------------- MODULE DeviceDiscovery ---------------------------
(***************************************************************************)
(* panel.rs, discover_devices, and the queries of comm.rs it is made of:      *)
(* system, zones, outputs and partitions, in this order, each kind in batches *)
(* of eight devices and each batch by a fixed sequence of queries.            *)
(*                                                                          *)
(* A batch is the set of the queries that brought what they asked for.  An    *)
(* error code other than N19 is taken for a list of one: it speaks of the     *)
(* first device of the batch only, and the others keep their defaults.        *)
(***************************************************************************)
EXTENDS Naturals, Sequences

CONSTANTS
    Limit,      \* batches up to max_zones, max_outputs and max_parts
    Installed   \* batches the panel has

Lists == {"zones", "outputs", "parts"}

ASSUME DiscoveryConstants ==
    /\ Limit \in [Lists -> Nat \ {0}]
    /\ Installed \in [Lists -> Nat]

VARIABLES
    kind,      \* the kind being discovered, or "none"
    batch,     \* its batch
    query,     \* the query of the batch
    answered,  \* queries of the batch that brought what they asked for
    found,     \* the batches of this kind so far
    devices,   \* zones, outputs and partitions of the panel object
    system,    \* its system data: "none", "read", "misread" or "blank"
    trouble    \* history: kinds whose last discovery met an error

discoveryVars == <<kind, batch, query, answered, found, devices, system, trouble>>

SystemQueries == <<"label", "status">>

(* links and pulses are one query for each zone or pulsed output. *)
ZoneQueries == <<"types", "partitions", "areas", "labels", "status", "links">>
OutputQueries == <<"types", "labels", "status", "groups", "pulses">>
PartitionQueries == <<"labels", "status">>

Queries == [system |-> SystemQueries, zones |-> ZoneQueries,
            outputs |-> OutputQueries, parts |-> PartitionQueries]

Optional == {"links", "pulses"}

QueriesOf(k) == {Queries[k][i] : i \in 1..Len(Queries[k])}

NextKind == [system |-> "zones", zones |-> "outputs", outputs |-> "parts",
             parts |-> "none"]

(* The cursor of the queries stays in its lists, and a list that is built or   *)
(* kept has no more batches than the limits allow.                          *)
DiscoveryTypeOK ==
    /\ kind \in Lists \cup {"system", "none"}
    /\ batch \in Nat \ {0}
    /\ kind \in Lists => /\ batch \in 1..Limit[kind]
                         /\ found \in Seq(SUBSET QueriesOf(kind))
                         /\ Len(found) = batch - 1
    /\ query \in 1..(IF kind = "none" THEN 1 ELSE Len(Queries[kind]))
    /\ answered \subseteq (IF kind = "none" THEN {} ELSE QueriesOf(kind))
    /\ DOMAIN devices = Lists
    /\ \A k \in Lists : /\ devices[k] \in Seq(SUBSET QueriesOf(k))
                        /\ Len(devices[k]) <= Limit[k]
    /\ system \in {"none", "read", "misread", "blank"}
    /\ trouble \subseteq Lists \cup {"system"}

DiscoveryInit ==
    /\ kind = "none" /\ batch = 1 /\ query = 1
    /\ answered = {} /\ found = <<>>
    /\ devices = [k \in Lists |-> <<>>]
    /\ system = "none"
    /\ trouble = {}

-----------------------------------------------------------------------------
HasDiscoveredDevices == devices.zones # <<>> \/ devices.parts # <<>>

StartDiscovery ==
    /\ kind' = "system" /\ batch' = 1 /\ query' = 1
    /\ answered' = {} /\ found' = <<>>
    /\ trouble' = {}
    /\ UNCHANGED <<devices, system>>

(* The next kind, with what became of this one. *)
EndKind(ds, sys) ==
    /\ devices' = ds /\ system' = sys
    /\ kind' = NextKind[kind] /\ batch' = 1 /\ query' = 1
    /\ answered' = {} /\ found' = <<>>

EndList(list) == EndKind([devices EXCEPT ![kind] = list], system)

EndBatch(got) ==
    IF kind = "system"
    THEN EndKind(devices, IF got = QueriesOf(kind) THEN "read" ELSE "misread")
    ELSE IF batch < Limit[kind]
    THEN /\ batch' = batch + 1 /\ query' = 1
         /\ answered' = {} /\ found' = Append(found, got)
         /\ UNCHANGED <<kind, devices, system>>
    ELSE EndList(Append(found, got))

(* The answer to a query is in: the queries of the batch that brought what     *)
(* they asked for are now got.                                              *)
Goes(got) ==
    IF query < Len(Queries[kind])
    THEN /\ query' = query + 1 /\ answered' = got
         /\ UNCHANGED <<kind, batch, found, devices, system>>
    ELSE EndBatch(got)

Exists == kind \in Lists => batch <= Installed[kind]

QueryAnswered ==
    /\ kind # "none" /\ Exists
    /\ Goes(answered \cup {Queries[kind][query]})
    /\ UNCHANGED trouble

(* An error code: taken for the data, for technology N or for no delay. *)
QueryRefused ==
    /\ kind # "none" /\ Exists
    /\ Goes(answered)
    /\ trouble' = trouble \cup {kind}

(* Mutant: the batch that does not exist is counted. *)
NoSuchDeviceCounted ==
    /\ kind # "none" /\ ~Exists
    /\ EndList(Append(found, answered))
    /\ UNCHANGED trouble

(* N19: the list ends before this batch. *)
NoSuchDevice ==
    /\ kind # "none" /\ ~Exists
    /\ EndList(found)
    /\ UNCHANGED trouble

(* No reply at all.  The list the panel object had stays; the system is        *)
(* replaced by one without label and flags.                                  *)
QueryFails ==
    /\ kind # "none"
    /\ trouble' = trouble \cup {kind}
    /\ IF Queries[kind][query] \in Optional THEN Goes(answered)
       ELSE EndKind(devices, IF kind = "system" THEN "blank" ELSE system)

-----------------------------------------------------------------------------
Smaller(a, b) == IF a < b THEN a ELSE b

(* The devices a panel within the limits has are all found, with everything    *)
(* asked about them and their first status taken, and none is invented, for   *)
(* each kind whose queries were all answered: whatever became of the others.  *)
DevicesFound ==
    kind = "none" /\ system # "none" =>
        \A k \in Lists \ trouble :
            devices[k] = [b \in 1..Smaller(Limit[k], Installed[k]) |-> QueriesOf(k)]
=============================================================================
