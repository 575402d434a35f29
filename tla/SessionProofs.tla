---------------------------- MODULE SessionProofs ----------------------------
(***************************************************************************)
(* What Session promises for every set of keys, limits and installed devices. *)
(***************************************************************************)
EXTENDS Session, SequenceTheorems, TLAPS

Kinds == Lists \cup {"system"}

(* The kinds whose discovery is over when this one is in progress. *)
Finished == [system |-> {}, zones |-> {}, outputs |-> {"zones"},
             parts |-> {"zones", "outputs"}, none |-> Lists]

FullList(k) == [b \in 1..Smaller(Limit[k], Installed[k]) |-> QueriesOf(k)]

(* Everything asked so far of the kind in progress was answered. *)
AnsweredSoFar ==
    /\ answered = {Queries[kind][i] : i \in 1..(query - 1)}
    /\ kind \in Lists => /\ batch - 1 <= Installed[kind]
                         /\ query > 1 => batch <= Installed[kind]
                         /\ found = [b \in 1..(batch - 1) |-> QueriesOf(kind)]

(* The part of the invariant that is about device discovery. *)
DiscoveryInv ==
    /\ DiscoveryTypeOK
    /\ kind \in Lists => system # "none"
    /\ kind \in {"system", "zones"} => devices["zones"] = <<>>
    /\ kind # "none" => devices["parts"] = <<>>
    /\ system # "none" => \A k \in Finished[kind] \ trouble : devices[k] = FullList(k)
    /\ kind # "none" /\ kind \notin trouble => AnsweredSoFar

-----------------------------------------------------------------------------
LEMMA QueryFacts ==
    ASSUME NEW k \in Kinds
    PROVE  /\ Len(Queries[k]) \in Nat \ {0}
           /\ \A i \in 1..Len(Queries[k]) : Queries[k][i] \in QueriesOf(k)
<1>1. Len(Queries[k]) \in Nat \ {0}
  BY DEF Kinds, Lists, Queries, SystemQueries, ZoneQueries, OutputQueries, PartitionQueries
<1>. QED BY <1>1 DEF QueriesOf

LEMMA SequencesAreFunctions ==
    ASSUME NEW S, NEW s \in Seq(S)
    PROVE  s = [i \in 1..Len(s) |-> s[i]]
<1>1. PICK n \in Nat : s \in [1..n -> S]
  BY SeqDef
<1>. QED BY <1>1

LEMMA SmallerFacts ==
    ASSUME NEW k \in Lists
    PROVE  /\ Limit[k] \in Nat \ {0} /\ Installed[k] \in Nat
           /\ Smaller(Limit[k], Installed[k]) \in Nat
           /\ Smaller(Limit[k], Installed[k]) <= Limit[k]
  BY DiscoveryConstants DEF Smaller

(* The list of a kind is finished: the next kind begins with nothing known. *)
LEMMA EndKindInv ==
    ASSUME DiscoveryInv, kind \in Kinds,
           NEW ds, NEW sys \in {"none", "read", "misread", "blank"},
           EndKind(ds, sys),
           sys # "none",
           DOMAIN ds = Lists,
           \A k \in Lists \ {kind} : ds[k] = devices[k],
           kind \in Lists => /\ ds[kind] \in Seq(SUBSET QueriesOf(kind))
                             /\ Len(ds[kind]) <= Limit[kind],
           trouble' \in {trouble, trouble \cup {kind}},
           kind \in Lists => kind \in trouble' \/ ds[kind] = FullList(kind)
    PROVE  DiscoveryInv'
<1>. USE DEF EndKind
<1>1. kind' = NextKind[kind] /\ kind' \in Lists \cup {"none"}
  BY DEF NextKind, Kinds, Lists
<1>2. DiscoveryTypeOK'
  <2>1. kind' \in Lists => batch' \in 1..Limit[kind'] /\ Len(found') = batch' - 1
                          /\ found' \in Seq(SUBSET QueriesOf(kind'))
    BY SmallerFacts
  <2>2. query' \in 1..(IF kind' = "none" THEN 1 ELSE Len(Queries[kind']))
    BY <1>1, QueryFacts DEF Kinds
  <2>3. \A k \in Lists : devices'[k] \in Seq(SUBSET QueriesOf(k)) /\ Len(devices'[k]) <= Limit[k]
    BY DEF DiscoveryInv, DiscoveryTypeOK
  <2>4. trouble' \subseteq Lists \cup {"system"}
    BY DEF DiscoveryInv, DiscoveryTypeOK, Kinds
  <2>. QED BY <1>1, <2>1, <2>2, <2>3, <2>4 DEF DiscoveryTypeOK
<1>3. kind' \in Lists => system' # "none"
  OBVIOUS
<1>4. /\ kind' \in {"system", "zones"} => devices'["zones"] = <<>>
      /\ kind' # "none" => devices'["parts"] = <<>>
  BY <1>1 DEF DiscoveryInv, NextKind, Kinds, Lists
<1>5. system # "none" \/ kind = "system"
  BY DEF DiscoveryInv, Kinds
<1>6. \A k \in Finished[kind'] \ trouble' : devices'[k] = FullList(k)
  <2>1. \A k \in Finished[kind'] : k = kind \/ (k \in Finished[kind] /\ kind # "system")
    BY <1>1 DEF Finished, NextKind, Kinds, Lists
  <2>2. Finished[kind'] \subseteq Lists
    BY <1>1 DEF Finished, Lists
  <2>. QED BY <1>5, <2>1, <2>2 DEF DiscoveryInv, Kinds
<1>7. kind' # "none" /\ kind' \notin trouble' => AnsweredSoFar'
  <2>1. answered' = {Queries[kind'][i] : i \in 1..(query' - 1)}
    BY DEF Kinds
  <2>2. kind' \in Lists => batch' - 1 <= Installed[kind']
    BY SmallerFacts
  <2>3. found' = [b \in 1..(batch' - 1) |-> QueriesOf(kind')]
    BY SMT
  <2>. QED BY <2>1, <2>2, <2>3 DEF AnsweredSoFar
<1>. QED BY <1>2, <1>3, <1>4, <1>6, <1>7 DEF DiscoveryInv, FullList

(* One more query of a batch is over, with or without what it asked for. *)
LEMMA GoesInv ==
    ASSUME DiscoveryInv, kind \in Kinds,
           NEW got \in SUBSET QueriesOf(kind),
           Goes(got),
           trouble' \in {trouble, trouble \cup {kind}},
           kind \in trouble' \/ (Exists /\ got = answered \cup {Queries[kind][query]})
    PROVE  DiscoveryInv'
<1>0. kind # "none" /\ trouble' \subseteq Lists \cup {"system"}
  BY DEF DiscoveryInv, DiscoveryTypeOK, Kinds, Lists
<1>1. /\ query \in 1..Len(Queries[kind])
      /\ Len(Queries[kind]) \in Nat \ {0}
      /\ QueriesOf(kind) = {Queries[kind][i] : i \in 1..Len(Queries[kind])}
  BY QueryFacts DEF DiscoveryInv, DiscoveryTypeOK, Kinds, Lists, QueriesOf
<1>2. kind \notin trouble' => got = {Queries[kind][i] : i \in 1..query}
  <2>1. kind \notin trouble' =>
          got = {Queries[kind][i] : i \in 1..(query - 1)} \cup {Queries[kind][query]}
    BY DEF DiscoveryInv, AnsweredSoFar, Kinds, Lists
  <2>2. 1..query = 1..(query - 1) \cup {query}
    BY <1>1
  <2>. QED BY <2>1, <2>2
<1>3. CASE query < Len(Queries[kind])
  <2>1. /\ query' = query + 1 /\ answered' = got
        /\ UNCHANGED <<kind, batch, found, devices, system>>
    BY <1>3 DEF Goes
  <2>2. DiscoveryTypeOK'
    <3>1. query' \in 1..(IF kind' = "none" THEN 1 ELSE Len(Queries[kind']))
      BY <1>1, <1>0, <1>3, <2>1
    <3>2. answered' \subseteq (IF kind' = "none" THEN {} ELSE QueriesOf(kind'))
      BY <1>0, <2>1
    <3>. QED BY <1>0, <2>1, <3>1, <3>2 DEF DiscoveryInv, DiscoveryTypeOK
  <2>3. kind' # "none" /\ kind' \notin trouble' => AnsweredSoFar'
    <3>1. query' - 1 = query
      BY <1>1, <2>1
    <3>2. kind \notin trouble' /\ kind \in Lists => batch <= Installed[kind]
      BY DEF Exists
    <3>. QED BY <1>2, <2>1, <3>1, <3>2 DEF DiscoveryInv, AnsweredSoFar
  <2>. QED BY <2>1, <2>2, <2>3 DEF DiscoveryInv, FullList
<1>4. CASE query = Len(Queries[kind])
  <2>1. EndBatch(got)
    BY <1>4 DEF Goes
  <2>2. kind \notin trouble' => got = QueriesOf(kind)
    BY <1>1, <1>2, <1>4
  <2>3. CASE kind = "system"
    <3>. DEFINE sys == IF got = QueriesOf(kind) THEN "read" ELSE "misread"
    <3>1. EndKind(devices, sys)
      BY <2>1, <2>3 DEF EndBatch
    <3>. QED BY <2>3, <3>1, EndKindInv DEF DiscoveryInv, DiscoveryTypeOK, Lists
  <2>4. CASE kind \in Lists
    <3>. DEFINE list == Append(found, got)
    <3>1. /\ batch \in 1..Limit[kind] /\ Limit[kind] \in Nat /\ Installed[kind] \in Nat
          /\ found \in Seq(SUBSET QueriesOf(kind)) /\ Len(found) = batch - 1
          /\ kind \notin trouble' => batch <= Installed[kind]
          /\ kind # "system"
      BY <2>4, DiscoveryConstants DEF DiscoveryInv, DiscoveryTypeOK, Exists, Lists
    <3>2. list \in Seq(SUBSET QueriesOf(kind)) /\ Len(list) = batch
      BY <3>1
    <3>3. kind \notin trouble' => list = [b \in 1..batch |-> QueriesOf(kind)]
      <4>1. SUFFICES ASSUME kind \notin trouble' PROVE list = [b \in 1..batch |-> QueriesOf(kind)]
        OBVIOUS
      <4>2. found = [b \in 1..(batch - 1) |-> QueriesOf(kind)]
        BY <2>4, <4>1 DEF DiscoveryInv, AnsweredSoFar, Kinds, Lists
      <4>3. \A b \in 1..batch : list[b] = QueriesOf(kind)
        BY <2>2, <3>1, <4>1, <4>2
      <4>. HIDE DEF list
      <4>4. list = [b \in 1..batch |-> list[b]]
        BY <3>2, SequencesAreFunctions
      <4>. QED BY <4>3, <4>4
    <3>4. CASE batch < Limit[kind]
      <4>1. /\ batch' = batch + 1 /\ query' = 1 /\ answered' = {} /\ found' = list
            /\ UNCHANGED <<kind, devices, system>>
        BY <2>1, <3>1, <3>4 DEF EndBatch
      <4>2. DiscoveryTypeOK'
        <5>1. query' \in 1..(IF kind' = "none" THEN 1 ELSE Len(Queries[kind']))
          BY <1>0, <1>1, <4>1
        <5>2. answered' \subseteq (IF kind' = "none" THEN {} ELSE QueriesOf(kind'))
          BY <4>1
        <5>3. /\ batch' \in Nat \ {0} /\ batch' \in 1..Limit[kind']
              /\ found' \in Seq(SUBSET QueriesOf(kind')) /\ Len(found') = batch' - 1
          BY <3>1, <3>2, <3>4, <4>1
        <5>. QED BY <1>0, <4>1, <5>1, <5>2, <5>3 DEF DiscoveryInv, DiscoveryTypeOK
      <4>3. kind' # "none" /\ kind' \notin trouble' => AnsweredSoFar'
        <5>1. batch' - 1 = batch
          BY <3>1, <4>1
        <5>2. answered' = {Queries[kind][i] : i \in 1..(query' - 1)}
          BY <4>1
        <5>. QED BY <3>1, <3>3, <4>1, <5>1, <5>2 DEF AnsweredSoFar
      <4>. QED BY <4>1, <4>2, <4>3 DEF DiscoveryInv, FullList
    <3>5. CASE batch = Limit[kind]
      <4>. DEFINE ds == [devices EXCEPT ![kind] = list]
      <4>1. EndKind(ds, system)
        BY <2>1, <3>1, <3>5 DEF EndBatch, EndList
      <4>2. /\ DOMAIN ds = Lists
            /\ \A k \in Lists \ {kind} : ds[k] = devices[k]
            /\ ds[kind] = list
        BY <2>4 DEF DiscoveryInv, DiscoveryTypeOK
      <4>3. kind \notin trouble' => Smaller(Limit[kind], Installed[kind]) = batch
        BY <3>1, <3>5 DEF Smaller
      <4>4. kind \in trouble' \/ ds[kind] = FullList(kind)
        BY <3>3, <4>2, <4>3 DEF FullList
      <4>5. system \in {"none", "read", "misread", "blank"} /\ system # "none"
        BY <2>4 DEF DiscoveryInv, DiscoveryTypeOK
      <4>. HIDE DEF ds
      <4>. QED BY <2>4, <3>1, <3>2, <4>1, <4>2, <4>4, <4>5, EndKindInv
    <3>. QED BY <3>1, <3>4, <3>5
  <2>. QED BY <2>3, <2>4 DEF Kinds
<1>. QED BY <1>1, <1>3, <1>4

LEMMA DiscoveryStepInv ==
    ASSUME DiscoveryInv,
           QueryAnswered \/ QueryRefused \/ NoSuchDevice \/ QueryFails
    PROVE  DiscoveryInv'
<1>1. /\ kind \in Kinds /\ (kind # "system" => kind \in Lists)
      /\ query \in 1..Len(Queries[kind])
      /\ answered \subseteq QueriesOf(kind)
  <2>1. kind # "none"
    BY DEF QueryAnswered, QueryRefused, NoSuchDevice, QueryFails
  <2>. QED BY <2>1 DEF DiscoveryInv, DiscoveryTypeOK, Kinds
<1>2. answered \cup {Queries[kind][query]} \in SUBSET QueriesOf(kind)
  BY <1>1, QueryFacts
<1>3. CASE QueryAnswered
  BY <1>1, <1>2, <1>3, GoesInv DEF QueryAnswered
<1>4. CASE QueryRefused
  BY <1>1, <1>4, GoesInv DEF QueryRefused
<1>5. CASE NoSuchDevice
  <2>. DEFINE ds == [devices EXCEPT ![kind] = found]
  <2>1. kind \in Lists /\ kind # "system"
    BY <1>1, <1>5 DEF NoSuchDevice, Exists, Lists
  <2>2. EndKind(ds, system) /\ trouble' = trouble
    BY <1>5 DEF NoSuchDevice, EndList
  <2>3. /\ DOMAIN ds = Lists
        /\ \A k \in Lists \ {kind} : ds[k] = devices[k]
        /\ ds[kind] = found
    BY <2>1 DEF DiscoveryInv, DiscoveryTypeOK
  <2>4. /\ batch \in 1..Limit[kind] /\ Limit[kind] \in Nat /\ Installed[kind] \in Nat
        /\ found \in Seq(SUBSET QueriesOf(kind)) /\ Len(found) = batch - 1
        /\ batch > Installed[kind]
    BY <1>5, <2>1, DiscoveryConstants DEF DiscoveryInv, DiscoveryTypeOK, NoSuchDevice, Exists
  <2>5. kind \in trouble \/ found = FullList(kind)
    <3>1. SUFFICES ASSUME kind \notin trouble PROVE found = FullList(kind)
      OBVIOUS
    <3>2. /\ batch - 1 <= Installed[kind]
          /\ found = [b \in 1..(batch - 1) |-> QueriesOf(kind)]
      BY <2>1, <3>1 DEF DiscoveryInv, AnsweredSoFar, Lists
    <3>3. Smaller(Limit[kind], Installed[kind]) = batch - 1
      BY <2>4, <3>2 DEF Smaller
    <3>. QED BY <3>2, <3>3 DEF FullList
  <2>6. system \in {"none", "read", "misread", "blank"} /\ system # "none"
    BY <2>1 DEF DiscoveryInv, DiscoveryTypeOK
  <2>7. Len(found) <= Limit[kind]
    BY <2>4
  <2>. HIDE DEF ds
  <2>. QED BY <1>1, <2>1, <2>2, <2>3, <2>4, <2>5, <2>6, <2>7, EndKindInv
<1>6. CASE QueryFails
  <2>1. CASE Queries[kind][query] \in Optional
    <3>1. Goes(answered) /\ trouble' = trouble \cup {kind}
      BY <1>6, <2>1 DEF QueryFails
    <3>. QED BY <1>1, <3>1, GoesInv
  <2>2. CASE Queries[kind][query] \notin Optional
    <3>. DEFINE sys == IF kind = "system" THEN "blank" ELSE system
    <3>1. EndKind(devices, sys) /\ trouble' = trouble \cup {kind}
      BY <1>6, <2>2 DEF QueryFails
    <3>2. sys \in {"none", "read", "misread", "blank"} /\ sys # "none"
      BY <1>1 DEF DiscoveryInv, DiscoveryTypeOK
    <3>3. kind \in Lists => /\ devices[kind] \in Seq(SUBSET QueriesOf(kind))
                             /\ Len(devices[kind]) <= Limit[kind]
      BY DEF DiscoveryInv, DiscoveryTypeOK
    <3>4. DOMAIN devices = Lists
      BY DEF DiscoveryInv, DiscoveryTypeOK
    <3>. HIDE DEF sys
    <3>. QED BY <1>1, <3>1, <3>2, <3>3, <3>4, EndKindInv
  <2>. QED BY <2>1, <2>2
<1>. QED BY <1>3, <1>4, <1>5, <1>6

-----------------------------------------------------------------------------
(* Every step of the session leaves the discovery alone, starts it while there *)
(* are neither zones nor partitions, or takes it one query further.          *)
DiscoveryStep == QueryAnswered \/ QueryRefused \/ NoSuchDevice \/ QueryFails

LEMMA StepsOfDiscovery ==
    ASSUME [Next]_vars
    PROVE  \/ UNCHANGED discoveryVars
           \/ ~HasDiscoveredDevices /\ StartDiscovery
           \/ DiscoveryStep
<1>. USE DEF discoveryVars
<1>1. CASE UNCHANGED vars
  BY <1>1 DEF vars
<1>2. CASE Connecting
  BY <1>2 DEF Connecting, TcpConnects, CommandAcked, CryptPasses, CryptWrongKey, Discover,
              Verify, SetUp, DiscoverDevices, Subscribe, CryptTryFails, DiscoveryStep
<1>3. CASE NoAnswer \/ TcpFails \/ CommandRefused \/ CryptRefused \/ StartReconnecting
  BY <1>3 DEF NoAnswer, CommandUnanswered, CryptUnanswered, CryptTryFails, TcpFails,
              CommandRefused, CryptRefused, StartReconnecting
<1>4. CASE LinkLost \/ ReaderEnds \/ CrcLimit \/ Reboot \/ ClockFails \/ ClockAnswered
  BY <1>4 DEF LinkLost, ReaderEnds, CrcLimit, Reboot, ClockFails, ClockAnswered, progress
<1>. QED BY <1>1, <1>2, <1>3, <1>4 DEF Next

LEMMA StartDiscoveryInv ==
    ASSUME DiscoveryInv, ~HasDiscoveredDevices, StartDiscovery
    PROVE  DiscoveryInv'
<1>. USE DEF StartDiscovery
<1>1. DiscoveryTypeOK'
  <2>1. query' \in 1..(IF kind' = "none" THEN 1 ELSE Len(Queries[kind']))
    BY QueryFacts DEF Kinds
  <2>2. kind' \in Lists => FALSE
    BY DEF Lists
  <2>. QED BY <2>1, <2>2, SMTT(30) DEF DiscoveryInv, DiscoveryTypeOK
<1>2. AnsweredSoFar'
  BY DEF AnsweredSoFar, Lists
<1>3. kind' \notin Lists /\ Finished[kind'] = {}
  BY DEF Lists, Finished
<1>. QED BY <1>1, <1>2, <1>3 DEF DiscoveryInv, HasDiscoveredDevices

LEMMA DiscoveryInvStep ==
    ASSUME DiscoveryInv, [Next]_vars
    PROVE  DiscoveryInv'
<1>1. CASE UNCHANGED discoveryVars
  <2>1. DiscoveryTypeOK' /\ AnsweredSoFar' = AnsweredSoFar
    BY <1>1 DEF DiscoveryInv, DiscoveryTypeOK, AnsweredSoFar, discoveryVars
  <2>. QED BY <1>1, <2>1 DEF DiscoveryInv, FullList, discoveryVars
<1>. QED BY <1>1, StepsOfDiscovery, StartDiscoveryInv, DiscoveryStepInv DEF DiscoveryStep

LEMMA DiscoveryInvInit ==
    ASSUME Init
    PROVE  DiscoveryInv
<1>. USE DEF Init, DiscoveryInit
<1>1. DiscoveryTypeOK
  <2>1. kind \notin Lists
    BY DEF Lists
  <2>2. \A k \in Lists : /\ devices[k] \in Seq(SUBSET QueriesOf(k))
                          /\ Len(devices[k]) <= Limit[k]
    BY DiscoveryConstants
  <2>3. DOMAIN devices = Lists
    OBVIOUS
  <2>. QED BY <2>1, <2>2, <2>3 DEF DiscoveryTypeOK
<1>. QED BY <1>1 DEF DiscoveryInv, Lists

-----------------------------------------------------------------------------
SessionTypeOK ==
    /\ again \in BOOLEAN /\ stage \in Stages
    /\ retries \in 0..MaxRetries
    /\ cfg_key \in Keys /\ key \in Keys
    /\ tries \in 0..CryptTries
    /\ captured \in BOOLEAN
    /\ link \in BOOLEAN /\ connected \in BOOLEAN /\ session \in BOOLEAN
    /\ clocks \in 0..ClockLimit
    /\ told \in [{"new", "old"} -> BOOLEAN]
    /\ rx \in {"none", "new", "old"}
    /\ budget \in [faults : 0..MaxFaults, refusals : 0..MaxRefusals]

LEMMA SpendType ==
    ASSUME SessionTypeOK, NEW what \in {"faults", "refusals"}, Spend(what)
    PROVE  budget' \in [faults : 0..MaxFaults, refusals : 0..MaxRefusals]
  BY SessionConstants DEF SessionTypeOK, Spend

LEMMA NoReplyType ==
    ASSUME SessionTypeOK, NoReply
    PROVE  budget' \in [faults : 0..MaxFaults, refusals : 0..MaxRefusals]
  BY SpendType DEF SessionTypeOK, NoReply

LEMMA FailType ==
    ASSUME SessionTypeOK, NEW e, Fail(e)
    PROVE  stage' \in {"tcp", "exit"} /\ retries' \in 0..MaxRetries
  BY SessionConstants DEF SessionTypeOK, Fail

LEMMA CryptTryFailsType ==
    ASSUME SessionTypeOK, CryptTryFails
    PROVE  /\ stage' \in {"crypt", "discover", "tcp", "exit"}
           /\ retries' \in 0..MaxRetries
           /\ tries' \in 0..CryptTries
  BY SessionConstants, FailType DEF SessionTypeOK, CryptTryFails, GoOn

LEMMA TypeStep ==
    ASSUME SessionTypeOK, [Next]_vars
    PROVE  SessionTypeOK'
<1>. USE SessionConstants
<1>. USE DEF SessionTypeOK, Stages, Handshake
<1>1. CASE UNCHANGED vars
  BY <1>1 DEF vars, linkVars
<1>2. CASE TcpConnects
  <2>1. told' \in [{"new", "old"} -> BOOLEAN]
    BY <1>2, Zenon DEF TcpConnects
  <2>2. cfg_key' \in Keys /\ key' \in Keys /\ rx' \in {"none", "new", "old"}
    BY <1>2 DEF TcpConnects
  <2>3. /\ stage' = "rmt" /\ captured' = FALSE /\ clocks' = 0
        /\ link' = TRUE /\ connected' = TRUE /\ session' = TRUE
        /\ UNCHANGED <<again, retries, tries, budget>>
    BY <1>2 DEF TcpConnects, GoOn
  <2>4. clocks' \in 0..ClockLimit
    BY <2>3
  <2>5. /\ captured' \in BOOLEAN /\ link' \in BOOLEAN /\ connected' \in BOOLEAN
        /\ session' \in BOOLEAN
    BY <2>3, Zenon
  <2>6. stage' \in Stages
    BY <2>3
  <2>. QED BY <2>1, <2>2, <2>3, <2>4, <2>5, <2>6
<1>3. CASE CommandAcked
  BY <1>3 DEF CommandAcked, GoOn, After, common, linkVars
<1>4. CASE CryptPasses
  BY <1>4 DEF CryptPasses, GoOn, common, linkVars
<1>5. CASE CryptWrongKey
  <2>1. UNCHANGED <<common, key, budget>> /\ captured' = TRUE
    BY <1>5 DEF CryptWrongKey, CryptTryFails
  <2>. QED BY <1>5, <2>1, CryptTryFailsType DEF CryptWrongKey, common, linkVars
<1>6. CASE Discover
  BY <1>6, FailType DEF Discover, GoOn, common, linkVars
<1>7. CASE Verify
  BY <1>7, FailType, NoReplyType, SpendType DEF Verify, GoOn, common, linkVars
<1>8. CASE SetUp
  BY <1>8 DEF SetUp, GoOn, common, linkVars
<1>9. CASE DiscoverDevices
  <2>1. budget' \in [faults : 0..MaxFaults, refusals : 0..MaxRefusals]
    BY <1>9, SpendType, NoReplyType DEF DiscoverDevices
  <2>. QED BY <1>9, <2>1 DEF DiscoverDevices, GoOn, common, linkVars
<1>10. CASE Subscribe
  BY <1>10 DEF Subscribe, linkVars
<1>11. CASE CommandUnanswered
  BY <1>11, FailType, NoReplyType DEF CommandUnanswered, common, linkVars
<1>12. CASE CryptUnanswered
  <2>1. UNCHANGED <<common, key, captured>>
    BY <1>12 DEF CryptUnanswered, CryptTryFails
  <2>. QED BY <1>12, <2>1, CryptTryFailsType, NoReplyType DEF CryptUnanswered, common, linkVars
<1>13. CASE TcpFails
  BY <1>13, FailType, SpendType DEF TcpFails, common, linkVars
<1>14. CASE CommandRefused
  BY <1>14, FailType, SpendType DEF CommandRefused, common, linkVars
<1>15. CASE StartReconnecting
  BY <1>15 DEF StartReconnecting, linkVars
<1>16. CASE LinkLost
  BY <1>16, SpendType DEF LinkLost, progress
<1>17. CASE ReaderEnds
  BY <1>17 DEF ReaderEnds, TellDisconnected, progress
<1>18. CASE CrcLimit
  BY <1>18, SpendType DEF CrcLimit, TellDisconnected, progress
<1>19. CASE Reboot
  BY <1>19, SpendType DEF Reboot, TellDisconnected, progress
<1>20. CASE ClockFails
  <2>1. clocks' \in 0..ClockLimit
    BY <1>20 DEF ClockFails
  <2>2. told' \in [{"new", "old"} -> BOOLEAN]
    BY <1>20 DEF ClockFails, TellDisconnected
  <2>. QED BY <1>20, <2>1, <2>2, NoReplyType DEF ClockFails, progress, linkVars
<1>21. CASE ClockAnswered
  BY <1>21 DEF ClockAnswered, progress, linkVars
<1>22. CASE CryptRefused
  <2>1. UNCHANGED <<common, key>> /\ captured' = TRUE
    BY <1>22 DEF CryptRefused, CryptTryFails
  <2>. QED BY <1>22, <2>1, CryptTryFailsType, SpendType DEF CryptRefused, common, linkVars
<1>. QED BY <1>1, <1>2, <1>3, <1>4, <1>5, <1>6, <1>7, <1>8, <1>9, <1>10, <1>11, <1>12, <1>13,
            <1>14, <1>15, <1>16, <1>17, <1>18, <1>19, <1>20, <1>21, <1>22
         DEF Next, Connecting, NoAnswer

-----------------------------------------------------------------------------
(* A usable session has the panel's key, and so has the configuration that is  *)
(* kept for reconnections.                                                  *)
KeyInv ==
    /\ stage \in {"setup", "devices", "subscribe", "ready"} => key = PanelKey
    /\ stage = "ready" \/ again => cfg_key = PanelKey

(* Task 1 receives from the installed panel, and Disconnected was sent on its  *)
(* channel only if it is unusable or its watchdog gave up.                   *)
ChannelInv ==
    /\ stage = "ready" => rx = "new"
    /\ told["new"] => ~Usable \/ clocks = ClockLimit

LEMMA FailKey ==
    ASSUME NEW e, Fail(e)
    PROVE  stage' \in {"tcp", "exit"}
  BY DEF Fail

LEMMA CryptTryFailsKey ==
    ASSUME CryptTryFails
    PROVE  stage' \in {"crypt", "discover", "tcp", "exit"} /\ UNCHANGED <<common, key>>
  BY FailKey DEF CryptTryFails, GoOn

LEMMA KeyStep ==
    ASSUME KeyInv, [Next]_vars
    PROVE  KeyInv'
<1>. USE DEF KeyInv
<1>1. CASE UNCHANGED vars
  BY <1>1 DEF vars
<1>2. CASE TcpConnects \/ CommandAcked \/ CryptPasses
  BY <1>2 DEF TcpConnects, CommandAcked, CryptPasses, GoOn, After, common
<1>3. CASE CryptWrongKey \/ CryptRefused \/ CryptUnanswered
  BY <1>3, CryptTryFailsKey DEF CryptWrongKey, CryptRefused, CryptUnanswered, common
<1>4. CASE Discover \/ Verify
  BY <1>4, FailKey DEF Discover, Verify, GoOn, common
<1>5. CASE SetUp \/ DiscoverDevices
  BY <1>5 DEF SetUp, DiscoverDevices, GoOn, common
<1>6. CASE Subscribe
  BY <1>6 DEF Subscribe
<1>7. CASE CommandUnanswered \/ TcpFails \/ CommandRefused
  BY <1>7, FailKey DEF CommandUnanswered, TcpFails, CommandRefused, common
<1>8. CASE StartReconnecting
  BY <1>8 DEF StartReconnecting
<1>9. CASE LinkLost \/ ReaderEnds \/ CrcLimit \/ Reboot \/ ClockFails \/ ClockAnswered
  BY <1>9 DEF LinkLost, ReaderEnds, CrcLimit, Reboot, ClockFails, ClockAnswered, progress
<1>. QED BY <1>1, <1>2, <1>3, <1>4, <1>5, <1>6, <1>7, <1>8, <1>9
         DEF Next, Connecting, NoAnswer

LEMMA ChannelStep ==
    ASSUME SessionTypeOK, ChannelInv, [Next]_vars
    PROVE  ChannelInv'
<1>. USE DEF ChannelInv, Usable
<1>1. CASE UNCHANGED vars
  BY <1>1 DEF vars, linkVars
<1>2. CASE TcpConnects
  BY <1>2 DEF TcpConnects, GoOn
<1>3. CASE CommandAcked \/ CryptPasses
  BY <1>3 DEF CommandAcked, CryptPasses, GoOn, After, common, linkVars
<1>4. CASE CryptWrongKey \/ CryptRefused \/ CryptUnanswered
  BY <1>4, CryptTryFailsKey DEF CryptWrongKey, CryptRefused, CryptUnanswered, common, linkVars
<1>5. CASE Discover \/ Verify
  BY <1>5, FailKey DEF Discover, Verify, GoOn, common, linkVars
<1>6. CASE SetUp \/ DiscoverDevices
  BY <1>6 DEF SetUp, DiscoverDevices, GoOn, common, linkVars
<1>7. CASE Subscribe
  BY <1>7 DEF Subscribe, linkVars, SessionTypeOK
<1>8. CASE CommandUnanswered \/ TcpFails \/ CommandRefused
  BY <1>8, FailKey DEF CommandUnanswered, TcpFails, CommandRefused, common, linkVars
<1>9. CASE StartReconnecting
  BY <1>9 DEF StartReconnecting, linkVars
<1>10. CASE LinkLost
  BY <1>10 DEF LinkLost, progress
<1>11. CASE ReaderEnds \/ CrcLimit \/ Reboot
  BY <1>11 DEF ReaderEnds, CrcLimit, Reboot, progress
<1>12. CASE ClockFails
  BY <1>12 DEF ClockFails, NoReply, TellDisconnected, progress, linkVars, SessionTypeOK
<1>13. CASE ClockAnswered
  BY <1>13, SessionConstants DEF ClockAnswered, progress, linkVars
<1>. QED BY <1>1, <1>2, <1>3, <1>4, <1>5, <1>6, <1>7, <1>8, <1>9, <1>10, <1>11, <1>12, <1>13
         DEF Next, Connecting, NoAnswer

-----------------------------------------------------------------------------
SessionInv == SessionTypeOK /\ DiscoveryInv /\ KeyInv /\ ChannelInv

(* The inductive invariant behind all of them: comm.rs, panel.rs, main.rs and   *)
(* the handshake of transport/direct.rs together.                            *)
THEOREM SessionInvariant == Spec => []SessionInv
<1>1. Init => SessionInv
  <2>. SUFFICES ASSUME Init PROVE SessionInv
    OBVIOUS
  <2>. USE SessionConstants DEF Init
  <2>1. SessionTypeOK
    <3>1. told \in [{"new", "old"} -> BOOLEAN]
      OBVIOUS
    <3>2. budget \in [faults : 0..MaxFaults, refusals : 0..MaxRefusals]
      OBVIOUS
    <3>3. stage \in Stages
      BY DEF Stages
    <3>4. 0 \in 0..MaxRetries /\ 0 \in 0..CryptTries /\ 0 \in 0..ClockLimit
      OBVIOUS
    <3>. QED BY <3>1, <3>2, <3>3, <3>4, Zenon DEF SessionTypeOK
  <2>2. KeyInv /\ ChannelInv
    BY DEF KeyInv, ChannelInv
  <2>. QED BY <2>1, <2>2, DiscoveryInvInit DEF SessionInv
<1>2. SessionInv /\ [Next]_vars => SessionInv'
  BY TypeStep, DiscoveryInvStep, KeyStep, ChannelStep DEF SessionInv
<1>. QED BY <1>1, <1>2, PTL DEF Spec

(* The stages, counters and lists stay in their bounds: at most                *)
(* max_connect_retries, CryptTries and ClockLimit, and the panel's limits.    *)
THEOREM TypeCorrect == Spec => []TypeOK
<1>1. SessionInv => TypeOK
  BY DEF SessionInv, SessionTypeOK, DiscoveryInv, TypeOK
<1>. QED BY <1>1, SessionInvariant, PTL

(* Panel id discovery may guess any key: no session is used, and no            *)
(* configuration kept, with another than the panel's.                        *)
THEOREM TheKeyIsRight == Spec => []RightKey
<1>1. SessionInv => RightKey
  BY DEF SessionInv, KeyInv, RightKey
<1>. QED BY <1>1, SessionInvariant, PTL

(* What discover_devices ends with, for every number of batches: the kinds     *)
(* without an error are complete.                                            *)
THEOREM AllDevicesFound == Spec => []DevicesFound
<1>1. SessionInv => DevicesFound
  <2>1. kind = "none" => Finished[kind] = Lists
    BY DEF Finished
  <2>. QED BY <2>1, Zenon DEF SessionInv, DiscoveryInv, DevicesFound, FullList
<1>. QED BY <1>1, SessionInvariant, PTL

(* Discovery is started again only when there are neither zones nor            *)
(* partitions, and then takes each list at most once.                        *)
THEOREM ListsAreKept == Spec => ListsKept
<1>1. SessionInv /\ [Next]_vars =>
        [\A k \in {"zones", "parts"} : devices[k] # <<>> => devices'[k] = devices[k]]_vars
  <2>. SUFFICES ASSUME DiscoveryInv, [Next]_vars, NEW k \in {"zones", "parts"},
                       devices[k] # <<>>
                PROVE  devices'[k] = devices[k]
    BY DEF SessionInv
  <2>1. CASE UNCHANGED discoveryVars \/ StartDiscovery
    BY <2>1 DEF discoveryVars, StartDiscovery
  <2>2. CASE DiscoveryStep
    <3>1. kind # "none"
      BY <2>2 DEF DiscoveryStep, QueryAnswered, QueryRefused, NoSuchDevice, QueryFails
    <3>2. kind # k /\ DOMAIN devices = Lists
      BY <3>1 DEF DiscoveryInv, DiscoveryTypeOK
    <3>3. UNCHANGED devices \/ \E l : devices' = [devices EXCEPT ![kind] = l]
      BY <2>2, Zenon DEF DiscoveryStep, QueryAnswered, QueryRefused, NoSuchDevice, QueryFails,
                  Goes, EndBatch, EndList, EndKind
    <3>. QED BY <3>2, <3>3 DEF Lists
  <2>. QED BY <2>1, <2>2, StepsOfDiscovery
<1>. QED BY <1>1, SessionInvariant, PTL DEF Spec, ListsKept

(* Task 1 gives up a connection only when it is unusable or its watchdog is    *)
(* at the limit, whatever events the replaced connection still sends.         *)
THEOREM ReconnectsHaveReasons == Spec => NoSpuriousReconnect
<1>1. SessionInv /\ [Next]_vars =>
        [stage = "ready" /\ stage' = "tcp" => ~Usable \/ clocks = ClockLimit]_vars
  <2>. SUFFICES ASSUME SessionInv, [Next]_vars, stage = "ready", stage' = "tcp"
                PROVE  ~Usable \/ clocks = ClockLimit
    OBVIOUS
  <2>1. StartReconnecting
    BY DEF Next, Connecting, NoAnswer, vars, TcpConnects, CommandAcked, CryptPasses, CryptWrongKey,
           Discover, Verify, SetUp, DiscoverDevices, Subscribe, CommandUnanswered,
           CryptUnanswered, CryptRefused, TcpFails, CommandRefused, LinkLost, ReaderEnds, CrcLimit, Reboot,
           ClockFails, ClockAnswered, progress
  <2>. QED BY <2>1 DEF StartReconnecting, SessionInv, ChannelInv
<1>. QED BY <1>1, SessionInvariant, PTL DEF Spec, NoSpuriousReconnect
=============================================================================
