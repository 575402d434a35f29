-------------------------- MODULE ArmCommandsProofs --------------------------
(***************************************************************************)
(* What the MQTT commands report is true, for any number of zones, commands,  *)
(* attempts and events: the invariants of arm_with_exclusions.               *)
(***************************************************************************)
EXTENDS ArmCommands, FiniteSetTheorems, SequenceTheorems, TLAPS

Push == PartStatus \cup [zone : Zones, st : ZoneStatus]
PushesOfPart(q) == {i \in 1..Len(q) : "ready" \in DOMAIN q[i]}

-----------------------------------------------------------------------------
(* Sequences *)

LEMMA ToSetAppend ==
    ASSUME NEW S, NEW q \in Seq(S), NEW e \in S
    PROVE  ToSet(Append(q, e)) = ToSet(q) \cup {e}
<1>1. /\ Append(q, e) \in Seq(S) /\ Len(Append(q, e)) = Len(q) + 1 /\ Len(q) \in Nat
      /\ \A i \in 1..Len(q) : Append(q, e)[i] = q[i]
      /\ Append(q, e)[Len(q) + 1] = e
  OBVIOUS
<1>2. DOMAIN q = 1..Len(q) /\ DOMAIN Append(q, e) = 1..(Len(q) + 1)
  BY <1>1
<1>. QED BY <1>1, <1>2 DEF ToSet

LEMMA ToSetTail ==
    ASSUME NEW S, NEW q \in Seq(S), q # <<>>
    PROVE  ToSet(q) = {Head(q)} \cup ToSet(Tail(q))
<1>1. /\ Len(q) \in Nat \ {0} /\ Len(Tail(q)) = Len(q) - 1 /\ Head(q) = q[1]
      /\ DOMAIN q = 1..Len(q) /\ DOMAIN Tail(q) = 1..(Len(q) - 1)
      /\ \A i \in 1..(Len(q) - 1) : Tail(q)[i] = q[i + 1]
  OBVIOUS
<1>2. ASSUME NEW i \in 1..Len(q)
      PROVE  q[i] = Head(q) \/ \E j \in 1..(Len(q) - 1) : q[i] = Tail(q)[j]
  <2>1. CASE i = 1
    BY <1>1, <2>1
  <2>2. CASE i # 1
    <3>1. i - 1 \in 1..(Len(q) - 1) /\ q[i] = Tail(q)[i - 1]
      BY <1>1, <2>2
    <3>. QED BY <3>1
  <2>. QED BY <2>1, <2>2
<1>3. \A j \in 1..(Len(q) - 1) : j + 1 \in 1..Len(q) /\ Tail(q)[j] = q[j + 1]
  BY <1>1
<1>4. 1 \in 1..Len(q)
  BY <1>1
<1>5. ToSet(q) = {q[i] : i \in 1..Len(q)} /\ ToSet(Tail(q)) = {Tail(q)[j] : j \in 1..(Len(q) - 1)}
  BY <1>1 DEF ToSet
<1>6. {q[i] : i \in 1..Len(q)} \subseteq {Head(q)} \cup {Tail(q)[j] : j \in 1..(Len(q) - 1)}
  BY <1>2
<1>7. {Tail(q)[j] : j \in 1..(Len(q) - 1)} \subseteq {q[i] : i \in 1..Len(q)}
  BY <1>3
<1>8. Head(q) \in {q[i] : i \in 1..Len(q)}
  BY <1>1, <1>4
<1>. QED BY <1>5, <1>6, <1>7, <1>8, Zenon

LEMMA SetToSeqType ==
    ASSUME NEW S, IsFiniteSet(S)
    PROVE  SetToSeq(S) \in Seq(S)
<1>1. Cardinality(S) \in Nat /\ ExistsBijection(1..Cardinality(S), S)
  BY FS_CardinalityType
<1>2. \E f \in [1..Cardinality(S) -> S] : IsInjective(f)
  BY <1>1 DEF ExistsBijection, Bijection, Injection
<1>3. SetToSeq(S) \in [1..Cardinality(S) -> S]
  BY <1>2 DEF SetToSeq
<1>. QED BY <1>1, <1>3

-----------------------------------------------------------------------------
(* The panel's pushes *)

LEMMA PushKinds ==
    /\ \A m \in PartStatus : "ready" \in DOMAIN m /\ "zone" \notin DOMAIN m
    /\ \A m \in [zone : Zones, st : ZoneStatus] : "zone" \in DOMAIN m /\ "ready" \notin DOMAIN m
  BY DEF PartStatus

LEMMA Pushed ==
    ASSUME TypeOK, NEW o \in Flags, NEW b \in Flags, NEW a \in BOOLEAN, PanelBecomes(o, b, a)
    PROVE  /\ open' = o /\ bypass' = b /\ armed' = a
           /\ pushes' \in Seq(Push)
           /\ (\A i \in PushesOfPart(pushes) : pushes[i].armed = a) =>
                 \A i \in PushesOfPart(pushes') : pushes'[i].armed = a
<1>. DEFINE zs == SetToSeq({z \in Zones : o[z] # open[z] \/ b[z] # bypass[z]})
            zp == [i \in DOMAIN zs |->
                     [zone |-> zs[i], st |-> [open |-> o[zs[i]], bypass |-> b[zs[i]]]]]
            p  == [ready |-> ReadyWith(o, b), armed |-> a]
            last == IF p = PartNow THEN <<>> ELSE <<p>>
<1>1. zs \in Seq(Zones)
  <2>1. {z \in Zones : o[z] # open[z] \/ b[z] # bypass[z]} \subseteq Zones
    OBVIOUS
  <2>2. IsFiniteSet({z \in Zones : o[z] # open[z] \/ b[z] # bypass[z]})
    BY <2>1, ZonesFinite, FS_Subset
  <2>3. zs \in Seq({z \in Zones : o[z] # open[z] \/ b[z] # bypass[z]})
    BY <2>2, SetToSeqType
  <2>. HIDE DEF zs
  <2>. QED BY <2>1, <2>3
<1>2. zp \in Seq([zone : Zones, st : ZoneStatus])
  <2>1. \A i \in DOMAIN zs : [zone |-> zs[i], st |-> [open |-> o[zs[i]], bypass |-> b[zs[i]]]]
                               \in [zone : Zones, st : ZoneStatus]
    BY <1>1 DEF Flags, ZoneStatus
  <2>2. DOMAIN zs = 1..Len(zs) /\ Len(zs) \in Nat
    BY <1>1
  <2>. HIDE DEF zs
  <2>. QED BY <2>1, <2>2
<1>3. p \in PartStatus /\ p.armed = a
  BY DEF PartStatus, ReadyWith
<1>4. last \in Seq(PartStatus) /\ (\A i \in 1..Len(last) : last[i].armed = a)
  BY <1>3
<1>5. open' = o /\ bypass' = b /\ armed' = a /\ pushes' = (pushes \o zp) \o last
  BY DEF PanelBecomes
<1>6. pushes \in Seq(Push)
  BY DEF TypeOK, Push
<1>. HIDE DEF zp, last
<1>7. zp \in Seq(Push) /\ last \in Seq(Push) /\ pushes \o zp \in Seq(Push)
  <2>1. zp \in Seq(Push) /\ last \in Seq(Push)
    BY <1>2, <1>4, SeqMonotonic DEF Push
  <2>. QED BY <1>6, <2>1, ConcatProperties
<1>8. pushes' \in Seq(Push)
  BY <1>5, <1>7
<1>9. ASSUME \A i \in PushesOfPart(pushes) : pushes[i].armed = a,
             NEW i \in PushesOfPart(pushes')
      PROVE  pushes'[i].armed = a
  <2>1. i \in 1..Len(pushes') /\ "ready" \in DOMAIN pushes'[i]
    BY <1>9 DEF PushesOfPart
  <2>2. CASE i \in 1..Len(pushes)
    <3>1. pushes'[i] = pushes[i]
      BY <1>5, <1>6, <1>7, <2>2
    <3>. QED BY <1>9, <2>1, <2>2, <3>1 DEF PushesOfPart
  <2>3. CASE i \in (Len(pushes) + 1)..(Len(pushes) + Len(zp))
    <3>1. /\ pushes'[i] = zp[i - Len(pushes)] /\ i - Len(pushes) \in 1..Len(zp)
      BY <1>5, <1>6, <1>7, <2>3
    <3>2. zp[i - Len(pushes)] \in [zone : Zones, st : ZoneStatus]
      BY <1>2, <3>1, ElementOfSeq
    <3>. QED BY <2>1, <3>1, <3>2, PushKinds
  <2>4. CASE i \in (Len(pushes) + Len(zp) + 1)..(Len(pushes) + Len(zp) + Len(last))
    <3>1. /\ pushes'[i] = last[i - Len(pushes) - Len(zp)]
          /\ i - Len(pushes) - Len(zp) \in 1..Len(last)
      BY <1>5, <1>6, <1>7, <2>4
    <3>. QED BY <1>4, <3>1
  <2>5. Len(pushes') = Len(pushes) + Len(zp) + Len(last)
        /\ Len(pushes) \in Nat /\ Len(zp) \in Nat /\ Len(last) \in Nat
    BY <1>5, <1>6, <1>7
  <2>. QED BY <2>1, <2>2, <2>3, <2>4, <2>5
<1>. QED BY <1>5, <1>8, <1>9

-----------------------------------------------------------------------------
(* Where Task 2 is, and what it has at hand there. *)

Stage ==
    /\ pc # "idle" => cmd \in Commands /\ status = "none"
    /\ pc \in {"bypass", "toggle"} => cmd.op \in {"ARM", "ZONE_BYPASS"}
    /\ pc \in {"wait", "lock", "arm", "send_arm"} => cmd.op = "ARM"
    /\ pc \in {"disarm", "send_disarm"} => cmd.op = "DISARM"
    /\ pc = "toggle" => todo # <<>> /\ Head(todo)[1] \in Zones
    /\ pc \in {"wait", "lock", "arm", "send_arm", "disarm", "send_disarm"} => todo = <<>>
    /\ pc = "idle" => todo = <<>>
    /\ cmd.op = "ARM" /\ pc \in {"bypass", "toggle", "wait"} => subscribed
    /\ cmd.op = "ZONE_BYPASS" => bypassed_zones = <<>>

LEMMA Budgets ==
    ASSUME TypeOK, [Next]_vars
    PROVE  budget' \in [commands : 0..MaxCommands, keypad : 0..MaxKeypad,
                        polls : 0..MaxPolls, drops : 0..MaxDrops]
<1>. DEFINE All == [commands : 0..MaxCommands, keypad : 0..MaxKeypad,
                    polls : 0..MaxPolls, drops : 0..MaxDrops]
<1>1. budget' = budget \/ \E what \in {"commands", "keypad", "polls", "drops"} : Spend(what)
  BY DEF Next, Keypad, HandlePush, Poll, ReplacePanel, Take, InvalidZone, ConsiderZone, ZonesDone,
         WaitReceives, WaitEnds, Relock, ArmPartition, DisarmPartition, Acked, Refused,
         Unanswered, vars
<1>2. budget \in All
  BY DEF TypeOK
<1>3. ASSUME NEW what \in {"commands", "keypad", "polls", "drops"}, Spend(what)
      PROVE  budget' \in All
  BY <1>2, <1>3, ArmConstants, SMTT(30) DEF Spend
<1>. QED BY <1>1, <1>2, <1>3

Flagged == /\ open' \in Flags /\ bypass' \in Flags /\ armed' \in BOOLEAN
           /\ pushes' \in Seq(Push)

LEMMA FlagsKept ==
    ASSUME TypeOK, UNCHANGED world
    PROVE  Flagged
  BY Zenon DEF TypeOK, Flagged, world, panelVars, cacheVars, Push

LEMMA Executed ==
    ASSUME TypeOK, Stage, PanelExecutes
    PROVE  Flagged
<1>1. CASE pc = "toggle"
  <2>. DEFINE z == Head(todo)[1]
              b == [bypass EXCEPT ![z] = ~@]
  <2>1. z \in Zones
    BY <1>1 DEF Stage
  <2>2. b \in Flags /\ open \in Flags /\ armed \in BOOLEAN
    BY <2>1 DEF TypeOK, Flags
  <2>3. PanelBecomes(open, b, armed)
    BY <1>1 DEF PanelExecutes
  <2>. HIDE DEF b
  <2>. QED BY <2>2, <2>3, Pushed DEF Flagged
<1>2. CASE pc # "toggle"
  <2>1. PICK a \in BOOLEAN : PanelBecomes(open, bypass, a)
    BY <1>2 DEF PanelExecutes
  <2>. QED BY <2>1, Pushed DEF Flagged, TypeOK
<1>. QED BY <1>1, <1>2

(* The receiver never holds more than the channel's capacity. *)
Receivers == {"ready", "not_ready", "other"}

LEMMA Announced ==
    ASSUME TypeOK, NEW e \in Receivers, NEW happened, Announce(e, happened)
    PROVE  /\ rx' \in Seq(Receivers) /\ Len(rx') <= RxCapacity
           /\ doubt' \in {doubt, doubt \cup {"lagged"}}
           /\ "lagged" \notin doubt' =>
                 ToSet(rx') = ToSet(rx) \cup (IF subscribed /\ ~closed /\ happened THEN {e} ELSE {})
<1>1. rx \in Seq(Receivers) /\ Len(rx) <= RxCapacity /\ RxCapacity \in Nat \ {0}
  BY ArmConstants DEF TypeOK, Receivers
<1>2. CASE subscribed /\ ~closed /\ happened
  <2>. DEFINE q == Append(rx, e)
  <2>1. q \in Seq(Receivers) /\ q # <<>> /\ Len(q) = Len(rx) + 1
    BY <1>1, AppendProperties
  <2>2. ToSet(q) = ToSet(rx) \cup {e}
    BY <1>1, ToSetAppend
  <2>3. Tail(q) \in Seq(Receivers) /\ Len(Tail(q)) = Len(rx) /\ Len(rx) \in Nat
    BY <1>1, <2>1
  <2>4. /\ rx' = IF Len(q) <= RxCapacity THEN q ELSE Tail(q)
        /\ doubt' = IF Len(q) <= RxCapacity THEN doubt ELSE doubt \cup {"lagged"}
    BY <1>2 DEF Announce
  <2>. HIDE DEF q
  <2>. QED BY <1>1, <1>2, <2>1, <2>2, <2>3, <2>4
<1>3. CASE ~(subscribed /\ ~closed /\ happened)
  <2>1. rx' = rx /\ doubt' = doubt
    BY <1>3 DEF Announce
  <2>. QED BY <1>1, <1>3, <2>1
<1>. QED BY <1>2, <1>3

(* What the end of a command leaves behind. *)
LEMMA Reported ==
    ASSUME NEW s \in Statuses, Report(s)
    PROVE  /\ pc' = "idle" /\ status' = s /\ todo' = <<>> /\ tries' = 0 /\ rx' = <<>>
           /\ found' \in Flags
           /\ subscribed' \in BOOLEAN /\ closed' \in BOOLEAN
           /\ subscribed' = FALSE /\ closed' = FALSE
<1>1. subscribed' = FALSE /\ closed' = FALSE
  BY DEF Report
<1>2. found' \in Flags
  BY DEF Report, NoZone, Flags
<1>. QED BY <1>1, <1>2 DEF Report

-----------------------------------------------------------------------------
(* Type correctness *)

Pcs == {"idle", "bypass", "toggle", "wait", "lock", "arm", "send_arm", "disarm",
        "send_disarm"}

CacheTyped == zoneC' \in [Zones -> ZoneStatus] /\ partC' \in PartStatus

CommandTyped ==
    /\ pc' \in Pcs /\ cmd' \in Commands \cup {NoCommand}
    /\ todo' \in Seq(ZoneIds \X BOOLEAN) /\ tries' \in 0..MaxAttempts
    /\ bypassed_zones' \in Seq(Zones) /\ found' \in Flags
    /\ status' \in Statuses

ReceiverTyped ==
    /\ rx' \in Seq(Receivers) /\ Len(rx') <= RxCapacity
    /\ subscribed' \in BOOLEAN /\ closed' \in BOOLEAN
    /\ doubt' \subseteq Doubts

LEMMA CacheKept ==
    ASSUME TypeOK, UNCHANGED cacheVars PROVE CacheTyped
  BY DEF TypeOK, CacheTyped, cacheVars

LEMMA CommandKept ==
    ASSUME TypeOK, UNCHANGED <<pc, cmdVars, tries, status>> PROVE CommandTyped
  BY DEF TypeOK, CommandTyped, cmdVars, Pcs

LEMMA ReceiverKept ==
    ASSUME TypeOK, UNCHANGED rxVars, doubt' \subseteq Doubts PROVE ReceiverTyped
  BY Zenon DEF TypeOK, ReceiverTyped, rxVars, Receivers

LEMMA ReceiverEnds ==
    ASSUME TypeOK, NEW s \in Statuses, Report(s), doubt' \subseteq Doubts PROVE ReceiverTyped
<1>1. rx' = <<>> /\ subscribed' \in BOOLEAN /\ closed' \in BOOLEAN
  BY Reported
<1>2. <<>> \in Seq(Receivers) /\ Len(<<>>) <= RxCapacity
  BY ArmConstants
<1>. QED BY <1>1, <1>2 DEF ReceiverTyped

LEMMA CommandEnds ==
    ASSUME TypeOK, NEW s \in Statuses, Report(s), UNCHANGED cmd,
           bypassed_zones' \in Seq(Zones)
    PROVE  CommandTyped
<1>1. 0 \in 0..MaxAttempts /\ <<>> \in Seq(ZoneIds \X BOOLEAN)
  BY ArmConstants
<1>. QED BY <1>1, Reported DEF TypeOK, CommandTyped, Pcs

LEMMA TodoTail ==
    ASSUME TypeOK, todo # <<>>
    PROVE  /\ Head(todo) \in ZoneIds \X BOOLEAN /\ Tail(todo) \in Seq(ZoneIds \X BOOLEAN)
           /\ Head(todo)[1] \in ZoneIds
<1>1. Head(todo) \in ZoneIds \X BOOLEAN /\ Tail(todo) \in Seq(ZoneIds \X BOOLEAN)
  BY HeadTailProperties DEF TypeOK
<1>. QED BY <1>1

LEMMA PairsType ==
    ASSUME NEW zs \in Seq(ZoneIds), NEW onlyTripped \in BOOLEAN
    PROVE  /\ Pairs(zs, onlyTripped) \in Seq(ZoneIds \X BOOLEAN)
           /\ Len(Pairs(zs, onlyTripped)) = Len(zs)
           /\ \A i \in 1..Len(zs) : Pairs(zs, onlyTripped)[i] = <<zs[i], onlyTripped>>
<1>1. Len(zs) \in Nat /\ DOMAIN zs = 1..Len(zs)
  BY LenProperties
<1>2. \A i \in 1..Len(zs) : <<zs[i], onlyTripped>> \in ZoneIds \X BOOLEAN
  BY ElementOfSeq
<1>. QED BY <1>1, <1>2 DEF Pairs

LEMMA ListsTyped ==
    ASSUME NEW c \in Commands
    PROVE  /\ c.op \in {"ARM", "DISARM", "ZONE_BYPASS"}
           /\ c.op = "ARM" => c.always \in Seq(ZoneIds) /\ c.tripped \in Seq(ZoneIds)
           /\ c.op = "ZONE_BYPASS" => c.zone \in ZoneIds /\ c.want \in BOOLEAN
<1>1. CASE c \in [op : {"ARM"}, always : Seq(ZoneIds), tripped : Seq(ZoneIds)]
  BY <1>1
<1>2. CASE c \in [op : {"DISARM"}]
  BY <1>2
<1>3. CASE c \in [op : {"ZONE_BYPASS"}, zone : ZoneIds, want : BOOLEAN]
  BY <1>3
<1>. QED BY <1>1, <1>2, <1>3, ArmConstants

LEMMA TakeType ==
    ASSUME TypeOK, NEW c \in Commands, Take(c)
    PROVE  Flagged /\ CacheTyped /\ CommandTyped /\ ReceiverTyped
<1>1. UNCHANGED world /\ UNCHANGED cacheVars /\ UNCHANGED <<tries, rx, closed>>
  BY DEF Take, world
<1>2. Flagged /\ CacheTyped
  BY <1>1, FlagsKept, CacheKept
<1>3. todo' \in Seq(ZoneIds \X BOOLEAN)
  <2>1. CASE Excluding(c)
    <3>1. /\ Pairs(c.always, FALSE) \in Seq(ZoneIds \X BOOLEAN)
          /\ Pairs(c.tripped, TRUE) \in Seq(ZoneIds \X BOOLEAN)
      BY <2>1, ListsTyped, PairsType DEF Excluding
    <3>2. todo' = Pairs(c.always, FALSE) \o Pairs(c.tripped, TRUE)
      BY <2>1 DEF Take, Excluding
    <3>. QED BY <3>1, <3>2, ConcatProperties
  <2>2. CASE c.op = "ZONE_BYPASS"
    <3>1. todo' = <<<<c.zone, FALSE>>>> /\ c.zone \in ZoneIds
      BY <2>2, ListsTyped DEF Take, Excluding
    <3>2. <<c.zone, FALSE>> \in ZoneIds \X BOOLEAN
      BY <3>1
    <3>3. \A e \in ZoneIds \X BOOLEAN : <<e>> \in Seq(ZoneIds \X BOOLEAN)
      OBVIOUS
    <3>. QED BY <3>1, <3>2, <3>3
  <2>3. CASE ~Excluding(c) /\ c.op # "ZONE_BYPASS"
    BY <2>3 DEF Take, TypeOK
  <2>. QED BY <2>1, <2>2, <2>3
<1>4. CommandTyped
  <2>1. /\ cmd' \in Commands /\ status' \in Statuses /\ bypassed_zones' = <<>>
        /\ pc' \in Pcs /\ found' \in Flags
    BY DEF Take, Statuses, Pcs, TypeOK
  <2>2. tries' \in 0..MaxAttempts /\ <<>> \in Seq(Zones)
    BY <1>1 DEF TypeOK
  <2>. QED BY <1>3, <2>1, <2>2 DEF CommandTyped
<1>5. subscribed' \in BOOLEAN /\ doubt' \subseteq Doubts
  BY DEF Take, Doubts, Excluding
<1>. QED BY <1>1, <1>2, <1>4, <1>5 DEF TypeOK, ReceiverTyped, Receivers

LEMMA TasksType ==
    ASSUME TypeOK, Stage, HandlePush \/ Poll \/ ReplacePanel
    PROVE  Flagged /\ CacheTyped /\ CommandTyped /\ ReceiverTyped
<1>1. UNCHANGED panelVars /\ UNCHANGED <<pc, cmdVars, tries, status>> /\ UNCHANGED subscribed
  BY DEF HandlePush, Poll, ReplacePanel, task2Vars
<1>2. pushes \in Seq(Push) /\ pushes' \in Seq(Push)
  <2>1. pushes \in Seq(Push)
    BY DEF TypeOK, Push
  <2>2. pushes # <<>> => Tail(pushes) \in Seq(Push)
    BY <2>1, HeadTailProperties
  <2>3. pushes' = pushes \/ (pushes # <<>> /\ pushes' = Tail(pushes)) \/ pushes' = <<>>
    BY DEF HandlePush, Poll, ReplacePanel
  <2>4. <<>> \in Seq(Push)
    OBVIOUS
  <2>. QED BY <2>1, <2>2, <2>3, <2>4
<1>3. Flagged
  BY <1>1, <1>2, Zenon DEF TypeOK, Flagged, panelVars
<1>4. CommandTyped
  BY <1>1, CommandKept
<1>5. ASSUME HandlePush PROVE CacheTyped /\ ReceiverTyped
  <2>. DEFINE m == Head(pushes)
  <2>1. m \in Push
    BY <1>2, <1>5, HeadTailProperties DEF HandlePush
  <2>. HIDE DEF m
  <2>2. ASSUME "zone" \in DOMAIN m, zoneC' = [zoneC EXCEPT ![m.zone] = m.st],
               Announce("other", m.st # zoneC[m.zone]), UNCHANGED partC
        PROVE  CacheTyped /\ ReceiverTyped
    <3>1. m.zone \in Zones /\ m.st \in ZoneStatus
      BY <2>1, <2>2, PushKinds DEF Push
    <3>2. CacheTyped
      BY <2>2, <3>1 DEF CacheTyped, TypeOK
    <3>. QED BY <1>1, <1>5, <2>2, <3>2, Announced
         DEF ReceiverTyped, TypeOK, Doubts, Receivers, HandlePush, task2Vars
  <2>3. ASSUME "ready" \in DOMAIN m, partC' = m, Announce(PartEvent(m), m # partC),
               UNCHANGED zoneC
        PROVE  CacheTyped /\ ReceiverTyped
    <3>1. m \in PartStatus
      BY <2>1, <2>3, PushKinds DEF Push
    <3>2. CacheTyped
      BY <2>3, <3>1 DEF CacheTyped, TypeOK
    <3>. QED BY <1>1, <1>5, <2>3, <3>2, Announced
         DEF ReceiverTyped, TypeOK, Doubts, Receivers, PartEvent, HandlePush, task2Vars
  <2>. QED BY <1>5, <2>2, <2>3 DEF HandlePush, m
<1>6. ASSUME Poll PROVE CacheTyped /\ ReceiverTyped
  <2>1. CacheTyped
    BY <1>6 DEF Poll, CacheTyped, ZoneNow, ZoneStatus, PartNow, PartStatus, ReadyWith, TypeOK,
                Flags
  <2>. QED BY <1>1, <1>6, <2>1, Announced
       DEF Poll, ReceiverTyped, TypeOK, Doubts, Receivers, PartEvent, task2Vars
<1>7. ASSUME ReplacePanel PROVE CacheTyped /\ ReceiverTyped
  <2>1. closed' \in BOOLEAN
    BY <1>7, Zenon DEF ReplacePanel, TypeOK
  <2>. QED BY <1>7, <2>1, CacheKept DEF ReplacePanel, ReceiverTyped, TypeOK, Doubts, Receivers
<1>. QED BY <1>3, <1>4, <1>5, <1>6, <1>7

LEMMA DecisionsType ==
    ASSUME TypeOK, Stage,
           InvalidZone \/ ConsiderZone \/ ZonesDone \/ WaitReceives \/ WaitEnds
             \/ Relock \/ ArmPartition \/ DisarmPartition \/ Refused
    PROVE  Flagged /\ CacheTyped /\ CommandTyped /\ ReceiverTyped
<1>1. UNCHANGED world /\ UNCHANGED cacheVars /\ UNCHANGED <<cmd, doubt, bypassed_zones>>
  BY DEF InvalidZone, ConsiderZone, ZonesDone, WaitReceives, WaitEnds, Relock, ArmPartition,
         DisarmPartition, Refused, world, cmdVars
<1>2. Flagged /\ CacheTyped
  BY <1>1, FlagsKept, CacheKept
<1>3. 0 \in 0..MaxAttempts /\ 1 \in 0..MaxAttempts
  BY ArmConstants
<1>4. ASSUME NEW s \in Statuses, Report(s) PROVE CommandTyped /\ ReceiverTyped
  BY <1>1, <1>4, CommandEnds, ReceiverEnds DEF TypeOK
<1>5. CASE ConsiderZone
  <2>1. CommandTyped
    BY <1>1, <1>3, <1>5, TodoTail DEF ConsiderZone, CommandTyped, TypeOK, Pcs
  <2>2. ReceiverTyped
    BY <1>5, ReceiverKept DEF ConsiderZone, TypeOK
  <2>. QED BY <1>2, <2>1, <2>2
<1>6. CASE WaitReceives
  <2>1. CommandTyped
    BY <1>6 DEF WaitReceives, CommandTyped, TypeOK, Pcs, cmdVars
  <2>2. rx' \in Seq(Receivers) /\ Len(rx') <= RxCapacity
    <3>1. rx \in Seq(Receivers) /\ Len(rx) <= RxCapacity /\ rx # <<>> /\ rx' = Tail(rx)
      BY <1>6 DEF WaitReceives, TypeOK, Receivers
    <3>2. Tail(rx) \in Seq(Receivers) /\ Len(Tail(rx)) = Len(rx) - 1 /\ Len(rx) \in Nat
      BY <3>1
    <3>. QED BY <3>1, <3>2, ArmConstants
  <2>. QED BY <1>2, <1>6, <2>1, <2>2 DEF WaitReceives, ReceiverTyped, TypeOK
<1>7. CASE Relock
  <2>1. CommandTyped
    BY <1>7 DEF Relock, CommandTyped, TypeOK, Pcs, cmdVars
  <2>. QED BY <1>1, <1>2, <1>7, <2>1, ReceiverKept DEF Relock, TypeOK
<1>8. CASE ZonesDone
  <2>1. CASE Report("ok")
    BY <1>2, <1>4, <2>1 DEF Statuses
  <2>2. CASE ~Report("ok")
    <3>1. CommandTyped /\ UNCHANGED rxVars
      BY <1>1, <1>8, <2>2 DEF ZonesDone, CommandTyped, TypeOK, Pcs
    <3>. QED BY <1>1, <1>2, <3>1, ReceiverKept DEF TypeOK
  <2>. QED BY <2>1, <2>2
<1>9. CASE WaitEnds \/ Refused \/ InvalidZone
  BY <1>2, <1>4, <1>9 DEF WaitEnds, Refused, InvalidZone, Failure, Statuses
<1>10. CASE ArmPartition \/ DisarmPartition
  <2>1. CASE \E s \in Statuses : Report(s)
    BY <1>2, <1>4, <2>1
  <2>2. CASE ~\E s \in Statuses : Report(s)
    <3>1. pc' \in {"send_arm", "send_disarm"} /\ tries' = 1
          /\ UNCHANGED <<todo, found, status, rxVars>>
      BY <1>10, <2>2 DEF ArmPartition, DisarmPartition, Failure, Statuses
    <3>. QED BY <1>1, <1>2, <1>3, <3>1, ReceiverKept DEF CommandTyped, TypeOK, Pcs
  <2>. QED BY <2>1, <2>2
<1>. QED BY <1>5, <1>6, <1>7, <1>8, <1>9, <1>10

LEMMA SendingType ==
    ASSUME TypeOK, Stage, Acked \/ Unanswered
    PROVE  Flagged /\ CacheTyped /\ CommandTyped /\ ReceiverTyped
<1>1. CacheTyped
  BY CacheKept DEF Acked, Unanswered
<1>2. CASE Acked
  <2>1. Flagged
    BY <1>2, Executed DEF Acked
  <2>2. CASE pc = "toggle" /\ cmd.op = "ARM"
    <3>1. Head(todo)[1] \in Zones /\ Tail(todo) \in Seq(ZoneIds \X BOOLEAN)
      BY <2>2, TodoTail DEF Stage
    <3>2. /\ bypassed_zones' = Append(bypassed_zones, Head(todo)[1]) /\ todo' = Tail(todo)
          /\ pc' = "bypass" /\ tries' = 0 /\ UNCHANGED <<status, rxVars, cmd, found, doubt>>
      BY <1>2, <2>2 DEF Acked, Listed
    <3>3. bypassed_zones' \in Seq(Zones)
      <4>1. bypassed_zones \in Seq(Zones)
        BY DEF TypeOK
      <4>. QED BY <3>1, <3>2, <4>1, AppendProperties
    <3>4. CommandTyped
      BY <3>1, <3>2, <3>3, ArmConstants DEF CommandTyped, TypeOK, Pcs
    <3>. QED BY <1>1, <2>1, <3>2, <3>4, ReceiverKept DEF TypeOK
  <2>3. CASE ~(pc = "toggle" /\ cmd.op = "ARM")
    <3>1. Report("ok") /\ UNCHANGED <<cmd, bypassed_zones, doubt>>
      BY <1>2, <2>3 DEF Acked
    <3>. QED BY <1>1, <2>1, <3>1, CommandEnds, ReceiverEnds DEF TypeOK, Statuses
  <2>. QED BY <2>2, <2>3
<1>3. CASE Unanswered
  <2>1. Flagged
    <3>1. CASE PanelExecutes
      BY <3>1, Executed
    <3>2. CASE UNCHANGED <<panelVars, pushes>>
      BY <3>2, Zenon DEF TypeOK, Flagged, panelVars, Push
    <3>. QED BY <1>3, <3>1, <3>2 DEF Unanswered
  <2>2. doubt' \subseteq Doubts
    BY <1>3 DEF Unanswered, TypeOK, Doubts
  <2>3. CASE Report(Failure)
    <3>1. Failure \in Statuses
      BY DEF Failure, Statuses
    <3>2. UNCHANGED <<cmd, bypassed_zones>>
      BY <1>3 DEF Unanswered
    <3>. QED BY <1>1, <2>1, <2>2, <2>3, <3>1, <3>2, CommandEnds, ReceiverEnds DEF TypeOK
  <2>4. CASE ~Report(Failure)
    <3>1. /\ tries < MaxAttempts /\ tries' = tries + 1
          /\ UNCHANGED <<pc, todo, found, status, rxVars, cmd, bypassed_zones>>
      BY <1>3, <2>4 DEF Unanswered
    <3>2. tries' \in 0..MaxAttempts
      BY <3>1, ArmConstants, SMTT(30) DEF TypeOK
    <3>3. CommandTyped
      BY <3>1, <3>2 DEF CommandTyped, TypeOK, Pcs
    <3>4. ReceiverTyped
      BY <2>2, <3>1, ReceiverKept
    <3>. QED BY <1>1, <2>1, <3>3, <3>4
  <2>. QED BY <2>3, <2>4
<1>. QED BY <1>2, <1>3

LEMMA KeypadType ==
    ASSUME TypeOK, Keypad
    PROVE  Flagged /\ CacheTyped /\ CommandTyped /\ ReceiverTyped
<1>1. CacheTyped /\ CommandTyped /\ ReceiverTyped
  BY CacheKept, CommandKept, ReceiverKept DEF Keypad, TypeOK, Doubts
<1>2. PICK o \in Flags, b \in Flags, a \in BOOLEAN : PanelBecomes(o, b, a)
  <2>1. open \in Flags /\ bypass \in Flags /\ armed \in BOOLEAN
    BY DEF TypeOK
  <2>2. ASSUME NEW z \in Zones
        PROVE  [open EXCEPT ![z] = ~@] \in Flags /\ [bypass EXCEPT ![z] = ~@] \in Flags
    BY <2>1 DEF Flags
  <2>3. (~armed) \in BOOLEAN
    BY Zenon
  <2>. QED BY <2>1, <2>2, <2>3 DEF Keypad
<1>3. Flagged
  BY <1>2, Pushed DEF Flagged
<1>. QED BY <1>1, <1>3

LEMMA TypeStep ==
    ASSUME TypeOK, Stage, [Next]_vars
    PROVE  TypeOK'
<1>1. Flagged /\ CacheTyped /\ CommandTyped /\ ReceiverTyped
  <2>1. CASE UNCHANGED vars
    BY <2>1, FlagsKept, CacheKept, CommandKept, ReceiverKept DEF vars, world, TypeOK
  <2>. QED BY <2>1, TakeType, TasksType, DecisionsType, SendingType, KeypadType DEF Next
<1>. QED BY <1>1, Budgets
     DEF TypeOK, Flagged, CacheTyped, CommandTyped, ReceiverTyped, Pcs, Receivers, Push

LEMMA StageStep ==
    ASSUME TypeOK, Stage, [Next]_vars
    PROVE  Stage'
<1>. USE DEF Stage
<1>1. ASSUME Keypad \/ HandlePush \/ Poll \/ ReplacePanel PROVE Stage'
  <2>1. UNCHANGED <<pc, cmd, todo, bypassed_zones, subscribed, status>>
    BY <1>1 DEF Keypad, HandlePush, Poll, ReplacePanel, task2Vars, cmdVars, rxVars
  <2>. QED BY <2>1
<1>2. ASSUME NEW c \in Commands, Take(c) PROVE Stage'
  <2>1. /\ pc = "idle" /\ todo = <<>> /\ cmd' = c /\ status' = "none"
        /\ bypassed_zones' = <<>> /\ subscribed' = Excluding(c)
    BY <1>2 DEF Take
  <2>2. CASE Excluding(c) /\ pc' = "bypass"
    BY <2>1, <2>2 DEF Excluding
  <2>3. CASE c.op = "ARM" /\ ~Excluding(c) /\ pc' = "arm" /\ UNCHANGED todo
    BY <2>1, <2>3
  <2>4. CASE c.op = "DISARM" /\ pc' = "disarm" /\ UNCHANGED todo
    BY <2>1, <2>4
  <2>5. CASE c.op = "ZONE_BYPASS" /\ pc' = "bypass"
    BY <2>1, <2>5
  <2>. QED BY <1>2, <2>2, <2>3, <2>4, <2>5 DEF Take
<1>3. ASSUME NEW s \in Statuses, Report(s), UNCHANGED <<cmd, bypassed_zones>> PROVE Stage'
  BY <1>3, Reported
<1>4. CASE ConsiderZone
  <2>1. CASE pc' = "toggle"
    BY <1>4, <2>1 DEF ConsiderZone, Skip, rxVars
  <2>2. CASE pc' # "toggle"
    BY <1>4, <2>2 DEF ConsiderZone, rxVars
  <2>. QED BY <2>1, <2>2
<1>5. CASE ZonesDone
  <2>1. CASE Report("ok")
    BY <1>3, <1>5, <2>1 DEF ZonesDone, Statuses
  <2>. QED BY <1>5, <2>1 DEF ZonesDone, rxVars
<1>6. CASE WaitReceives \/ Relock
  BY <1>6 DEF WaitReceives, Relock, cmdVars, rxVars
<1>7. CASE WaitEnds \/ Refused \/ InvalidZone
  BY <1>3, <1>7 DEF WaitEnds, Refused, InvalidZone, Failure, Statuses
<1>8. CASE ArmPartition \/ DisarmPartition
  <2>1. CASE \E s \in Statuses : Report(s)
    BY <1>3, <1>8, <2>1 DEF ArmPartition, DisarmPartition
  <2>2. CASE ~\E s \in Statuses : Report(s)
    BY <1>8, <2>2 DEF ArmPartition, DisarmPartition, rxVars, Failure, Statuses
  <2>. QED BY <2>1, <2>2
<1>9. CASE Acked
  <2>1. CASE Report("ok") /\ UNCHANGED bypassed_zones
    BY <1>3, <1>9, <2>1 DEF Acked, Statuses
  <2>. QED BY <1>9, <2>1 DEF Acked, rxVars
<1>10. CASE Unanswered
  <2>1. CASE Report(Failure)
    <3>1. Failure \in Statuses
      BY DEF Failure, Statuses
    <3>. QED BY <1>3, <1>10, <2>1, <3>1 DEF Unanswered
  <2>. QED BY <1>10, <2>1 DEF Unanswered, rxVars
<1>11. CASE UNCHANGED vars
  BY <1>11 DEF vars, cmdVars, rxVars
<1>. QED BY <1>1, <1>2, <1>4, <1>5, <1>6, <1>7, <1>8, <1>9, <1>10, <1>11 DEF Next

(* The event that says the partition is ready is put into the receiver with   *)
(* the change of the cache, or drops out of it for an overrun.               *)
LEMMA ReadyStep ==
    ASSUME TypeOK, Stage, NoMissedReady, [Next]_vars
    PROVE  NoMissedReady'
<1>. USE DEF NoMissedReady
<1>1. CASE HandlePush
  <2>1. pc' = pc /\ closed' = closed /\ pushes # <<>> /\ Head(pushes) \in Push
    BY <1>1, HeadTailProperties DEF HandlePush, task2Vars, TypeOK, Push
  <2>2. CASE "zone" \in DOMAIN Head(pushes) /\ UNCHANGED partC
             /\ \E h : Announce("other", h)
    BY <2>1, <2>2, Announced DEF Receivers
  <2>3. CASE partC' = Head(pushes) /\ Announce(PartEvent(Head(pushes)), Head(pushes) # partC)
    <3>1. PartEvent(Head(pushes)) \in Receivers
      BY DEF PartEvent, Receivers
    <3>2. pc = "wait" => subscribed
      BY DEF Stage
    <3>. QED BY <2>1, <2>3, <3>1, <3>2, Announced DEF PartEvent
  <2>. QED BY <1>1, <2>2, <2>3 DEF HandlePush
<1>2. CASE Poll
  <2>1. /\ pc' = pc /\ closed' = closed /\ partC' = PartNow
        /\ Announce(PartEvent(PartNow), PartNow # partC)
    BY <1>2 DEF Poll, task2Vars
  <2>2. PartEvent(PartNow) \in Receivers /\ (pc = "wait" => subscribed)
    BY DEF PartEvent, Receivers, Stage
  <2>. QED BY <2>1, <2>2, Announced DEF PartEvent
<1>3. CASE ReplacePanel
  BY <1>3 DEF ReplacePanel, Stage
<1>4. CASE WaitReceives
  <2>1. /\ rx \in Seq(Receivers) /\ rx # <<>> /\ rx' = Tail(rx)
        /\ pc' = (IF Head(rx) = "ready" THEN "lock" ELSE "wait")
        /\ pc = "wait" /\ UNCHANGED <<partC, closed, doubt>>
    BY <1>4 DEF WaitReceives, TypeOK, Receivers, world, cacheVars
  <2>2. ToSet(rx) = {Head(rx)} \cup ToSet(Tail(rx))
    BY <2>1, ToSetTail
  <2>. QED BY <2>1, <2>2
<1>5. CASE ZonesDone
  BY <1>5 DEF ZonesDone, Report, world, cacheVars
<1>6. CASE \/ WaitEnds \/ Refused \/ Relock \/ InvalidZone \/ ConsiderZone
           \/ \E c \in Commands : Take(c)
  BY <1>6 DEF WaitEnds, Refused, Relock, InvalidZone, ConsiderZone, Take, Report
<1>7. CASE ArmPartition \/ DisarmPartition \/ Acked \/ Unanswered
  BY <1>7 DEF ArmPartition, DisarmPartition, Acked, Unanswered, Sending, Report
<1>8. CASE Keypad \/ UNCHANGED vars
  BY <1>8 DEF Keypad, vars, cacheVars, rxVars
<1>. QED BY <1>1, <1>2, <1>3, <1>4, <1>5, <1>6, <1>7, <1>8 DEF Next

-----------------------------------------------------------------------------
(* What a command relies on while nothing makes its report doubtful: the       *)
(* cache holds for the zones it has still to look at, those it has dealt with  *)
(* are as it wants them, and the cached partition is as armed as the panel.   *)

Trusted == doubt \subseteq {"lagged"} /\ pc # "idle" /\ Distinct(cmd)

CacheFresh ==
    pc \in {"bypass", "toggle"} =>
        \A i \in 1..Len(todo) :
            todo[i][1] \in Zones => zoneC[todo[i][1]].bypass = bypass[todo[i][1]]

TodoDistinct == \A i, j \in 1..Len(todo) : todo[i][1] = todo[j][1] => i = j

AlwaysHandled ==
    cmd.op = "ARM" => \A z \in ToSet(cmd.always) \cap Zones :
        bypass[z] \/ \E i \in 1..Len(todo) : todo[i] = <<z, FALSE>>

ZoneHandled ==
    cmd.op = "ZONE_BYPASS" =>
        \/ todo = <<<<cmd.zone, FALSE>>>>
        \/ todo = <<>> /\ bypass[cmd.zone] = cmd.want

ToggleNeeded == pc = "toggle" => zoneC[Head(todo)[1]].bypass # Wanted

ListedBypassed ==
    /\ \A z \in Zones : found[z] => bypass[z]
    /\ ToSet(bypassed_zones) = {z \in Zones : bypass[z] /\ ~found[z]}

ArmedKnown ==
    pc \notin {"send_arm", "send_disarm"} =>
        /\ partC.armed = armed
        /\ \A i \in PushesOfPart(pushes) : pushes[i].armed = armed

Sound == /\ CacheFresh /\ TodoDistinct /\ AlwaysHandled /\ ZoneHandled
         /\ ToggleNeeded /\ ListedBypassed /\ ArmedKnown

Truth == Trusted => Sound

LEMMA ToSetEmpty == ToSet(<<>>) = {} /\ Len(<<>>) = 0
  BY DEF ToSet

LEMMA OnlyOne ==
    ASSUME NEW x
    PROVE  Head(<<x>>) = x /\ Tail(<<x>>) = <<>>
<1>1. <<x>> \in Seq({x}) /\ Len(<<x>>) = 1 /\ <<x>>[1] = x
  OBVIOUS
<1>2. Tail(<<x>>) \in Seq({x}) /\ Len(Tail(<<x>>)) = 0
  BY <1>1
<1>. QED BY <1>1, <1>2, EmptySeq

LEMMA TodoFacts ==
    ASSUME TypeOK
    PROVE  /\ Len(todo) \in Nat
           /\ todo # <<>> =>
                /\ Len(Tail(todo)) = Len(todo) - 1 /\ Head(todo) = todo[1] /\ 1 \in 1..Len(todo)
                /\ \A i \in 1..(Len(todo) - 1) : Tail(todo)[i] = todo[i + 1] /\ i + 1 \in 1..Len(todo)
<1>1. todo \in Seq(ZoneIds \X BOOLEAN)
  BY DEF TypeOK
<1>. QED BY <1>1

LEMMA ListsJoined ==
    ASSUME NEW a \in Seq(ZoneIds), NEW t \in Seq(ZoneIds)
    PROVE  LET q == Pairs(a, FALSE) \o Pairs(t, TRUE) IN
           /\ Len(a) \in Nat /\ Len(q) \in Nat /\ DOMAIN (a \o t) = 1..Len(q)
           /\ \A i \in 1..Len(q) : q[i][1] = (a \o t)[i] /\ q[i][1] \in ZoneIds
           /\ \A i \in 1..Len(a) : i \in 1..Len(q) /\ q[i] = <<a[i], FALSE>>
<1>. DEFINE u == Pairs(a, FALSE)
            v == Pairs(t, TRUE)
            q == u \o v
            j == a \o t
            n == Len(a)
            m == Len(t)
<1>1. n \in Nat /\ m \in Nat /\ FALSE \in BOOLEAN /\ TRUE \in BOOLEAN
  BY LenProperties
<1>2. j \in Seq(ZoneIds) /\ Len(j) = n + m
      /\ \A i \in 1..(n + m) : j[i] = IF i <= n THEN a[i] ELSE t[i - n]
  BY ConcatProperties
<1>3. DOMAIN j = 1..(n + m) /\ \A i \in 1..(n + m) : j[i] \in ZoneIds
  <2>. HIDE DEF j
  <2>. QED BY <1>2, LenProperties, ElementOfSeq
<1>4. /\ u \in Seq(ZoneIds \X BOOLEAN) /\ Len(u) = n
      /\ \A i \in 1..n : u[i] = <<a[i], FALSE>>
  BY <1>1, PairsType
<1>5. /\ v \in Seq(ZoneIds \X BOOLEAN) /\ Len(v) = m
      /\ \A i \in 1..m : v[i] = <<t[i], TRUE>>
  BY <1>1, PairsType
<1>. HIDE DEF u, v, j
<1>6. /\ Len(q) = Len(u) + Len(v)
      /\ \A i \in 1..(Len(u) + Len(v)) : q[i] = IF i <= Len(u) THEN u[i] ELSE v[i - Len(u)]
  <2>1. u \in Seq(ZoneIds \X BOOLEAN) /\ v \in Seq(ZoneIds \X BOOLEAN)
    BY <1>4, <1>5
  <2>. QED BY <2>1, ConcatProperties
<1>. HIDE DEF n, m, q
<1>7. ASSUME NEW i \in 1..(n + m)
      PROVE  q[i] = IF i <= n THEN <<a[i], FALSE>> ELSE <<t[i - n], TRUE>>
  <2>1. q[i] = IF i <= n THEN u[i] ELSE v[i - n]
    BY <1>4, <1>5, <1>6
  <2>2. CASE i <= n
    <3>1. i \in 1..n
      BY <1>1, <2>2
    <3>. QED BY <1>4, <2>1, <2>2, <3>1, Zenon
  <2>3. CASE ~(i <= n)
    <3>1. i - n \in 1..m
      BY <1>1, <2>3
    <3>. QED BY <1>5, <2>1, <2>3, <3>1, Zenon
  <2>. QED BY <2>2, <2>3
<1>8. /\ \A i \in 1..(n + m) : q[i][1] = j[i]
      /\ \A i \in 1..n : i \in 1..(n + m) /\ q[i] = <<a[i], FALSE>>
  <2>1. ASSUME NEW i \in 1..(n + m) PROVE q[i][1] = j[i]
    <3>1. CASE i <= n
      <4>1. q[i] = <<a[i], FALSE>> /\ j[i] = a[i]
        BY <1>2, <1>7, <3>1, Zenon
      <4>2. <<a[i], FALSE>>[1] = a[i]
        OBVIOUS
      <4>. QED BY <4>1, <4>2, Zenon
    <3>2. CASE ~(i <= n)
      <4>1. q[i] = <<t[i - n], TRUE>> /\ j[i] = t[i - n]
        BY <1>2, <1>7, <3>2, Zenon
      <4>2. <<t[i - n], TRUE>>[1] = t[i - n]
        OBVIOUS
      <4>. QED BY <4>1, <4>2, Zenon
    <3>. QED BY <3>1, <3>2, Zenon
  <2>2. ASSUME NEW i \in 1..n PROVE i \in 1..(n + m) /\ q[i] = <<a[i], FALSE>>
    <3>1. i \in 1..(n + m) /\ i <= n
      BY <1>1
    <3>. QED BY <1>7, <3>1, Zenon
  <2>. QED BY <2>1, <2>2, Zenon
<1>9. Len(q) = n + m /\ n + m \in Nat
  BY <1>1, <1>4, <1>5, <1>6
<1>10. \A i \in 1..(n + m) : q[i][1] = j[i] /\ q[i][1] \in ZoneIds
  BY <1>3, <1>8
<1>. QED BY <1>1, <1>3, <1>8, <1>9, <1>10 DEF q, u, v, j, n, m

LEMMA TakeTruth ==
    ASSUME TypeOK, Stage, NEW c \in Commands, Take(c)
    PROVE  Truth'
<1>. SUFFICES ASSUME Trusted' PROVE Sound'
  BY DEF Truth
<1>1. /\ pc = "idle" /\ todo = <<>> /\ cmd' = c /\ bypassed_zones' = <<>>
      /\ found' = bypass
      /\ UNCHANGED <<open, bypass, armed, zoneC, partC, pushes>>
  BY DEF Take, Stage, world, panelVars, cacheVars
<1>2. partC = PartNow /\ (\A z \in Zones : zoneC[z] = ZoneNow(z)) /\ pushes = <<>>
  BY DEF Take, Trusted
<1>3. ArmedKnown'
  <2>1. PushesOfPart(pushes') = {} /\ partC'.armed = armed'
    BY <1>1, <1>2, ToSetEmpty DEF PushesOfPart, PartNow
  <2>. QED BY <2>1 DEF ArmedKnown
<1>4. ListedBypassed'
  <2>1. {z \in Zones : bypass'[z] /\ ~found'[z]} = {}
    BY <1>1
  <2>. QED BY <1>1, <2>1, ToSetEmpty DEF ListedBypassed
<1>5. \A z \in Zones : zoneC'[z].bypass = bypass'[z]
  <2>1. \A z \in Zones : ZoneNow(z).bypass = bypass[z]
    BY Zenon DEF ZoneNow
  <2>. QED BY <1>1, <1>2, <2>1, Zenon
<1>6. CASE Excluding(c)
  <2>1. c.always \in Seq(ZoneIds) /\ c.tripped \in Seq(ZoneIds) /\ c.op = "ARM"
    BY <1>6, ListsTyped DEF Excluding
  <2>2. /\ todo' = Pairs(c.always, FALSE) \o Pairs(c.tripped, TRUE) /\ pc' = "bypass"
    BY <1>6 DEF Take, Excluding
  <2>3. /\ Len(c.always) \in Nat /\ Len(todo') \in Nat
        /\ DOMAIN (c.always \o c.tripped) = 1..Len(todo')
        /\ \A i \in 1..Len(todo') :
              todo'[i][1] = (c.always \o c.tripped)[i] /\ todo'[i][1] \in ZoneIds
        /\ \A i \in 1..Len(c.always) : i \in 1..Len(todo') /\ todo'[i] = <<c.always[i], FALSE>>
    BY <2>1, <2>2, ListsJoined, ZenonT(30)
  <2>4. CacheFresh'
    BY <1>5, <2>3, Zenon DEF CacheFresh
  <2>5. TodoDistinct'
    <3>1. IsInjective(c.always \o c.tripped)
      BY <1>1, <2>1 DEF Trusted, Distinct
    <3>. DEFINE f == c.always \o c.tripped
    <3>2. /\ \A i, j \in DOMAIN f : f[i] = f[j] => i = j
          /\ DOMAIN f = 1..Len(todo')
      BY <2>3, <3>1 DEF IsInjective
    <3>3. \A i \in 1..Len(todo') : todo'[i][1] = f[i]
      BY <2>3
    <3>. HIDE DEF f
    <3>. QED BY <3>2, <3>3 DEF TodoDistinct
  <2>6. AlwaysHandled'
    <3>1. ASSUME NEW z \in ToSet(c.always)
          PROVE  \E i \in 1..Len(todo') : todo'[i] = <<z, FALSE>>
      <4>1. PICK i \in 1..Len(c.always) : c.always[i] = z
        BY <2>1, LenProperties DEF ToSet
      <4>. QED BY <2>3, <4>1, Zenon
    <3>. QED BY <1>1, <3>1 DEF AlwaysHandled
  <2>. QED BY <1>1, <1>3, <1>4, <2>1, <2>2, <2>4, <2>5, <2>6 DEF Sound, ZoneHandled, ToggleNeeded
<1>7. CASE c.op = "ZONE_BYPASS"
  <2>1. /\ todo' = <<<<c.zone, FALSE>>>> /\ pc' = "bypass" /\ c.zone \in ZoneIds
    BY <1>7, ListsTyped DEF Take, Excluding
  <2>2. Len(todo') = 1 /\ todo'[1][1] = c.zone /\ 1..1 = {1}
    BY <2>1
  <2>3. CacheFresh'
    BY <1>5, <2>1, <2>2, Zenon DEF CacheFresh
  <2>. QED BY <1>1, <1>3, <1>4, <1>7, <2>1, <2>2, <2>3
       DEF Sound, TodoDistinct, AlwaysHandled, ZoneHandled, ToggleNeeded
<1>8. CASE ~Excluding(c) /\ c.op # "ZONE_BYPASS"
  <2>1. todo' = <<>> /\ pc' \in {"arm", "disarm"}
    BY <1>1, <1>8 DEF Take
  <2>2. 1..Len(todo') = {}
    <3>1. Len(todo') = 0 /\ 1..0 = {}
      BY <2>1, ToSetEmpty
    <3>. QED BY <3>1
  <2>3. ASSUME c.op = "ARM" PROVE ToSet(c.always) = {}
    BY <1>8, <2>3, ToSetEmpty DEF Excluding
  <2>4. CacheFresh' /\ TodoDistinct' /\ ToggleNeeded'
    BY <2>1, <2>2 DEF CacheFresh, TodoDistinct, ToggleNeeded
  <2>5. AlwaysHandled' /\ ZoneHandled'
    BY <1>1, <1>8, <2>3 DEF AlwaysHandled, ZoneHandled
  <2>. QED BY <1>3, <1>4, <2>4, <2>5 DEF Sound
<1>. QED BY <1>6, <1>7, <1>8

(* Only Take can begin to be trusted, and what was trusted was so before. *)
LEMMA TrustedKept ==
    ASSUME TypeOK, Stage, [Next]_vars, ~\E c \in Commands : Take(c), Trusted'
    PROVE  Trusted /\ cmd' = cmd
<1>1. cmd' = cmd
  BY DEF Next, Keypad, HandlePush, Poll, ReplacePanel, InvalidZone, ConsiderZone, ZonesDone, WaitReceives,
         WaitEnds, Relock, ArmPartition, DisarmPartition, Acked, Refused, Unanswered, vars,
         task2Vars, cmdVars
<1>2. pc # "idle"
  BY DEF Next, Keypad, HandlePush, Poll, ReplacePanel, InvalidZone, ConsiderZone, ZonesDone, WaitReceives,
         WaitEnds, Relock, ArmPartition, DisarmPartition, Acked, Refused, Unanswered, Sending,
         vars, task2Vars, Trusted
<1>3. doubt \subseteq doubt'
  <2>1. CASE HandlePush \/ Poll
    BY <2>1 DEF HandlePush, Poll, Announce
  <2>2. CASE ~(HandlePush \/ Poll)
    BY <2>2 DEF Next, Keypad, ReplacePanel, InvalidZone, ConsiderZone, ZonesDone, WaitReceives,
         WaitEnds, Relock, ArmPartition, DisarmPartition, Acked, Refused, Unanswered, vars
  <2>. QED BY <2>1, <2>2
<1>. QED BY <1>1, <1>2, <1>3 DEF Trusted, Distinct

LEMMA TasksTruth ==
    ASSUME TypeOK, Stage, Trusted, Sound, HandlePush \/ Poll, Trusted'
    PROVE  Sound'
<1>1. /\ pc \in {"wait", "lock"}
      /\ UNCHANGED <<pc, cmd, todo, bypassed_zones, found, bypass, armed>>
  BY DEF HandlePush, Poll, MutexFree, Trusted, task2Vars, cmdVars, panelVars
<1>2. /\ CacheFresh' /\ TodoDistinct' /\ AlwaysHandled' /\ ZoneHandled'
      /\ ToggleNeeded' /\ ListedBypassed'
  BY <1>1 DEF Sound, CacheFresh, TodoDistinct, AlwaysHandled, ZoneHandled, ToggleNeeded,
              ListedBypassed
<1>3. partC.armed = armed /\ \A i \in PushesOfPart(pushes) : pushes[i].armed = armed
  BY <1>1 DEF Sound, ArmedKnown
<1>4. CASE HandlePush
  <2>1. /\ pushes \in Seq(Push) /\ pushes # <<>> /\ pushes' = Tail(pushes)
        /\ \/ partC' = partC
           \/ partC' = Head(pushes) /\ "ready" \in DOMAIN Head(pushes)
    BY <1>4 DEF HandlePush, TypeOK, Push
  <2>2. /\ Len(pushes) \in Nat \ {0} /\ Len(pushes') = Len(pushes) - 1
        /\ Head(pushes) = pushes[1] /\ 1 \in 1..Len(pushes)
        /\ \A i \in 1..(Len(pushes) - 1) :
              pushes'[i] = pushes[i + 1] /\ i + 1 \in 1..Len(pushes)
    BY <2>1
  <2>3. \A i \in PushesOfPart(pushes') : pushes'[i].armed = armed
    BY <1>3, <2>2 DEF PushesOfPart
  <2>4. partC'.armed = armed
    BY <1>3, <2>1, <2>2 DEF PushesOfPart
  <2>. QED BY <1>1, <1>2, <2>3, <2>4 DEF Sound, ArmedKnown
<1>5. CASE Poll
  <2>1. pushes' = pushes /\ partC'.armed = armed
    BY <1>5 DEF Poll, PartNow
  <2>. QED BY <1>1, <1>2, <1>3, <2>1 DEF Sound, ArmedKnown
<1>. QED BY <1>4, <1>5

LEMMA ConsiderTruth ==
    ASSUME TypeOK, Stage, Trusted, Sound, ConsiderZone
    PROVE  Sound'
<1>. DEFINE z == Head(todo)[1]
<1>1. /\ pc = "bypass" /\ todo # <<>> /\ cmd \in Commands /\ cmd.op \in {"ARM", "ZONE_BYPASS"}
      /\ UNCHANGED <<bypass, armed, zoneC, partC, pushes, cmd, bypassed_zones, found>>
  BY DEF ConsiderZone, Stage, Trusted, world, panelVars, cacheVars
<1>2. /\ Len(todo) \in Nat /\ Len(Tail(todo)) = Len(todo) - 1
      /\ Head(todo) = todo[1] /\ 1 \in 1..Len(todo)
      /\ \A i \in 1..(Len(todo) - 1) : Tail(todo)[i] = todo[i + 1] /\ i + 1 \in 1..Len(todo)
  BY <1>1, TodoFacts
<1>3. z \in Zones => zoneC[z].bypass = bypass[z]
  BY <1>1, <1>2 DEF Sound, CacheFresh
<1>4. ArmedKnown'
  BY <1>1 DEF ConsiderZone, Sound, ArmedKnown
<1>5. CASE Skip(Head(todo)[1], Head(todo)[2])
  <2>1. todo' = Tail(todo) /\ pc' = "bypass"
    BY <1>1, <1>5 DEF ConsiderZone
  <2>2. CacheFresh' /\ TodoDistinct' /\ ToggleNeeded' /\ ListedBypassed'
    <3>1. CacheFresh'
      BY <1>1, <1>2, <2>1 DEF Sound, CacheFresh
    <3>2. TodoDistinct'
      BY <1>2, <2>1 DEF Sound, TodoDistinct
    <3>3. ToggleNeeded'
      BY <2>1 DEF ToggleNeeded
    <3>4. ListedBypassed'
      BY <1>1, <1>2, <2>1 DEF Sound, ListedBypassed
    <3>. QED BY <3>1, <3>2, <3>3, <3>4
  <2>3. ASSUME Head(todo)[2] = FALSE, z \in Zones PROVE bypass[z] = Wanted
    BY <1>3, <1>5, <2>3 DEF Skip
  <2>4. AlwaysHandled'
    <3>. SUFFICES ASSUME cmd.op = "ARM", NEW y \in ToSet(cmd.always) \cap Zones
                  PROVE  bypass[y] \/ \E i \in 1..Len(Tail(todo)) : Tail(todo)[i] = <<y, FALSE>>
      BY <1>1, <2>1 DEF AlwaysHandled
    <3>1. CASE bypass[y]
      BY <3>1
    <3>2. CASE \E i \in 1..Len(todo) : todo[i] = <<y, FALSE>>
      <4>1. PICK i \in 1..Len(todo) : todo[i] = <<y, FALSE>>
        BY <3>2
      <4>2. CASE i = 1
        <5>1. Head(todo) = <<y, FALSE>>
          BY <1>2, <4>1, <4>2, Zenon
        <5>2. <<y, FALSE>>[1] = y /\ <<y, FALSE>>[2] = FALSE
          OBVIOUS
        <5>3. z = y /\ Head(todo)[2] = FALSE
          BY <5>1, <5>2
        <5>4. Wanted = TRUE
          BY DEF Wanted
        <5>. QED BY <2>3, <5>3, <5>4
      <4>3. CASE i # 1
        <5>1. i - 1 \in 1..(Len(todo) - 1) /\ (i - 1) + 1 = i
          BY <1>2, <4>3
        <5>. QED BY <1>2, <4>1, <5>1
      <4>. QED BY <4>2, <4>3
    <3>. QED BY <3>1, <3>2 DEF Sound, AlwaysHandled
  <2>5. ZoneHandled'
    <3>. SUFFICES ASSUME cmd.op = "ZONE_BYPASS"
                  PROVE  Tail(todo) = <<>> /\ bypass[cmd.zone] = cmd.want
      BY <1>1, <2>1 DEF ZoneHandled
    <3>1. todo = <<<<cmd.zone, FALSE>>>>
      BY <1>1 DEF Sound, ZoneHandled
    <3>2. Head(todo) = <<cmd.zone, FALSE>> /\ Tail(todo) = <<>>
      BY <3>1, OnlyOne, Zenon
    <3>3. <<cmd.zone, FALSE>>[1] = cmd.zone /\ <<cmd.zone, FALSE>>[2] = FALSE
      OBVIOUS
    <3>4. z = cmd.zone /\ Head(todo)[2] = FALSE
      BY <3>2, <3>3
    <3>5. Wanted = cmd.want /\ cmd.zone \in Zones
      BY DEF Wanted, ConsiderZone, NoSuchZone
    <3>. QED BY <2>3, <3>2, <3>4, <3>5, Zenon
  <2>. QED BY <1>4, <2>2, <2>4, <2>5 DEF Sound
<1>6. CASE ~Skip(Head(todo)[1], Head(todo)[2])
  <2>1. pc' = "toggle" /\ todo' = todo
    BY <1>6 DEF ConsiderZone
  <2>2. ToggleNeeded'
    BY <1>1, <1>6, <2>1 DEF ToggleNeeded, Skip, Wanted
  <2>. QED BY <1>1, <1>4, <2>1, <2>2
       DEF Sound, CacheFresh, TodoDistinct, AlwaysHandled, ZoneHandled, ListedBypassed
<1>. QED BY <1>5, <1>6

(* What the panel does when it executes the command being sent. *)
LEMMA Toggled ==
    ASSUME TypeOK, Stage, pc = "toggle", PanelExecutes
    PROVE  LET z == Head(todo)[1] IN
           /\ z \in Zones /\ bypass'[z] = ~bypass[z]
           /\ \A y \in Zones : y # z => bypass'[y] = bypass[y]
           /\ armed' = armed
           /\ (\A i \in PushesOfPart(pushes) : pushes[i].armed = armed) =>
                 \A i \in PushesOfPart(pushes') : pushes'[i].armed = armed'
<1>. DEFINE z == Head(todo)[1]
            b == [bypass EXCEPT ![z] = ~@]
<1>1. z \in Zones
  BY DEF Stage
<1>2. b \in Flags /\ open \in Flags /\ armed \in BOOLEAN
  BY <1>1 DEF TypeOK, Flags
<1>3. b[z] = ~bypass[z] /\ \A y \in Zones : y # z => b[y] = bypass[y]
  BY <1>1, Zenon DEF TypeOK, Flags
<1>4. PanelBecomes(open, b, armed)
  BY DEF PanelExecutes
<1>. HIDE DEF b
<1>5. bypass' = b /\ armed' = armed
  BY <1>2, <1>4, Pushed
<1>6. (\A i \in PushesOfPart(pushes) : pushes[i].armed = armed) =>
         \A i \in PushesOfPart(pushes') : pushes'[i].armed = armed
  BY <1>2, <1>4, Pushed
<1>. QED BY <1>1, <1>3, <1>5, <1>6, Zenon

LEMMA Armed ==
    ASSUME TypeOK, PanelExecutes, pc \in {"send_arm", "send_disarm"}
    PROVE  bypass' = bypass /\ armed' = (pc = "send_arm")
<1>1. open \in Flags /\ bypass \in Flags /\ TRUE \in BOOLEAN /\ FALSE \in BOOLEAN
  BY DEF TypeOK
<1>2. CASE pc = "send_arm"
  BY <1>1, <1>2, Pushed DEF PanelExecutes
<1>3. CASE pc = "send_disarm"
  BY <1>1, <1>3, Pushed DEF PanelExecutes
<1>. QED BY <1>2, <1>3

(* An acknowledged toggle of arm_with_exclusions. *)
LEMMA AckedTruth ==
    ASSUME TypeOK, Stage, Trusted, Sound, Acked, pc = "toggle", cmd.op = "ARM"
    PROVE  Sound'
<1>. DEFINE z == Head(todo)[1]
<1>1. /\ todo # <<>> /\ pc' = "bypass" /\ todo' = Tail(todo) /\ cmd' = cmd
      /\ bypassed_zones' = Append(bypassed_zones, z)
      /\ UNCHANGED <<zoneC, partC, found>> /\ PanelExecutes
  BY DEF Acked, Listed, Stage, cacheVars
<1>2. /\ Len(todo) \in Nat /\ Len(Tail(todo)) = Len(todo) - 1
      /\ Head(todo) = todo[1] /\ 1 \in 1..Len(todo)
      /\ \A i \in 1..(Len(todo) - 1) :
            Tail(todo)[i] = todo[i + 1] /\ i + 1 \in 1..Len(todo) /\ i + 1 # 1
  BY <1>1, TodoFacts
<1>3. /\ z \in Zones /\ bypass'[z] = ~bypass[z] /\ armed' = armed
      /\ \A y \in Zones : y # z => bypass'[y] = bypass[y]
      /\ (\A i \in PushesOfPart(pushes) : pushes[i].armed = armed) =>
            \A i \in PushesOfPart(pushes') : pushes'[i].armed = armed'
  BY <1>1, Toggled
<1>4. bypass \in [Zones -> BOOLEAN] /\ zoneC[z].bypass \in BOOLEAN
  BY <1>3 DEF TypeOK, Flags, ZoneStatus
<1>5. ~bypass[z] /\ bypass'[z]
  <2>1. zoneC[z].bypass = bypass[z]
    BY <1>1, <1>2, <1>3 DEF Sound, CacheFresh
  <2>2. zoneC[z].bypass # TRUE
    BY DEF Sound, ToggleNeeded, Wanted
  <2>3. bypass[z] \in BOOLEAN
    BY <1>3, <1>4
  <2>. QED BY <1>3, <2>1, <2>2, <2>3, Zenon
<1>6. \A i \in 1..(Len(todo) - 1) : Tail(todo)[i][1] # z
  BY <1>2 DEF Sound, TodoDistinct
<1>7. CacheFresh'
  <2>1. \A i \in 1..(Len(todo) - 1) : Tail(todo)[i][1] \in Zones =>
           zoneC[Tail(todo)[i][1]].bypass = bypass[Tail(todo)[i][1]]
    BY <1>2 DEF Sound, CacheFresh
  <2>2. \A i \in 1..(Len(todo) - 1) : Tail(todo)[i][1] \in Zones =>
           zoneC[Tail(todo)[i][1]].bypass = bypass'[Tail(todo)[i][1]]
    BY <1>3, <1>6, <2>1, Zenon
  <2>. QED BY <1>1, <1>2, <2>2 DEF CacheFresh
<1>8. TodoDistinct'
  BY <1>1, <1>2 DEF Sound, TodoDistinct
<1>9. \A y \in Zones : bypass[y] => bypass'[y]
  BY <1>3, <1>5, Zenon
<1>10. AlwaysHandled'
  <2>. SUFFICES ASSUME NEW y \in ToSet(cmd.always) \cap Zones
                PROVE  bypass'[y] \/ \E i \in 1..Len(Tail(todo)) : Tail(todo)[i] = <<y, FALSE>>
    BY <1>1 DEF AlwaysHandled
  <2>1. y \in Zones
    OBVIOUS
  <2>2. CASE bypass[y]
    BY <1>9, <2>1, <2>2, Zenon
  <2>3. CASE \E i \in 1..Len(todo) : todo[i] = <<y, FALSE>>
    <3>1. PICK i \in 1..Len(todo) : todo[i] = <<y, FALSE>>
      BY <2>3
    <3>2. CASE i = 1
      <4>1. Head(todo) = <<y, FALSE>>
        BY <1>2, <3>1, <3>2, Zenon
      <4>2. <<y, FALSE>>[1] = y
        OBVIOUS
      <4>. QED BY <1>5, <4>1, <4>2, Zenon
    <3>3. CASE i # 1
      <4>1. i - 1 \in 1..(Len(todo) - 1) /\ (i - 1) + 1 = i
        BY <1>2, <3>3
      <4>. QED BY <1>2, <3>1, <4>1
    <3>. QED BY <3>2, <3>3
  <2>. QED BY <2>2, <2>3 DEF Sound, AlwaysHandled
<1>11. ZoneHandled' /\ ToggleNeeded'
  BY <1>1 DEF ZoneHandled, ToggleNeeded
<1>12. ListedBypassed'
  <2>1. bypassed_zones \in Seq(Zones)
    BY DEF TypeOK
  <2>2. ToSet(bypassed_zones') = ToSet(bypassed_zones) \cup {z}
    BY <1>1, <1>3, <2>1, ToSetAppend
  <2>3. /\ \A y \in Zones : found[y] => bypass[y]
        /\ ToSet(bypassed_zones) = {y \in Zones : bypass[y] /\ ~found[y]}
    BY DEF Sound, ListedBypassed
  <2>4. ~found[z]
    BY <1>3, <1>5, <2>3
  <2>5. {y \in Zones : bypass'[y] /\ ~found[y]} = {y \in Zones : bypass[y] /\ ~found[y]} \cup {z}
    BY <1>3, <1>5, <2>4, Zenon
  <2>6. \A y \in Zones : found[y] => bypass'[y]
    BY <1>9, <2>3
  <2>. QED BY <1>1, <2>2, <2>3, <2>5, <2>6 DEF ListedBypassed
<1>13. ArmedKnown'
  BY <1>1, <1>3 DEF Sound, ArmedKnown
<1>. QED BY <1>7, <1>8, <1>10, <1>11, <1>12, <1>13 DEF Sound

LEMMA TruthStep ==
    ASSUME TypeOK, Stage, Truth, [Next]_vars
    PROVE  Truth'
<1>1. CASE \E c \in Commands : Take(c)
  BY <1>1, TakeTruth
<1>2. ASSUME ~\E c \in Commands : Take(c), Trusted' PROVE Sound'
  <2>1. Trusted /\ Sound /\ cmd' = cmd
    BY <1>2, TrustedKept DEF Truth
  <2>2. CASE Keypad \/ ReplacePanel
    BY <1>2, <2>1, <2>2 DEF Keypad, ReplacePanel, Trusted
  <2>3. CASE HandlePush \/ Poll
    BY <1>2, <2>1, <2>3, TasksTruth
  <2>4. CASE ConsiderZone
    BY <2>1, <2>4, ConsiderTruth
  <2>5. CASE ZonesDone \/ WaitReceives \/ Relock \/ ArmPartition \/ DisarmPartition
    <3>1. CASE \E s \in Statuses : Report(s)
      BY <1>2, <3>1 DEF Report, Trusted
    <3>2. CASE ~\E s \in Statuses : Report(s)
      <4>1. /\ pc \in {"bypass", "wait", "lock", "arm", "disarm"}
            /\ pc' \in {"arm", "wait", "lock", "send_arm", "send_disarm"}
            /\ UNCHANGED <<bypass, armed, zoneC, partC, pushes, cmd, todo, bypassed_zones, found>>
        BY <2>5, <3>2 DEF ZonesDone, WaitReceives, Relock, ArmPartition, DisarmPartition,
             world, panelVars, cacheVars, cmdVars, Failure, Statuses
      <4>. QED BY <2>1, <4>1 DEF Sound, CacheFresh, TodoDistinct, AlwaysHandled, ZoneHandled,
             ToggleNeeded, ListedBypassed, ArmedKnown
    <3>. QED BY <3>1, <3>2
  <2>6. CASE WaitEnds \/ Refused \/ InvalidZone
    BY <1>2, <2>6 DEF WaitEnds, Refused, InvalidZone, Report, Trusted
  <2>7. CASE Acked
    <3>1. pc = "toggle" /\ cmd.op = "ARM"
      BY <1>2, <2>7 DEF Acked, Report, Trusted
    <3>. QED BY <2>1, <2>7, <3>1, AckedTruth
  <2>8. CASE Unanswered
    BY <1>2, <2>8 DEF Unanswered, Report, Trusted
  <2>9. CASE UNCHANGED vars
    BY <2>1, <2>9 DEF vars, panelVars, cacheVars, cmdVars, Sound, CacheFresh, TodoDistinct,
         AlwaysHandled, ZoneHandled, ToggleNeeded, Wanted, ListedBypassed, ArmedKnown
  <2>. QED BY <1>2, <2>2, <2>3, <2>4, <2>5, <2>6, <2>7, <2>8, <2>9 DEF Next
<1>. QED BY <1>1, <1>2 DEF Truth

-----------------------------------------------------------------------------
(* The inductive invariant: the types, where a command is, the event a waiting *)
(* ARM still has to receive, and what a command relies on.                   *)

ArmInv == TypeOK /\ Stage /\ NoMissedReady /\ Truth

LEMMA ArmInit == Init => ArmInv
<1>. SUFFICES ASSUME Init PROVE ArmInv
  OBVIOUS
<1>1. zoneC \in [Zones -> ZoneStatus] /\ partC \in PartStatus
  <2>1. \A z \in Zones : ZoneNow(z) \in ZoneStatus
    BY DEF Init, ZoneNow, ZoneStatus, Flags
  <2>2. ReadyWith(open, bypass) \in BOOLEAN /\ armed \in BOOLEAN
    BY DEF Init, ReadyWith
  <2>3. PartNow \in PartStatus
    BY <2>2 DEF PartNow, PartStatus
  <2>. QED BY <2>1, <2>3 DEF Init
<1>2. tries \in 0..MaxAttempts /\ Len(rx) <= RxCapacity
  BY ArmConstants DEF Init
<1>3. budget \in [commands : 0..MaxCommands, keypad : 0..MaxKeypad,
                  polls : 0..MaxPolls, drops : 0..MaxDrops]
  BY ArmConstants DEF Init
<1>4. subscribed \in BOOLEAN /\ closed \in BOOLEAN /\ armed \in BOOLEAN
  BY DEF Init
<1>5. /\ found \in Flags
      /\ pushes \in Seq(Push) /\ todo \in Seq(ZoneIds \X BOOLEAN)
      /\ bypassed_zones \in Seq(Zones) /\ rx \in Seq(Receivers)
  BY EmptySeq DEF Init, NoZone, Flags
<1>6. TypeOK
  BY <1>1, <1>2, <1>3, <1>4, <1>5 DEF Init, TypeOK, Push, Receivers, Statuses
<1>7. NoCommand.op = "none"
  BY DEF NoCommand
<1>8. Stage /\ NoMissedReady /\ Truth
  BY <1>7 DEF Init, Stage, NoMissedReady, Truth, Trusted
<1>. QED BY <1>6, <1>8 DEF ArmInv

THEOREM ArmInvariant == Spec => []ArmInv
<1>1. ArmInv /\ [Next]_vars => ArmInv'
  BY TypeStep, StageStep, ReadyStep, TruthStep DEF ArmInv
<1>. QED BY <1>1, ArmInit, PTL DEF Spec

(* Every variable keeps its type: the receiver of arm_with_exclusions never    *)
(* holds more than the channel's capacity, and no command of send_command is   *)
(* attempted more than max_attempts times.                                  *)
THEOREM TypeCorrect == Spec => []TypeOK
<1>1. ArmInv => TypeOK
  BY DEF ArmInv
<1>. QED BY <1>1, ArmInvariant, PTL

(* Subscribing before the bypasses misses no event: while an ARM waits and the *)
(* cached partition is ready, the event that says so is still to be received. *)
THEOREM NoReadyMissed == Spec => []NoMissedReady
<1>1. ArmInv => NoMissedReady
  BY DEF ArmInv
<1>. QED BY <1>1, ArmInvariant, PTL

(* A report that is not in doubt comes of a step that runs a command and casts  *)
(* no doubt on it.                                                          *)
LEMMA Reporting ==
    ASSUME TypeOK, Stage, [Next]_vars, status = "none", status' # "none",
           doubt' \subseteq {"lagged"}
    PROVE  /\ pc # "idle" /\ doubt' = doubt /\ cmd' = cmd /\ cmd \in Commands
           /\ InvalidZone \/ ZonesDone \/ WaitEnds \/ ArmPartition \/ DisarmPartition \/ Acked
              \/ Refused
<1>1. ~Unanswered
  BY DEF Unanswered
<1>2. InvalidZone \/ ZonesDone \/ WaitEnds \/ ArmPartition \/ DisarmPartition \/ Acked
      \/ Refused
  BY <1>1 DEF Next, Keypad, HandlePush, Poll, ReplacePanel, Take, ConsiderZone, WaitReceives,
         Relock, vars, task2Vars
<1>3. pc # "idle" /\ doubt' = doubt /\ cmd' = cmd
  BY <1>2 DEF InvalidZone, ZonesDone, WaitEnds, ArmPartition, DisarmPartition, Acked, Refused,
              Sending
<1>. QED BY <1>2, <1>3 DEF Stage

LEMMA OkStep ==
    ASSUME ArmInv, [Next]_vars, Reports("ok"), doubt' \subseteq {"lagged"}, Distinct(cmd)
    PROVE  Done(cmd)'
<1>1. TypeOK /\ Stage /\ Truth /\ status = "none" /\ status' = "ok"
  BY DEF ArmInv, Reports
<1>2. /\ cmd \in Commands /\ cmd' = cmd /\ Trusted
      /\ InvalidZone \/ ZonesDone \/ WaitEnds \/ ArmPartition \/ DisarmPartition \/ Acked
         \/ Refused
  BY <1>1, Reporting DEF Trusted
<1>3. Sound
  BY <1>1, <1>2 DEF Truth
<1>4. /\ cmd.op \in {"ARM", "DISARM", "ZONE_BYPASS"}
      /\ cmd.op = "ZONE_BYPASS" => cmd.zone \in ZoneIds
  BY <1>2, ListsTyped
<1>5. ASSUME cmd.op = "ARM", todo = <<>> PROVE \A z \in ToSet(cmd.always) \cap Zones : bypass[z]
  <2>1. 1..Len(todo) = {}
    <3>1. Len(todo) = 0 /\ 1..0 = {}
      BY <1>5, ToSetEmpty
    <3>. QED BY <3>1
  <2>. QED BY <1>3, <1>5, <2>1 DEF Sound, AlwaysHandled
<1>6. CASE ZonesDone
  <2>1. cmd.op = "ZONE_BYPASS" /\ todo = <<>> /\ bypass' = bypass
    BY <1>1, <1>6 DEF ZonesDone, world, panelVars
  <2>2. bypass[cmd.zone] = cmd.want
    BY <1>3, <2>1 DEF Sound, ZoneHandled
  <2>. QED BY <1>2, <2>1, <2>2 DEF Done
<1>7. CASE ArmPartition
  <2>1. /\ pc = "arm" /\ cmd.op = "ARM" /\ todo = <<>> /\ partC.armed
        /\ bypass' = bypass /\ armed' = armed
    BY <1>1, <1>7 DEF ArmPartition, Stage, Report, Failure, world, panelVars
  <2>2. armed'
    BY <1>3, <2>1 DEF Sound, ArmedKnown
  <2>. QED BY <1>2, <1>5, <2>1, <2>2 DEF Done
<1>8. CASE DisarmPartition
  <2>1. pc = "disarm" /\ cmd.op = "DISARM" /\ ~partC.armed /\ armed' = armed
    BY <1>1, <1>8 DEF DisarmPartition, Stage, world, panelVars
  <2>2. ~armed'
    BY <1>3, <2>1 DEF Sound, ArmedKnown
  <2>. QED BY <1>2, <2>1, <2>2 DEF Done
<1>9. CASE Acked
  <2>1. Sending /\ PanelExecutes /\ ~(pc = "toggle" /\ cmd.op = "ARM")
    BY <1>1, <1>9 DEF Acked
  <2>2. CASE pc = "toggle"
    <3>1. cmd.op = "ZONE_BYPASS" /\ todo = <<<<cmd.zone, FALSE>>>>
      BY <1>1, <1>3, <2>1, <2>2 DEF Stage, Sound, ZoneHandled
    <3>2. Head(todo) = <<cmd.zone, FALSE>>
      BY <3>1, OnlyOne, Zenon
    <3>3. <<cmd.zone, FALSE>>[1] = cmd.zone
      OBVIOUS
    <3>4. Head(todo)[1] = cmd.zone
      BY <3>2, <3>3, Zenon
    <3>5. cmd.zone \in Zones /\ zoneC[cmd.zone].bypass = bypass[cmd.zone]
      <4>1. todo # <<>>
        BY <1>1, <2>2 DEF Stage
      <4>2. todo[1] = Head(todo) /\ 1 \in 1..Len(todo)
        BY <1>1, <4>1, TodoFacts
      <4>3. cmd.zone \in Zones
        BY <1>1, <2>2, <3>4 DEF Stage
      <4>. QED BY <1>3, <2>2, <3>4, <4>2, <4>3 DEF Sound, CacheFresh
    <3>6. zoneC[cmd.zone].bypass # cmd.want
      BY <1>3, <2>2, <3>1, <3>4 DEF Sound, ToggleNeeded, Wanted
    <3>7. bypass'[cmd.zone] = ~bypass[cmd.zone]
      BY <1>1, <2>1, <2>2, <3>4, Toggled
    <3>8. bypass[cmd.zone] \in BOOLEAN /\ cmd.want \in BOOLEAN
      BY <1>1, <1>2, <3>1, <3>5, ListsTyped DEF TypeOK, Flags
    <3>9. bypass'[cmd.zone] = cmd.want
      BY <3>5, <3>6, <3>7, <3>8
    <3>. QED BY <1>2, <3>1, <3>9 DEF Done
  <2>3. CASE pc \in {"send_arm", "send_disarm"}
    <3>1. bypass' = bypass /\ armed' = (pc = "send_arm")
      BY <1>1, <2>1, <2>3, Armed
    <3>. QED BY <1>1, <1>2, <1>5, <2>3, <3>1 DEF Done, Stage
  <2>. QED BY <2>1, <2>2, <2>3 DEF Sending
<1>10. CASE WaitEnds \/ Refused \/ InvalidZone
  BY <1>1, <1>10 DEF WaitEnds, Refused, InvalidZone, Report, Failure
<1>. QED BY <1>2, <1>6, <1>7, <1>8, <1>9, <1>10

(* An "ok" is true: the partition is armed with its always_exclude zones        *)
(* bypassed, or disarmed, or the zone is bypassed as asked, when no zone is    *)
(* named twice, no command went without a reply, the cache was up to date and  *)
(* nobody else acted meanwhile.                                             *)
THEOREM OkReportsAreTrue == Spec => OkIsTrue
<1>1. ArmInv /\ [Next]_vars =>
        [Reports("ok") /\ doubt' \subseteq {"lagged"} /\ Distinct(cmd) => Done(cmd)']_vars
  BY OkStep
<1>. QED BY <1>1, ArmInvariant, PTL DEF Spec, OkIsTrue

LEMMA ListedStep ==
    ASSUME ArmInv, [Next]_vars, status = "none", status' # "none", Excluding(cmd),
           doubt' \subseteq {"lagged"}, Distinct(cmd)
    PROVE  ToSet(bypassed_zones) = {z \in Zones : bypass'[z] /\ ~found[z]}
<1>1. TypeOK /\ Stage /\ Truth
  BY DEF ArmInv
<1>2. /\ Trusted
      /\ InvalidZone \/ ZonesDone \/ WaitEnds \/ ArmPartition \/ DisarmPartition \/ Acked
         \/ Refused
  BY <1>1, Reporting DEF Trusted
<1>3. ToSet(bypassed_zones) = {z \in Zones : bypass[z] /\ ~found[z]}
  BY <1>1, <1>2 DEF Truth, Sound, ListedBypassed
<1>4. bypass' = bypass
  <2>1. CASE Acked
    <3>1. PanelExecutes /\ pc \in {"send_arm", "send_disarm"}
      BY <2>1 DEF Acked, Sending, Excluding
    <3>. QED BY <1>1, <3>1, Armed
  <2>2. CASE ~Acked
    BY <1>2, <2>2 DEF InvalidZone, ZonesDone, WaitEnds, ArmPartition, DisarmPartition, Refused,
       world, panelVars
  <2>. QED BY <2>1, <2>2
<1>. QED BY <1>3, <1>4

(* The zones an ARM reports as bypassed are exactly those it has bypassed,     *)
(* whatever it reports: after bypass_failed, a timeout or arm_failed they are   *)
(* what is left to undo.                                                    *)
THEOREM ReportsListTheBypassed == Spec => ReportListsBypassed
<1>1. ArmInv /\ [Next]_vars =>
        [status = "none" /\ status' # "none" /\ Excluding(cmd) /\ doubt' \subseteq {"lagged"}
           /\ Distinct(cmd) =>
           ToSet(bypassed_zones) = {z \in Zones : bypass'[z] /\ ~found[z]}]_vars
  BY ListedStep
<1>. QED BY <1>1, ArmInvariant, PTL DEF Spec, ReportListsBypassed
=============================================================================
