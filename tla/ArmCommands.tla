----------------------------- MODULE ArmCommands -----------------------------
(***************************************************************************)
(* The MQTT commands that change the panel, as Task 2 of main.rs runs them   *)
(* one at a time: ARM with and without exclusions, DISARM and the zone       *)
(* bypass commands.  Decisions are taken on the cache of panel.rs; the        *)
(* commands go through send_command, which sends a command again when no     *)
(* reply came in time, although the panel may have executed it.              *)
(*                                                                          *)
(* One partition.  It is ready when no open zone is left unbypassed; ready    *)
(* stands for READY and not OPEN.  Somebody at a keypad may act as well.      *)
(***************************************************************************)
EXTENDS Naturals, Sequences, SequencesExt

CONSTANTS
    Zones,        \* the zones the panel object knows
    ZoneIds,      \* what a command may name as a zone
    Commands,     \* what may be received: records, see Arm, Disarm and Bypass
    MaxAttempts,  \* max_attempts of send_command (3)
    RxCapacity,   \* capacity of the event channel (256)
    MaxCommands,  \* bound: commands received
    MaxKeypad,    \* bound: changes made at the panel by somebody else
    MaxPushes,    \* bound: pushes in flight
    MaxPolls,     \* bound: refreshes by Task 3
    MaxDrops      \* bound: replacements of the panel object by a reconnection

Arm(always, tripped) == [op |-> "ARM", always |-> always, tripped |-> tripped]
Disarm == [op |-> "DISARM"]
Bypass(z, want) == [op |-> "ZONE_BYPASS", zone |-> z, want |-> want]

ASSUME ArmConstants ==
    /\ {MaxAttempts, RxCapacity, MaxCommands, MaxKeypad, MaxPushes, MaxPolls,
        MaxDrops} \subseteq Nat
    /\ MaxAttempts > 0 /\ RxCapacity > 0
    /\ Zones \subseteq ZoneIds
    /\ Commands \subseteq
         [op : {"ARM"}, always : Seq(ZoneIds), tripped : Seq(ZoneIds)] \cup [op : {"DISARM"}]
           \cup [op : {"ZONE_BYPASS"}, zone : ZoneIds, want : BOOLEAN]

ASSUME ZonesFinite == IsFiniteSet(Zones)

VARIABLES
    open, bypass, armed,  \* the panel's own state
    zoneC, partC,         \* the cached status of the zones and the partition
    pushes,               \* pushes of the panel, until Task 1 has handled them
    pc, cmd,              \* where Task 2 is, and the command it runs
    todo,                 \* zones still to look at: <<zone, only if tripped>>
    tries,                \* attempts made of the command being sent
    bypassed_zones,
    found,                \* history: the zones bypassed when the command was taken
    subscribed, rx,       \* the receiver of arm_with_exclusions
    closed,               \* the channel rx belongs to is gone
    status,               \* what the last command reported
    doubt,                \* history: why the last command's report may be wrong
    budget

panelVars == <<open, bypass, armed>>
cacheVars == <<zoneC, partC>>
rxVars == <<subscribed, rx, closed>>
cmdVars == <<cmd, todo, bypassed_zones, found>>
vars == <<panelVars, cacheVars, pushes, pc, cmdVars, tries, rxVars, status, doubt,
          budget>>

Flags == [Zones -> BOOLEAN]
PartStatus == [ready : BOOLEAN, armed : BOOLEAN]
ZoneStatus == [open : BOOLEAN, bypass : BOOLEAN]
Statuses == {"none", "ok", "failed", "bypass_failed", "timeout", "arm_failed"}
Doubts == {"unanswered", "stale", "lagged", "keypad"}

ReadyWith(o, b) == \A z \in Zones : o[z] => b[z]
PartNow == [ready |-> ReadyWith(open, bypass), armed |-> armed]
ZoneNow(z) == [open |-> open[z], bypass |-> bypass[z]]

NoCommand == [op |-> "none"]
NoZone == [z \in Zones |-> FALSE]

(* Types, and two limits: the receiver of arm_with_exclusions never holds more *)
(* than RxCapacity events, and no command is sent more than MaxAttempts times. *)
TypeOK ==
    /\ open \in Flags /\ bypass \in Flags /\ armed \in BOOLEAN
    /\ zoneC \in [Zones -> ZoneStatus] /\ partC \in PartStatus
    /\ pushes \in Seq(PartStatus \cup [zone : Zones, st : ZoneStatus])
    /\ pc \in {"idle", "bypass", "toggle", "wait", "lock", "arm", "send_arm", "disarm",
               "send_disarm"}
    /\ cmd \in Commands \cup {NoCommand}
    /\ todo \in Seq(ZoneIds \X BOOLEAN)
    /\ tries \in 0..MaxAttempts
    /\ bypassed_zones \in Seq(Zones) /\ found \in Flags
    /\ rx \in Seq({"ready", "not_ready", "other"}) /\ Len(rx) <= RxCapacity
    /\ subscribed \in BOOLEAN /\ closed \in BOOLEAN
    /\ status \in Statuses
    /\ doubt \subseteq Doubts
    /\ budget \in [commands : 0..MaxCommands, keypad : 0..MaxKeypad,
                   polls : 0..MaxPolls, drops : 0..MaxDrops]

(* Anything may be open or bypassed, and the cache is up to date. *)
Init ==
    /\ open \in Flags /\ bypass \in Flags
    /\ armed = FALSE
    /\ zoneC = [z \in Zones |-> ZoneNow(z)]
    /\ partC = PartNow
    /\ pushes = <<>>
    /\ pc = "idle" /\ cmd = NoCommand
    /\ todo = <<>> /\ bypassed_zones = <<>> /\ tries = 0
    /\ found = NoZone
    /\ subscribed = FALSE /\ rx = <<>> /\ closed = FALSE
    /\ status = "none"
    /\ doubt = {}
    /\ budget = [commands |-> MaxCommands, keypad |-> MaxKeypad,
                 polls |-> MaxPolls, drops |-> MaxDrops]

Spend(what) == budget[what] > 0 /\ budget' = [budget EXCEPT ![what] = @ - 1]

(* Mutant: the mutex is held while waiting for the partition. *)
MutexHeldInWait == pc \in {"idle", "lock"}

(* Task 2 holds the panel mutex while it runs a command, but not while it     *)
(* waits for the partition to be ready.                                     *)
MutexFree == pc \in {"idle", "wait", "lock"}

-----------------------------------------------------------------------------
(* The panel: a change is pushed, and so is a change of the partition. *)

PanelBecomes(o, b, a) ==
    LET zs == SetToSeq({z \in Zones : o[z] # open[z] \/ b[z] # bypass[z]})
        zp == [i \in DOMAIN zs |->
                 [zone |-> zs[i], st |-> [open |-> o[zs[i]], bypass |-> b[zs[i]]]]]
        p  == [ready |-> ReadyWith(o, b), armed |-> a]
    IN /\ open' = o /\ bypass' = b /\ armed' = a
       /\ pushes' = pushes \o zp \o (IF p = PartNow THEN <<>> ELSE <<p>>)

(* Somebody opens or closes a zone, bypasses it, arms or disarms. *)
Keypad ==
    /\ Spend("keypad")
    /\ Len(pushes) < MaxPushes
    /\ \/ \E z \in Zones : \/ PanelBecomes([open EXCEPT ![z] = ~@], bypass, armed)
                           \/ PanelBecomes(open, [bypass EXCEPT ![z] = ~@], armed)
       \/ PanelBecomes(open, bypass, ~armed)
    /\ doubt' = IF pc = "idle" THEN doubt ELSE doubt \cup {"keypad"}
    /\ UNCHANGED <<cacheVars, pc, cmdVars, tries, rxVars, status>>

-----------------------------------------------------------------------------
(* The other tasks, with the panel mutex held *)

task2Vars == <<pc, cmdVars, tries, subscribed, closed, status>>

(* Mutant: the channel grows. *)
AnnounceUnbounded(e, happened) ==
    /\ rx' = IF subscribed /\ ~closed /\ happened THEN Append(rx, e) ELSE rx
    /\ UNCHANGED doubt

(* A change in the cache is an event; of those the waiting ARM receives only  *)
(* the readiness of the partition matters to it.  The raw PanelData events of *)
(* the same channel, which it ignores too, are left out: they only use up     *)
(* capacity, and the channel overflows here without them.                    *)
Announce(e, happened) ==
    IF subscribed /\ ~closed /\ happened
    THEN LET q == Append(rx, e) IN
         /\ rx' = IF Len(q) <= RxCapacity THEN q ELSE Tail(q)
         /\ doubt' = IF Len(q) <= RxCapacity THEN doubt ELSE doubt \cup {"lagged"}
    ELSE UNCHANGED <<rx, doubt>>

PartEvent(p) == IF p.ready THEN "ready" ELSE "not_ready"

HandlePush ==
    /\ MutexFree
    /\ pushes # <<>>
    /\ pushes' = Tail(pushes)
    /\ LET m == Head(pushes) IN
         \/ /\ "zone" \in DOMAIN m
            /\ zoneC' = [zoneC EXCEPT ![m.zone] = m.st]
            /\ Announce("other", m.st # zoneC[m.zone])
            /\ UNCHANGED partC
         \/ /\ "ready" \in DOMAIN m
            /\ partC' = m
            /\ Announce(PartEvent(m), m # partC)
            /\ UNCHANGED zoneC
    /\ UNCHANGED <<panelVars, task2Vars, budget>>

(* refresh_status; pushes in flight are older than its answers. *)
Poll ==
    /\ MutexFree
    /\ Spend("polls")
    /\ zoneC' = [z \in Zones |-> ZoneNow(z)]
    /\ partC' = PartNow
    /\ Announce(PartEvent(PartNow), PartNow # partC)
    /\ UNCHANGED <<panelVars, pushes, task2Vars>>

(* Task 1 installs a new panel object with a copy of the cache. *)
ReplacePanel ==
    /\ MutexFree
    /\ Spend("drops")
    /\ pushes' = <<>>
    /\ closed' = subscribed
    /\ doubt' = doubt \cup {"stale"}
    /\ UNCHANGED <<panelVars, cacheVars, pc, cmdVars, tries, subscribed, rx, status>>

-----------------------------------------------------------------------------
(* Task 2: handle_command and arm_with_exclusions *)

world == <<panelVars, cacheVars, pushes>>

Excluding(c) == c.op = "ARM" /\ (c.always # <<>> \/ c.tripped # <<>>)

Pairs(zs, onlyTripped) == [i \in DOMAIN zs |-> <<zs[i], onlyTripped>>]

(* The command's future ends: its receiver goes with it. *)
Report(s) ==
    /\ pc' = "idle"
    /\ status' = s
    /\ todo' = <<>> /\ found' = NoZone
    /\ tries' = 0
    /\ subscribed' = FALSE /\ rx' = <<>> /\ closed' = FALSE

(* arm_with_exclusions subscribes before anything else.  What may make the    *)
(* decisions of a command wrong: the cache was stale when it took the mutex,   *)
(* or a push still to come makes it so while the command waits.              *)
Take(c) ==
    /\ pc = "idle"
    /\ Spend("commands")
    /\ cmd' = c
    /\ bypassed_zones' = <<>>
    /\ found' = bypass
    /\ status' = "none"
    /\ subscribed' = Excluding(c)
    /\ doubt' = IF partC = PartNow /\ (\A z \in Zones : zoneC[z] = ZoneNow(z)) /\ pushes = <<>>
                THEN {} ELSE {"stale"}
    /\ \/ /\ Excluding(c)
          /\ todo' = Pairs(c.always, FALSE) \o Pairs(c.tripped, TRUE)
          /\ pc' = "bypass"
       \/ c.op = "ARM" /\ ~Excluding(c) /\ pc' = "arm" /\ UNCHANGED todo
       \/ c.op = "DISARM" /\ pc' = "disarm" /\ UNCHANGED todo
       \/ c.op = "ZONE_BYPASS" /\ pc' = "bypass" /\ todo' = <<<<c.zone, FALSE>>>>
    /\ UNCHANGED <<world, tries, rx, closed>>

(* A zone that does not exist is skipped, and so is one already as wanted and  *)
(* an untripped zone of exclude_if_tripped.  The cache does not change while   *)
(* the mutex is held.                                                       *)
Wanted == IF cmd.op = "ZONE_BYPASS" THEN cmd.want ELSE TRUE

(* Mutant: a closed zone is skipped, whichever list it is on. *)
SkipClosed(z, onlyTripped) ==
    z \notin Zones \/ zoneC[z].bypass = Wanted \/ ~zoneC[z].open

Skip(z, onlyTripped) ==
    z \notin Zones \/ zoneC[z].bypass = Wanted \/ (onlyTripped /\ ~zoneC[z].open)

(* toggle_bypass_zone of a zone that does not exist, which only a command for   *)
(* one zone comes to.                                                       *)
NoSuchZone == cmd.op = "ZONE_BYPASS" /\ cmd.zone \notin Zones

InvalidZone ==
    /\ pc = "bypass" /\ todo # <<>>
    /\ NoSuchZone
    /\ Report("failed")
    /\ UNCHANGED <<world, cmd, bypassed_zones, doubt, budget>>

ConsiderZone ==
    /\ pc = "bypass" /\ todo # <<>>
    /\ ~NoSuchZone
    /\ IF Skip(Head(todo)[1], Head(todo)[2])
       THEN todo' = Tail(todo) /\ UNCHANGED <<pc, tries>>
       ELSE pc' = "toggle" /\ tries' = 1 /\ UNCHANGED todo
    /\ UNCHANGED <<world, cmd, bypassed_zones, found, rxVars, status, doubt, budget>>

(* Ready: arm with the mutex still held.  Not ready: release it and wait.     *)
ZonesDone ==
    /\ pc = "bypass" /\ todo = <<>>
    /\ \/ /\ cmd.op = "ZONE_BYPASS"
          /\ Report("ok")
       \/ /\ cmd.op = "ARM"
          /\ pc' = IF partC.ready THEN "arm" ELSE "wait"
          /\ UNCHANGED <<status, todo, found, tries, rxVars>>
    /\ UNCHANGED <<world, cmd, bypassed_zones, doubt, budget>>

(* Mutant: only the latest event is looked at. *)
WaitReceivesLatest ==
    /\ pc = "wait"
    /\ rx # <<>>
    /\ rx' = <<>>
    /\ pc' = IF rx[Len(rx)] = "ready" THEN "lock" ELSE "wait"
    /\ UNCHANGED <<world, cmdVars, tries, subscribed, closed, status, doubt, budget>>

WaitReceives ==
    /\ pc = "wait"
    /\ rx # <<>>
    /\ rx' = Tail(rx)
    /\ pc' = IF Head(rx) = "ready" THEN "lock" ELSE "wait"
    /\ UNCHANGED <<world, cmdVars, tries, subscribed, closed, status, doubt, budget>>

(* The deadline passes, or the channel is closed. *)
WaitEnds ==
    /\ pc = "wait"
    /\ Report("timeout")
    /\ UNCHANGED <<world, cmd, bypassed_zones, doubt, budget>>

(* Task 2 has the mutex again. *)
Relock ==
    /\ pc = "lock"
    /\ pc' = "arm"
    /\ UNCHANGED <<world, cmdVars, tries, rxVars, status, doubt, budget>>

Failure == CASE pc = "toggle" /\ cmd.op = "ARM" -> "bypass_failed"
             [] pc \in {"arm", "send_arm"} /\ Excluding(cmd) -> "arm_failed"
             [] OTHER -> "failed"

(* arm_partition and disarm_partition look at the cached partition first. *)
ArmPartition ==
    /\ pc = "arm"
    /\ \/ ~partC.ready /\ Report(Failure)
       \/ partC.ready /\ partC.armed /\ Report("ok")
       \/ /\ partC.ready /\ ~partC.armed
          /\ pc' = "send_arm" /\ tries' = 1
          /\ UNCHANGED <<todo, found, status, rxVars>>
    /\ UNCHANGED <<world, cmd, bypassed_zones, doubt, budget>>

DisarmPartition ==
    /\ pc = "disarm"
    /\ \/ ~partC.armed /\ Report("ok")
       \/ /\ partC.armed
          /\ pc' = "send_disarm" /\ tries' = 1
          /\ UNCHANGED <<todo, found, status, rxVars>>
    /\ UNCHANGED <<world, cmd, bypassed_zones, doubt, budget>>

-----------------------------------------------------------------------------
(* send_command, as far as the panel and the caller can tell it apart *)

Sending == pc \in {"toggle", "send_arm", "send_disarm"}

(* The panel executes the command being sent; it arms only when ready. *)
PanelAccepts == pc = "send_arm" => PartNow.ready

PanelExecutes ==
    /\ PanelAccepts
    /\ \/ /\ pc = "toggle"
          /\ PanelBecomes(open, [bypass EXCEPT ![Head(todo)[1]] = ~@], armed)
       \/ pc = "send_arm" /\ PanelBecomes(open, bypass, TRUE)
       \/ pc = "send_disarm" /\ PanelBecomes(open, bypass, FALSE)

(* Mutant: the zones of exclude_if_tripped are bypassed but not listed. *)
ListedAlwaysOnly(entry) ==
    IF entry[2] THEN bypassed_zones ELSE Append(bypassed_zones, entry[1])

Listed(entry) == Append(bypassed_zones, entry[1])

(* The reply is ACK. *)
Acked ==
    /\ Sending
    /\ PanelExecutes
    /\ \/ /\ pc = "toggle" /\ cmd.op = "ARM"
          /\ bypassed_zones' = Listed(Head(todo))
          /\ todo' = Tail(todo)
          /\ pc' = "bypass" /\ tries' = 0
          /\ UNCHANGED <<found, status, rxVars>>
       \/ /\ ~(pc = "toggle" /\ cmd.op = "ARM")
          /\ Report("ok")
          /\ UNCHANGED bypassed_zones
    /\ UNCHANGED <<cacheVars, cmd, doubt, budget>>

(* Another reply, or no way to send: the panel has executed nothing. *)
Refused ==
    /\ Sending
    /\ Report(Failure)
    /\ UNCHANGED <<world, cmd, bypassed_zones, doubt, budget>>

(* No reply in time, whether or not the command was executed: it is sent      *)
(* again, the last time reported as failed.                                 *)
Unanswered ==
    /\ Sending
    /\ \/ PanelExecutes
       \/ UNCHANGED <<panelVars, pushes>>
    /\ doubt' = doubt \cup {"unanswered"}
    /\ \/ /\ tries < MaxAttempts
          /\ tries' = tries + 1
          /\ UNCHANGED <<pc, todo, found, status, rxVars>>
       \/ tries = MaxAttempts /\ Report(Failure)
    /\ UNCHANGED <<cacheVars, cmd, bypassed_zones, budget>>

-----------------------------------------------------------------------------
Next ==
    \/ Keypad \/ HandlePush \/ Poll \/ ReplacePanel
    \/ \E c \in Commands : Take(c)
    \/ InvalidZone \/ ConsiderZone \/ ZonesDone \/ WaitReceives \/ WaitEnds \/ Relock
    \/ ArmPartition \/ DisarmPartition \/ Acked \/ Refused \/ Unanswered

Spec == Init /\ [][Next]_vars

(* Tasks 1 and 2 are scheduled.  Nothing makes the deadline pass: what is     *)
(* shown of the wait does not rest on it.                                   *)
FairSpec == Spec /\ WF_vars(HandlePush) /\ WF_vars(WaitReceives)

-----------------------------------------------------------------------------
(* What the sender of a command is entitled to believe of an "ok". *)
Done(c) ==
    CASE c.op = "ARM" -> armed /\ \A z \in ToSet(c.always) \cap Zones : bypass[z]
      [] c.op = "DISARM" -> ~armed
      [] c.op = "ZONE_BYPASS" -> bypass[c.zone] = c.want

(* No zone is named twice in the lists of an ARM. *)
Distinct(c) == c.op = "ARM" => IsInjective(c.always \o c.tripped)

Reports(s) == status = "none" /\ status' = s

(* An "ok" is true of the panel, as long as no zone was named twice, no       *)
(* command went without a reply, the cache was up to date, with no push still  *)
(* to come, and nobody else acted meanwhile.                                *)
OkIsTrue ==
    [][Reports("ok") /\ doubt' \subseteq {"lagged"} /\ Distinct(cmd) => Done(cmd)']_vars

(* The bypassed_zones of an ARM's report, whatever its status, are exactly the  *)
(* zones the ARM has bypassed: after bypass_failed, a timeout or arm_failed    *)
(* they are what is left to undo.  The exceptions are those of OkIsTrue; after  *)
(* a toggle without a reply the bridge cannot tell.                          *)
ReportListsBypassed ==
    [][status = "none" /\ status' # "none" /\ Excluding(cmd) /\ doubt' \subseteq {"lagged"}
         /\ Distinct(cmd) =>
         ToSet(bypassed_zones) = {z \in Zones : bypass'[z] /\ ~found[z]}]_vars

(* main.rs:895, "Subscribe BEFORE mutations to avoid missing partition-ready  *)
(* events": while an ARM waits on a partition that the cache says is ready,   *)
(* the event that says so is still to be received.                          *)
NoMissedReady ==
    pc = "wait" /\ partC.ready /\ ~closed /\ "lagged" \notin doubt => "ready" \in ToSet(rx)

(* A waiting ARM learns that the partition is ready without the deadline:     *)
(* Task 1 can have the mutex, and the push becomes the event it waits for.    *)
ReadyIsSeen ==
    (pc = "wait" /\ PartNow.ready) ~>
        (pc # "wait" \/ ~PartNow.ready \/ closed \/ doubt \cap {"stale", "lagged"} # {})

(* schemas/mqtt/command.schema.json:40, always_exclude: "Zone IDs to bypass    *)
(* unconditionally before arming".  With the cache up to date and nobody else *)
(* acting, an ARM that reports "ok" leaves them bypassed.                    *)
AlwaysExcludedAreBypassed ==
    [][Reports("ok") /\ cmd.op = "ARM" /\ doubt' \subseteq {"unanswered"} /\ Distinct(cmd) =>
         \A z \in ToSet(cmd.always) \cap Zones : bypass'[z]]_vars
=============================================================================
