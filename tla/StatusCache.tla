----------------------------- MODULE StatusCache -----------------------------
(***************************************************************************)
(* How the status of the devices travels from the panel to MQTT.  Pushes     *)
(* go through the broadcast channel of event.rs to Task 1 of main.rs, which  *)
(* stores them in the cache of panel.rs and announces the change; Task 3     *)
(* polls all statuses (refresh_status) and publishes a snapshot.  Both need  *)
(* the panel mutex.  On Disconnected, Task 1 copies the cached devices,      *)
(* opens a new connection and installs the copy in a new panel.              *)
(*                                                                          *)
(* The devices are the zones and partitions found by discovery, which took   *)
(* their silent first status.  A status is the set of the flags that are     *)
(* set, of those the snapshot shows.  An event says which flags changed; MQTT *)
(* is told of each, except that a zone's TROUBLE has no message when it ends. *)
(* view is what a subscriber that follows snapshots and events has been told. *)
(***************************************************************************)
EXTENDS Naturals, Sequences, SequencesExt

CONSTANTS
    Devices,
    Batches,       \* the queries of a refresh: a sequence of sets of devices
    Statuses,      \* sets of flags
    SetTold,       \* for each device, the flags whose setting is published
    UnsetTold,     \* and those whose clearing is
    FirstOf,       \* the device a one-line reply to each query is taken for
    ErrorStatus,   \* the flags found in the text of an error reply
    BusCapacity,   \* capacity of the event channel (256)
    MaxWire,       \* bound: frames in flight from the panel
    MaxChanges,    \* bound: status changes of the panel
    MaxFaults      \* bound: lost connections, reboots, failed and refused queries

Flags == UNION Statuses

ASSUME CacheConstants ==
    /\ Batches \in Seq(SUBSET Devices) /\ Batches # <<>>
    /\ UNION {Batches[i] : i \in DOMAIN Batches} = Devices
    /\ \A i \in DOMAIN Batches : FirstOf[i] \in Batches[i]
    /\ ErrorStatus \in Statuses
    /\ {SetTold, UnsetTold} \subseteq [Devices -> SUBSET Flags]
    /\ {BusCapacity, MaxWire, MaxChanges, MaxFaults} \subseteq Nat

ASSUME DevicesFinite == IsFiniteSet(Devices)

VARIABLES
    panel,     \* the status of each device
    wire,      \* frames from the panel to the reader task, oldest first
    up,        \* the connection in use is alive
    bus,       \* events Task 1 has not received
    cache,     \* the devices of the installed panel object
    view,      \* what MQTT has been told
    t1,        \* where Task 1 is
    event,     \* the event Task 1 has received, if t1 is "handle"
    saved,     \* the devices Task 1 copied for the reconnection
    t3,        \* where Task 3 is
    batch,     \* the query it is at
    reply,     \* the reply it was sent
    watching,  \* the watchdog has not given up
    truths,    \* history: statuses since Task 3 took the mutex
    refused,   \* history: the current refresh has parsed an error reply
    ok,        \* the refresh returned Ok
    missed,    \* history: an event was overwritten since the last snapshot
    budget     \* what is left of the bounds

vars == <<panel, wire, up, bus, cache, view, t1, event, saved, t3, batch, reply,
          watching, truths, refused, ok, missed, budget>>

Push(d, s)    == [type |-> "PanelData", dev |-> d, status |-> s]
Changed(d, s, fs) == [type |-> "StatusChanged", dev |-> d, status |-> s, changed |-> fs]
Disconnected  == [type |-> "Disconnected"]
BootRes       == [type |-> "BOOTRES"]
Answer(v)     == [type |-> "answer", vals |-> v]
NoReply       == [type |-> "none"]
NoEvent       == [type |-> "none"]

StatusOf == [Devices -> Statuses]
Events == {Push(d, s) : d \in Devices, s \in Statuses}
            \cup {Changed(d, s, fs) : d \in Devices, s \in Statuses, fs \in SUBSET Flags}
            \cup {Disconnected}

(* A status list assigns a status to some of the devices. *)
StatusLists == UNION {[D -> Statuses] : D \in SUBSET Devices}
Frames == {Push(d, s) : d \in Devices, s \in Statuses} \cup {BootRes}
            \cup {Answer(v) : v \in StatusLists}

(* Types, and the limit of the event channel: tokio's broadcast channel never *)
(* holds more than BusCapacity events for its receiver (event.rs).           *)
TypeOK ==
    /\ panel \in StatusOf /\ cache \in StatusOf /\ saved \in StatusOf
    /\ view \in [Devices -> SUBSET Flags]
    /\ wire \in Seq(Frames) /\ Len(wire) <= MaxWire
    /\ bus \in Seq(Events) /\ Len(bus) <= BusCapacity
    /\ t1 \in {"recv", "handle", "connect", "install", "snapshot"}
    /\ event \in Events \cup {NoEvent}
    /\ t3 \in {"tick", "query", "wait", "apply", "publish"}
    /\ batch \in 1..Len(Batches)
    /\ reply \in {Answer(v) : v \in StatusLists} \cup {NoReply}
    /\ truths \in [Devices -> SUBSET Statuses]
    /\ {up, watching, refused, ok, missed} \subseteq BOOLEAN
    /\ budget \in [changes : 0..MaxChanges, faults : 0..MaxFaults]

(* Mutant: nobody waits for the mutex. *)
MutexNeverHeld == TRUE

(* The panel mutex: Task 3 holds it from its tick to its snapshot.  What      *)
(* Task 1 does with it held is one step.                                    *)
MutexFree == t3 = "tick"

(* Value of saved while Task 1 has no copy. *)
NoCopy == CHOOSE f \in StatusOf : TRUE

NoTruths == [d \in Devices |-> {}]

(* A zone and a partition have different flags, each with a message of its own *)
(* for its setting, its clearing or both.                                    *)
Own(d) == {s \in Statuses : s \subseteq SetTold[d] \cup UnsetTold[d]}

(* After discovery and the initial snapshot.  A push between the discovery   *)
(* of a device and the subscription of Task 1 had no receiver.               *)
Init ==
    /\ panel \in StatusOf /\ cache \in StatusOf
    /\ \A d \in Devices : {panel[d], cache[d]} \subseteq Own(d)
    /\ view = cache
    /\ saved = NoCopy
    /\ wire = <<>>
    /\ up = TRUE
    /\ bus = <<>>
    /\ t1 = "recv"
    /\ event = NoEvent
    /\ t3 = "tick"
    /\ batch = 1
    /\ reply = NoReply
    /\ watching = TRUE
    /\ truths = NoTruths
    /\ refused = FALSE
    /\ ok = FALSE
    /\ missed = FALSE
    /\ budget = [changes |-> MaxChanges, faults |-> MaxFaults]

Spend(what) == budget[what] > 0 /\ budget' = [budget EXCEPT ![what] = @ - 1]

-----------------------------------------------------------------------------
(* The panel *)

t1Vars == <<t1, event, saved>>
t3Vars == <<t3, batch, reply, refused, ok>>
busVars == <<bus, missed>>

Send(f) == Len(wire) < MaxWire /\ wire' = Append(wire, f)

PanelChanges(d, s) ==
    /\ s \in Own(d) \ {panel[d]}
    /\ Spend("changes")
    /\ panel' = [panel EXCEPT ![d] = s]
    /\ truths' = IF MutexFree THEN truths ELSE [truths EXCEPT ![d] = @ \cup {s}]
    /\ IF up THEN Send(Push(d, s)) ELSE UNCHANGED wire
    /\ UNCHANGED <<up, busVars, cache, view, t1Vars, t3Vars, watching>>

(* The answer is sent on the connection of the panel object Task 3 locked. *)
Answering == up /\ t3 = "wait" /\ t1 # "install" /\ reply = NoReply
             /\ \A i \in 1..Len(wire) : wire[i].type # "answer"

PanelAnswers ==
    /\ Answering
    /\ Send(Answer([d \in Batches[batch] |-> panel[d]]))
    /\ UNCHANGED <<panel, up, busVars, cache, view, t1Vars, t3Vars, watching,
                   truths, budget>>

PanelRefuses ==
    /\ Answering
    /\ Spend("faults")
    /\ Send(Answer([d \in {FirstOf[batch]} |-> ErrorStatus]))
    /\ refused' = TRUE
    /\ UNCHANGED <<panel, up, busVars, cache, view, t1Vars, t3, batch, reply, ok,
                   watching, truths>>

PanelReboots ==
    /\ up
    /\ Spend("faults")
    /\ Send(BootRes)
    /\ UNCHANGED <<panel, up, busVars, cache, view, t1Vars, t3Vars, watching,
                   truths>>

-----------------------------------------------------------------------------
(* Mutant: the channel grows. *)
OverwriteNothing(q) == q

(* The broadcast channel: the oldest event is overwritten when it is full. *)
Overwrite(q) ==
    IF Len(q) <= BusCapacity THEN q ELSE SubSeq(q, Len(q) - BusCapacity + 1, Len(q))

Emit(es) ==
    /\ bus' = Overwrite(bus \o es)
    /\ missed' = (missed \/ Len(bus) + Len(es) > BusCapacity)

-----------------------------------------------------------------------------
(* The reader task (process_message, emit_panel_data) and the watchdog *)

readerVars == <<panel, cache, view, t1Vars, truths>>

ReadFrame ==
    /\ wire # <<>>
    /\ wire' = Tail(wire)
    /\ LET f == Head(wire) IN
         CASE f.type = "PanelData" -> Emit(<<f>>) /\ UNCHANGED reply
           [] f.type = "BOOTRES" -> Emit(<<Disconnected>>) /\ UNCHANGED reply
           [] f.type = "answer" -> reply' = f /\ UNCHANGED busVars
    /\ UNCHANGED <<readerVars, up, t3, batch, refused, ok, watching, budget>>

ConnectionLost ==
    /\ up
    /\ Spend("faults")
    /\ up' = FALSE
    /\ Emit(<<Disconnected>>)
    /\ wire' = <<>>
    /\ UNCHANGED <<readerVars, t3Vars, watching>>

(* Six CLOCKs have failed; the watchdog of this connection says so once. *)
WatchdogGivesUp ==
    /\ ~up
    /\ watching
    /\ watching' = FALSE
    /\ Emit(<<Disconnected>>)
    /\ UNCHANGED <<readerVars, wire, up, t3Vars, budget>>

-----------------------------------------------------------------------------
(* Task 3: refresh_status and the snapshot, under the mutex *)

Differ(a, b) == (a \ b) \cup (b \ a)

(* update_status of each device in a list of new statuses, with an event for  *)
(* each that changed.  Before the new panel is installed the events go to the *)
(* channel of the old one, which nobody receives from any more.             *)
ChangesIn(v) ==
    LET ds == SetToSeq({d \in DOMAIN v : cache[d] # v[d]})
    IN [i \in DOMAIN ds |-> Changed(ds[i], v[ds[i]], Differ(cache[ds[i]], v[ds[i]]))]

UpdateStatus(v) ==
    /\ cache' = [d \in Devices |-> IF d \in DOMAIN v THEN v[d] ELSE cache[d]]
    /\ IF t1 = "install" THEN UNCHANGED busVars ELSE Emit(ChangesIn(v))

Tick ==
    /\ t3 = "tick"
    /\ t3' = "query"
    /\ truths' = [d \in Devices |-> {panel[d]}]
    /\ UNCHANGED <<panel, wire, up, busVars, cache, view, t1Vars, batch, reply,
                   refused, ok, watching, budget>>

SendQuery ==
    /\ t3 = "query"
    /\ t3' = "wait"
    /\ reply' = NoReply
    /\ UNCHANGED <<panel, wire, up, busVars, cache, view, t1Vars, batch, refused,
                   ok, watching, truths, budget>>

(* All attempts of the query timed out, or the connection is gone: the        *)
(* refresh ends there, and the snapshot is published all the same.           *)
QueryFails ==
    /\ t3 = "wait"
    /\ reply = NoReply
    /\ \/ up /\ t1 # "install" /\ Spend("faults")
       \/ (~up \/ t1 = "install") /\ UNCHANGED budget
    /\ t3' = "publish"
    /\ ok' = FALSE
    /\ LET answers == {i \in 1..Len(wire) : wire[i].type = "answer"} IN
         wire' = IF answers = {} THEN wire ELSE RemoveAt(wire, CHOOSE i \in answers : TRUE)
    /\ UNCHANGED <<panel, up, busVars, cache, view, t1Vars, batch, reply, refused,
                   watching, truths>>

(* Mutant: the last query is never sent. *)
ApplyReplyStopsEarly ==
    /\ t3 = "wait"
    /\ reply # NoReply
    /\ UpdateStatus(reply.vals)
    /\ reply' = NoReply
    /\ IF batch + 1 < Len(Batches)
       THEN t3' = "query" /\ batch' = batch + 1 /\ UNCHANGED ok
       ELSE t3' = "publish" /\ ok' = FALSE /\ UNCHANGED batch
    /\ UNCHANGED <<panel, wire, up, view, t1Vars, refused, watching, truths, budget>>

ApplyReply ==
    /\ t3 = "wait"
    /\ reply # NoReply
    /\ UpdateStatus(reply.vals)
    /\ reply' = NoReply
    /\ IF batch < Len(Batches)
       THEN t3' = "query" /\ batch' = batch + 1 /\ UNCHANGED ok
       ELSE t3' = "publish" /\ ok' = TRUE /\ UNCHANGED batch
    /\ UNCHANGED <<panel, wire, up, view, t1Vars, refused, watching, truths, budget>>

(* A snapshot makes up for overwritten events, but not when an older event is *)
(* about to be announced after it.                                          *)
PublishSnapshot ==
    /\ view' = cache
    /\ missed' = (missed /\ event # NoEvent)

PublishPolled ==
    /\ t3 = "publish"
    /\ t3' = "tick"
    /\ PublishSnapshot
    /\ truths' = NoTruths
    /\ batch' = 1 /\ refused' = FALSE /\ ok' = FALSE
    /\ UNCHANGED <<panel, wire, up, bus, cache, t1Vars, reply, watching,
                   budget>>

-----------------------------------------------------------------------------
(* Task 1: the event listener *)

t1Idle == <<panel, up, t3Vars, truths, budget>>

Receive ==
    /\ t1 = "recv"
    /\ bus # <<>>
    /\ event' = Head(bus)
    /\ bus' = Tail(bus)
    /\ t1' = "handle"
    /\ UNCHANGED <<t1Idle, wire, cache, view, saved, watching, missed>>

HandlePanelData ==
    /\ t1 = "handle" /\ event.type = "PanelData"
    /\ MutexFree
    /\ UpdateStatus([d \in {event.dev} |-> event.status])
    /\ t1' = "recv"
    /\ event' = NoEvent
    /\ UNCHANGED <<t1Idle, wire, view, saved, watching>>

(* Mutant: a flag that becomes unset has no message. *)
ToldSetOnly(seen, e) == seen \cup (e.changed \cap e.status \cap SetTold[e.dev])

(* A subscriber that has seen these flags of a device, after the messages for  *)
(* an event: one for each flag that became set and one for each that became   *)
(* unset, if there is such a message.                                        *)
Told(seen, e) ==
    (seen \cup (e.changed \cap e.status \cap SetTold[e.dev]))
      \ ((e.changed \ e.status) \cap UnsetTold[e.dev])

HandleStatusChanged ==
    /\ t1 = "handle" /\ event.type = "StatusChanged"
    /\ MutexFree
    /\ view' = [view EXCEPT ![event.dev] = Told(@, event)]
    /\ t1' = "recv"
    /\ event' = NoEvent
    /\ UNCHANGED <<t1Idle, wire, bus, cache, saved, watching, missed>>

(* The devices are copied under the mutex, which is then released. *)
CopyDevices ==
    /\ t1 = "handle" /\ event.type = "Disconnected"
    /\ MutexFree
    /\ saved' = cache
    /\ t1' = "connect"
    /\ event' = NoEvent
    /\ UNCHANGED <<t1Idle, wire, busVars, cache, view, watching>>

(* RiscoPanel::reconnect succeeds and Task 1 subscribes to the new channel.  *)
(* The panel gives its one connection to the new socket.                    *)
Reconnect ==
    /\ t1 = "connect"
    /\ t1' = "install"
    /\ up' = TRUE
    /\ wire' = <<>>
    /\ bus' = <<>>
    /\ watching' = TRUE
    /\ UNCHANGED <<panel, cache, view, event, saved, t3Vars, truths, missed, budget>>

Install ==
    /\ t1 = "install"
    /\ MutexFree
    /\ cache' = saved
    /\ saved' = NoCopy
    /\ t1' = "snapshot"
    /\ UNCHANGED <<t1Idle, wire, busVars, view, event, watching>>

PublishReconnected ==
    /\ t1 = "snapshot"
    /\ MutexFree
    /\ PublishSnapshot
    /\ t1' = "recv"
    /\ UNCHANGED <<t1Idle, wire, bus, cache, event, saved, watching>>

-----------------------------------------------------------------------------
Panel == \/ \E d \in Devices, s \in Statuses : PanelChanges(d, s)
         \/ PanelAnswers \/ PanelRefuses \/ PanelReboots
(* What Task 1 does with the panel mutex held. *)
WithMutex == \/ HandlePanelData \/ HandleStatusChanged \/ CopyDevices \/ Install
             \/ PublishReconnected
Task1 == Receive \/ Reconnect \/ WithMutex
Task3 == Tick \/ SendQuery \/ ApplyReply \/ PublishPolled

Next == \/ Panel \/ ReadFrame \/ ConnectionLost \/ WatchdogGivesUp
        \/ Task1 \/ Task3 \/ QueryFails

Spec == Init /\ [][Next]_vars

(* The tasks are scheduled and the mutex is fair (tokio's queues its waiters); *)
(* a panel that is up answers, and the panel can be reached again.           *)
FairSpec ==
    /\ Spec
    /\ WF_vars(ReadFrame) /\ WF_vars(WatchdogGivesUp)
    /\ WF_vars(PanelAnswers) /\ WF_vars(QueryFails /\ ~(up /\ t1 # "install"))
    /\ WF_vars(Task3)
    /\ WF_vars(Receive \/ Reconnect) /\ SF_vars(WithMutex)

-----------------------------------------------------------------------------
(* A snapshot published after a refresh that returned Ok shows, for every     *)
(* device, a status the device really had since Task 3 took the mutex, unless *)
(* the panel answered one of its queries with an error.                      *)
SnapshotIsPolled ==
    t3 = "publish" /\ ok /\ ~refused => \A d \in Devices : cache[d] \in truths[d]

(* Events still to be announced that say a flag of a device has changed. *)
Says(e, d, f) == e.type = "StatusChanged" /\ e.dev = d /\ f \in e.changed
Unannounced(d, f) == {i \in 1..Len(bus) : Says(bus[i], d, f)}

(* The last event still to be announced about a flag has its cached value.     *)
NewestIsCached(d, f) ==
    \A i \in Unannounced(d, f) :
        (\A j \in Unannounced(d, f) : j <= i) => (f \in bus[i].status <=> f \in cache[d])

(* The flag of a subscriber once the event in the hands of Task 1 is announced. *)
WillBeSeen(d, f) == f \in IF Says(event, d, f) THEN Told(view[d], event) ELSE view[d]

(* Without one, a cached flag whose setting is published is one a subscriber   *)
(* knows, and a flag it knows whose clearing is published is still cached.     *)
ToldIsCached(d, f) ==
    Unannounced(d, f) = {} =>
        /\ f \in SetTold[d] /\ f \in cache[d] => WillBeSeen(d, f)
        /\ f \in UnsetTold[d] /\ WillBeSeen(d, f) => f \in cache[d]

(* The events still to be announced bring a subscriber to every cached flag of *)
(* every device, unless one was overwritten since the last snapshot, or a      *)
(* reconnection has yet to publish its own.  That a zone's TROUBLE has ended   *)
(* it learns from the next snapshot only.                                    *)
SubscriberFollowsCache ==
    ~missed /\ t1 \notin {"install", "snapshot"} =>
        \A d \in Devices, f \in Flags : NewestIsCached(d, f) /\ ToldIsCached(d, f)

(* Whatever pushes were lost with a full channel or a lost connection, once   *)
(* the panel stops changing MQTT is told its true state, and keeps it.  The   *)
(* channel has room for all the changes of a refresh and one event more: with *)
(* less, they may overwrite the one Disconnected of a rebooted panel.        *)
EventuallyTrue == <>[](cache = panel /\ view = panel)
=============================================================================
