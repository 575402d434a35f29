----------------------------- MODULE MqttBridge -----------------------------
(***************************************************************************)
(* The three tasks of main.rs and what they share: the panel mutex and the    *)
(* bounded request queue of the MQTT client.  Every publish or subscribe puts *)
(* a request on the queue and waits for room; only Task 2, in                *)
(* eventloop.poll(), takes requests off it, and it does not poll while it     *)
(* handles what poll returned.                                              *)
(*                                                                          *)
(* rumqttc and the broker are external: requests are taken only while the     *)
(* broker is connected, and the first poll of a new connection returns       *)
(* ConnAck before any request is taken.                                     *)
(***************************************************************************)
EXTENDS Naturals

CONSTANTS
    Capacity,     \* of the request queue (256)
    PerEvent,     \* messages published for one panel event, at most
    MaxEvents,    \* bound: panel events
    MaxTicks,     \* bound: ticks of the snapshot timer
    MaxCommands,  \* bound: commands received
    MaxOutages    \* bound: lost broker connections

ASSUME BridgeConstants ==
    /\ Capacity \in Nat \ {0} /\ PerEvent \in Nat
    /\ {MaxEvents, MaxTicks, MaxCommands, MaxOutages} \subseteq Nat

VARIABLES
    queue,       \* number of requests waiting
    subs,        \* the positions on the queue of those that subscribe
    broker,      \* "up", "down", or "connecting": up, ConnAck not yet returned
    subscribed,  \* the broker has our subscription
    holder,      \* who holds the panel mutex: 0 for nobody
    pc,          \* where each task is
    to_publish,  \* messages the task has still to publish
    budget

vars == <<queue, subs, broker, subscribed, holder, pc, to_publish, budget>>

Tasks == 1..3

(* Types, and the limit of the client's request queue: a publish or subscribe *)
(* waits while Capacity requests are on it (AsyncClient::new in main.rs).     *)
TypeOK ==
    /\ queue \in 0..Capacity
    /\ subs \subseteq 1..queue
    /\ broker \in {"up", "down", "connecting"}
    /\ subscribed \in BOOLEAN
    /\ holder \in 0..3
    /\ pc \in [Tasks -> {"wait", "lock", "publish", "poll", "subscribe", "sleep",
                     "bypass", "ready", "arm", "ack"}]
    /\ to_publish \in [Tasks -> 0..(PerEvent + 2)]
    /\ budget \in [events : 0..MaxEvents, ticks : 0..MaxTicks,
                   commands : 0..MaxCommands, outages : 0..MaxOutages]

(* The subscribe of the set-up and the initial snapshot are on the queue;     *)
(* the first poll will connect.                                             *)
Init ==
    /\ queue = IF Capacity > 1 THEN 2 ELSE 1
    /\ subs = {1}
    /\ broker = "connecting"
    /\ subscribed = FALSE
    /\ holder = 0
    /\ pc = [t \in Tasks |-> IF t = 2 THEN "poll" ELSE "wait"]
    /\ to_publish = [t \in Tasks |-> 0]
    /\ budget = [events |-> MaxEvents, ticks |-> MaxTicks,
                 commands |-> MaxCommands, outages |-> MaxOutages]

Spend(what) == budget[what] > 0 /\ budget' = [budget EXCEPT ![what] = @ - 1]

Goto(t, l) == pc' = [pc EXCEPT ![t] = l]

mqttVars == <<queue, subs, broker, subscribed>>

(* Mutant: the queue grows. *)
EnqueueAlways == queue' = queue + 1

(* A request waits for room on the queue. *)
Enqueue == queue < Capacity /\ queue' = queue + 1

-----------------------------------------------------------------------------
(* What the tasks have in common: take the mutex, publish, release it *)

TakeMutex(t) ==
    /\ pc[t] = "lock"
    /\ holder = 0
    /\ holder' = t
    /\ Goto(t, "publish")
    /\ UNCHANGED <<mqttVars, to_publish, budget>>

Publish(t) ==
    /\ pc[t] = "publish"
    /\ to_publish[t] > 0
    /\ Enqueue
    /\ to_publish' = [to_publish EXCEPT ![t] = @ - 1]
    /\ UNCHANGED <<subs, broker, subscribed, holder, pc, budget>>

(* Mutant: the guard outlives the snapshot. *)
ReleaseMutexNever(t) ==
    /\ pc[t] = "publish"
    /\ to_publish[t] = 0
    /\ Goto(t, IF t = 2 THEN "poll" ELSE "wait")
    /\ UNCHANGED <<mqttVars, holder, to_publish, budget>>

ReleaseMutex(t) ==
    /\ pc[t] = "publish"
    /\ to_publish[t] = 0
    /\ holder' = 0
    /\ Goto(t, IF t = 2 THEN "poll" ELSE "wait")
    /\ UNCHANGED <<mqttVars, to_publish, budget>>

(* Task 1: an event of the panel, which publishes up to PerEvent messages;    *)
(* Task 3: a tick, which publishes one snapshot.                            *)
EventReceived ==
    /\ pc[1] = "wait"
    /\ Spend("events")
    /\ \E n \in 0..PerEvent : to_publish' = [to_publish EXCEPT ![1] = n]
    /\ Goto(1, "lock")
    /\ UNCHANGED <<mqttVars, holder>>

Tick ==
    /\ pc[3] = "wait"
    /\ Spend("ticks")
    /\ to_publish' = [to_publish EXCEPT ![3] = 1]
    /\ Goto(3, "lock")
    /\ UNCHANGED <<mqttVars, holder>>

-----------------------------------------------------------------------------
(* Task 2: the MQTT event loop *)

(* poll sends the oldest request; a subscribe request sent is a subscription. *)
PollSends ==
    /\ pc[2] = "poll" /\ broker = "up"
    /\ queue > 0
    /\ queue' = queue - 1
    /\ subs' = {s - 1 : s \in subs \ {1}}
    /\ subscribed' = (subscribed \/ 1 \in subs)
    /\ UNCHANGED <<broker, holder, pc, to_publish, budget>>

(* Mutant: ConnAck is not answered with a subscription. *)
PollConnAckIgnored ==
    /\ pc[2] = "poll" /\ broker = "connecting"
    /\ broker' = "up"
    /\ UNCHANGED <<queue, subs, subscribed, holder, pc, to_publish, budget>>

PollConnAck ==
    /\ pc[2] = "poll" /\ broker = "connecting"
    /\ broker' = "up"
    /\ Goto(2, "subscribe")
    /\ UNCHANGED <<queue, subs, subscribed, holder, to_publish, budget>>

(* Mutant: try_subscribe, which gives up when there is no room. *)
ResubscribeTries ==
    /\ pc[2] = "subscribe"
    /\ \/ Enqueue /\ subs' = subs \cup {queue + 1}
       \/ queue = Capacity /\ UNCHANGED <<queue, subs>>
    /\ Goto(2, "poll")
    /\ UNCHANGED <<broker, subscribed, holder, to_publish, budget>>

Resubscribe ==
    /\ pc[2] = "subscribe"
    /\ Enqueue
    /\ subs' = subs \cup {queue + 1}
    /\ Goto(2, "poll")
    /\ UNCHANGED <<broker, subscribed, holder, to_publish, budget>>

(* A command that is no ARM with exclusions is run, and its CMD_ACK published, *)
(* with the mutex held; a SNAPSHOT publishes the snapshot too.               *)
PollCommand ==
    /\ pc[2] = "poll" /\ broker = "up" /\ subscribed
    /\ Spend("commands")
    /\ \E n \in 1..2 : to_publish' = [to_publish EXCEPT ![2] = n]
    /\ Goto(2, "lock")
    /\ UNCHANGED <<mqttVars, holder>>

(* An ARM with exclusions: Task 2 bypasses with the mutex held, waits without  *)
(* it for the partition to be ready or the deadline, arms with the mutex held *)
(* unless the deadline passed, and publishes the CMD_ACK without it.         *)
PollArm ==
    /\ pc[2] = "poll" /\ broker = "up" /\ subscribed
    /\ Spend("commands")
    /\ Goto(2, "bypass")
    /\ UNCHANGED <<mqttVars, holder, to_publish>>

ArmBypasses ==
    /\ pc[2] = "bypass"
    /\ holder = 0
    /\ \E l \in {"ready", "ack"} : Goto(2, l)
    /\ UNCHANGED <<mqttVars, holder, to_publish, budget>>

ArmWaitEnds ==
    /\ pc[2] = "ready"
    /\ \E l \in {"arm", "ack"} : Goto(2, l)
    /\ UNCHANGED <<mqttVars, holder, to_publish, budget>>

ArmSends ==
    /\ pc[2] = "arm"
    /\ holder = 0
    /\ Goto(2, "ack")
    /\ UNCHANGED <<mqttVars, holder, to_publish, budget>>

ArmAcks ==
    /\ pc[2] = "ack"
    /\ Enqueue
    /\ Goto(2, "poll")
    /\ UNCHANGED <<subs, broker, subscribed, holder, to_publish, budget>>

ArmSteps == ArmBypasses \/ ArmWaitEnds \/ ArmSends \/ ArmAcks

(* poll returns an error, and Task 2 sleeps for a second. *)
PollFails ==
    /\ pc[2] = "poll" /\ broker = "down"
    /\ Goto(2, "sleep")
    /\ UNCHANGED <<mqttVars, holder, to_publish, budget>>

Wake ==
    /\ pc[2] = "sleep"
    /\ Goto(2, "poll")
    /\ UNCHANGED <<mqttVars, holder, to_publish, budget>>

-----------------------------------------------------------------------------
(* The broker: a subscription does not outlive its connection *)

BrokerLost ==
    /\ broker # "down"
    /\ Spend("outages")
    /\ broker' = "down"
    /\ subscribed' = FALSE
    /\ UNCHANGED <<queue, subs, holder, pc, to_publish>>

BrokerBack ==
    /\ broker = "down"
    /\ broker' = "connecting"
    /\ UNCHANGED <<queue, subs, subscribed, holder, pc, to_publish, budget>>

Task(t) == TakeMutex(t) \/ Publish(t) \/ ReleaseMutex(t)
Poll == PollSends \/ PollConnAck \/ PollFails

(* What a task does by itself, and what makes it do something. *)
TaskProgress(t) ==
    \/ Task(t)
    \/ t = 2 /\ (Poll \/ ArmSteps \/ Resubscribe \/ Wake)
TaskStep == \/ \E t \in Tasks : TaskProgress(t)
            \/ EventReceived \/ Tick \/ PollCommand \/ PollArm

Next == TaskStep \/ BrokerLost \/ BrokerBack

Spec == Init /\ [][Next]_vars

(* The tasks are scheduled, the mutex and the queue serve their waiters in     *)
(* order, the deadline of an ARM passes, and the broker comes back.         *)
FairSpec ==
    /\ Spec
    /\ \A t \in Tasks : SF_vars(TaskProgress(t))
    /\ WF_vars(BrokerBack)

-----------------------------------------------------------------------------
(* main.rs:1266-1269, "(Re)subscribe after every broker connect/reconnect     *)
(* [...] without this a broker restart silently drops our subscription":      *)
(* however many requests wait, a lost subscription is made again.            *)
ResubscribesAfterReconnect ==
    (broker # "down" /\ ~subscribed) ~> (subscribed \/ broker = "down")
=============================================================================
