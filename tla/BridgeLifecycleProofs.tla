------------------------ MODULE BridgeLifecycleProofs ------------------------
(***************************************************************************)
(* What main's loop and its tasks promise for every capacity of the request   *)
(* queue, every set of flaws and any number of signals and edits.             *)
(***************************************************************************)
EXTENDS BridgeLifecycle, TLAPS

Budgets == [events : 0..MaxEvents, ticks : 0..MaxTicks,
            commands : 0..MaxCommands, outages : 0..MaxOutages]

LEMMA SpendType ==
    ASSUME TypeOK, NEW what \in {"events", "ticks", "commands", "outages"}, Spend(what)
    PROVE  budget' \in Budgets
  BY BridgeConstants DEF TypeOK, Spend, Budgets

(* A request is put on the queue only while it has room. *)
LEMMA EnqueueType ==
    ASSUME TypeOK, Enqueue
    PROVE  /\ queue' \in 0..Capacity
           /\ queue + 1 \in 1..queue'
           /\ subs \subseteq 1..queue'
  BY BridgeConstants DEF TypeOK, Enqueue

LEMMA TaskType ==
    ASSUME TypeOK, NEW t \in Tasks, Task(t)
    PROVE  TypeOK'
<1>1. CASE TakeMutex(t)
  BY <1>1 DEF TypeOK, TakeMutex, Goto, mqttVars, Tasks
<1>2. CASE Publish(t)
  <2>1. to_publish' \in [Tasks -> 0..(PerEvent + 2)]
    BY <1>2, BridgeConstants DEF TypeOK, Publish
  <2>. QED BY <1>2, <2>1, EnqueueType DEF TypeOK, Publish
<1>3. CASE ReleaseMutex(t)
  BY <1>3 DEF TypeOK, ReleaseMutex, Goto, mqttVars, Tasks
<1>. QED BY <1>1, <1>2, <1>3 DEF Task

LEMMA EventLoopType ==
    ASSUME TypeOK, Poll \/ ArmSteps \/ Resubscribe \/ Wake
    PROVE  TypeOK'
<1>. USE DEF Goto, mqttVars
<1>1. CASE PollSends
  <2>1. /\ queue \in 0..Capacity /\ Capacity \in Nat /\ queue > 0 /\ queue' = queue - 1
        /\ subs' = {s - 1 : s \in subs \ {1}} /\ subs \subseteq 1..queue
    BY <1>1, BridgeConstants DEF TypeOK, PollSends
  <2>2. \A s \in 1..queue : s # 1 => s - 1 \in 1..(queue - 1)
    BY <2>1
  <2>3. queue' \in 0..Capacity /\ subs' \subseteq 1..queue'
    BY <2>1, <2>2
  <2>4. subscribed' \in BOOLEAN
    BY <1>1, Zenon DEF TypeOK, PollSends
  <2>. QED BY <1>1, <2>3, <2>4 DEF TypeOK, PollSends
<1>2. CASE PollConnAck \/ PollFails \/ Wake \/ ArmBypasses \/ ArmWaitEnds \/ ArmSends
  <2>1. /\ UNCHANGED <<queue, subs, subscribed, holder, to_publish, budget>>
        /\ broker' \in {broker, "up"}
    BY <1>2, Zenon DEF PollConnAck, PollFails, Wake, ArmBypasses, ArmWaitEnds, ArmSends
  <2>2. \E l \in {"subscribe", "sleep", "poll", "ready", "ack", "arm"} : pc' = [pc EXCEPT ![2] = l]
    BY <1>2, Zenon DEF PollConnAck, PollFails, Wake, ArmBypasses, ArmWaitEnds, ArmSends
  <2>3. pc' \in [Tasks -> {"wait", "lock", "publish", "poll", "subscribe", "sleep",
                          "bypass", "ready", "arm", "ack"}]
    BY <2>2 DEF TypeOK
  <2>. QED BY <2>1, <2>3, Zenon DEF TypeOK
<1>3. CASE Resubscribe
  BY <1>3, EnqueueType DEF TypeOK, Resubscribe
<1>4. CASE ArmAcks
  BY <1>4, EnqueueType DEF TypeOK, ArmAcks
<1>. QED BY <1>1, <1>2, <1>3, <1>4 DEF Poll, ArmSteps

LEMMA ArrivalType ==
    ASSUME TypeOK, EventReceived \/ Tick \/ PollCommand \/ PollArm
    PROVE  TypeOK'
<1>. USE DEF Goto, mqttVars
<1>1. budget' \in Budgets
  BY SpendType DEF EventReceived, Tick, PollCommand, PollArm
<1>2. to_publish' \in [Tasks -> 0..(PerEvent + 2)]
  BY BridgeConstants DEF TypeOK, EventReceived, Tick, PollCommand, PollArm
<1>. QED BY <1>1, <1>2 DEF TypeOK, EventReceived, Tick, PollCommand, PollArm, Budgets

LEMMA BrokerType ==
    ASSUME TypeOK, BrokerLost \/ BrokerBack
    PROVE  TypeOK'
<1>1. CASE BrokerLost
  <2>1. budget' \in Budgets
    BY <1>1, SpendType DEF BrokerLost
  <2>2. broker' = "down" /\ subscribed' = FALSE /\ UNCHANGED <<queue, subs, holder, pc, to_publish>>
    BY <1>1 DEF BrokerLost
  <2>3. subscribed' \in BOOLEAN
    BY <2>2, Zenon
  <2>. QED BY <2>1, <2>2, <2>3 DEF TypeOK, Budgets
<1>2. CASE BrokerBack
  BY <1>2 DEF TypeOK, BrokerBack
<1>. QED BY <1>1, <1>2

LEMMA MainType ==
    ASSUME TypeOK, Main
    PROVE  TypeOK'
<1>1. CASE Start
  <2>1. queue' \in 0..Capacity /\ 1 \in 1..queue'
    BY <1>1, BridgeConstants DEF Start
  <2>. QED BY <1>1, <2>1 DEF TypeOK, Start
<1>2. CASE Select
  <2>1. AbortTasks
    BY <1>2 DEF Select
  <2>2. queue' \in 0..Capacity /\ subs' \subseteq 1..queue' /\ holder' \in 0..3
    BY <2>1, BridgeConstants DEF AbortTasks
  <2>3. subscribed' \in BOOLEAN
    BY <2>1, Zenon DEF AbortTasks
  <2>4. to_publish' \in [Tasks -> 0..(PerEvent + 2)]
    BY <2>1, BridgeConstants DEF AbortTasks
  <2>5. pc' = [t \in Tasks |-> "wait"] /\ broker' \in {"down", "connecting"} /\ budget' = budget
    BY <2>1 DEF AbortTasks
  <2>. QED BY <2>2, <2>3, <2>4, <2>5 DEF TypeOK
<1>3. CASE ConnectFails \/ Reload
  BY <1>3 DEF TypeOK, ConnectFails, Reload, vars
<1>. QED BY <1>1, <1>2, <1>3 DEF Main

LEMMA TypeStep ==
    ASSUME TypeOK, [LifecycleNext]_allVars
    PROVE  TypeOK'
<1>1. CASE UNCHANGED vars
  BY <1>1 DEF TypeOK, vars
<1>2. CASE Operator
  BY <1>1, <1>2 DEF Operator, Edit, Hup, Term, Int
<1>3. CASE Running(TaskStep)
  <2>1. TaskStep
    BY <1>3 DEF Running
  <2>. QED BY <2>1, TaskType, EventLoopType, ArrivalType DEF TaskStep, TaskProgress
<1>. QED BY <1>1, <1>2, <1>3, MainType, BrokerType DEF LifecycleNext, allVars

-----------------------------------------------------------------------------
(* The subscription *)

LEMMA SubscriptionStep ==
    ASSUME TypeOK, SubscriptionKept, [LifecycleNext]_allVars
    PROVE  SubscriptionKept'
<1>. USE DEF SubscriptionKept, Goto, mqttVars
<1>1. CASE UNCHANGED vars
  BY <1>1, Zenon DEF vars
<1>2. ASSUME NEW t \in Tasks, Task(t) PROVE SubscriptionKept'
  <2>1. /\ UNCHANGED <<broker, subscribed, subs>>
        /\ pc[t] # "subscribe" /\ \E l : pc' = pc \/ pc' = [pc EXCEPT ![t] = l]
    BY <1>2, Zenon DEF Task, TakeMutex, Publish, ReleaseMutex
  <2>2. pc[2] = "subscribe" => pc'[2] = "subscribe"
    BY <2>1 DEF TypeOK, Tasks
  <2>. QED BY <2>1, <2>2, Zenon
<1>3. CASE PollSends
  <2>1. subs' = {s - 1 : s \in subs \ {1}} /\ broker' = broker /\ pc' = pc
        /\ subscribed' = (subscribed \/ 1 \in subs)
    BY <1>3, Zenon DEF PollSends
  <2>2. 1 \in subs \/ subs = {} \/ subs' # {}
    BY <2>1
  <2>. QED BY <2>1, <2>2, Zenon
<1>4. CASE PollConnAck
  <2>1. pc'[2] = "subscribe"
    BY <1>4 DEF PollConnAck, TypeOK, Tasks
  <2>. QED BY <2>1, Zenon
<1>5. CASE Resubscribe
  <2>1. subs' # {}
    BY <1>5 DEF Resubscribe
  <2>. QED BY <2>1, Zenon
<1>6. CASE EventReceived \/ Tick \/ PollFails \/ Wake \/ ArmSteps \/ PollCommand \/ PollArm
  <2>1. /\ UNCHANGED <<broker, subscribed, subs>>
        /\ \E u \in Tasks : \E l : pc' = [pc EXCEPT ![u] = l] /\ pc[u] # "subscribe"
    <3>1. {1, 2, 3} \subseteq Tasks
      BY DEF Tasks
    <3>. QED BY <1>6, <3>1
             DEF EventReceived, Tick, PollFails, Wake, ArmSteps, ArmBypasses, ArmWaitEnds,
                 ArmSends, ArmAcks, PollCommand, PollArm
  <2>2. pc[2] = "subscribe" => pc'[2] = "subscribe"
    BY <2>1 DEF TypeOK, Tasks
  <2>. QED BY <2>1, <2>2, Zenon
<1>7. CASE BrokerLost \/ BrokerBack
  BY <1>7 DEF BrokerLost, BrokerBack
<1>8. CASE Start
  <2>1. subs' # {}
    BY <1>8 DEF Start
  <2>. QED BY <2>1, Zenon
<1>9. CASE Select
  BY <1>9 DEF Select, AbortTasks
<1>10. CASE ConnectFails \/ Reload \/ Operator
  BY <1>1, <1>10, Zenon DEF ConnectFails, Reload, Operator, Edit, Hup, Term, Int
<1>. QED BY <1>1, <1>2, <1>3, <1>4, <1>5, <1>6, <1>7, <1>8, <1>9, <1>10, Zenon
         DEF LifecycleNext, allVars, Main, Running, TaskStep, TaskProgress, Poll

(* The mutex: whoever holds it is publishing, and nobody else is.  So a task    *)
(* that waits for the mutex waits for one that waits for nothing but room on  *)
(* the request queue.                                                       *)
MutexForPublishing == \A t \in Tasks : holder = t <=> pc[t] = "publish"

(* A panel that is connected anew is in nobody's hands. *)
MutexInv ==
    /\ MutexForPublishing
    /\ phase \in {"connect", "reload"} => holder = 0

LEMMA MutexStep ==
    ASSUME TypeOK, MutexInv, [LifecycleNext]_allVars
    PROVE  MutexInv'
<1>. USE DEF MutexInv, MutexForPublishing, Goto, mqttVars
<1>0. {1, 2, 3} \subseteq Tasks /\ 0 \notin Tasks
  BY DEF Tasks
<1>1. ASSUME UNCHANGED <<holder, pc>>, phase' \in {"connect", "reload"} => phase \in {"connect", "reload"}
      PROVE  MutexInv'
  BY <1>1
<1>2. ASSUME NEW t \in Tasks, Task(t), phase = "running", phase' = phase PROVE MutexInv'
  <2>1. CASE TakeMutex(t)
    BY <1>0, <1>2, <2>1 DEF TakeMutex, TypeOK
  <2>2. CASE Publish(t)
    BY <1>2, <2>2 DEF Publish
  <2>3. CASE ReleaseMutex(t)
    BY <1>0, <1>2, <2>3 DEF ReleaseMutex, TypeOK
  <2>. QED BY <1>2, <2>1, <2>2, <2>3 DEF Task
<1>3. ASSUME \/ EventReceived \/ Tick \/ Resubscribe \/ PollConnAck \/ PollFails \/ Wake
             \/ ArmSteps \/ PollCommand \/ PollArm,
             phase' = phase
      PROVE  MutexInv'
  <2>1. /\ UNCHANGED holder
        /\ \E u \in Tasks : \E l : /\ pc' = [pc EXCEPT ![u] = l]
                                   /\ pc[u] # "publish" /\ l # "publish"
    BY <1>0, <1>3
       DEF EventReceived, Tick, PollConnAck, Resubscribe, PollFails, Wake, ArmSteps, ArmBypasses,
           ArmWaitEnds, ArmSends, ArmAcks, PollCommand, PollArm
  <2>. QED BY <1>3, <2>1 DEF TypeOK
<1>4. CASE Start
  <2>1. /\ holder = 0 /\ holder' = 0 /\ phase' = "running"
        /\ pc' = [t \in Tasks |-> IF t = 2 THEN "poll" ELSE "wait"]
    BY <1>4 DEF Start
  <2>. QED BY <1>0, <2>1
<1>5. CASE Select
  BY <1>0, <1>5 DEF Select, AbortTasks
<1>6. CASE (PollSends \/ BrokerLost \/ BrokerBack) /\ phase' = phase
  BY <1>1, <1>6, Zenon DEF PollSends, BrokerLost, BrokerBack
<1>7. CASE ConnectFails \/ Reload \/ Operator
  <2>1. UNCHANGED <<holder, pc>>
    BY <1>7, Zenon DEF ConnectFails, Reload, Operator, Edit, Hup, Term, Int, vars
  <2>2. phase' \in {"connect", "reload"} => phase \in {"connect", "reload"}
    BY <1>7 DEF ConnectFails, Reload, Operator, Edit, Hup, Term, Int
  <2>. QED BY <1>1, <2>1, <2>2
<1>8. CASE UNCHANGED allVars
  BY <1>1, <1>8, Zenon DEF allVars, vars, mainVars
<1>9. CASE Running(TaskStep)
  <2>1. TaskStep /\ phase = "running" /\ phase' = phase
    BY <1>9, Zenon DEF Running, mainVars
  <2>. QED BY <1>2, <1>3, <1>6, <2>1, Zenon DEF TaskStep, TaskProgress, Poll
<1>10. CASE (BrokerLost \/ BrokerBack) /\ UNCHANGED mainVars
  BY <1>6, <1>10, Zenon DEF mainVars
<1>. QED BY <1>4, <1>5, <1>7, <1>8, <1>9, <1>10, Zenon DEF LifecycleNext, Main

-----------------------------------------------------------------------------
(* The configuration: versions grow, and what the last SIGHUP was sent for is  *)
(* in use, unless main has still to act on a signal and the file is flawless. *)
ConfigInv ==
    /\ file \in Nat /\ config.panel \in Nat /\ owed \in Nat
    /\ config.panel = config.rest
    /\ 1 <= config.panel /\ 1 <= file /\ owed <= file
    /\ ("HUP" \notin signals /\ phase \in {"connect", "running"}) \/ flaw # "none"
         => owed <= config.panel
    /\ phase \in {"connect", "running", "reload", "exited"}

LEMMA ConfigStep ==
    ASSUME ConfigInv, [LifecycleNext]_allVars
    PROVE  ConfigInv'
<1>. USE DEF ConfigInv
<1>1. CASE UNCHANGED mainVars
  BY <1>1 DEF mainVars
<1>2. CASE Edit
  <2>1. /\ file' = file + 1 /\ UNCHANGED <<phase, signals, config>>
        /\ phase # "exited"
        /\ owed' = IF flaw' # "none" /\ ("HUP" \in signals \/ phase = "reload")
                    THEN 1 ELSE owed
    BY <1>2 DEF Edit, Acts
  <2>. QED BY <2>1
<1>3. CASE Hup
  BY <1>3 DEF Hup
<1>4. CASE Term \/ Int
  BY <1>4 DEF Term, Int
<1>5. CASE Start \/ ConnectFails
  BY <1>5 DEF Start, ConnectFails
<1>6. CASE Select
  BY <1>6 DEF Select
<1>7. CASE Reload
  BY <1>7 DEF Reload
<1>. QED BY <1>1, <1>2, <1>3, <1>4, <1>5, <1>6, <1>7
         DEF LifecycleNext, allVars, Main, Operator, Running

-----------------------------------------------------------------------------
(* The limits of the request queue and the places of the tasks, through any     *)
(* number of restarts.                                                      *)
THEOREM TypeCorrect == LifecycleSpec => []TypeOK
<1>1. LifecycleInit => TypeOK
  <2>. SUFFICES ASSUME LifecycleInit PROVE TypeOK
    OBVIOUS
  <2>1. subscribed \in BOOLEAN
    BY Zenon DEF LifecycleInit
  <2>2. to_publish \in [Tasks -> 0..(PerEvent + 2)]
    BY BridgeConstants DEF LifecycleInit
  <2>3. budget \in Budgets
    BY BridgeConstants DEF LifecycleInit, Budgets
  <2>. QED BY <2>1, <2>2, <2>3, BridgeConstants DEF LifecycleInit, TypeOK, Budgets
<1>2. TypeOK /\ [LifecycleNext]_allVars => TypeOK'
  BY TypeStep
<1>. QED BY <1>1, <1>2, PTL DEF LifecycleSpec

(* The reload of main.rs takes a version of the file whole or not at all, and   *)
(* what a SIGHUP was sent for is in use when main has acted on it.            *)
THEOREM ConfigurationInUse == LifecycleSpec => []ConfigInUse
<1>1. LifecycleInit => ConfigInv
  BY DEF LifecycleInit, ConfigInv
<1>2. ConfigInv /\ [LifecycleNext]_allVars => ConfigInv'
  BY ConfigStep
<1>3. ConfigInv => ConfigInUse
  BY DEF ConfigInv, ConfigInUse
<1>. QED BY <1>1, <1>2, <1>3, PTL DEF LifecycleSpec

(* A ConnAck is always followed by a subscription, through lost connections,    *)
(* requests that wait for room and restarts: what SubscribedAgain needs before *)
(* it can ask that something happens.                                        *)
THEOREM SubscriptionIsKept == LifecycleSpec => []SubscriptionKept
<1>1. LifecycleInit => SubscriptionKept
  BY DEF LifecycleInit, SubscriptionKept
<1>2. TypeOK /\ SubscriptionKept /\ [LifecycleNext]_allVars => SubscriptionKept'
  BY SubscriptionStep
<1>. QED BY <1>1, <1>2, TypeCorrect, PTL DEF LifecycleSpec

(* The guard of the panel mutex is held by tasks that are publishing, and by no *)
(* other: neither while Task 2 polls or sleeps, nor after tasks were aborted.  *)
THEOREM MutexIsForPublishing == LifecycleSpec => []MutexForPublishing
<1>1. LifecycleInit => MutexInv
  BY DEF LifecycleInit, MutexInv, MutexForPublishing, Tasks
<1>2. TypeOK /\ MutexInv /\ [LifecycleNext]_allVars => MutexInv'
  BY MutexStep
<1>3. MutexInv => MutexForPublishing
  BY DEF MutexInv
<1>. QED BY <1>1, <1>2, <1>3, TypeCorrect, PTL DEF LifecycleSpec
=============================================================================
