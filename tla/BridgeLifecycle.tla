--------------------------- MODULE BridgeLifecycle ---------------------------
(***************************************************************************)
(* main.rs, fn main around its three tasks: connect to the panel, set up      *)
(* MQTT, start the tasks, wait for a signal, abort the tasks wherever they    *)
(* are, and, after SIGHUP, read the configuration again and start over.      *)
(*                                                                          *)
(* The streams of SIGHUP and SIGTERM exist from the start and remember one    *)
(* signal each; ctrl_c() listens only while main waits, and from its first    *)
(* use on SIGINT does nothing by itself.  Whether Arc::try_unwrap finds the    *)
(* aborted tasks gone, and the panel gets a DCN, changes nothing below.       *)
(***************************************************************************)
EXTENDS MqttBridge

CONSTANTS
    Flaws,        \* what may be wrong with an edited file: nothing ("none"),
                  \* its text, the panel part, the MQTT URL ("mqtt")
    MaxActions    \* bound: signals sent and edits of the file

ASSUME LifecycleConstants == "none" \in Flaws /\ MaxActions \in Nat

VARIABLES
    phase,     \* where main is
    signals,   \* signals a stream holds for main
    listened,  \* ctrl_c() has been used
    file,      \* version of the configuration file
    flaw,      \* what is wrong with it
    config,    \* the versions in use: of the panel part and of the rest
    owed,      \* history: the version the last SIGHUP was to put in use
    actions    \* signals and edits so far

mainVars == <<phase, signals, listened, file, flaw, config, owed, actions>>
allVars == <<vars, mainVars>>

LifecycleInit ==
    /\ queue = 0 /\ subs = {} /\ broker = "connecting" /\ subscribed = FALSE
    /\ holder = 0
    /\ pc = [t \in Tasks |-> "wait"] /\ to_publish = [t \in Tasks |-> 0]
    /\ budget = [events |-> MaxEvents, ticks |-> MaxTicks,
                 commands |-> MaxCommands, outages |-> MaxOutages]
    /\ phase = "connect" /\ signals = {} /\ listened = FALSE
    /\ file = 1 /\ flaw = "none"
    /\ config = [panel |-> 1, rest |-> 1]
    /\ owed = 1
    /\ actions = 0

Acts == phase # "exited" /\ actions < MaxActions /\ actions' = actions + 1

-----------------------------------------------------------------------------
(* The operator *)

(* A HUP not yet acted upon will read the file as it is then. *)
Edit ==
    /\ Acts
    /\ file' = file + 1
    /\ flaw' \in Flaws
    /\ owed' = IF flaw' # "none" /\ ("HUP" \in signals \/ phase = "reload")
               THEN 1 ELSE owed
    /\ UNCHANGED <<vars, phase, signals, listened, config>>

Hup ==
    /\ Acts
    /\ signals' = signals \cup {"HUP"}
    /\ owed' = IF flaw = "none" THEN file ELSE owed
    /\ UNCHANGED <<vars, phase, listened, file, flaw, config>>

Term ==
    /\ Acts
    /\ signals' = signals \cup {"TERM"}
    /\ UNCHANGED <<vars, phase, listened, file, flaw, config, owed>>

(* SIGINT is heard, lost, or, before ctrl_c() was ever used, kills. *)
Int ==
    /\ Acts
    /\ signals' = IF phase = "running" THEN signals \cup {"INT"} ELSE signals
    /\ phase' = IF listened THEN phase ELSE "exited"
    /\ UNCHANGED <<vars, listened, file, flaw, config, owed>>

-----------------------------------------------------------------------------
(* main *)

(* RiscoPanel::connect succeeds, in the end; a new client subscribes and       *)
(* publishes the first snapshot; the tasks are spawned.                      *)
Start ==
    /\ phase = "connect"
    /\ phase' = "running" /\ listened' = TRUE
    /\ queue' = IF Capacity > 1 THEN 2 ELSE 1
    /\ subs' = {1}
    /\ pc' = [t \in Tasks |-> IF t = 2 THEN "poll" ELSE "wait"]
    /\ UNCHANGED <<broker, subscribed, holder, to_publish, budget, signals, file, flaw,
                   config, owed, actions>>

(* The tasks, the mutex, the client and its queue are gone. *)
AbortTasks ==
    /\ queue' = 0 /\ subs' = {}
    /\ broker' = IF broker = "down" THEN "down" ELSE "connecting"
    /\ subscribed' = FALSE
    /\ holder' = 0
    /\ pc' = [t \in Tasks |-> "wait"]
    /\ to_publish' = [t \in Tasks |-> 0]
    /\ UNCHANGED budget

(* Its error ends the process, after a SIGHUP too. *)
ConnectFails ==
    /\ phase = "connect"
    /\ phase' = "exited"
    /\ UNCHANGED <<vars, signals, listened, file, flaw, config, owed, actions>>

(* Mutant: the panel is locked before the tasks are aborted. *)
SelectLocks ==
    /\ phase = "running"
    /\ holder = 0
    /\ \E s \in signals :
         /\ signals' = signals \ {s, "INT"}
         /\ phase' = IF s = "HUP" THEN "reload" ELSE "exited"
    /\ AbortTasks
    /\ UNCHANGED <<listened, file, flaw, config, owed, actions>>

(* One of the signals that have come; a SIGINT not chosen is forgotten with    *)
(* the future of ctrl_c().  The tasks are aborted at their next await.        *)
Select ==
    /\ phase = "running"
    /\ \E s \in signals :
         /\ signals' = signals \ {s, "INT"}
         /\ phase' = IF s = "HUP" THEN "reload" ELSE "exited"
    /\ AbortTasks
    /\ UNCHANGED <<listened, file, flaw, config, owed, actions>>

(* Mutant: the panel part is taken before the MQTT URL has been parsed. *)
ReloadPartly ==
    /\ phase = "reload"
    /\ phase' = "connect"
    /\ config' = [panel |-> IF flaw \in {"none", "mqtt"} THEN file ELSE config.panel,
                  rest |-> IF flaw = "none" THEN file ELSE config.rest]
    /\ UNCHANGED <<vars, signals, listened, file, flaw, owed, actions>>

(* The whole new configuration, or nothing of it. *)
Reload ==
    /\ phase = "reload"
    /\ phase' = "connect"
    /\ config' = IF flaw = "none" THEN [panel |-> file, rest |-> file] ELSE config
    /\ UNCHANGED <<vars, signals, listened, file, flaw, owed, actions>>

Main == Start \/ ConnectFails \/ Select \/ Reload
Operator == Edit \/ Hup \/ Term \/ Int

(* The tasks live between Start and Select. *)
Running(A) == phase = "running" /\ A /\ UNCHANGED mainVars

LifecycleNext ==
    \/ Main \/ Operator
    \/ Running(TaskStep)
    \/ (BrokerLost \/ BrokerBack) /\ UNCHANGED mainVars

LifecycleSpec == LifecycleInit /\ [][LifecycleNext]_allVars

(* As FairSpec of MqttBridge while the tasks live; main is scheduled, and       *)
(* RiscoPanel::connect returns.                                             *)
LifecycleFairSpec ==
    /\ LifecycleSpec
    /\ \A t \in Tasks : SF_allVars(Running(TaskProgress(t)))
    /\ WF_allVars(BrokerBack /\ UNCHANGED mainVars)
    /\ WF_allVars(Start \/ Select \/ Reload)

-----------------------------------------------------------------------------
(* Task 2 polls again whatever the other tasks, the broker and the operator    *)
(* do, as long as the request queue has room: holding the panel mutex across  *)
(* a publish is then harmless.                                              *)
PollsAgain ==
    phase = "running" /\ pc[2] # "poll"
      ~> pc[2] = "poll" \/ queue = Capacity \/ phase # "running"

(* While the queue never fills, a subscription that was lost or, after a       *)
(* restart, not made yet is there once the broker stays.                     *)
SubscribedAgain ==
    phase = "running" /\ broker # "down" /\ ~subscribed
      ~> subscribed \/ broker = "down" \/ queue = Capacity \/ phase # "running"

(* Once the broker has accepted a connection, our subscription is there, or on  *)
(* the request queue, or the next thing Task 2 asks for: whatever was lost,   *)
(* waited on the queue or was aborted in between.                            *)
SubscriptionKept ==
    broker = "up" => subscribed \/ subs # {} \/ pc[2] = "subscribe"

(* The configuration in use is one version of the file, never half of one and  *)
(* half of another, and a flawless version SIGHUP was sent for is in use once  *)
(* main has acted on the signal: signals that come during a restart and       *)
(* edits between two of them lose nothing.                                  *)
ConfigInUse ==
    /\ config.panel = config.rest
    /\ "HUP" \notin signals /\ phase \in {"connect", "running"} => config.panel >= owed

(* SIGTERM ends the process and SIGHUP starts it over whatever the tasks are   *)
(* waiting for, a full request queue with the panel mutex held included.      *)
SignalsObeyed ==
    /\ "TERM" \in signals ~> phase = "exited"
    /\ "HUP" \in signals ~> ("HUP" \notin signals /\ phase # "reload") \/ phase = "exited"
=============================================================================
