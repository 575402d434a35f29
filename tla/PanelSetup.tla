------------------------------ MODULE PanelSetup ------------------------------
(***************************************************************************)
(* comm.rs, RiscoComm::connect after the handshake: the panel's type and     *)
(* firmware decide how many devices to look for, the settings that keep the   *)
(* panel off the RISCO cloud are compared and corrected in a programming      *)
(* session, the clock is set.  Every command goes through send_command,       *)
(* which repeats it when no reply came in time: the panel may have executed    *)
(* what it is sent again.                                                     *)
(***************************************************************************)
EXTENDS Integers, Sequences, FiniteSets

CONSTANTS
    Settings,        \* the settings checked, in order: cloud, time zone, NTP
    TakenForRight,   \* those an unreadable value is taken for right
    Configured,      \* panel types of the configuration
    Hardware,        \* what panels report, known or not
    Versions,        \* firmware versions: sequences of numbers
    DisableCloud,    \* disable_risco_cloud
    MaxAttempts,     \* max_attempts of send_command (3)
    MaxLost,         \* bound: attempts without a reply in time
    MaxRefusals,     \* bound: commands answered by an error code
    MaxLinks,        \* bound: lost connections
    MaxConnects      \* bound: connections after the first

SettingSet == {Settings[i] : i \in 1..Len(Settings)}

PanelTypes == {"Agility4", "Agility", "WiComm", "WiCommPro", "LightSys",
               "LightSysPlus", "ProsysPlus", "GTPlus"}

ASSUME SetupConstants ==
    /\ Settings \in Seq(SettingSet)
    /\ TakenForRight \subseteq SettingSet
    /\ Configured \subseteq PanelTypes
    /\ DisableCloud \in BOOLEAN
    /\ MaxAttempts \in Nat \ {0}
    /\ {MaxLost, MaxRefusals, MaxLinks, MaxConnects} \subseteq Nat
    /\ <<>> \notin Versions
    /\ Versions \subseteq Seq(Nat)

VARIABLES
    panel,        \* its hardware and firmware, whether it is in programming mode,
                  \* which settings, and whether the clock, are right
    pc,           \* the command in progress, or the step between two
    attempt,      \* attempt of that command
    item,         \* setting asked for, or entry of commands sent
    commands,     \* the corrections to make
    in_prog,      \* the flag of the command engine
    link,         \* the connection is alive
    panel_type,   \* config.panel_type of this connection
    config_type,  \* the panel type the caller would connect with again
    firmware,     \* firmware_version; <<>> when unknown or no number
    limits,       \* max_zones, max_parts, max_outputs
    found_prog,   \* history: the panel was in programming mode beforehand
    trouble,      \* history: commands of this connection refused or given up,
                  \* and PROG=1 when a reply to it was lost
    budget        \* what is left of the bounds

vars == <<panel, pc, attempt, item, commands, in_prog, link, panel_type,
          config_type, firmware, limits, found_prog, trouble, budget>>

ProgCommands == {"prog_on", "set", "prog_off"}
Commands == ProgCommands \cup {"type", "firmware", "query", "clock", "set_clock"}
Finished == {"connected", "failed"}

-----------------------------------------------------------------------------
(* config.rs: panel types, versions and limits *)

HardwareOf(t) ==
    CASE t = "Agility4" -> "RW032" [] t = "Agility" -> "RW132"
      [] t = "WiComm" -> "RW232"   [] t = "WiCommPro" -> "RW332"
      [] t = "LightSys" -> "RP432" [] t = "LightSysPlus" -> "RP432MP"
      [] t \in {"ProsysPlus", "GTPlus"} -> "RP512"

KnownHardware == {HardwareOf(t) : t \in PanelTypes}

(* RP512 is a ProsysPlus unless the configuration says GTPlus. *)
FromHardware(hw) == CHOOSE t \in PanelTypes \ {"GTPlus"} : HardwareOf(t) = hw

CompareVersion(v, w) ==
    LET n == IF Len(v) < Len(w) THEN Len(v) ELSE Len(w)
        differ == {i \in 1..n : v[i] # w[i]}
    IN IF differ = {} THEN Len(v) - Len(w)
       ELSE LET i == CHOOSE k \in differ : \A j \in differ : k <= j
            IN IF v[i] > w[i] THEN 1 ELSE -1

PanelLimits(t, fw) ==
    CASE t = "Agility4" -> <<32, 3, 4>>
      [] t \in {"Agility", "WiComm", "WiCommPro"} -> <<36, 3, 4>>
      [] t = "LightSys" -> IF fw # <<>> /\ CompareVersion(fw, <<3, 0>>) >= 0
                           THEN <<50, 4, 32>> ELSE <<32, 4, 14>>
      [] t = "LightSysPlus" -> <<512, 32, 196>>
      [] OTHER -> <<IF fw # <<>> /\ CompareVersion(fw, <<1, 2, 0, 7>>) >= 0
                    THEN 128 ELSE 64, 32, 262>>

HasFirmwareQuery(t) == t \in {"LightSys", "LightSysPlus", "ProsysPlus", "GTPlus"}

-----------------------------------------------------------------------------
(* The panel's answer to the command in progress. *)

Accepts(cmd) ==
    CASE cmd = "prog_on" -> ~panel.prog
      [] cmd \in {"set", "prog_off"} -> panel.prog
      [] OTHER -> TRUE

AfterCommand(cmd) ==
    IF ~Accepts(cmd) THEN panel
    ELSE CASE cmd = "prog_on" -> [panel EXCEPT !.prog = TRUE]
           [] cmd = "prog_off" -> [panel EXCEPT !.prog = FALSE]
           [] cmd = "set" -> [panel EXCEPT !.right = @ \cup {commands[item]}]
           [] cmd = "set_clock" -> [panel EXCEPT !.clock = TRUE]
           [] OTHER -> panel

-----------------------------------------------------------------------------
Spend(what) == budget[what] > 0 /\ budget' = [budget EXCEPT ![what] = @ - 1]

typeVars == <<panel_type, config_type, firmware, limits>>
progVars == <<commands, in_prog>>

Goto(next) == pc' = next /\ attempt' = 1

(* Mutant: programming mode is entered even if nothing is wrong. *)
AfterQueriesAlways(cmds) == Goto("prog_on")

(* The step after the last query, and the entry into programming mode. *)
AfterQueries(cmds) == Goto(IF cmds = <<>> THEN "clock" ELSE "prog_on")

TypeReplied(ok) ==
    /\ pc = "type"
    /\ panel_type' =
         IF ok /\ panel.hw \in KnownHardware /\ panel.hw # HardwareOf(panel_type)
         THEN FromHardware(panel.hw) ELSE panel_type
    /\ Goto(IF HasFirmwareQuery(panel_type') THEN "firmware" ELSE "limits")
    /\ UNCHANGED <<config_type, firmware, limits, progVars, item>>

(* An error code has no '=' and no numbers: a version without parts. *)
FirmwareReplied(ok) ==
    /\ pc = "firmware"
    /\ firmware' = IF ok THEN panel.fw ELSE <<>>
    /\ Goto("limits")
    /\ UNCHANGED <<panel_type, config_type, limits, progVars, item>>

(* Mutant: a correction replaces the one queued before. *)
QueryRepliedKeepsLast(ok) ==
    /\ pc = "query"
    /\ LET s == Settings[item]
           right == IF ok THEN s \in panel.right ELSE s \in TakenForRight
       IN commands' = IF right THEN commands ELSE <<s>>
    /\ IF item < Len(Settings)
       THEN Goto("query") /\ item' = item + 1
       ELSE AfterQueries(commands') /\ item' = 1
    /\ UNCHANGED <<typeVars, in_prog>>

(* Mutant: the queue is sent from where the queries ended. *)
QueryRepliedKeepsItem(ok) ==
    /\ pc = "query"
    /\ LET s == Settings[item]
           right == IF ok THEN s \in panel.right ELSE s \in TakenForRight
       IN commands' = IF right THEN commands ELSE Append(commands, s)
    /\ IF item < Len(Settings)
       THEN Goto("query") /\ item' = item + 1
       ELSE AfterQueries(commands') /\ UNCHANGED item
    /\ UNCHANGED <<typeVars, in_prog>>

QueryReplied(ok) ==
    /\ pc = "query"
    /\ LET s == Settings[item]
           right == IF ok THEN s \in panel.right ELSE s \in TakenForRight
       IN commands' = IF right THEN commands ELSE Append(commands, s)
    /\ IF item < Len(Settings)
       THEN Goto("query") /\ item' = item + 1
       ELSE AfterQueries(commands') /\ item' = 1
    /\ UNCHANGED <<typeVars, in_prog>>

(* A refusal, "already in programming mode" included, is only logged. *)
ProgOnReplied(ok) ==
    /\ pc = "prog_on"
    /\ in_prog' = (in_prog \/ ok)
    /\ Goto(IF ok THEN "set" ELSE "clock")
    /\ UNCHANGED <<typeVars, commands, item>>

(* Mutant: programming mode is not left after the last correction. *)
SetRepliedStays ==
    /\ pc = "set"
    /\ IF item < Len(commands)
       THEN Goto("set") /\ item' = item + 1
       ELSE Goto("settle") /\ item' = 1
    /\ UNCHANGED <<typeVars, progVars>>

(* A correction that is refused or gets no reply is only logged. *)
SetReplied ==
    /\ pc = "set"
    /\ IF item < Len(commands)
       THEN Goto("set") /\ item' = item + 1
       ELSE Goto("prog_off") /\ item' = 1
    /\ UNCHANGED <<typeVars, progVars>>

ProgOffReplied ==
    /\ pc = "prog_off"
    /\ Goto("settle")
    /\ UNCHANGED <<typeVars, progVars, item>>

Connected ==
    /\ Goto("connected")
    /\ config_type' = panel_type
    /\ UNCHANGED <<panel_type, firmware, limits, progVars, item>>

ClockReplied(ok) ==
    /\ pc = "clock"
    /\ IF ok /\ ~panel.clock
       THEN Goto("set_clock") /\ UNCHANGED <<typeVars, progVars, item>>
       ELSE Connected

SetClockReplied == pc = "set_clock" /\ Connected

Replied(ok) ==
    \/ TypeReplied(ok) \/ FirmwareReplied(ok) \/ QueryReplied(ok)
    \/ ProgOnReplied(ok) \/ SetReplied \/ ProgOffReplied
    \/ ClockReplied(ok) \/ SetClockReplied

-----------------------------------------------------------------------------
(* send_command *)

(* A command that is not one of a programming session waits for its end. *)
Sending == pc \in Commands /\ (pc \in ProgCommands \/ ~in_prog)

Answer ==
    /\ Sending /\ link
    /\ panel' = AfterCommand(pc)
    /\ Replied(Accepts(pc))
    /\ trouble' = IF Accepts(pc) THEN trouble ELSE trouble \cup {pc}
    /\ UNCHANGED <<link, found_prog, budget>>

Refuse ==
    /\ Sending /\ link
    /\ Spend("refusals")
    /\ Replied(FALSE)
    /\ trouble' = trouble \cup {pc}
    /\ UNCHANGED <<panel, link, found_prog>>

(* No reply in time: the command was lost, or executed and the reply lost.   *)
(* It is sent again, unless this was the last attempt.                      *)
TimeOut ==
    /\ Sending /\ link
    /\ attempt < MaxAttempts
    /\ Spend("lost")
    /\ \/ UNCHANGED <<panel, trouble>>
       \/ /\ panel' = AfterCommand(pc)
          /\ trouble' = IF pc = "prog_on" THEN trouble \cup {pc} ELSE trouble
    /\ attempt' = attempt + 1
    /\ UNCHANGED <<pc, item, progVars, link, typeVars, found_prog>>

LinkLost ==
    /\ pc \notin Finished /\ link
    /\ Spend("links")
    /\ link' = FALSE
    /\ UNCHANGED <<panel, pc, attempt, item, progVars, typeVars, found_prog, trouble>>

(* What the caller makes of an error of the command in progress. *)
CommandError ==
    CASE pc \in {"type", "query", "prog_on", "prog_off"} ->
           Goto("failed") /\ UNCHANGED <<typeVars, progVars, item>>
      [] pc = "firmware" -> FirmwareReplied(FALSE)
      [] pc = "set" -> SetReplied
      [] pc \in {"clock", "set_clock"} -> Connected

LastAttemptFails ==
    /\ Sending /\ link
    /\ attempt = MaxAttempts
    /\ Spend("lost")
    /\ panel' \in {panel, AfterCommand(pc)}
    /\ CommandError
    /\ trouble' = trouble \cup {pc}
    /\ UNCHANGED <<link, found_prog>>

(* The connection is gone: the command ends at once, without another attempt. *)
SendFails ==
    /\ Sending /\ ~link
    /\ CommandError
    /\ trouble' = trouble \cup {pc}
    /\ UNCHANGED <<panel, link, found_prog, budget>>

-----------------------------------------------------------------------------
(* Steps of connect between two commands *)

(* Mutant: the limits are those of the configured type. *)
UpdateLimitsConfigured ==
    /\ pc = "limits"
    /\ limits' = PanelLimits(config_type, firmware)
    /\ Goto(IF DisableCloud /\ Settings # <<>> THEN "query" ELSE "clock")
    /\ UNCHANGED <<panel, item, progVars, link, panel_type, config_type, firmware,
                   found_prog, trouble, budget>>

UpdateLimits ==
    /\ pc = "limits"
    /\ limits' = PanelLimits(panel_type, firmware)
    /\ Goto(IF DisableCloud /\ Settings # <<>> THEN "query" ELSE "clock")
    /\ UNCHANGED <<panel, item, progVars, link, panel_type, config_type, firmware,
                   found_prog, trouble, budget>>

(* Mutant: the flag of the engine is not cleared. *)
SettleForgets ==
    /\ pc = "settle"
    /\ Goto("clock")
    /\ UNCHANGED <<panel, item, progVars, link, typeVars, found_prog, trouble, budget>>

(* Five seconds after PROG=2, acknowledged or not. *)
Settle ==
    /\ pc = "settle"
    /\ in_prog' = FALSE
    /\ Goto("clock")
    /\ UNCHANGED <<panel, item, commands, link, typeVars, found_prog, trouble, budget>>

(* A new RiscoComm and a new engine.  What a failed connection detected is   *)
(* forgotten.  Whether the panel leaves programming mode when a connection    *)
(* ends is the panel's business.                                            *)
Reconnect ==
    /\ pc \in Finished
    /\ Spend("connects")
    /\ \E p \in {panel.prog, FALSE} :
         panel' = [panel EXCEPT !.prog = p] /\ found_prog' = p
    /\ Goto("type")
    /\ item' = 1 /\ commands' = <<>> /\ in_prog' = FALSE /\ link' = TRUE
    /\ panel_type' = config_type /\ firmware' = <<>>
    /\ limits' = PanelLimits(config_type, <<>>)
    /\ trouble' = {}
    /\ UNCHANGED config_type

-----------------------------------------------------------------------------
PanelStates == [hw : Hardware, fw : Versions, prog : BOOLEAN,
                right : SUBSET SettingSet, clock : BOOLEAN]

Init ==
    /\ panel \in {p \in PanelStates : ~p.prog}
    /\ pc = "type"
    /\ attempt = 1
    /\ item = 1
    /\ commands = <<>>
    /\ in_prog = FALSE
    /\ link = TRUE
    /\ panel_type \in Configured
    /\ config_type = panel_type
    /\ firmware = <<>>
    /\ limits = PanelLimits(panel_type, <<>>)
    /\ found_prog = FALSE
    /\ trouble = {}
    /\ budget = [lost |-> MaxLost, refusals |-> MaxRefusals, links |-> MaxLinks,
                 connects |-> MaxConnects]

(* The task runs, and a panel that is reachable answers sooner or later. *)
Program == Answer \/ SendFails \/ UpdateLimits \/ Settle

Next == Program \/ Refuse \/ TimeOut \/ LastAttemptFails \/ LinkLost \/ Reconnect

Spec == Init /\ [][Next]_vars
FairSpec == Spec /\ WF_vars(Program)

-----------------------------------------------------------------------------
(* Stages, flags and the corrections of comm.rs:200-304: a correction is      *)
(* queued for a setting that is checked, and one is always there to be sent. *)
TypeOK ==
    /\ panel \in PanelStates
    /\ pc \in Commands \cup Finished \cup {"limits", "settle"}
    /\ attempt \in 1..MaxAttempts
    /\ item \in Nat \ {0}
    /\ commands \in Seq(SettingSet)
    /\ pc = "query" => item <= Len(Settings)
    /\ pc = "set" => item <= Len(commands)
    /\ in_prog \in BOOLEAN /\ link \in BOOLEAN /\ found_prog \in BOOLEAN
    /\ panel_type \in PanelTypes /\ config_type \in PanelTypes
    /\ firmware \in Versions \cup {<<>>}
    /\ trouble \subseteq Commands
    /\ budget \in [{"lost", "refusals", "links", "connects"} -> Nat]

(* A connection does not leave the panel in programming mode, unless it found *)
(* it there, PROG=1 was not simply acknowledged, or PROG=2 was refused:       *)
(* refused or lost settings in between do not keep the session open.          *)
ProgModeLeft ==
    pc = "connected" /\ panel.prog =>
        found_prog \/ trouble \cap {"prog_on", "prog_off"} # {}

(* comm.rs:258, "Enter programming mode, execute commands, exit programming   *)
(* mode": a successful connection leaves the panel out of programming mode    *)
(* when it found it so and no command of it was refused.                     *)
ProgModeExited ==
    pc = "connected" /\ ~found_prog /\ budget.refusals = MaxRefusals => ~panel.prog

(* After a connection in which the settings could be read and no correction   *)
(* was refused or given up, every setting is right: a correction repeated      *)
(* because its reply was lost is harmless.                                   *)
SettingsCorrected ==
    pc = "connected" /\ DisableCloud /\ trouble \cap {"query", "prog_on", "set"} = {} =>
        panel.right = SettingSet

(* The panel is put in programming mode only to correct a setting that is     *)
(* wrong or could not be read.                                              *)
ProgrammedOnlyWhenNeeded ==
    [][~panel.prog /\ panel'.prog =>
         DisableCloud /\ (panel.right # SettingSet \/ "query" \in trouble)]_vars

(* Version v is w or later: it begins with w, or has the greater number where  *)
(* they first differ.  A version that w begins with is earlier, 3 than 3.0    *)
(* ("longer version is greater", config.rs:126).                             *)
AtLeast(v, w) ==
    \/ Len(v) >= Len(w) /\ \A i \in 1..Len(w) : v[i] = w[i]
    \/ \E i \in (1..Len(v)) \cap (1..Len(w)) :
         v[i] > w[i] /\ \A j \in 1..(i - 1) : v[j] = w[j]

(* config.rs:28-42: zones of the panels that have a limit by firmware. *)
ZonesOf(p) ==
    IF p.hw = "RP432" THEN (IF AtLeast(p.fw, <<3, 0>>) THEN 50 ELSE 32)
    ELSE IF p.hw = "RP512" THEN (IF AtLeast(p.fw, <<1, 2, 0, 7>>) THEN 128 ELSE 64)
    ELSE PanelLimits(FromHardware(p.hw), <<>>)[1]

(* A connection never looks for more zones than a panel of the reported type  *)
(* has, whatever type was configured, and for all of them when the firmware    *)
(* is known.                                                                *)
LimitsOfThePanel ==
    pc = "connected" /\ panel.hw \in KnownHardware /\ "type" \notin trouble =>
        /\ limits[1] <= ZonesOf(panel)
        /\ "firmware" \notin trouble => limits[1] = ZonesOf(panel)

(* Every connection is made or fails: no command waits for the end of a       *)
(* programming session that is over.                                        *)
SetupEnds == <>[](pc \in Finished)
=============================================================================
