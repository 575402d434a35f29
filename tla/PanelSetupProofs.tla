--------------------------- MODULE PanelSetupProofs ---------------------------
(***************************************************************************)
(* What the set-up of a connection promises for every list of settings, every *)
(* hardware and firmware a panel may report, and any number of attempts,      *)
(* refusals, lost replies and connections.                                   *)
(***************************************************************************)
EXTENDS PanelSetup, TLAPS

(* Corrections from entry n on. *)
Queued(n) == {commands[k] : k \in n..Len(commands)}

(* Where a list is begun and how far connect has come with it. *)
Place ==
    /\ pc \notin {"query", "set"} \cup Finished => item = 1
    /\ pc \in {"type", "firmware", "limits"} => commands = <<>>
    /\ pc = "type" => firmware = <<>>
    /\ pc = "prog_on" => commands # <<>>
    /\ pc \in {"query"} \cup ProgCommands => DisableCloud

ProgModeAccounted ==
    panel.prog =>
        \/ found_prog \/ trouble \cap {"prog_on", "prog_off"} # {}
        \/ pc \in {"set", "prog_off"}

(* A setting already dealt with is right, or its correction is to be sent. *)
SettingsAccounted ==
    DisableCloud /\ trouble \cap {"query", "prog_on", "set"} = {} =>
        /\ pc = "query" => \A j \in 1..(item - 1) : Settings[j] \in panel.right \cup Queued(1)
        /\ pc = "prog_on" => SettingSet \subseteq panel.right \cup Queued(1)
        /\ pc = "set" => SettingSet \subseteq panel.right \cup Queued(item)
        /\ pc \in {"prog_off", "settle", "clock", "set_clock", "connected"} =>
             panel.right = SettingSet

CorrectionsNeeded ==
    pc \in {"query", "prog_on"} /\ commands # <<>> =>
        panel.right # SettingSet \/ "query" \in trouble

LimitsAccounted ==
    panel.hw \in KnownHardware /\ "type" \notin trouble /\ pc \notin {"type", "failed"} =>
        /\ HardwareOf(panel_type) = panel.hw
        /\ firmware \in {<<>>, panel.fw}
        /\ HasFirmwareQuery(panel_type) /\ "firmware" \notin trouble /\ pc # "firmware" =>
             firmware = panel.fw
        /\ pc \notin {"firmware", "limits"} => limits = PanelLimits(panel_type, firmware)

Accounted == /\ Place /\ ProgModeAccounted /\ SettingsAccounted
             /\ CorrectionsNeeded /\ LimitsAccounted

SetupInv == TypeOK /\ Accounted

-----------------------------------------------------------------------------
(* The end of a command, whichever step brings it about. *)

Fails == /\ pc \in {"type", "query", "prog_on", "prog_off"}
         /\ Goto("failed") /\ UNCHANGED <<typeVars, progVars, item>>

Completes(ok) ==
    /\ pc \in Commands
    /\ Replied(ok) \/ (~ok /\ Fails)
    /\ IF ok THEN Accepts(pc) /\ panel' = AfterCommand(pc) /\ trouble' = trouble
             ELSE panel' \in {panel, AfterCommand(pc)} /\ trouble' = trouble \cup {pc}
    /\ UNCHANGED found_prog

LEMMA ErrorsComplete ==
    ASSUME pc \in Commands, CommandError
    PROVE  Replied(FALSE) \/ Fails
<1>1. CASE pc \in {"type", "query", "prog_on", "prog_off"}
  BY <1>1 DEF CommandError, Fails
<1>2. CASE pc = "firmware"
  BY <1>2 DEF CommandError, Replied
<1>3. CASE pc = "set"
  BY <1>3 DEF CommandError, Replied
<1>4. CASE pc = "clock"
  BY <1>4 DEF CommandError, Replied, ClockReplied
<1>5. CASE pc = "set_clock"
  BY <1>5 DEF CommandError, Replied, SetClockReplied
<1>. QED BY <1>1, <1>2, <1>3, <1>4, <1>5 DEF Commands, ProgCommands

LEMMA CommandsComplete ==
    ASSUME Answer \/ Refuse \/ LastAttemptFails \/ SendFails
    PROVE  \E ok \in BOOLEAN : Completes(ok)
<1>1. CASE Answer
  <2>1. pc \in Commands /\ panel' = AfterCommand(pc) /\ Replied(Accepts(pc))
        /\ trouble' = (IF Accepts(pc) THEN trouble ELSE trouble \cup {pc}) /\ UNCHANGED found_prog
    BY <1>1 DEF Answer, Sending
  <2>2. CASE Accepts(pc)
    <3>1. Replied(TRUE)
      <4>1. Accepts(pc) = TRUE
        BY <2>2 DEF Accepts
      <4>. QED BY <4>1, <2>1
    <3>. QED BY <2>1, <2>2, <3>1 DEF Completes
  <2>3. CASE ~Accepts(pc)
    <3>1. Replied(FALSE)
      <4>1. Accepts(pc) = FALSE
        BY <2>3 DEF Accepts
      <4>. QED BY <4>1, <2>1
    <3>. QED BY <2>1, <2>3, <3>1 DEF Completes
  <2>. QED BY <2>2, <2>3
<1>2. CASE Refuse
  BY <1>2 DEF Refuse, Sending, Completes
<1>3. CASE LastAttemptFails
  BY <1>3, ErrorsComplete DEF LastAttemptFails, Sending, Completes
<1>4. CASE SendFails
  BY <1>4, ErrorsComplete DEF SendFails, Sending, Completes
<1>. QED BY <1>1, <1>2, <1>3, <1>4

(* What a command does to the panel. *)
LEMMA PanelAfter ==
    ASSUME TypeOK, pc \in Commands, panel' \in {panel, AfterCommand(pc)}
    PROVE  /\ panel' \in PanelStates
           /\ panel'.hw = panel.hw /\ panel'.fw = panel.fw
           /\ panel.right \subseteq panel'.right
           /\ pc # "set" => panel'.right = panel.right
           /\ pc # "prog_on" /\ panel'.prog => panel.prog
<1>1. panel \in PanelStates /\ (pc = "set" => commands[item] \in SettingSet)
  BY DEF TypeOK
<1>2. \/ panel' = panel
      \/ pc = "prog_on" /\ panel' = [panel EXCEPT !.prog = TRUE]
      \/ pc = "prog_off" /\ panel' = [panel EXCEPT !.prog = FALSE]
      \/ pc = "set" /\ panel' = [panel EXCEPT !.right = @ \cup {commands[item]}]
      \/ pc = "set_clock" /\ panel' = [panel EXCEPT !.clock = TRUE]
  BY DEF AfterCommand, Commands, ProgCommands
<1>. QED BY <1>1, <1>2, ZenonT(30) DEF PanelStates

LEMMA PanelCommanded ==
    ASSUME TypeOK, pc \in Commands, Accepts(pc), panel' = AfterCommand(pc)
    PROVE  /\ pc = "set" => commands[item] \in panel'.right
           /\ pc = "prog_off" => ~panel'.prog
<1>1. panel \in PanelStates
  BY DEF TypeOK
<1>. QED BY <1>1 DEF PanelStates, AfterCommand, Accepts

-----------------------------------------------------------------------------
(* Type correctness *)

Budgets == [{"lost", "refusals", "links", "connects"} -> Nat]

LEMMA SpendType ==
    ASSUME TypeOK, NEW what \in {"lost", "refusals", "links", "connects"}, Spend(what)
    PROVE  budget' \in Budgets
  BY DEF TypeOK, Spend, Budgets

LEMMA BudgetType ==
    ASSUME TypeOK, [Next]_vars
    PROVE  budget' \in Budgets
<1>1. CASE Program \/ UNCHANGED vars
  BY <1>1 DEF Program, Answer, SendFails, UpdateLimits, Settle, TypeOK, Budgets, vars
<1>2. CASE Refuse \/ TimeOut \/ LastAttemptFails \/ LinkLost \/ Reconnect
  BY <1>2, SpendType DEF Refuse, TimeOut, LastAttemptFails, LinkLost, Reconnect
<1>. QED BY <1>1, <1>2 DEF Next

(* The setting asked for, or none. *)
LEMMA SettingsAreTyped ==
    /\ Len(Settings) \in Nat
    /\ \A i \in 1..Len(Settings) : Settings[i] \in SettingSet
  BY SetupConstants DEF SettingSet

LEMMA HardwareKnown ==
    ASSUME NEW hw \in KnownHardware
    PROVE  FromHardware(hw) \in PanelTypes /\ HardwareOf(FromHardware(hw)) = hw
<1>1. \E t \in PanelTypes \ {"GTPlus"} : HardwareOf(t) = hw
  BY DEF KnownHardware, HardwareOf, PanelTypes
<1>. QED BY <1>1 DEF FromHardware

LEMMA ReplyType ==
    ASSUME TypeOK, Place, NEW ok \in BOOLEAN, Replied(ok)
    PROVE  /\ pc' \in Commands \cup Finished \cup {"limits", "settle"}
           /\ attempt' = 1
           /\ item' \in Nat \ {0}
           /\ commands' \in Seq(SettingSet)
           /\ pc' = "query" => item' <= Len(Settings)
           /\ pc' = "set" => item' <= Len(commands')
           /\ in_prog' \in BOOLEAN
           /\ panel_type' \in PanelTypes /\ config_type' \in PanelTypes
           /\ firmware' \in Versions \cup {<<>>}
<1>. USE DEF Goto, typeVars, progVars, Commands, ProgCommands, Finished
<1>1. CASE TypeReplied(ok)
  <2>1. panel_type' \in PanelTypes
    BY <1>1, HardwareKnown DEF TypeReplied, TypeOK
  <2>. QED BY <1>1, <2>1 DEF TypeReplied, TypeOK
<1>2. CASE FirmwareReplied(ok)
  BY <1>2 DEF FirmwareReplied, TypeOK, PanelStates
<1>3. CASE QueryReplied(ok)
  <2>1. Settings[item] \in SettingSet
    BY <1>3, SettingsAreTyped DEF QueryReplied, TypeOK
  <2>2. commands' \in Seq(SettingSet)
    BY <1>3, <2>1 DEF QueryReplied, TypeOK
  <2>. QED BY <1>3, <2>2, SettingsAreTyped DEF QueryReplied, AfterQueries, TypeOK
<1>4. CASE ProgOnReplied(ok)
  <2>1. in_prog' \in BOOLEAN
    BY <1>4 DEF ProgOnReplied, TypeOK
  <2>2. commands \in Seq(SettingSet) /\ commands # <<>> /\ item = 1
    BY <1>4 DEF ProgOnReplied, TypeOK, Place
  <2>. QED BY <1>4, <2>1, <2>2 DEF ProgOnReplied, TypeOK
<1>5. CASE SetReplied
  BY <1>5 DEF SetReplied, TypeOK
<1>6. CASE ProgOffReplied
  BY <1>6 DEF ProgOffReplied, TypeOK
<1>7. CASE ClockReplied(ok) \/ SetClockReplied
  BY <1>7 DEF ClockReplied, SetClockReplied, Connected, TypeOK
<1>. QED BY <1>1, <1>2, <1>3, <1>4, <1>5, <1>6, <1>7 DEF Replied

LEMMA CompletesType ==
    ASSUME TypeOK, Place, NEW ok \in BOOLEAN, Completes(ok),
           link' \in BOOLEAN, budget' \in Budgets
    PROVE  TypeOK'
<1>1. panel' \in PanelStates
  BY PanelAfter DEF Completes
<1>2. trouble' \subseteq Commands
  BY DEF Completes, TypeOK
<1>3. attempt' = 1 => attempt' \in 1..MaxAttempts
  BY SetupConstants
<1>4. found_prog' \in BOOLEAN
  <2>1. found_prog \in BOOLEAN /\ found_prog' = found_prog
    BY DEF Completes, TypeOK
  <2>. QED BY <2>1, Zenon
<1>5. CASE Replied(ok)
  BY <1>1, <1>2, <1>3, <1>4, <1>5, ReplyType DEF TypeOK, Budgets
<1>6. CASE Fails
  BY <1>1, <1>2, <1>3, <1>4, <1>6
     DEF Fails, Goto, typeVars, progVars, TypeOK, Budgets, Finished
<1>. QED BY <1>5, <1>6 DEF Completes

LEMMA TypeStep ==
    ASSUME TypeOK, Place, [Next]_vars
    PROVE  TypeOK'
<1>0. budget' \in Budgets
  BY BudgetType
<1>1. CASE Answer \/ Refuse \/ LastAttemptFails \/ SendFails
  <2>1. link' \in BOOLEAN
    <3>1. link \in BOOLEAN /\ link' = link
      BY <1>1 DEF TypeOK, Answer, Refuse, LastAttemptFails, SendFails
    <3>. QED BY <3>1, Zenon
  <2>. QED BY <1>0, <1>1, <2>1, CommandsComplete, CompletesType
<1>2. CASE TimeOut
  <2>1. panel' \in PanelStates /\ trouble' \subseteq Commands
    BY <1>2, PanelAfter DEF TimeOut, Sending, TypeOK
  <2>2. attempt' \in 1..MaxAttempts
    BY <1>2, SetupConstants DEF TimeOut, TypeOK
  <2>. QED BY <1>0, <1>2, <2>1, <2>2 DEF TimeOut, TypeOK, Budgets, typeVars, progVars
<1>3. CASE LinkLost
  <2>1. link' \in BOOLEAN
    BY <1>3, Zenon DEF LinkLost
  <2>. QED BY <1>0, <1>3, <2>1 DEF LinkLost, TypeOK, Budgets, typeVars, progVars
<1>4. CASE UpdateLimits
  BY <1>0, <1>4, SetupConstants, SettingsAreTyped
     DEF UpdateLimits, Goto, TypeOK, Place, Budgets, progVars, Commands, ProgCommands, Finished
<1>5. CASE Settle
  <2>1. in_prog' \in BOOLEAN
    BY <1>5, Zenon DEF Settle
  <2>. QED BY <1>0, <1>5, <2>1, SetupConstants
     DEF Settle, Goto, TypeOK, Budgets, typeVars, Commands, ProgCommands, Finished
<1>6. CASE Reconnect
  <2>1. PICK p \in {panel.prog, FALSE} :
          panel' = [panel EXCEPT !.prog = p] /\ found_prog' = p
    BY <1>6 DEF Reconnect
  <2>2. panel' \in PanelStates /\ found_prog' \in BOOLEAN
    BY <2>1 DEF TypeOK, PanelStates
  <2>3. in_prog' \in BOOLEAN /\ link' \in BOOLEAN
    BY <1>6, Zenon DEF Reconnect
  <2>. QED BY <1>0, <1>6, <2>2, <2>3, SetupConstants, SMTT(30)
     DEF Reconnect, Goto, TypeOK, Budgets, Commands, ProgCommands, Finished
<1>7. CASE UNCHANGED vars
  BY <1>7 DEF vars, TypeOK, PanelStates, Commands, Finished
<1>. QED BY <1>1, <1>2, <1>3, <1>4, <1>5, <1>6, <1>7 DEF Next, Program
(* Every connection keeps the settings, flags and stages in their types       *)
(* (TypeOK), and every correction sent is one that was queued.               *)
LEMMA PlaceStep ==
    ASSUME TypeOK, Place, [Next]_vars
    PROVE  Place'
<1>. USE DEF Place, Goto, typeVars, progVars, ProgCommands, Finished
<1>1. CASE Answer \/ Refuse \/ LastAttemptFails \/ SendFails
  <2>1. PICK ok \in BOOLEAN : Completes(ok)
    BY <1>1, CommandsComplete
  <2>2. CASE ~ok /\ Fails
    BY <2>2 DEF Fails
  <2>3. CASE TypeReplied(ok)
    BY <2>3 DEF TypeReplied
  <2>4. CASE FirmwareReplied(ok)
    BY <2>4 DEF FirmwareReplied
  <2>5. CASE QueryReplied(ok)
    BY <2>5 DEF QueryReplied, AfterQueries
  <2>6. CASE ProgOnReplied(ok) \/ SetReplied \/ ProgOffReplied
    BY <2>6 DEF ProgOnReplied, SetReplied, ProgOffReplied
  <2>7. CASE ClockReplied(ok) \/ SetClockReplied
    BY <2>7 DEF ClockReplied, SetClockReplied, Connected
  <2>. QED BY <2>1, <2>2, <2>3, <2>4, <2>5, <2>6, <2>7 DEF Completes, Replied
<1>2. CASE TimeOut \/ LinkLost
  BY <1>2 DEF TimeOut, LinkLost
<1>3. CASE UpdateLimits
  BY <1>3 DEF UpdateLimits
<1>4. CASE Settle \/ Reconnect
  BY <1>4 DEF Settle, Reconnect
<1>5. CASE UNCHANGED vars
  BY <1>5 DEF vars
<1>. QED BY <1>1, <1>2, <1>3, <1>4, <1>5 DEF Next, Program

LEMMA ProgModeStep ==
    ASSUME TypeOK, Place, ProgModeAccounted, [Next]_vars
    PROVE  ProgModeAccounted'
<1>. USE DEF ProgModeAccounted, Goto, typeVars, progVars, ProgCommands, Finished
<1>1. CASE Answer \/ Refuse \/ LastAttemptFails \/ SendFails
  <2>1. PICK ok \in BOOLEAN : Completes(ok)
    BY <1>1, CommandsComplete
  <2>2. panel'.prog => panel.prog \/ pc = "prog_on"
    BY <2>1, PanelAfter DEF Completes
  <2>3. found_prog' = found_prog /\ trouble \subseteq trouble' /\ (~ok => pc \in trouble')
    BY <2>1 DEF Completes
  <2>4. ok => pc # "prog_off" \/ ~panel'.prog
    BY <2>1, PanelCommanded DEF Completes
  <2>5. CASE ~ok /\ Fails
    BY <2>2, <2>3, <2>5 DEF Fails
  <2>6. CASE TypeReplied(ok) \/ FirmwareReplied(ok) \/ QueryReplied(ok)
    BY <2>2, <2>3, <2>6 DEF TypeReplied, FirmwareReplied, QueryReplied, AfterQueries
  <2>7. CASE ProgOnReplied(ok) \/ SetReplied
    BY <2>2, <2>3, <2>7 DEF ProgOnReplied, SetReplied
  <2>8. CASE ProgOffReplied
    BY <2>3, <2>4, <2>8 DEF ProgOffReplied
  <2>9. CASE ClockReplied(ok) \/ SetClockReplied
    BY <2>2, <2>3, <2>9 DEF ClockReplied, SetClockReplied, Connected
  <2>. QED BY <2>1, <2>5, <2>6, <2>7, <2>8, <2>9 DEF Completes, Replied
<1>2. CASE TimeOut
  <2>1. trouble \subseteq trouble' /\ pc' = pc /\ found_prog' = found_prog
    BY <1>2 DEF TimeOut
  <2>2. CASE panel' = panel
    BY <2>1, <2>2
  <2>3. CASE pc = "prog_on" /\ "prog_on" \in trouble'
    BY <2>3
  <2>4. CASE pc # "prog_on"
    BY <1>2, <2>1, <2>4, PanelAfter DEF TimeOut, Sending
  <2>5. panel' = panel \/ (pc = "prog_on" => "prog_on" \in trouble')
    BY <1>2 DEF TimeOut
  <2>. QED BY <2>2, <2>3, <2>4, <2>5
<1>3. CASE Settle \/ UpdateLimits \/ LinkLost \/ UNCHANGED vars
  BY <1>3 DEF Settle, UpdateLimits, LinkLost, vars
<1>4. CASE Reconnect
  <2>1. PICK p \in {panel.prog, FALSE} :
          panel' = [panel EXCEPT !.prog = p] /\ found_prog' = p
    BY <1>4 DEF Reconnect
  <2>. QED BY <2>1 DEF TypeOK, PanelStates
<1>. QED BY <1>1, <1>2, <1>3, <1>4 DEF Next, Program

LEMMA NeedStep ==
    ASSUME TypeOK, Place, CorrectionsNeeded, [Next]_vars
    PROVE  CorrectionsNeeded'
<1>. USE DEF CorrectionsNeeded, Goto, typeVars, progVars, ProgCommands, Finished
<1>1. CASE Answer \/ Refuse \/ LastAttemptFails \/ SendFails
  <2>1. PICK ok \in BOOLEAN : Completes(ok)
    BY <1>1, CommandsComplete
  <2>2. trouble \subseteq trouble' /\ (~ok => pc \in trouble')
    BY <2>1 DEF Completes
  <2>3. CASE QueryReplied(ok)
    <3>1. panel'.right = panel.right
      BY <2>1, <2>3, PanelAfter DEF Completes, QueryReplied
    <3>2. Settings[item] \in SettingSet
      BY <2>3, SettingsAreTyped DEF QueryReplied, TypeOK
    <3>3. commands' # commands => panel'.right # SettingSet \/ "query" \in trouble'
      BY <2>2, <2>3, <3>1, <3>2 DEF QueryReplied
    <3>. QED BY <2>2, <2>3, <3>1, <3>3 DEF QueryReplied
  <2>4. CASE ~ok /\ Fails
    BY <2>4 DEF Fails
  <2>5. CASE TypeReplied(ok) \/ FirmwareReplied(ok)
    BY <2>5 DEF TypeReplied, FirmwareReplied
  <2>6. CASE ProgOnReplied(ok) \/ SetReplied \/ ProgOffReplied
    BY <2>6 DEF ProgOnReplied, SetReplied, ProgOffReplied
  <2>7. CASE ClockReplied(ok) \/ SetClockReplied
    BY <2>7 DEF ClockReplied, SetClockReplied, Connected
  <2>. QED BY <2>1, <2>3, <2>4, <2>5, <2>6, <2>7 DEF Completes, Replied
<1>2. CASE TimeOut
  <2>1. pc = "set" \/ panel'.right = panel.right
    BY <1>2, PanelAfter DEF TimeOut, Sending
  <2>. QED BY <1>2, <2>1 DEF TimeOut
<1>3. CASE Settle \/ LinkLost \/ Reconnect \/ UNCHANGED vars
  BY <1>3 DEF Settle, LinkLost, Reconnect, vars
<1>4. CASE UpdateLimits
  BY <1>4 DEF UpdateLimits, Place
<1>. QED BY <1>1, <1>2, <1>3, <1>4 DEF Next, Program

-----------------------------------------------------------------------------
(* Settings *)

LEMMA SettingsFromQuery ==
    ASSUME TypeOK, Place, SettingsAccounted, NEW ok \in BOOLEAN,
           Completes(ok), QueryReplied(ok)
    PROVE  SettingsAccounted'
<1>1. panel'.right = panel.right /\ panel.right \subseteq SettingSet
  BY PanelAfter DEF Completes, QueryReplied, TypeOK, PanelStates
<1>2. SUFFICES ASSUME DisableCloud, trouble' \cap {"query", "prog_on", "set"} = {}
               PROVE  /\ pc' = "query" => \A j \in 1..(item' - 1) :
                                            Settings[j] \in panel.right \cup Queued(1)'
                      /\ pc' = "prog_on" => SettingSet \subseteq panel.right \cup Queued(1)'
                      /\ pc' = "clock" => panel.right = SettingSet
                      /\ pc' \in {"query", "prog_on", "clock"}
  BY <1>1 DEF SettingsAccounted
<1>3. ok /\ trouble \cap {"query", "prog_on", "set"} = {}
  BY <1>2 DEF Completes, QueryReplied
<1>4. /\ item \in 1..Len(Settings) /\ Len(Settings) \in Nat
      /\ commands \in Seq(SettingSet) /\ Settings[item] \in SettingSet
  BY SettingsAreTyped DEF TypeOK, QueryReplied
<1>5. Queued(1) \subseteq Queued(1)'
      /\ Settings[item] \in panel.right \cup Queued(1)'
      /\ (commands' = <<>> => Queued(1)' = {})
  <2>1. CASE Settings[item] \in panel.right
    BY <1>3, <2>1 DEF QueryReplied, Queued
  <2>2. CASE Settings[item] \notin panel.right
    <3>1. commands' = Append(commands, Settings[item])
      BY <1>3, <2>2 DEF QueryReplied
    <3>2. /\ Len(commands') = Len(commands) + 1 /\ Len(commands) \in Nat
          /\ \A k \in 1..Len(commands) : commands'[k] = commands[k]
          /\ commands'[Len(commands) + 1] = Settings[item]
          /\ commands' # <<>>
      BY <1>4, <3>1
    <3>. QED BY <3>2 DEF Queued
  <2>. QED BY <2>1, <2>2
<1>6. \A j \in 1..item : Settings[j] \in panel.right \cup Queued(1)'
  BY <1>2, <1>3, <1>4, <1>5 DEF SettingsAccounted, QueryReplied
<1>7. CASE item < Len(Settings)
  BY <1>4, <1>6, <1>7 DEF QueryReplied, Goto
<1>8. CASE item = Len(Settings)
  <2>1. SettingSet \subseteq panel.right \cup Queued(1)'
    BY <1>6, <1>8 DEF SettingSet
  <2>2. pc' = IF commands' = <<>> THEN "clock" ELSE "prog_on"
    BY <1>4, <1>8 DEF QueryReplied, AfterQueries, Goto
  <2>. QED BY <1>1, <1>5, <2>1, <2>2
<1>. QED BY <1>4, <1>7, <1>8

LEMMA SettingsFromSet ==
    ASSUME TypeOK, SettingsAccounted, NEW ok \in BOOLEAN, Completes(ok), SetReplied
    PROVE  SettingsAccounted'
<1>1. panel.right \subseteq panel'.right /\ panel'.right \subseteq SettingSet
  BY PanelAfter DEF Completes, SetReplied, PanelStates
<1>2. SUFFICES ASSUME DisableCloud, trouble' \cap {"query", "prog_on", "set"} = {}
               PROVE  /\ pc' = "set" => SettingSet \subseteq panel'.right \cup Queued(item)'
                      /\ pc' = "prog_off" => panel'.right = SettingSet
                      /\ pc' \in {"set", "prog_off"}
  BY DEF SettingsAccounted
<1>3. ok /\ trouble \cap {"query", "prog_on", "set"} = {}
  BY <1>2 DEF Completes, SetReplied
<1>4. commands[item] \in panel'.right
  BY <1>3, PanelCommanded DEF Completes, SetReplied
<1>5. item \in 1..Len(commands) /\ Len(commands) \in Nat /\ commands' = commands
  BY DEF TypeOK, SetReplied, progVars
<1>6. SettingSet \subseteq panel.right \cup Queued(item)
  BY <1>2, <1>3 DEF SettingsAccounted, SetReplied
<1>7. SettingSet \subseteq panel'.right \cup {commands[k] : k \in (item + 1)..Len(commands)}
  BY <1>1, <1>4, <1>5, <1>6 DEF Queued
<1>8. CASE item < Len(commands)
  BY <1>5, <1>7, <1>8 DEF SetReplied, Goto, Queued
<1>9. CASE item = Len(commands)
  <2>1. (item + 1)..Len(commands) = {} /\ pc' = "prog_off"
    BY <1>5, <1>9 DEF SetReplied, Goto
  <2>. QED BY <1>1, <1>7, <2>1
<1>. QED BY <1>5, <1>8, <1>9

(* A command of none of these lists changes no setting. *)
LEMMA SettingsElsewhere ==
    ASSUME TypeOK, Place, SettingsAccounted, NEW ok \in BOOLEAN, Completes(ok),
           pc \notin {"query", "set"}
    PROVE  SettingsAccounted'
<1>. USE DEF Goto, typeVars, progVars, Finished
<1>1. panel'.right = panel.right /\ trouble \subseteq trouble' /\ (~ok => pc \in trouble')
  BY PanelAfter DEF Completes
<1>2. CASE ~ok /\ Fails
  BY <1>2 DEF Fails, SettingsAccounted
<1>3. CASE TypeReplied(ok) \/ FirmwareReplied(ok)
  BY <1>3 DEF TypeReplied, FirmwareReplied, SettingsAccounted
<1>4. CASE ProgOnReplied(ok)
  <2>1. CASE ok
    <3>1. item = 1 /\ Queued(item)' = Queued(1) /\ pc' = "set" /\ pc = "prog_on"
      BY <1>4, <2>1 DEF ProgOnReplied, Place, Queued
    <3>. QED BY <1>1, <3>1 DEF SettingsAccounted
  <2>2. CASE ~ok
    BY <1>1, <1>4, <2>2 DEF ProgOnReplied, SettingsAccounted
  <2>. QED BY <2>1, <2>2
<1>5. CASE ProgOffReplied
  BY <1>1, <1>5 DEF ProgOffReplied, SettingsAccounted
<1>6. CASE ClockReplied(ok) \/ SetClockReplied
  BY <1>1, <1>6 DEF ClockReplied, SetClockReplied, Connected, SettingsAccounted
<1>. QED BY <1>2, <1>3, <1>4, <1>5, <1>6 DEF Completes, Replied, QueryReplied, SetReplied

LEMMA SettingsStep ==
    ASSUME TypeOK, Place, SettingsAccounted, [Next]_vars
    PROVE  SettingsAccounted'
<1>. USE DEF Goto, typeVars, progVars, Finished
<1>1. CASE Answer \/ Refuse \/ LastAttemptFails \/ SendFails
  <2>1. PICK ok \in BOOLEAN : Completes(ok)
    BY <1>1, CommandsComplete
  <2>2. CASE pc = "query"
    <3>1. CASE ~ok /\ Fails
      BY <3>1 DEF Fails, SettingsAccounted
    <3>. QED BY <2>1, <2>2, <3>1, SettingsFromQuery
         DEF Completes, Replied, TypeReplied, FirmwareReplied, ProgOnReplied, SetReplied,
             ProgOffReplied, ClockReplied, SetClockReplied
  <2>3. CASE pc = "set"
    BY <2>1, <2>3, SettingsFromSet
    DEF Completes, Replied, Fails, TypeReplied, FirmwareReplied, QueryReplied, ProgOnReplied,
        ProgOffReplied, ClockReplied, SetClockReplied
  <2>. QED BY <2>1, <2>2, <2>3, SettingsElsewhere
<1>2. CASE TimeOut
  <2>1. /\ panel.right \subseteq panel'.right /\ panel'.right \subseteq SettingSet
        /\ pc # "set" => panel'.right = panel.right
    BY <1>2, PanelAfter DEF TimeOut, Sending, PanelStates
  <2>2. trouble \subseteq trouble' /\ UNCHANGED <<pc, item, commands>>
        /\ \A n : Queued(n)' = Queued(n)
    BY <1>2 DEF TimeOut, Queued
  <2>. QED BY <2>1, <2>2 DEF SettingsAccounted
<1>3. CASE LinkLost \/ Settle \/ UNCHANGED vars
  BY <1>3 DEF LinkLost, Settle, vars, SettingsAccounted, Queued
<1>4. CASE UpdateLimits
  <2>1. panel.right \subseteq SettingSet /\ (Settings = <<>> => SettingSet = {})
    BY DEF TypeOK, PanelStates, SettingSet
  <2>2. /\ panel' = panel /\ item' = 1
        /\ pc' = IF DisableCloud /\ Settings # <<>> THEN "query" ELSE "clock"
    BY <1>4 DEF UpdateLimits, Place
  <2>3. 1..(item' - 1) = {}
    BY <2>2
  <2>. QED BY <2>1, <2>2, <2>3 DEF SettingsAccounted
<1>5. CASE Reconnect
  BY <1>5 DEF Reconnect, SettingsAccounted
<1>. QED BY <1>1, <1>2, <1>3, <1>4, <1>5 DEF Next, Program

-----------------------------------------------------------------------------
(* Limits *)

LEMMA LimitsStep ==
    ASSUME TypeOK, Place, LimitsAccounted, [Next]_vars
    PROVE  LimitsAccounted'
<1>. USE DEF Goto, typeVars, progVars, Finished
<1>1. CASE Answer \/ Refuse \/ LastAttemptFails \/ SendFails
  <2>1. PICK ok \in BOOLEAN : Completes(ok)
    BY <1>1, CommandsComplete
  <2>2. panel'.hw = panel.hw /\ panel'.fw = panel.fw
    BY <2>1, PanelAfter DEF Completes
  <2>3. trouble \subseteq trouble' /\ (~ok => pc \in trouble')
    BY <2>1 DEF Completes
  <2>. USE <2>2, <2>3
  <2>4. CASE TypeReplied(ok)
    <3>1. CASE ok /\ panel.hw \in KnownHardware
      <4>1. HardwareOf(FromHardware(panel.hw)) = panel.hw
        BY <3>1, HardwareKnown
      <4>2. HardwareOf(panel_type') = panel.hw
        BY <2>4, <3>1, <4>1 DEF TypeReplied
      <4>3. firmware' = <<>> /\ pc' = IF HasFirmwareQuery(panel_type') THEN "firmware" ELSE "limits"
        BY <2>4 DEF TypeReplied, Place
      <4>. QED BY <4>2, <4>3 DEF LimitsAccounted
    <3>2. CASE ~ok \/ panel.hw \notin KnownHardware
      <4>1. "type" \in trouble' \/ panel'.hw \notin KnownHardware
        BY <2>4, <3>2 DEF TypeReplied
      <4>. QED BY <4>1 DEF LimitsAccounted
    <3>. QED BY <3>1, <3>2
  <2>5. CASE FirmwareReplied(ok)
    BY <2>5 DEF FirmwareReplied, LimitsAccounted
  <2>6. CASE QueryReplied(ok)
    BY <2>6 DEF QueryReplied, AfterQueries, LimitsAccounted
  <2>7. CASE ProgOnReplied(ok) \/ SetReplied \/ ProgOffReplied
    BY <2>7 DEF ProgOnReplied, SetReplied, ProgOffReplied, LimitsAccounted
  <2>8. CASE ClockReplied(ok) \/ SetClockReplied
    BY <2>8 DEF ClockReplied, SetClockReplied, Connected, LimitsAccounted
  <2>9. CASE ~ok /\ Fails
    BY <2>9 DEF Fails, LimitsAccounted
  <2>. QED BY <2>1, <2>4, <2>5, <2>6, <2>7, <2>8, <2>9 DEF Completes, Replied
<1>2. CASE TimeOut
  <2>1. panel'.hw = panel.hw /\ panel'.fw = panel.fw
    BY <1>2, PanelAfter DEF TimeOut, Sending
  <2>. QED BY <1>2, <2>1 DEF TimeOut, LimitsAccounted
<1>3. CASE LinkLost \/ Settle \/ UpdateLimits \/ UNCHANGED vars
  BY <1>3 DEF LinkLost, Settle, UpdateLimits, vars, LimitsAccounted
<1>4. CASE Reconnect
  BY <1>4 DEF Reconnect, LimitsAccounted
<1>. QED BY <1>1, <1>2, <1>3, <1>4 DEF Next, Program

(* compare_version, for the versions the limits ask for, is the order of      *)
(* AtLeast.                                                                 *)
LEMMA VersionsCompared ==
    ASSUME NEW v \in Seq(Nat), NEW w \in Seq(Nat), Len(w) \in 1..4
    PROVE  CompareVersion(v, w) >= 0 <=> AtLeast(v, w)
<1>. DEFINE Shorter(a, b) == IF a < b THEN a ELSE b
            n == Shorter(Len(v), Len(w))
            differ == {i \in 1..n : v[i] # w[i]}
<1>1. n \in 0..4 /\ (1..Len(v)) \cap (1..Len(w)) = 1..n /\ Len(v) \in Nat /\ Len(w) \in Nat
  <2>1. Len(v) \in Nat /\ Len(w) \in 1..4
    OBVIOUS
  <2>2. n \in 0..4
    <3>1. \A a \in Nat, b \in 1..4 : Shorter(a, b) \in 0..4
      OBVIOUS
    <3>. HIDE DEF Shorter
    <3>. QED BY <2>1, <3>1
  <2>3. \A x : x \in (1..Len(v)) \cap (1..Len(w)) <=> x \in 1..n
    BY <2>1
  <2>. HIDE DEF n
  <2>. QED BY <2>1, <2>2, <2>3
<1>2. CASE differ = {}
  <2>1. CompareVersion(v, w) = Len(v) - Len(w)
    BY <1>2 DEF CompareVersion
  <2>2. AtLeast(v, w) <=> Len(v) >= Len(w)
    <3>1. \A k \in 1..n : v[k] = w[k]
      BY <1>2
    <3>2. \A k \in 1..n : v[k] \in Nat /\ ~(v[k] > w[k])
      BY <1>1, <3>1
    <3>3. Len(v) >= Len(w) => 1..Len(w) = 1..n
      BY <1>1
    <3>. HIDE DEF n
    <3>. QED BY <1>1, <3>1, <3>2, <3>3 DEF AtLeast
  <2>. QED BY <1>1, <2>1, <2>2
<1>3. CASE differ # {}
  <2>. DEFINE Least(k) == k \in differ /\ \A j \in differ : k <= j
              i == CHOOSE k \in differ : \A j \in differ : k <= j
  <2>1. \E k \in differ : \A j \in differ : k <= j
    <3>1. \A k \in differ : k \in 1..4
      <4>1. differ \subseteq 1..n
        BY DEF differ
      <4>. HIDE DEF n, differ
      <4>. QED BY <1>1, <4>1
    <3>. HIDE DEF differ
    <3>. QED BY <1>3, <3>1
  <2>2. i \in differ /\ \A j \in differ : i <= j
    BY <2>1
  <2>3. CompareVersion(v, w) = IF v[i] > w[i] THEN 1 ELSE -1
    BY <1>3 DEF CompareVersion
  <2>. HIDE DEF i
  <2>4. i \in 1..n /\ v[i] # w[i] /\ v[i] \in Nat /\ w[i] \in Nat
        /\ \A j \in 1..(i - 1) : v[j] = w[j]
    BY <1>1, <2>2, SMTT(30)
  <2>5. AtLeast(v, w) <=> v[i] > w[i]
    <3>1. \A k \in 1..n : v[k] > w[k] /\ (\A j \in 1..(k - 1) : v[j] = w[j]) => k = i
      BY <1>1, <2>4
    <3>. QED BY <1>1, <2>4, <3>1 DEF AtLeast
  <2>. QED BY <2>3, <2>5
<1>. QED BY <1>2, <1>3

LEMMA LimitsFit ==
    ASSUME TypeOK, LimitsAccounted
    PROVE  LimitsOfThePanel
<1>1. SUFFICES ASSUME pc = "connected", panel.hw \in KnownHardware, "type" \notin trouble
               PROVE  /\ limits[1] <= ZonesOf(panel)
                      /\ "firmware" \notin trouble => limits[1] = ZonesOf(panel)
  BY DEF LimitsOfThePanel
<1>2. /\ panel_type \in PanelTypes /\ HardwareOf(panel_type) = panel.hw
      /\ firmware \in {<<>>, panel.fw}
      /\ HasFirmwareQuery(panel_type) /\ "firmware" \notin trouble => firmware = panel.fw
      /\ limits = PanelLimits(panel_type, firmware)
  BY <1>1 DEF LimitsAccounted, TypeOK
<1>3. panel.fw \in Seq(Nat) /\ panel.fw # <<>>
  BY SetupConstants DEF TypeOK, PanelStates
<1>4. /\ CompareVersion(panel.fw, <<3, 0>>) >= 0 <=> AtLeast(panel.fw, <<3, 0>>)
      /\ CompareVersion(panel.fw, <<1, 2, 0, 7>>) >= 0 <=> AtLeast(panel.fw, <<1, 2, 0, 7>>)
  <2>1. <<3, 0>> \in Seq(Nat) /\ Len(<<3, 0>>) \in 1..4
    OBVIOUS
  <2>2. <<1, 2, 0, 7>> \in Seq(Nat) /\ Len(<<1, 2, 0, 7>>) \in 1..4
    OBVIOUS
  <2>. HIDE DEF CompareVersion, AtLeast
  <2>. QED BY <1>3, <2>1, <2>2, VersionsCompared
<1>. HIDE DEF CompareVersion, AtLeast
<1>5. CASE panel_type = "LightSys"
  <2>1. panel.hw = "RP432"
    BY <1>2, <1>5 DEF HardwareOf
  <2>2. ZonesOf(panel) = IF AtLeast(panel.fw, <<3, 0>>) THEN 50 ELSE 32
    BY <2>1 DEF ZonesOf
  <2>3. limits[1] = IF firmware # <<>> /\ CompareVersion(firmware, <<3, 0>>) >= 0 THEN 50 ELSE 32
    BY <1>2, <1>5 DEF PanelLimits
  <2>. QED BY <1>2, <1>3, <1>4, <1>5, <2>2, <2>3 DEF HasFirmwareQuery
<1>6. CASE panel_type \in {"ProsysPlus", "GTPlus"}
  BY <1>2, <1>3, <1>4, <1>6 DEF HardwareOf, PanelLimits, ZonesOf, HasFirmwareQuery
<1>7. CASE panel_type \notin {"LightSys", "ProsysPlus", "GTPlus"}
  <2>1. FromHardware(panel.hw) \in PanelTypes /\ HardwareOf(FromHardware(panel.hw)) = panel.hw
    BY <1>1, HardwareKnown
  <2>2. FromHardware(panel.hw) = panel_type
    BY <1>2, <1>7, <2>1 DEF HardwareOf, PanelTypes
  <2>. QED BY <1>2, <1>7, <2>2 DEF HardwareOf, PanelLimits, ZonesOf, PanelTypes
<1>. QED BY <1>2, <1>5, <1>6, <1>7 DEF PanelTypes

-----------------------------------------------------------------------------
(* The inductive invariant holds initially and is kept by every step of the   *)
(* set-up.                                                                  *)
THEOREM SetupInvariant == Spec => []SetupInv
<1>1. Init => SetupInv
  <2>. SUFFICES ASSUME Init PROVE SetupInv
    OBVIOUS
  <2>1. budget \in Budgets
    BY SetupConstants DEF Init, Budgets
  <2>2. TypeOK
    <3>1. in_prog \in BOOLEAN /\ link \in BOOLEAN /\ found_prog \in BOOLEAN
      BY Zenon DEF Init
    <3>2. panel \in PanelStates /\ commands \in Seq(SettingSet)
      BY DEF Init
    <3>3. /\ panel_type \in PanelTypes /\ config_type \in PanelTypes
          /\ attempt \in 1..MaxAttempts
      BY SetupConstants DEF Init
    <3>. QED BY <2>1, <3>1, <3>2, <3>3 DEF Init, TypeOK, Commands, ProgCommands, Budgets
  <2>3. Accounted
    BY DEF Init, Accounted, Place, ProgModeAccounted, SettingsAccounted, CorrectionsNeeded,
           LimitsAccounted, ProgCommands, Finished
  <2>. QED BY <2>2, <2>3 DEF SetupInv
<1>2. SetupInv /\ [Next]_vars => SetupInv'
  BY TypeStep, PlaceStep, ProgModeStep, SettingsStep, NeedStep, LimitsStep
     DEF SetupInv, Accounted
<1>. QED BY <1>1, <1>2, PTL DEF Spec

(* TypeOK, for every list of settings, hardware and firmware of comm.rs's     *)
(* set-up.                                                                  *)
THEOREM TypeCorrect == Spec => []TypeOK
<1>1. SetupInv => TypeOK
  BY DEF SetupInv
<1>. QED BY <1>1, SetupInvariant, PTL

(* A connection leaves the panel out of programming mode unless it found it    *)
(* there, PROG=1 was not simply acknowledged, or PROG=2 was refused.         *)
THEOREM ProgrammingModeIsLeft == Spec => []ProgModeLeft
<1>1. SetupInv => ProgModeLeft
  BY DEF SetupInv, Accounted, ProgModeAccounted, ProgModeLeft
<1>. QED BY <1>1, SetupInvariant, PTL

(* Every setting is right after a connection without trouble in reading or     *)
(* correcting them.                                                         *)
THEOREM SettingsAreCorrected == Spec => []SettingsCorrected
<1>1. SetupInv => SettingsCorrected
  BY DEF SetupInv, Accounted, SettingsAccounted, SettingsCorrected
<1>. QED BY <1>1, SetupInvariant, PTL

(* The limits in use are those of the reported panel and its firmware. *)
THEOREM LimitsAreThePanels == Spec => []LimitsOfThePanel
<1>1. SetupInv => LimitsOfThePanel
  BY LimitsFit DEF SetupInv, Accounted
<1>. QED BY <1>1, SetupInvariant, PTL

(* Programming mode is entered only to correct a setting. *)
THEOREM ProgrammingIsNeeded == Spec => ProgrammedOnlyWhenNeeded
<1>1. SetupInv /\ [Next]_vars =>
        [~panel.prog /\ panel'.prog =>
           DisableCloud /\ (panel.right # SettingSet \/ "query" \in trouble)]_vars
  <2>. SUFFICES ASSUME SetupInv, [Next]_vars, ~panel.prog, panel'.prog
                PROVE  DisableCloud /\ (panel.right # SettingSet \/ "query" \in trouble)
    OBVIOUS
  <2>1. pc = "prog_on"
    <3>1. CASE Answer \/ Refuse \/ LastAttemptFails \/ SendFails
      BY <3>1, CommandsComplete, PanelAfter DEF Completes, SetupInv
    <3>2. CASE TimeOut
      BY <3>2, PanelAfter DEF TimeOut, Sending, SetupInv
    <3>3. CASE UpdateLimits \/ Settle \/ LinkLost \/ UNCHANGED vars
      BY <3>3 DEF UpdateLimits, Settle, LinkLost, vars
    <3>4. CASE Reconnect
      <4>1. PICK p \in {panel.prog, FALSE} : panel' = [panel EXCEPT !.prog = p]
        BY <3>4 DEF Reconnect
      <4>. QED BY <4>1 DEF SetupInv, TypeOK, PanelStates
    <3>. QED BY <3>1, <3>2, <3>3, <3>4 DEF Next, Program
  <2>. QED BY <2>1 DEF SetupInv, Accounted, Place, CorrectionsNeeded, ProgCommands
<1>. QED BY <1>1, SetupInvariant, PTL DEF Spec, ProgrammedOnlyWhenNeeded
=============================================================================
