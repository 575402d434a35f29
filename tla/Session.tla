------------------------------- MODULE Session -------------------------------
(***************************************************************************)
(* The life of a panel session: the handshake of transport/direct.rs, the     *)
(* panel id discovery of transport/discovery.rs, the set-up of comm.rs, the   *)
(* device discovery and watchdog of panel.rs, the retry loop of               *)
(* RiscoPanel::connect and the reconnection loop of Task 1 in main.rs.        *)
(*                                                                          *)
(* A key stands for a panel id: messages decode only when both sides use the  *)
(* same one.  Delays are left out; every wait simply ends.                   *)
(***************************************************************************)
EXTENDS DeviceDiscovery

CONSTANTS
    Keys,          \* panel ids (0-9999)
    PanelKey,      \* the id the panel uses
    ConfiguredKey, \* panel_id of the configuration
    DiscoverCode,  \* discover_code of the configuration
    MaxRetries,    \* max_connect_retries
    CryptTries,    \* tries of the crypt test (3)
    ClockLimit,    \* CLOCK failures in a row that end a connection (6)
    MaxFaults,     \* bound: faults of the network and the panel
    MaxRefusals    \* bound: commands answered with an error

ASSUME SessionConstants ==
    /\ Keys \subseteq Nat /\ PanelKey \in Keys /\ ConfiguredKey \in Keys
    /\ DiscoverCode \in BOOLEAN
    /\ MaxRetries \in Nat /\ MaxFaults \in Nat /\ MaxRefusals \in Nat
    /\ CryptTries \in Nat \ {0} /\ ClockLimit \in Nat \ {0}

VARIABLES
    again,       \* the attempts are those of Task 1's reconnection loop
    stage,       \* how far the session is
    retries,     \* failed attempts of RiscoPanel::connect
    cfg_key,     \* panel_id of the configuration used for the next attempt
    key,         \* panel_id of the crypto engine
    tries,       \* tries of the crypt test
    captured,    \* last_received_buffer holds a message of the panel
    link,        \* the TCP connection is alive
    connected,   \* the engine's connected flag
    session,     \* the panel still knows the session (it has not rebooted)
    clocks,      \* consecutive CLOCK failures; the watchdog stops at the limit
    told,        \* Disconnected sent on the channel of this and the last panel
    rx,          \* the channel Task 1 receives from, or "none"
    budget

linkVars == <<link, connected, session>>
vars == <<again, stage, retries, cfg_key, key, tries, captured, linkVars, clocks,
          told, rx, discoveryVars, budget>>

Handshake == {"rmt", "lcl", "crypt", "discover", "verify", "setup"}
Stages == {"tcp", "devices", "subscribe", "ready", "exit"} \cup Handshake

(* Types, and the limits of the code's counters: RiscoPanel::connect retries   *)
(* at most max_connect_retries times, the crypt test has CryptTries tries,    *)
(* and the watchdog stops at ClockLimit failures.                            *)
TypeOK ==
    /\ again \in BOOLEAN /\ stage \in Stages
    /\ retries \in 0..MaxRetries
    /\ cfg_key \in Keys /\ key \in Keys
    /\ tries \in 0..CryptTries
    /\ {captured, link, connected, session} \subseteq BOOLEAN
    /\ clocks \in 0..ClockLimit
    /\ told \in [{"new", "old"} -> BOOLEAN]
    /\ rx \in {"none", "new", "old"}
    /\ budget \in [faults : 0..MaxFaults, refusals : 0..MaxRefusals]
    /\ DiscoveryTypeOK

Init ==
    /\ again = FALSE /\ stage = "tcp" /\ retries = 0
    /\ cfg_key = ConfiguredKey /\ key = ConfiguredKey
    /\ tries = 0 /\ captured = FALSE
    /\ link = FALSE /\ connected = FALSE /\ session = FALSE
    /\ clocks = 0
    /\ told = [c \in {"new", "old"} |-> FALSE]
    /\ rx = "none"
    /\ DiscoveryInit
    /\ budget = [faults |-> MaxFaults, refusals |-> MaxRefusals]

Spend(what) == budget[what] > 0 /\ budget' = [budget EXCEPT ![what] = @ - 1]

Usable == link /\ connected /\ session

(* What a command that gets no reply fails with. *)
CommandError == IF ~link \/ ~connected THEN "Disconnected" ELSE "CommandTimeout"

-----------------------------------------------------------------------------
(* The end of an attempt *)

Retryable(e) == e \in {"Io", "CommandTimeout", "Disconnected"}

(* Mutant: one retry too many. *)
FailLate(e) ==
    \/ again /\ stage' = "tcp" /\ UNCHANGED retries
    \/ /\ ~again /\ Retryable(e) /\ retries <= MaxRetries
       /\ stage' = "tcp"
       /\ retries' = retries + 1
    \/ /\ ~again /\ (~Retryable(e) \/ retries > MaxRetries)
       /\ stage' = "exit"
       /\ UNCHANGED retries

(* RiscoPanel::connect gives up on an error it does not retry, and after       *)
(* MaxRetries; the reconnection loop tries again whatever the error.          *)
Fail(e) ==
    \/ again /\ stage' = "tcp" /\ UNCHANGED retries
    \/ /\ ~again /\ Retryable(e) /\ retries < MaxRetries
       /\ stage' = "tcp"
       /\ retries' = retries + 1
    \/ /\ ~again /\ (~Retryable(e) \/ retries = MaxRetries)
       /\ stage' = "exit"
       /\ UNCHANGED retries

GoOn(next) == stage' = next /\ UNCHANGED retries

common == <<again, cfg_key, linkVars, clocks, told, rx>>

(* A command of the handshake that fails does so with send_command's error; a  *)
(* reply can also be lost while the session is usable.                       *)
NoReply == \/ ~Usable /\ UNCHANGED budget
           \/ Usable /\ Spend("faults")

-----------------------------------------------------------------------------
(* DirectTcpTransport::connect *)

TcpConnects ==
    /\ stage = "tcp"
    /\ GoOn("rmt")
    /\ key' = cfg_key
    /\ captured' = FALSE
    /\ link' = TRUE /\ connected' = TRUE /\ session' = TRUE
    /\ clocks' = 0
    /\ told' = [c \in {"new", "old"} |-> c = "old" /\ rx # "none"]
    /\ rx' = IF rx = "none" THEN "none" ELSE "old"
    /\ UNCHANGED <<again, cfg_key, tries, discoveryVars, budget>>

TcpFails ==
    /\ stage = "tcp"
    /\ Spend("faults")
    /\ Fail("Io")
    /\ UNCHANGED <<common, key, tries, captured, discoveryVars>>

(* RMT and LCL; setup is the PNLCNF, PROG and other queries of comm.rs whose   *)
(* error ends the attempt.                                                  *)
After == [rmt |-> "lcl", lcl |-> "crypt"]

CommandAcked ==
    /\ stage \in {"rmt", "lcl"}
    /\ Usable
    /\ GoOn(After[stage])
    /\ tries' = 0
    /\ UNCHANGED <<common, key, captured, discoveryVars, budget>>

CommandRefused ==
    /\ stage \in {"rmt", "lcl"}
    /\ Usable
    /\ Spend("refusals")
    /\ Fail("BadAccessCode")
    /\ UNCHANGED <<common, key, tries, captured, discoveryVars>>

CommandUnanswered ==
    /\ stage \in {"rmt", "lcl", "setup"}
    /\ NoReply
    /\ Fail(CommandError)
    /\ UNCHANGED <<common, key, tries, captured, discoveryVars>>

CryptPasses ==
    /\ stage = "crypt"
    /\ Usable /\ key = PanelKey
    /\ GoOn("setup")
    /\ captured' = TRUE
    /\ UNCHANGED <<common, key, tries, discoveryVars, budget>>

(* After the last try: discovery if it is enabled, else BadCryptKey. *)
CryptTryFails ==
    /\ \/ /\ tries + 1 < CryptTries
          /\ tries' = tries + 1
          /\ GoOn("crypt")
       \/ /\ tries + 1 = CryptTries
          /\ tries' = 0
          /\ \/ DiscoverCode /\ GoOn("discover")
             \/ ~DiscoverCode /\ Fail("BadCryptKey")
    /\ UNCHANGED <<common, key, discoveryVars>>

(* The reply of a panel with another key fails the CRC test: it is captured,   *)
(* and the command times out.                                               *)
CryptWrongKey ==
    /\ stage = "crypt"
    /\ Usable /\ key # PanelKey
    /\ captured' = TRUE
    /\ CryptTryFails
    /\ UNCHANGED budget

(* The reply is right but for being an error code. *)
CryptRefused ==
    /\ stage = "crypt"
    /\ Usable /\ key = PanelKey
    /\ Spend("refusals")
    /\ captured' = TRUE
    /\ CryptTryFails

CryptUnanswered ==
    /\ stage = "crypt"
    /\ NoReply
    /\ CryptTryFails
    /\ UNCHANGED captured

(* Mutant: the discovered id is used without the confirming command. *)
DiscoverUnconfirmed ==
    /\ stage = "discover"
    /\ \/ /\ captured
          /\ \E k \in Keys : k >= PanelKey /\ key' = k
          /\ GoOn("setup")
       \/ /\ ~captured
          /\ Fail("DiscoveryFailed")
          /\ UNCHANGED key
    /\ UNCHANGED <<common, tries, captured, discoveryVars, budget>>

(* The first id, from the top, whose decoding of the captured message has a    *)
(* right CRC: the panel's, or one above it by accident.                      *)
Discover ==
    /\ stage = "discover"
    /\ \/ /\ captured
          /\ \E k \in Keys : k >= PanelKey /\ key' = k
          /\ GoOn("verify")
       \/ /\ ~captured
          /\ Fail("DiscoveryFailed")
          /\ UNCHANGED key
    /\ UNCHANGED <<common, tries, captured, discoveryVars, budget>>

(* Any error of the confirming command is DiscoveryFailed. *)
Verify ==
    /\ stage = "verify"
    /\ \/ /\ Usable /\ key = PanelKey
          /\ GoOn("setup") /\ UNCHANGED budget
       \/ /\ Usable /\ key # PanelKey
          /\ Fail("DiscoveryFailed") /\ UNCHANGED budget
       \/ /\ (Usable /\ key = PanelKey /\ Spend("refusals")) \/ NoReply
          /\ Fail("DiscoveryFailed")
    /\ UNCHANGED <<common, key, tries, captured, discoveryVars>>

-----------------------------------------------------------------------------
(* The rest of RiscoPanel::try_connect *)

(* Mutant: the devices are looked for again when one kind is missing. *)
SetUpIncomplete ==
    /\ stage = "setup"
    /\ Usable
    /\ IF devices.zones # <<>> /\ devices.parts # <<>>
       THEN GoOn("subscribe") /\ UNCHANGED discoveryVars
       ELSE GoOn("devices") /\ StartDiscovery
    /\ UNCHANGED <<common, key, tries, captured, budget>>

(* Devices found before are kept; nothing is queried once there are any. *)
SetUp ==
    /\ stage = "setup"
    /\ Usable
    /\ IF HasDiscoveredDevices
       THEN GoOn("subscribe") /\ UNCHANGED discoveryVars
       ELSE GoOn("devices") /\ StartDiscovery
    /\ UNCHANGED <<common, key, tries, captured, budget>>

(* A query of the discovery that fails is only logged. *)
DiscoverDevices ==
    /\ stage = "devices"
    /\ \/ Usable /\ (QueryAnswered \/ NoSuchDevice) /\ UNCHANGED budget
       \/ Usable /\ QueryRefused /\ Spend("refusals")
       \/ NoReply /\ QueryFails
    /\ GoOn(IF kind' = "none" THEN "subscribe" ELSE "devices")
    /\ UNCHANGED <<common, key, tries, captured>>

(* Mutant: Task 1 goes on receiving from the channel of the old panel. *)
SubscribeToOld ==
    /\ stage = "subscribe"
    /\ stage' = "ready"
    /\ rx' = IF rx = "none" THEN "new" ELSE rx
    /\ cfg_key' = key
    /\ retries' = 0
    /\ UNCHANGED <<again, key, tries, captured, linkVars, clocks, told, discoveryVars, budget>>

(* main.rs takes the configuration of the new panel, subscribes to its events, *)
(* and the old panel, if any, is dropped.                                    *)
Subscribe ==
    /\ stage = "subscribe"
    /\ stage' = "ready"
    /\ rx' = "new"
    /\ cfg_key' = key
    /\ told' = [told EXCEPT !["old"] = FALSE]
    /\ retries' = 0
    /\ UNCHANGED <<again, key, tries, captured, linkVars, clocks, discoveryVars, budget>>

(* Task 1 receives Disconnected. *)
StartReconnecting ==
    /\ stage = "ready"
    /\ told[rx]
    /\ stage' = "tcp"
    /\ again' = TRUE
    /\ UNCHANGED <<retries, cfg_key, key, tries, captured, linkVars, clocks, told, rx,
                   discoveryVars, budget>>

-----------------------------------------------------------------------------
(* What may happen to a connection *)

progress == <<again, stage, retries, cfg_key, key, tries, captured, rx, discoveryVars>>

(* Sent on a channel without a receiver, an event is lost. *)
TellDisconnected ==
    told' = IF rx = "new" THEN [told EXCEPT !["new"] = TRUE] ELSE told

LinkLost ==
    /\ stage \notin {"tcp", "exit"}
    /\ link
    /\ Spend("faults")
    /\ link' = FALSE
    /\ UNCHANGED <<progress, connected, session, clocks, told>>

(* The reader task sees the end of the stream, or socket_timeout. *)
ReaderEnds ==
    /\ stage \notin {"tcp", "exit"}
    /\ ~link /\ connected
    /\ connected' = FALSE
    /\ TellDisconnected
    /\ UNCHANGED <<progress, link, session, clocks, budget>>

(* Too many bad CRCs, outside the crypt test. *)
CrcLimit ==
    /\ stage \notin {"tcp", "exit", "crypt", "discover", "verify"}
    /\ link /\ connected
    /\ Spend("faults")
    /\ connected' = FALSE
    /\ TellDisconnected
    /\ UNCHANGED <<progress, link, session, clocks>>

(* BOOTRES: the panel has forgotten the session. *)
Reboot ==
    /\ stage \in {"devices", "subscribe", "ready"}
    /\ Usable
    /\ Spend("faults")
    /\ session' = FALSE
    /\ TellDisconnected
    /\ UNCHANGED <<progress, link, connected, clocks>>

(* The watchdog runs from the end of try_connect.  It is slower than main.rs   *)
(* is to subscribe: it does not reach its limit before.                      *)
Watched == stage \in {"subscribe", "ready"}

(* Mutant: the watchdog gives up without an event. *)
ClockFailsSilently ==
    /\ Watched
    /\ NoReply
    /\ clocks < (IF rx = "new" THEN ClockLimit ELSE ClockLimit - 1)
    /\ clocks' = clocks + 1
    /\ UNCHANGED <<progress, linkVars, told>>

ClockFails ==
    /\ Watched
    /\ NoReply
    /\ clocks < (IF rx = "new" THEN ClockLimit ELSE ClockLimit - 1)
    /\ clocks' = clocks + 1
    /\ IF clocks' = ClockLimit THEN TellDisconnected ELSE UNCHANGED told
    /\ UNCHANGED <<progress, linkVars>>

ClockAnswered ==
    /\ Watched
    /\ Usable
    /\ clocks \in 1..(ClockLimit - 1)
    /\ clocks' = 0
    /\ UNCHANGED <<progress, linkVars, told, budget>>

-----------------------------------------------------------------------------
Connecting == \/ TcpConnects \/ CommandAcked \/ CryptPasses
              \/ CryptWrongKey \/ Discover \/ Verify \/ SetUp \/ DiscoverDevices
              \/ Subscribe

NoAnswer == CommandUnanswered \/ CryptUnanswered

Next == \/ Connecting \/ NoAnswer \/ TcpFails \/ CommandRefused \/ CryptRefused
        \/ StartReconnecting
        \/ LinkLost \/ ReaderEnds \/ CrcLimit \/ Reboot
        \/ ClockFails \/ ClockAnswered

Spec == Init /\ [][Next]_vars

(* Every task is scheduled, every wait ends, and a usable session is answered. *)
FairSpec ==
    /\ Spec
    /\ WF_vars(Connecting) /\ WF_vars(~Usable /\ NoAnswer)
    /\ WF_vars(StartReconnecting) /\ WF_vars(ReaderEnds)
    /\ WF_vars(~Usable /\ ClockFails)

-----------------------------------------------------------------------------
(* A session is used only with the panel's own key, whatever discovery had to  *)
(* guess, and once it was, the configuration kept for reconnections has it.   *)
RightKey ==
    /\ stage \in {"setup", "devices", "subscribe", "ready"} => key = PanelKey
    /\ again => cfg_key = PanelKey

(* Task 1 starts a reconnection only when the connection it has is unusable,   *)
(* or six CLOCKs have failed on it: an event of a connection it has already   *)
(* replaced never ends the new one.                                         *)
NoSpuriousReconnect ==
    [][stage = "ready" /\ stage' = "tcp" => ~Usable \/ clocks = ClockLimit]_vars

(* A reconnection never loses a device: a list of zones or partitions that was *)
(* found, and announced to MQTT, is not emptied or cut by queries that fail    *)
(* later.                                                                   *)
ListsKept ==
    [][\A k \in {"zones", "parts"} :
         devices[k] # <<>> => devices'[k] = devices[k]]_vars

(* When the faults stop, the session comes back, or the first connect gave up: *)
(* no lost Disconnected event and no silent panel leaves it down for ever.     *)
SessionComesBack == <>[](stage = "exit" \/ (stage = "ready" /\ Usable))
=============================================================================
