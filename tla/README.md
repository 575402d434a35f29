# A TLA+ model of risco2mqtt

risco2mqtt bridges a Risco alarm panel (TCP, encrypted frames) to an MQTT broker. This
directory holds TLA+ modules of its core, TLC configurations that check them on small
instances, and proofs, checked by TLAPS, about eight of them. Paths below are those of the
repository (`src/` is the crate's source directory).

## 1. Inventory

| Part | State | Operations | What is hard |
|---|---|---|---|
| `transport/command.rs` command engine | `sequence_id`, `pending` map, `pipeline_semaphore`, `in_prog`, `connected`, CRC counters, `last_received_unsolicited_id` | `send_command`, `send_ack`, `send_raw`, `handle_bad_crc`, `disconnect` | concurrent callers, a late reply, retries, the wrap of the id counter, a timer racing a reply |
| `transport/direct.rs` reader task, handshake | `leftover`, the socket | `connect`, `split_messages`, `process_message`, `emit_panel_data` | chunks of TCP, damaged and repeated frames, end of stream, BOOTRES |
| `transport/discovery.rs` | `last_received_buffer`, `crypt_key_valid` | `discover_panel_id` | a guess that is right by accident |
| `crypto.rs` | pseudo buffer, position | `encode_command`, `decode_message` | byte stuffing under encryption |
| `comm.rs` set-up | panel type, firmware, limits | `connect`, `verify_panel_configuration`, `modify_panel_config` | a command repeated whose first copy was executed, errors taken for values, a failure in the middle of programming mode |
| `comm.rs` device queries | none of their own | `get_all_zones`, `get_all_outputs`, `get_all_partitions` | a list that ends with N19, error codes taken for data |
| `config.rs` | the configuration | limits by type and firmware, version comparison, reading the file | a version shorter than the limit's, a file broken in one part |
| `panel.rs` | the cached devices, the event channel, the watchdog | `connect`, `reconnect`, `discover_devices`, arm, disarm, bypass, `route_panel_data`, `refresh_status` | decisions on a cache, Disconnected events without a receiver |
| `main.rs` `main` | configuration in use, signal streams, task handles | connect, start, wait for a signal, abort, reload | tasks aborted anywhere, signals during a restart |
| `main.rs` Task 1 | receiver, configuration memorised | events, reconnection | replaces the panel object others are using |
| `main.rs` Task 2 | MQTT event loop | subscribe, commands, ARM with exclusions | awaits room on the queue that it empties; releases the mutex in the middle of an ARM |
| `main.rs` Task 3 | timer | poll and snapshot | holds the mutex across network calls |
| `event.rs` | broadcast channel of 256 events | send, receive, lag | overwritten events |
| `protocol.rs`, `error.rs`, `constants.rs`, `devices/*` | none of their own, or flags | formatting, parsing, flags | error texts read as flags |

The tasks interact through the panel mutex (`Arc<Mutex<RiscoPanel>>`), the broadcast channel
of the current connection, the bounded request queue of rumqttc, and, below `RiscoPanel`, the
pending map and the connected flag that callers and the reader task share. Callers of
`send_command` are the watchdog of the connection and whoever holds the panel mutex. `main`
starts and aborts the tasks and shares nothing else with them.

What makes each part correct: a caller gets the reply to its own command, and an answer of
some kind always; the panel's pushes are taken once and in order; what is framed is decoded;
set-up leaves the panel's settings right and the panel out of programming mode; discovery
finds every device and invents none; the cache, and what MQTT was told, agree with the panel
in the end; a session that is lost comes back, and none is thrown away that works; an "ok" to
an MQTT command is true; no task waits for ever; and a signal is obeyed whatever the tasks are
doing. `PROJECT.json` lists the hazards line by line.

## 2. Modules

| Module | Code | Composes or refines |
|---|---|---|
| `CommandEngine` | `send_command`, reply routing, `disconnect` | implements `CommandService` |
| `CommandService` | abstract specification: what `send_command` promises its callers | |
| `UnsolicitedDelivery` | `process_message` for ids 50-99, `send_ack`, `handle_bad_crc` | implements `InOrderDelivery` |
| `InOrderDelivery` | abstract specification: each push received once, in order | |
| `PanelSetup` | `RiscoComm::connect` after the handshake, `config.rs` limits and versions | |
| `DeviceDiscovery` | `discover_devices` and the batch queries of `comm.rs` | |
| `Session` | handshake, panel id discovery, watchdog, retry and reconnection | extends `DeviceDiscovery` |
| `StatusCache` | reader, event channel, cache, Tasks 1 and 3 | |
| `ArmCommands` | Task 2's commands, the cache they decide on, retries as they look to the panel | |
| `MqttBridge` | three tasks, mutex, request queue, broker | |
| `BridgeLifecycle` | `main` around the tasks: start, signals, abort, reload | extends `MqttBridge` |
| `Framing` | `crypto.rs` and `split_messages` | |
| `*Proofs` | theorems about the module named, see 4 | each extends its module |
| `MC*` | instances for TLC | each extends its module |

`CommandEngine`, `PanelSetup`, `Session`, `StatusCache`, `ArmCommands` and `BridgeLifecycle` are
views of one program: each keeps in full what its properties are about and reduces the others
to what they can do to it. In `StatusCache` a query is answered, refused or fails; in
`ArmCommands` and `PanelSetup` a command is executed once or more, or not at all, with or without
a reply, and is repeated when none came. That is what `CommandEngine`'s retries look like from
outside. `CommandService` states the part of it callers rely on: attempts are made one at a time,
an attempt is answered at most once and only to its caller, an answer that has come is returned.
It promises nothing more once ids have run out. `Session` refers to the set-up as one stage that
succeeds or fails; `PanelSetup` is what happens in it.

### How state and actions correspond

**CommandEngine.** An *attempt* `[n, id]` is one claimed id; `n` counts claims and does not
exist in the program, it only says whose reply a caller was given. `pending[i]` is the `n` of
the attempt whose sender is stored. The actions of a caller are the stretches of `send_command`
between awaits: `PassGate` (155-160), `Acquire`, `CheckConnected`, `Claim` (only the counter's
mutex is held), `Insert` (then the map's), `Write`/`WriteFails`, `Receive`, `Timeout` and
`SenderDropped`, and the clean-up of each, which is a step of its own because the timer fires
before the map is locked: `TimeoutCleanup`, `ClosedCleanup`. `outstanding` is what the panel may
still answer, at any time and in any order. `overrun` is a history variable: an id was claimed
`MaxSeq` claims after an attempt that was still in flight or unanswered.

**UnsolicitedDelivery.** The panel is external: one message at a time, repeated until its id is
acknowledged, neighbouring messages with different ids (`DeliveryConstants`). The reader's
actions are the two outcomes of `process_message`. Both directions are FIFO, as TCP is.

**PanelSetup.** `pc` is the command in progress, one for each `send_command` of
`comm.rs:97-304`, and "limits" and "settle" (the fixed sleep after PROG=2) for what happens between
them. The outcomes of a command are `Answer`, `Refuse` (an error code), `TimeOut` (lost, or executed
with its reply lost, and sent again), `LastAttemptFails` and `SendFails`. `CommandError` says which
errors `connect` passes on and which it only logs. Panels answer PROG=1 with an error when they are
in programming mode already, and take settings only there; both are assumptions about the panel,
taken from how `comm.rs` treats those answers. Settings are right or wrong; firmware is a sequence
of numbers, compared as `config.rs` compares it.

**DeviceDiscovery.** `kind`, `batch` and `query` are the place in the nested loops. A batch is the set
of its queries that brought what they asked for; an error code other than N19 is taken for data
and so adds nothing. `links` and `pulses` are allowed to fail. A kind that fails keeps the list the
panel object had (`EndKind(devices, ...)`), as `discover_devices` only logs.

**Session.** `stage` is the place in `connect`; in "devices" the steps are those of
`DeviceDiscovery`. `told[c]` says that Disconnected was sent on the channel of the new or of the
replaced connection; `rx` is the one Task 1 receives from. An event sent while nobody is
subscribed is lost, as tokio's `send` does. A try of the crypt test fails without a reply, with a reply
under the wrong key, or with an error code under the right one (`CryptRefused`), after which the offline
search has a message to go by.

**StatusCache.** `wire` is the stream from the panel, `bus` the part of the broadcast channel
Task 1 has not received, `cache` the devices of the installed panel, `view` what a subscriber of
MQTT knows from snapshots and events. A status is the set of the flags that are set, of those the
snapshot shows. An event of a device says which flags changed, and `Told` is what `handle_panel_event`
makes of it: a message for each flag that became set and for each that became unset, as far as there
are such messages (`SetTold`, `UnsetTold`). For a partition there are all (READY, OPEN, ARMED and the
rest are told by topics of their own or in the `eventStr` of PART_STATUS_CHANGE); for a zone all but the
end of TROUBLE (`main.rs:506-524`). Task 3 holds the mutex from `Tick` to `PublishPolled`, one
step for each query and each answer; what Task 1 does under the mutex is one step each. A
reconnection is `CopyDevices` (under the mutex), `Reconnect` (without it), `Install` and
`PublishReconnected` (two separate locks, as in the code).

**ArmCommands.** One partition; `ready` stands for READY and not OPEN. Decisions read `zoneC`,
`partC`; the panel's own state is `open`, `bypass`, `armed`. A command may name a zone that is
not there (`ZoneIds`): the lists of an ARM skip it, a command for that zone fails. `doubt` is a history
variable naming why a report may be wrong: an attempt to send went without a reply, the cache was
stale or a push was still on its way when the command began, the receiver lagged, somebody acted at
the keypad. `found` is another: the zones that were bypassed when the command began.

**MqttBridge, BridgeLifecycle.** `queue` counts the requests waiting (all that matters is whether
there is room), `subs` the positions of those that subscribe. Task 2 takes requests off in `poll`
only. `phase` is where `main` is; `AbortTasks` ends the three tasks wherever they are, with the
mutex, the client and its queue. The SIGHUP and SIGTERM streams remember one signal each;
`ctrl_c()` listens only while `main` waits in its `select!`. A file is a version number and a flaw;
`owed` is the last flawless version a SIGHUP was sent for. `MqttBridge`'s own `Next` and `FairSpec`
remain for the run `mqtt_queue_full`, whose counterexample needs no restart.

**Framing.** Bytes are a parameter with an XOR; the instance has sixteen. Stuffing and unstuffing,
the two ways a frame is read (with and without encryption), the id that may be missing, and the
CRC over the text after `from_utf8_lossy` are the code's. The two loops that go through data byte by
byte (`decrypt_chars`, `split_messages`) are recursive functions of the position, one value for each turn.
`FrameLengths` is what the code relies on: no message is longer than the pseudo buffer.

## 3. Runs

| Run | Question | Instance | Size |
|---|---|---|---|
| `engine` | Do replies reach the attempt they answer, is anything left behind, is it the service? | 2 callers, ids 1-2, 2 attempts, 2 permits, 2 calls | 586,000 states |
| `engine_live` | Does every call return? | 1 id and 1 permit for 2 callers, so that they compete and the counter wraps at once | about 40 s |
| `delivery` | Are pushes taken once, in order, and acknowledged? | 5 pushes, 3 ids, CRC limit 2 | small |
| `panel_setup` | Is programming mode left, are the settings corrected, do the limits fit? | 2 types configured, 4 kinds of hardware, 4 versions around the two limits, 2 settings, 2 attempts, 2 lost replies, 1 refusal, 1 lost link, 2 connections | 542,000 states |
| `session` | Does the session come back, with the right key and all devices? | 3 keys with the panel's in the middle, 2 retries, 4 faults, 1 refusal, CLOCK limit 3, lists shorter than and as long as the limit | 428,000 states |
| `status_cache` | Does MQTT follow the cache, and the cache the panel? | a zone and a partition, a batch each, two flags, 2 changes of the panel, 1 fault, channel of 3 | 863,000 states |
| `arm_commands` | Is an ok true, are exactly the bypassed zones listed, is the ready event seen? | 2 zones and one that does not exist, 6 commands, 2 attempts, channel of 2 | 2,170,000 states |
| `mqtt_bridge` | Does Task 2 poll and subscribe again, are signals obeyed, is the configuration whole? | queue of 3, one event, tick, command and outage, 2 signals or edits | 171,000 states |
| `framing` | Is what is sent decoded, wherever it is cut? | 2 messages of 26 shapes, 3 keys | 42,000 states |
| `prog_mode_exited` | `comm.rs:258` | as `panel_setup` | violated |
| `arm_resent_toggle` | `command.schema.json:40` | one zone excluded, 2 attempts | violated |
| `mqtt_queue_full` | `main.rs:1266-1269` | queue of 3, two events during an outage | violated |

### Bounds

- `MaxSeq` is 49 in the code; 1 and 2 make the counter wrap within two or three calls. What holds
  for all values is proved.
- `OneFault` (a CONSTRAINT of the engine's runs) admits one of the four things that end a
  connection in a behaviour: any one of them already makes the rest indistinguishable to the
  callers. The proof of `EngineInvariant` has no such bound. In `engine_live` it cuts no step a
  caller is waiting for: none of the four is fair.
- `MaxAttempts` is 3 in the code; 2 give a command that is repeated and one whose last attempt fails.
  In `panel_setup` two lost replies are one repetition in each of two commands, or a command given up.
- Channels and queues of 2 or 3 stand for 256: they are filled in the runs, which is
  what a capacity is for. `EventuallyTrue` needs `BusCapacity` to exceed the changes of one
  refresh; with less, the code can indeed lose the one Disconnected of a rebooted panel.
- Lists of devices are counted in batches of eight; one list is shorter than its limit (it ends with
  N19) and two are exactly as long (they end with the limit). `DevicesFound` is proved for all.
- In `status_cache` two changes of the panel let an older push wait for the mutex while a poll answers
  with a newer status, and be applied after it; two flags, of which the zone's second is told only
  when it is set, are every way a flag can be told. The one fault is a lost connection, a reboot, or a
  query that fails or is refused.
- In `mqtt_bridge` two actions of the operator are a SIGHUP after an edit, two SIGHUPs, an edit of the
  file while it is read again, or a signal during the restart another one caused.
- `MaxFaults`, `MaxOutages`, `MaxChanges` and so on bound the environment, never the program. When
  they are spent the environment is quiet, which is the premise of the liveness properties.
- `CHECK_DEADLOCK FALSE`: every bounded environment comes to rest.

### Fairness

Each task is scheduled (weak fairness of its steps). Strong fairness stands for the queues of
tokio: its semaphore and mutex are FIFO, and an mpsc sender waits in a queue of permits, so a
waiter is not overtaken for ever (`Acquire`, `WithMutex`, and the steps of each task in
`MqttBridge`, where what a task waits for is the mutex or room on the queue). Timers fire.
The programming session ends, because its last step is a fixed sleep; on an error it does not
clear `in_prog`, but then `connect` fails and the engine is dropped before anyone else can call
(`SetupEnds` shows that nothing within the set-up waits for it).
The panel is fair where a property is about what happens once it behaves: it repeats an
unacknowledged push, answers while it is up, and not every frame is damaged
(`UnsolicitedDelivery`: strong fairness of a successful acknowledgement). In `PanelSetup` a command
is answered, lost or refused in the end: a lost reply is a timeout, which is fair by itself. `main`
is scheduled, and `RiscoPanel::connect` returns (`SessionComesBack`): with a panel, or with an error
that ends the process. The broker comes back, as often as it is lost. In `EveryCallReturns`
neither the panel nor the network is fair, and in `ReadyIsSeen` the deadline is not.

### What the violations show

1. *Programming mode is not always left* (`prog_mode_exited`). When the reply to PROG=1 is lost the
   command is sent again; the panel, which executed the first, answers with an error; the error is
   only logged, and neither the corrections nor PROG=2 are sent. The comment at `comm.rs:258` promises
   the exit. `ProgModeLeft` is the same statement with the case excepted, and holds.
2. *A toggle sent twice undoes itself* (`arm_resent_toggle`), and the ARM reports ok.
3. *A full request queue stops Task 2 for good* (`mqtt_queue_full`). `PollsAgain` and `SubscribedAgain`
   hold as long as the queue does not fill; a SIGHUP or SIGTERM still gets through (`SignalsObeyed`), and
   the subscription is not forgotten even then: it waits on the queue (`SubscriptionKept`).

### Observed while modelling, and not the subject of a run

- Ids are not unique in flight (`command.rs:148-150` says the mutex makes them so): the counter goes
  round without asking the map. After `MaxSeq` further claims the second `insert` drops the first
  caller's sender, which is told ChannelClosed and does not retry; the first reply reaches the second
  caller. `OwnReply` and its companions hold up to the first such overrun.
- An error reply is a status: `refresh_status` (`panel.rs:630`) does not test for error codes, so a
  snapshot may show flags read from the text of one. `SnapshotIsPolled` excepts it.
- The first snapshot after a reconnection is the copied cache, not a poll; the next poll mends it.
- Outputs and system status are never polled and not in the snapshot, so what changed while the bridge
  was disconnected stays unnoticed until the next push about it.
- A zone's TROUBLE has an event when it begins and none when it ends: a subscriber that follows events
  keeps it until the next snapshot. `SubscriberFollowsCache` says so by its two directions, one for flags whose
  setting is told and one for those whose clearing is. With `snapshot_interval_secs = 0` only a
  reconnection or a SNAPSHOT command brings one: tokio's interval panics, in Task 3 only. The first `update_status` of a
  device is silent; of the system it is the first push after discovery.
- "Already disarmed" is answered from the cache; a panel armed since the last push is not disarmed.
- Pushes in flight when an ARM begins can make the cached partition look armed while the ARM waits: it
  then reports ok without arming. `OkIsTrue` excepts it as a stale cache.
- A zone named twice in the exclusions of an ARM is toggled twice (`Distinct` in `OkIsTrue`).
- Discovery that fails for the zones but not for the partitions is never repeated. When it is repeated,
  because both lists are empty, it may replace the outputs by a shorter list and the system by a blank one.
- Firmware "3" counts as before "3.0" in `config.rs`, as its comment says; a LightSys that reports "3"
  gets the limits of the older firmware.
- A reply lost in the crypt test makes the first connect fail for good, unlike other timeouts.
- After the CRC limit the reader sends Disconnected again for each bad frame; `NoSpuriousReconnect`
  shows that it does no harm, because Task 1 drops the old channel's receiver.
- A SIGINT that comes while `main` reconnects after a SIGHUP is lost, and a failure of that connect
  ends the process.
- After `bypass_failed` or a timeout the zones already bypassed stay so; the report names exactly them
  (`ReportListsBypassed`), except a zone whose toggle got no reply: whether the panel executed it the
  bridge cannot tell, and does not say.

## 4. Proofs

No proof assumes more than the ASSUMEs of the modules. Bounds of the environment (`MaxCalls`,
`MaxFaults`, `MaxChanges`, ...) are any natural numbers in them.

| Module | Assumptions | Theorems |
|---|---|---|
| `CommandEngineProofs` | `EngineConstants`, `CallersFinite` | `EngineInvariant`, `RepliesReachTheirCallers`, `NobodyIsClosed`, `NothingIsLeft`, `TypeCorrect`, `PermitsAreConserved`, `CommandsAreServed` (refinement) |
| `UnsolicitedDeliveryProofs` | `DeliveryConstants` | `DeliveryInvariant`, `DeliveryRefinement` |
| `PanelSetupProofs` | `SetupConstants` | `ProgrammingModeIsLeft`, `SettingsAreCorrected`, `LimitsAreThePanels`, `ProgrammingIsNeeded`, `TypeCorrect`; on `compare_version`, `VersionsCompared` |
| `SessionProofs` | `SessionConstants`, `DiscoveryConstants` | `TheKeyIsRight`, `AllDevicesFound`, `ListsAreKept`, `ReconnectsHaveReasons`, `TypeCorrect` |
| `StatusCacheProofs` | `CacheConstants`, `DevicesFinite` | `PolledSnapshots`, `SubscribersFollow`, `TypeCorrect` |
| `ArmCommandsProofs` | `ArmConstants`, `ZonesFinite` | `NoReadyMissed`, `OkReportsAreTrue`, `ReportsListTheBypassed`, `TypeCorrect` |
| `BridgeLifecycleProofs` | `BridgeConstants`, `LifecycleConstants` | `ConfigurationInUse`, `SubscriptionIsKept`, `MutexIsForPublishing`, `TypeCorrect`, of `LifecycleSpec` |
| `FramingProofs` | `FramingConstants`, `FrameLengths` | `Survival`, `ChunksIrrelevant`, `TypeCorrect`; on the code's functions `SplitFrames`, `DecodeFrame` |

**CommandEngine.** `OwnReply` is not inductive: that a reply finds its own sender depends on no other
live attempt having its id, and that on how ids are handed out. `Numbering` says it: the attempt
claimed `a` claims ago, with `a < MaxSeq`, has the id `IdAt(sequence_id, a)`, a place on the cycle. So
two live attempts with the same id are the same (`SameIdSameAttempt`), as long as all are younger than
`MaxSeq` claims (`WithinMaxSeq`, which is what `overrun` is about). `SenderPlace` says that a sender
is stored under its own id and only after `Insert`; `ReceiverState` that a receiver is either empty
with its sender stored or holds its own reply. The steps between `Claim` and `Insert`, and between
`Timeout` and its clean-up, are where the care goes: another caller may act in either gap.

**The service.** The mapping takes the callers past the gate for those calling, the live attempt for
`attempt`, the reply received for `reply`, and `overrun` for `lost`. `ServiceInv` adds `Unanswered` to
`EngineInv`. Permits are counted with the theorems on finite sets.

**Delivery.** Frames towards the reader are of the latest message emitted or newer, ACKs of the latest
or older, all within one message of the current one, and both sorted. That is why one remembered id
is enough.

**PanelSetup.** `Accounted` says, at each place of `connect`, which settings are right already or queued
still, why the panel is in programming mode, and which type and firmware the limits come from.

**Session.** `DiscoveryInv` says what has been found and answered at each place of the loops, `KeyInv`
that the key is the panel's from set-up on and the configuration's from the first ready session on,
`ChannelInv` that Disconnected was sent on the channel of the installed panel only if it is unusable or
its watchdog gave up.

**StatusCache.** `SubscriberFollowsCache` goes flag by flag: the newest event still to be announced that
says a flag changed has its cached value. `FollowInv` keeps that (`NewestIsCached`) even when events were
overwritten, which is not a reason to overwrite the newest, and separately what holds of a flag no event
is still to come about (`ToldIsCached`), which depends on the messages there are for it. `PollInv` says that
while Task 3 holds the mutex there is at most one answer, on the wire or in its hands, about the query
it is at, that it was true when given, and that what earlier queries stored was.

**ArmCommands.** `Truth` says what a command relies on while nothing makes its report doubtful: the cache
holds for the zones it has still to look at, those it dealt with are as it wants them, and the cached
partition, and every push still to come, is as armed as the panel; and an ARM's list holds exactly the
zones that are bypassed now and were not when it began, which is `ReportListsBypassed`. `Stage`
is the order of the steps of `arm_with_exclusions`. `NoMissedReady` is inductive with them.

**BridgeLifecycle.** A version owed is not newer than the file, and is in use already unless `main`
has a SIGHUP to act on and the file is flawless, in which case it will be. `SubscriptionKept` is inductive:
Task 2 asks for the subscription after every connection the broker accepts, before anything else, and a
request is only lost with the connection or with the tasks. `MutexForPublishing`, that a task holds the
panel mutex across steps exactly while it publishes, needs `MutexInv`: nobody holds it between the
end of the tasks and the next start. So whoever waits for the mutex waits for a task that waits for
nothing but room on the request queue, which is what violation 3 above is about.

**Framing.** The inductive invariant says that the first messages are decoded, each into what
`DecodeMessage` makes of its frame alone, and that `leftover` and the wire are the frames of the others, the
first of them incomplete. A read keeps it by `SplitFrames`: of a stream of frames, of which only the
beginning has come, `split_messages` splits off exactly the frames that end in it. That rests on `FrameEnd`,
that no ETX but the last byte of a frame is without a DLE before it that is not escaped itself: the bytes of an
encrypted message that look like framing bytes are stuffed, and an unencrypted message has none. `DecodeFrame`
says what one frame becomes: after the bytes that stand for the first n of the message `decrypt_chars` has
these n, although a stuffed pair advances the key by one (`DecryptFrame`); the id, the separator and the CRC
are then where the decoder looks. These lemmas go through data of any length by induction, in the form of
`Induction`: a set of numbers that has 0 and with n also n + 1 has them all. The library's induction theorems,
which take an operator, cannot be used, but the well-foundedness of < can. The invariant was model-checked on
the instance of `framing`. What is assumed of XOR is that doing it twice undoes it, of the CRC that its
characters are plain text; so a damaged frame, and whether the CRC detects it, is not in these theorems.

Model-checked only: liveness (fairness and ENABLED are out of the prover's reach): `EveryCallReturns`,
`EventuallyAcknowledged`, `EventuallyTrue`, `ReadyIsSeen`, `SessionComesBack`, `SetupEnds`, `PollsAgain`,
`SubscribedAgain`, `SignalsObeyed`; and the three violations. Every invariant of a run that passes is
also a theorem.

## 5. Not modelled

- Outputs and system status after their discovery (pushes, events, `toggle_output`): the pattern of
  zones without a poll and without a place in the snapshot.
- ARM_GROUP (ARM with another command text), RAW commands, JSON, topics, labels: formatting.
- What is in a configuration file: a file is whole or flawed. `snapshot_interval_secs = 0`, which panics
  in Task 3, is not modelled.
- That `abort` is not awaited after a signal, and the panel may get no DCN before the next connection:
  whether a panel then refuses it is not in this code.
- The pushes of the panel during discovery: they are stored by no one yet (Task 1 subscribes later),
  which is why `StatusCache` starts from any cache.
- Password discovery (not implemented in the code); the pseudo-buffer generator and the CRC polynomial
  (parameters of `Framing`); the transport trait, constants, examples and schemas (no behaviour).

rumqttc, tokio and the panel are external: modelled from how the code uses them.

## 6. Plan

Done, in this order: `CommandEngine`; `UnsolicitedDelivery` and `InOrderDelivery`; `StatusCache`;
`ArmCommands`; `Session`; `MqttBridge`; `Framing`; then `PanelSetup`, `DeviceDiscovery`,
`BridgeLifecycle` and `CommandService`, and the proofs of section 4.

What could come next: outputs and system status in `StatusCache`; `ArmCommands` and `StatusCache` on top
of `CommandService` in one module each, with its assumptions about the panel; more than one partition
in `ArmCommands`. Of the proofs: the safety part of `EventuallyTrue` (a device whose
cached status is wrong has a push or a poll still to come), and that frames and delivery together
implement one channel of messages.
