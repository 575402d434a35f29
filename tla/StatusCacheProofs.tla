-------------------------- MODULE StatusCacheProofs --------------------------
(***************************************************************************)
(* The cache, the snapshots and the events of the bridge, for any number of   *)
(* devices, queries and statuses and any capacity of the event channel.      *)
(***************************************************************************)
EXTENDS StatusCache, FiniteSetTheorems, SequenceTheorems, TLAPS

-----------------------------------------------------------------------------
(* Sequences *)

(* SetToSeq lists every element of a finite set. *)
LEMMA Listed ==
    ASSUME NEW S, IsFiniteSet(S)
    PROVE  /\ SetToSeq(S) \in Seq(S)
           /\ \A x \in S : \E i \in 1..Len(SetToSeq(S)) : SetToSeq(S)[i] = x
<1>. DEFINE n == Cardinality(S)
            q == SetToSeq(S)
<1>1. n \in Nat /\ ExistsBijection(1..n, S)
  BY FS_CardinalityType
<1>2. \E f \in [1..n -> S] : IsInjective(f)
  BY <1>1 DEF ExistsBijection, Bijection, Injection
<1>3. q \in [1..n -> S] /\ IsInjective(q)
  BY <1>2 DEF SetToSeq
<1>. HIDE DEF q
<1>4. q \in Injection(1..n, S)
  BY <1>3 DEF Injection, IsInjective
<1>5. IsFiniteSet(1..n) /\ Cardinality(1..n) = n
  BY <1>1, FS_Interval
<1>. HIDE DEF n
<1>6. q \in Surjection(1..n, S)
  BY <1>4, <1>5, FS_Injection DEF n
<1>7. q \in Seq(S) /\ Len(q) = n
  BY <1>1, <1>3
<1>8. \A x \in S : \E i \in 1..n : q[i] = x
  BY <1>6 DEF Surjection
<1>. QED BY <1>7, <1>8 DEF q

LEMMA AppendAt ==
    ASSUME NEW S, NEW q \in Seq(S), NEW e \in S
    PROVE  /\ Append(q, e) \in Seq(S) /\ Len(Append(q, e)) = Len(q) + 1 /\ Len(q) \in Nat
           /\ \A i \in 1..Len(Append(q, e)) :
                 \/ i \in 1..Len(q) /\ Append(q, e)[i] = q[i]
                 \/ i = Len(q) + 1 /\ Append(q, e)[i] = e
  OBVIOUS

LEMMA TailAt ==
    ASSUME NEW S, NEW q \in Seq(S), q # <<>>
    PROVE  /\ Tail(q) \in Seq(S) /\ Len(q) \in Nat \ {0} /\ Len(Tail(q)) = Len(q) - 1
           /\ Head(q) = q[1] /\ Head(q) \in S /\ 1 \in 1..Len(q)
           /\ \A i \in 1..(Len(q) - 1) : Tail(q)[i] = q[i + 1] /\ i + 1 \in 1..Len(q)
  OBVIOUS

(* Where the elements of a sequence without its k-th come from. *)
LEMMA RemovedAt ==
    ASSUME NEW S, NEW q \in Seq(S), NEW k \in 1..Len(q)
    PROVE  /\ RemoveAt(q, k) \in Seq(S) /\ Len(RemoveAt(q, k)) = Len(q) - 1 /\ Len(q) \in Nat
           /\ \A i \in 1..Len(RemoveAt(q, k)) :
                 \E j \in 1..Len(q) : j # k /\ RemoveAt(q, k)[i] = q[j]
<1>. DEFINE a == SubSeq(q, 1, k - 1)
            b == SubSeq(q, k + 1, Len(q))
<1>1. Len(q) \in Nat /\ k \in Nat /\ 1 <= k /\ k <= Len(q)
  BY LenProperties
<1>2. /\ a \in Seq(S) /\ Len(a) = k - 1
      /\ \A i \in 1..(k - 1) : a[i] = q[i]
  BY <1>1
<1>3. /\ b \in Seq(S) /\ Len(b) = Len(q) - k
      /\ \A i \in 1..(Len(q) - k) : b[i] = q[k + i]
  BY <1>1
<1>. HIDE DEF a, b
<1>4. /\ a \o b \in Seq(S) /\ Len(a \o b) = Len(q) - 1
      /\ \A i \in 1..(Len(q) - 1) : (a \o b)[i] = IF i <= k - 1 THEN a[i] ELSE b[i - (k - 1)]
  <2>1. /\ a \o b \in Seq(S) /\ Len(a \o b) = Len(a) + Len(b)
        /\ \A i \in 1..(Len(a) + Len(b)) : (a \o b)[i] = IF i <= Len(a) THEN a[i] ELSE b[i - Len(a)]
    BY <1>2, <1>3, ConcatProperties
  <2>2. Len(a) = k - 1 /\ Len(a) + Len(b) = Len(q) - 1
    BY <1>1, <1>2, <1>3
  <2>. QED BY <2>1, <2>2
<1>5. ASSUME NEW i \in 1..(Len(q) - 1)
      PROVE  \E j \in 1..Len(q) : j # k /\ (a \o b)[i] = q[j]
  <2>1. CASE i <= k - 1
    <3>1. i \in 1..(k - 1) /\ i \in 1..Len(q) /\ i # k
      BY <1>1, <2>1
    <3>2. (a \o b)[i] = q[i]
      BY <1>2, <1>4, <2>1, <3>1
    <3>. QED BY <3>1, <3>2
  <2>2. CASE ~(i <= k - 1)
    <3>1. i - (k - 1) \in 1..(Len(q) - k) /\ i + 1 \in 1..Len(q) /\ i + 1 # k
          /\ k + (i - (k - 1)) = i + 1
      BY <1>1, <2>2
    <3>2. (a \o b)[i] = b[i - (k - 1)] /\ b[i - (k - 1)] = q[i + 1]
      BY <1>3, <1>4, <2>2, <3>1
    <3>. QED BY <3>1, <3>2
  <2>. QED BY <2>1, <2>2
<1>. QED BY <1>1, <1>4, <1>5 DEF a, b, RemoveAt

-----------------------------------------------------------------------------
(* Frames and events *)

LEMMA FrameKinds ==
    ASSUME NEW f \in Frames
    PROVE  /\ f.type \in {"PanelData", "BOOTRES", "answer"}
           /\ f.type = "PanelData" => f \in Events
           /\ f.type = "answer" => f \in {Answer(v) : v \in StatusLists} /\ f.vals \in StatusLists
<1>1. CASE \E d \in Devices, s \in Statuses : f = Push(d, s)
  BY <1>1 DEF Push, Events
<1>2. CASE f = BootRes
  BY <1>2 DEF BootRes
<1>3. CASE \E v \in StatusLists : f = Answer(v)
  BY <1>3 DEF Answer
<1>. QED BY <1>1, <1>2, <1>3 DEF Frames

LEMMA EventKinds ==
    ASSUME NEW e \in Events
    PROVE  /\ e.type \in {"PanelData", "StatusChanged", "Disconnected"}
           /\ e.type \in {"PanelData", "StatusChanged"} => e.dev \in Devices /\ e.status \in Statuses
<1>1. CASE \E d \in Devices, s \in Statuses : e = Push(d, s)
  BY <1>1 DEF Push
<1>2. CASE \E d \in Devices, s \in Statuses, fs \in SUBSET Flags : e = Changed(d, s, fs)
  BY <1>2 DEF Changed
<1>3. CASE e = Disconnected
  BY <1>3 DEF Disconnected
<1>. QED BY <1>1, <1>2, <1>3 DEF Events

(* What the channel holds after an event list: the latest of what it held and *)
(* of the list, all of it unless something was overwritten.                 *)
LEMMA Emitted ==
    ASSUME bus \in Seq(Events), Len(bus) <= BusCapacity, missed \in BOOLEAN,
           NEW es \in Seq(Events), Emit(es)
    PROVE  /\ bus' \in Seq(Events) /\ Len(bus') <= BusCapacity /\ missed' \in BOOLEAN
           /\ missed => missed'
           /\ Len(bus) \in Nat /\ Len(es) \in Nat
           /\ \E k \in 0..(Len(bus) + Len(es)) :
                /\ Len(bus') = Len(bus) + Len(es) - k
                /\ ~missed' => k = 0
                /\ \A i \in 1..Len(bus') :
                      bus'[i] = IF i + k <= Len(bus) THEN bus[i + k] ELSE es[i + k - Len(bus)]
<1>. DEFINE q == bus \o es
<1>1. Len(bus) \in Nat /\ Len(es) \in Nat /\ BusCapacity \in Nat
  BY LenProperties, CacheConstants
<1>2. /\ q \in Seq(Events) /\ Len(q) = Len(bus) + Len(es)
      /\ \A i \in 1..(Len(bus) + Len(es)) :
            q[i] = IF i <= Len(bus) THEN bus[i] ELSE es[i - Len(bus)]
  BY ConcatProperties
<1>. HIDE DEF q
<1>3. bus' = Overwrite(q) /\ missed' = (missed \/ Len(bus) + Len(es) > BusCapacity)
  BY DEF Emit, q
<1>4. missed' \in BOOLEAN /\ (missed => missed')
  BY <1>3, Zenon
<1>5. CASE Len(q) <= BusCapacity
  <2>1. bus' = q
    BY <1>3, <1>5 DEF Overwrite
  <2>2. \A i \in 1..Len(bus') :
           bus'[i] = IF i + 0 <= Len(bus) THEN bus[i + 0] ELSE es[i + 0 - Len(bus)]
    BY <1>1, <1>2, <2>1
  <2>3. 0 \in 0..(Len(bus) + Len(es)) /\ Len(bus') = Len(bus) + Len(es) - 0
    BY <1>1, <1>2, <2>1
  <2>. QED BY <1>1, <1>2, <1>4, <1>5, <2>1, <2>2, <2>3
<1>6. CASE ~(Len(q) <= BusCapacity)
  <2>. DEFINE k == Len(q) - BusCapacity
  <2>1. k \in 0..(Len(bus) + Len(es)) /\ missed' /\ Len(q) \in Nat /\ k \in Nat
    <3>1. Len(q) = Len(bus) + Len(es) /\ Len(q) \in Nat
      BY <1>1, <1>2
    <3>2. Len(q) > BusCapacity
      BY <1>1, <1>6, <3>1
    <3>3. missed'
      BY <1>3, <3>1, <3>2
    <3>. QED BY <1>1, <3>1, <3>2, <3>3
  <2>2. bus' = SubSeq(q, k + 1, Len(q))
    BY <1>3, <1>6 DEF Overwrite
  <2>3. /\ bus' \in Seq(Events) /\ Len(bus') = Len(q) - k
        /\ \A i \in 1..(Len(q) - k) : bus'[i] = q[k + i]
    <3>. HIDE DEF k
    <3>1. \A i \in (k + 1)..Len(q) : q[i] \in Events
      <4>1. \A i \in (k + 1)..Len(q) : i \in 1..Len(q)
        BY <2>1
      <4>. QED BY <1>2, <4>1, ElementOfSeq
    <3>2. /\ SubSeq(q, k + 1, Len(q)) \in Seq(Events)
          /\ Len(SubSeq(q, k + 1, Len(q))) = IF k + 1 <= Len(q) THEN Len(q) - (k + 1) + 1 ELSE 0
          /\ \A i \in 1..(Len(q) - (k + 1) + 1) : SubSeq(q, k + 1, Len(q))[i] = q[k + 1 + i - 1]
      <4>1. k + 1 \in Int /\ Len(q) \in Int
        BY <2>1
      <4>. QED BY <3>1, <4>1, SubSeqProperties
    <3>3. k <= Len(q)
      BY <1>2, <2>1
    <3>4. (IF k + 1 <= Len(q) THEN Len(q) - (k + 1) + 1 ELSE 0) = Len(q) - k
          /\ Len(q) - (k + 1) + 1 = Len(q) - k
      BY <2>1, <3>3
    <3>5. \A i \in 1..(Len(q) - k) : k + 1 + i - 1 = k + i
      BY <2>1
    <3>. QED BY <2>2, <3>2, <3>4, <3>5
  <2>4. Len(bus') = BusCapacity /\ Len(bus') = Len(bus) + Len(es) - k
    BY <1>1, <1>2, <2>3
  <2>5. ASSUME NEW i \in 1..Len(bus')
        PROVE  bus'[i] = IF i + k <= Len(bus) THEN bus[i + k] ELSE es[i + k - Len(bus)]
    <3>1. i + k \in 1..(Len(bus) + Len(es)) /\ i \in 1..(Len(q) - k) /\ k + i = i + k
      BY <1>1, <1>2, <2>1, <2>4
    <3>. HIDE DEF k
    <3>2. bus'[i] = q[i + k]
      BY <2>3, <3>1
    <3>3. q[i + k] = IF i + k <= Len(bus) THEN bus[i + k] ELSE es[i + k - Len(bus)]
      <4>1. PICK n \in 1..(Len(bus) + Len(es)) : n = i + k
        BY <3>1
      <4>2. q[n] = IF n <= Len(bus) THEN bus[n] ELSE es[n - Len(bus)]
        BY <1>2
      <4>. QED BY <1>1, <2>1, <4>1, <4>2
    <3>. QED BY <3>2, <3>3
  <2>6. Len(bus') <= BusCapacity
    BY <1>1, <2>4
  <2>. HIDE DEF k
  <2>. QED BY <1>1, <1>4, <2>1, <2>3, <2>4, <2>5, <2>6
<1>. QED BY <1>5, <1>6

(* The events of update_status over a list of new statuses. *)
Updated(v) == [d \in Devices |-> IF d \in DOMAIN v THEN v[d] ELSE cache[d]]

LEMMA Lists ==
    ASSUME NEW v \in StatusLists
    PROVE  DOMAIN v \subseteq Devices /\ \A d \in DOMAIN v : v[d] \in Statuses
  BY DEF StatusLists

LEMMA FlagsDiffer ==
    ASSUME NEW a \in Statuses, NEW b \in Statuses
    PROVE  a \in SUBSET Flags /\ Differ(a, b) \in SUBSET Flags
  BY DEF Flags, Differ

LEMMA ChangesAt ==
    ASSUME cache \in StatusOf, NEW v \in StatusLists
    PROVE  /\ Updated(v) \in StatusOf
           /\ ChangesIn(v) \in Seq(Events)
           /\ \A i \in 1..Len(ChangesIn(v)) :
                 /\ ChangesIn(v)[i].dev \in Devices
                 /\ ChangesIn(v)[i].type = "StatusChanged"
                 /\ ChangesIn(v)[i].status = Updated(v)[ChangesIn(v)[i].dev]
           /\ \A d \in Devices : \A f \in Differ(cache[d], Updated(v)[d]) :
                 \E i \in 1..Len(ChangesIn(v)) : Says(ChangesIn(v)[i], d, f)
<1>. DEFINE D == {d \in DOMAIN v : cache[d] # v[d]}
            ds == SetToSeq(D)
            c == ChangesIn(v)
<1>1. DOMAIN v \subseteq Devices /\ \A d \in DOMAIN v : v[d] \in Statuses
  BY Lists
<1>2. Updated(v) \in StatusOf
  BY <1>1 DEF Updated, StatusOf
<1>3. IsFiniteSet(D)
  BY <1>1, DevicesFinite, FS_Subset
<1>. HIDE DEF D
<1>4. ds \in Seq(D) /\ \A d \in D : \E i \in 1..Len(ds) : ds[i] = d
  BY <1>3, Listed
<1>5. c = [i \in DOMAIN ds |-> Changed(ds[i], v[ds[i]], Differ(cache[ds[i]], v[ds[i]]))]
  BY DEF ChangesIn, D
<1>. HIDE DEF ds, c
<1>6. /\ Len(ds) \in Nat /\ DOMAIN ds = 1..Len(ds)
      /\ \A i \in 1..Len(ds) : ds[i] \in DOMAIN v /\ cache[ds[i]] # v[ds[i]]
  <2>1. Len(ds) \in Nat /\ DOMAIN ds = 1..Len(ds) /\ \A i \in 1..Len(ds) : ds[i] \in D
    BY <1>4, LenProperties, ElementOfSeq
  <2>. QED BY <2>1 DEF D
<1>7. ASSUME NEW i \in 1..Len(ds)
      PROVE  c[i] = Changed(ds[i], v[ds[i]], Differ(cache[ds[i]], v[ds[i]])) /\ c[i] \in Events
  <2>1. c[i] = Changed(ds[i], v[ds[i]], Differ(cache[ds[i]], v[ds[i]]))
    BY <1>5, <1>6
  <2>2. ds[i] \in Devices /\ v[ds[i]] \in Statuses
    BY <1>1, <1>6
  <2>3. Differ(cache[ds[i]], v[ds[i]]) \in SUBSET Flags
    BY <2>2, FlagsDiffer DEF StatusOf
  <2>. QED BY <2>1, <2>2, <2>3 DEF Events
<1>8. c \in Seq(Events) /\ Len(c) = Len(ds)
  <2>1. c \in [1..Len(ds) -> Events]
    BY <1>5, <1>6, <1>7
  <2>. QED BY <1>6, <2>1
<1>9. ASSUME NEW i \in 1..Len(c)
      PROVE  /\ c[i].dev \in Devices /\ c[i].type = "StatusChanged"
             /\ c[i].status = Updated(v)[c[i].dev]
  <2>1. /\ c[i] = Changed(ds[i], v[ds[i]], Differ(cache[ds[i]], v[ds[i]]))
        /\ ds[i] \in DOMAIN v /\ ds[i] \in Devices
    BY <1>1, <1>6, <1>7, <1>8
  <2>2. c[i].dev = ds[i] /\ c[i].type = "StatusChanged" /\ c[i].status = v[ds[i]]
    BY <2>1 DEF Changed
  <2>. QED BY <2>1, <2>2 DEF Updated
<1>10. ASSUME NEW d \in Devices, NEW f \in Differ(cache[d], Updated(v)[d])
       PROVE  \E i \in 1..Len(c) : Says(c[i], d, f)
  <2>1. Updated(v)[d] # cache[d]
    BY DEF Differ
  <2>2. d \in D /\ Updated(v)[d] = v[d]
    BY <2>1 DEF Updated, D
  <2>3. PICK i \in 1..Len(ds) : ds[i] = d
    BY <1>4, <2>2
  <2>4. c[i].dev = d /\ c[i].type = "StatusChanged" /\ c[i].changed = Differ(cache[d], v[d])
    <3>1. c[i] = Changed(d, v[d], Differ(cache[d], v[d]))
      BY <1>7, <2>3
    <3>. QED BY <3>1 DEF Changed
  <2>5. Says(c[i], d, f)
    BY <2>2, <2>4 DEF Says
  <2>6. i \in 1..Len(c)
    BY <1>8, <2>3
  <2>. QED BY <2>5, <2>6
<1>. QED BY <1>2, <1>8, <1>9, <1>10 DEF c

-----------------------------------------------------------------------------
(* Type correctness, one group of variables at a time *)

(* What Task 1 and Task 3 take out of their event and reply. *)
LEMMA HandledEvent ==
    ASSUME TypeOK, event.type \in {"PanelData", "StatusChanged"}
    PROVE  event.dev \in Devices /\ event.status \in Statuses
<1>1. event \in Events
  BY DEF TypeOK, NoEvent
<1>. QED BY <1>1, EventKinds

LEMMA HandledList ==
    ASSUME TypeOK, HandlePanelData
    PROVE  [d \in {event.dev} |-> event.status] \in StatusLists
<1>1. event.dev \in Devices /\ event.status \in Statuses
  BY HandledEvent DEF HandlePanelData
<1>2. {event.dev} \in SUBSET Devices
  BY <1>1
<1>3. [d \in {event.dev} |-> event.status] \in [{event.dev} -> Statuses]
  BY <1>1
<1>. QED BY <1>2, <1>3 DEF StatusLists

LEMMA ReplyList ==
    ASSUME TypeOK, reply # NoReply
    PROVE  reply.vals \in StatusLists
  BY DEF TypeOK, Answer

LEMMA StatusesType ==
    ASSUME TypeOK, [Next]_vars
    PROVE  /\ panel' \in StatusOf /\ cache' \in StatusOf /\ saved' \in StatusOf
           /\ view' \in [Devices -> SUBSET Flags]
<1>1. /\ panel \in StatusOf /\ cache \in StatusOf /\ saved \in StatusOf
      /\ view \in [Devices -> SUBSET Flags]
  BY DEF TypeOK
<1>2. panel' \in StatusOf
  <2>1. CASE panel' = panel
    BY <1>1, <2>1
  <2>2. CASE \E d \in Devices, s \in Statuses : panel' = [panel EXCEPT ![d] = s]
    BY <1>1, <2>2 DEF StatusOf
  <2>. QED
    BY <2>1, <2>2 DEF Next, Panel, PanelChanges, PanelAnswers, PanelRefuses, PanelReboots,
      ReadFrame, readerVars, ConnectionLost, WatchdogGivesUp, Tick, SendQuery, QueryFails,
      ApplyReply, PublishPolled, Receive, HandlePanelData, HandleStatusChanged, CopyDevices,
      Reconnect, Install, PublishReconnected, Task1, WithMutex, Task3, t1Idle, vars
<1>3. NoCopy \in StatusOf
  <2>1. [d \in Devices |-> ErrorStatus] \in StatusOf
    BY CacheConstants DEF StatusOf
  <2>. QED BY <2>1 DEF NoCopy
<1>4. saved' \in {saved, cache, NoCopy}
  BY DEF Next, Panel, PanelChanges, PanelAnswers, PanelRefuses, PanelReboots,
      ReadFrame, readerVars, ConnectionLost, WatchdogGivesUp, Tick, SendQuery, QueryFails,
      ApplyReply, PublishPolled, Receive, HandlePanelData, HandleStatusChanged, CopyDevices,
      Reconnect, Install, PublishReconnected, Task1, WithMutex, Task3, t1Vars, vars
<1>5. ASSUME NEW v \in StatusLists, UpdateStatus(v) PROVE cache' \in StatusOf
  BY <1>1, <1>5, ChangesAt DEF UpdateStatus, Updated
<1>6. cache' \in StatusOf
  <2>1. CASE HandlePanelData
    <3>1. [d \in {event.dev} |-> event.status] \in StatusLists
      BY <2>1, HandledList
    <3>. QED BY <1>5, <2>1, <3>1 DEF HandlePanelData
  <2>2. CASE ApplyReply
    <3>1. reply.vals \in StatusLists
      BY <2>2, ReplyList DEF ApplyReply
    <3>. QED BY <1>5, <2>2, <3>1 DEF ApplyReply
  <2>3. CASE cache' \in {cache, saved}
    BY <1>1, <2>3
  <2>. QED
    BY <2>1, <2>2, <2>3 DEF Next, Panel, PanelChanges, PanelAnswers, PanelRefuses, PanelReboots,
      ReadFrame, readerVars, ConnectionLost, WatchdogGivesUp, Tick, SendQuery, QueryFails,
      PublishPolled, Receive, HandleStatusChanged, CopyDevices,
      Reconnect, Install, PublishReconnected, Task1, WithMutex, Task3, vars
<1>7. view' \in [Devices -> SUBSET Flags]
  <2>1. CASE HandleStatusChanged
    <3>1. event.dev \in Devices
      BY <2>1, HandledEvent DEF HandleStatusChanged
    <3>2. Told(view[event.dev], event) \in SUBSET Flags
      <4>1. SetTold \in [Devices -> SUBSET Flags] /\ view[event.dev] \subseteq Flags
        BY <1>1, <3>1, CacheConstants
      <4>2. SetTold[event.dev] \subseteq Flags
        BY <3>1, <4>1
      <4>. QED BY <4>1, <4>2 DEF Told
    <3>. QED BY <1>1, <2>1, <3>1, <3>2 DEF HandleStatusChanged
  <2>2. CASE view' \in {view, cache}
    <3>1. cache \in [Devices -> SUBSET Flags]
      BY <1>1, FlagsDiffer DEF StatusOf
    <3>. QED BY <1>1, <2>2, <3>1
  <2>. QED
    BY <2>1, <2>2 DEF Next, Panel, PanelChanges, PanelAnswers, PanelRefuses, PanelReboots,
      ReadFrame, readerVars, ConnectionLost, WatchdogGivesUp, Tick, SendQuery, QueryFails,
      ApplyReply, PublishPolled, PublishSnapshot, Receive, HandlePanelData, CopyDevices,
      Reconnect, Install, PublishReconnected, Task1, WithMutex, Task3, vars
<1>. QED BY <1>1, <1>2, <1>3, <1>4, <1>6, <1>7

LEMMA WireType ==
    ASSUME TypeOK, [Next]_vars
    PROVE  wire' \in Seq(Frames) /\ Len(wire') <= MaxWire
<1>1. wire \in Seq(Frames) /\ Len(wire) \in Nat /\ Len(wire) <= MaxWire /\ MaxWire \in Nat
  BY CacheConstants, LenProperties DEF TypeOK
<1>2. ASSUME NEW f \in Frames, Send(f) PROVE wire' \in Seq(Frames) /\ Len(wire') <= MaxWire
  BY <1>1, <1>2, AppendAt DEF Send
<1>3. ASSUME NEW v \in StatusLists PROVE Answer(v) \in Frames
  BY DEF Frames
<1>4. batch \in 1..Len(Batches) /\ Batches[batch] \in SUBSET Devices /\ FirstOf[batch] \in Devices
  BY CacheConstants, LenProperties, ElementOfSeq DEF TypeOK
<1>5. CASE \E d \in Devices, s \in Statuses : PanelChanges(d, s)
  <2>1. PICK d \in Devices, s \in Statuses : PanelChanges(d, s)
    BY <1>5
  <2>2. Push(d, s) \in Frames
    BY DEF Frames
  <2>. QED BY <1>1, <1>2, <2>1, <2>2 DEF PanelChanges
<1>6. CASE PanelAnswers
  <2>1. [d \in Batches[batch] |-> panel[d]] \in [Batches[batch] -> Statuses]
    BY <1>4 DEF TypeOK, StatusOf
  <2>2. [d \in Batches[batch] |-> panel[d]] \in StatusLists
    BY <1>4, <2>1 DEF StatusLists
  <2>. QED BY <1>2, <1>3, <1>6, <2>2 DEF PanelAnswers
<1>7. CASE PanelRefuses
  <2>1. [d \in {FirstOf[batch]} |-> ErrorStatus] \in [{FirstOf[batch]} -> Statuses]
    BY CacheConstants
  <2>2. {FirstOf[batch]} \in SUBSET Devices
    BY <1>4
  <2>3. [d \in {FirstOf[batch]} |-> ErrorStatus] \in StatusLists
    BY <2>1, <2>2 DEF StatusLists
  <2>. QED BY <1>2, <1>3, <1>7, <2>3 DEF PanelRefuses
<1>8. CASE PanelReboots
  <2>1. BootRes \in Frames
    BY DEF Frames
  <2>. QED BY <1>2, <1>8, <2>1 DEF PanelReboots
<1>9. CASE wire' = <<>>
  BY <1>1, <1>9, EmptySeq
<1>10. CASE wire # <<>> /\ wire' = Tail(wire)
  BY <1>1, <1>10, TailAt
<1>11. CASE \E k \in 1..Len(wire) : wire' = RemoveAt(wire, k)
  BY <1>1, <1>11, RemovedAt
<1>12. CASE wire' = wire
  BY <1>1, <1>12
<1>13. ASSUME QueryFails PROVE wire' = wire \/ \E k \in 1..Len(wire) : wire' = RemoveAt(wire, k)
  BY <1>13 DEF QueryFails
<1>. QED
  BY <1>5, <1>6, <1>7, <1>8, <1>9, <1>10, <1>11, <1>12, <1>13
  DEF Next, Panel, ReadFrame, ConnectionLost, WatchdogGivesUp, Tick, SendQuery,
      ApplyReply, PublishPolled, Receive, HandlePanelData, HandleStatusChanged, CopyDevices,
      Reconnect, Install, PublishReconnected, Task1, WithMutex, Task3, vars

LEMMA BusType ==
    ASSUME TypeOK, [Next]_vars
    PROVE  bus' \in Seq(Events) /\ Len(bus') <= BusCapacity /\ missed' \in BOOLEAN
<1>1. /\ bus \in Seq(Events) /\ Len(bus) \in Nat /\ Len(bus) <= BusCapacity
      /\ BusCapacity \in Nat /\ missed \in BOOLEAN
  BY CacheConstants, LenProperties DEF TypeOK
<1>2. ASSUME NEW es \in Seq(Events), Emit(es)
      PROVE  bus' \in Seq(Events) /\ Len(bus') <= BusCapacity /\ missed' \in BOOLEAN
  BY <1>1, <1>2, Emitted
<1>3. \A e \in Events : <<e>> \in Seq(Events)
  OBVIOUS
<1>4. CASE ReadFrame
  <2>1. Head(wire) \in Frames /\ Disconnected \in Events
    BY <1>4, TailAt DEF TypeOK, ReadFrame, Events
  <2>2. CASE Head(wire).type = "answer"
    <3>1. UNCHANGED busVars
      BY <1>4, <2>2 DEF ReadFrame
    <3>. QED BY <1>1, <3>1 DEF busVars
  <2>3. CASE Head(wire).type = "PanelData"
    <3>1. Emit(<<Head(wire)>>)
      BY <1>4, <2>3, Zenon DEF ReadFrame
    <3>2. <<Head(wire)>> \in Seq(Events)
      BY <1>3, <2>1, <2>3, FrameKinds
    <3>. QED BY <1>2, <3>1, <3>2
  <2>4. CASE Head(wire).type = "BOOTRES"
    <3>1. Emit(<<Disconnected>>)
      BY <1>4, <2>4 DEF ReadFrame
    <3>. QED BY <1>2, <1>3, <2>1, <3>1
  <2>. QED BY <2>1, <2>2, <2>3, <2>4, FrameKinds
<1>5. CASE ConnectionLost \/ WatchdogGivesUp
  <2>1. Disconnected \in Events
    BY DEF Events
  <2>. QED BY <1>2, <1>3, <1>5, <2>1 DEF ConnectionLost, WatchdogGivesUp
<1>6. ASSUME NEW v \in StatusLists, UpdateStatus(v)
      PROVE  bus' \in Seq(Events) /\ Len(bus') <= BusCapacity /\ missed' \in BOOLEAN
  <2>1. ChangesIn(v) \in Seq(Events)
    BY ChangesAt DEF TypeOK
  <2>. QED BY <1>1, <1>2, <1>6, <2>1 DEF UpdateStatus, busVars
<1>7. CASE HandlePanelData
  BY <1>6, <1>7, HandledList DEF HandlePanelData
<1>8. CASE ApplyReply
  BY <1>6, <1>8, ReplyList DEF ApplyReply
<1>9. CASE Receive
  <2>1. bus # <<>> /\ bus' = Tail(bus)
    BY <1>9 DEF Receive
  <2>2. missed' \in BOOLEAN
    BY <1>1, <1>9 DEF Receive
  <2>. QED BY <1>1, <2>1, <2>2, TailAt
<1>10. CASE bus' \in {bus, <<>>} /\ missed' \in BOOLEAN
  <2>1. <<>> \in Seq(Events) /\ Len(<<>>) = 0
    BY EmptySeq
  <2>2. CASE bus' = <<>>
    BY <1>1, <1>10, <2>1, <2>2
  <2>. QED BY <1>1, <1>10, <2>2
<1>11. CASE PublishPolled \/ PublishReconnected
  <2>1. missed' \in BOOLEAN
    BY <1>11, Zenon DEF PublishPolled, PublishReconnected, PublishSnapshot
  <2>. QED BY <1>10, <1>11, <2>1 DEF PublishPolled, PublishReconnected
<1>. QED
  BY <1>1, <1>4, <1>5, <1>7, <1>8, <1>9, <1>10, <1>11
  DEF Next, Panel, PanelChanges, PanelAnswers, PanelRefuses, PanelReboots, Tick, SendQuery,
      QueryFails, HandleStatusChanged, CopyDevices, Reconnect, Install, Task1, WithMutex,
      Task3, busVars, vars

LEMMA TasksType ==
    ASSUME TypeOK, [Next]_vars
    PROVE  /\ t1' \in {"recv", "handle", "connect", "install", "snapshot"}
           /\ event' \in Events \cup {NoEvent}
           /\ t3' \in {"tick", "query", "wait", "apply", "publish"}
           /\ batch' \in 1..Len(Batches)
           /\ reply' \in {Answer(v) : v \in StatusLists} \cup {NoReply}
<1>1. Len(Batches) \in Nat \ {0} /\ batch \in 1..Len(Batches)
  <2>1. Len(Batches) # 0
    BY CacheConstants
  <2>. QED BY <2>1, CacheConstants, LenProperties DEF TypeOK
<1>2. event' \in Events \cup {NoEvent}
  <2>1. CASE Receive
    BY <2>1, TailAt DEF Receive, TypeOK
  <2>2. CASE event' \in {event, NoEvent}
    BY <2>2 DEF TypeOK
  <2>. QED
    BY <2>1, <2>2 DEF Next, Panel, PanelChanges, PanelAnswers, PanelRefuses, PanelReboots,
      ReadFrame, readerVars, ConnectionLost, WatchdogGivesUp, Tick, SendQuery, QueryFails,
      ApplyReply, PublishPolled, Receive, HandlePanelData, HandleStatusChanged, CopyDevices,
      Reconnect, Install, PublishReconnected, Task1, WithMutex, Task3, t1Idle, t1Vars, t3Vars,
      busVars, vars
<1>3. batch' \in 1..Len(Batches)
  <2>1. CASE batch' = batch \/ batch' = 1 \/ (batch < Len(Batches) /\ batch' = batch + 1)
    BY <1>1, <2>1
  <2>. QED
    BY <2>1 DEF Next, Panel, PanelChanges, PanelAnswers, PanelRefuses, PanelReboots,
      ReadFrame, readerVars, ConnectionLost, WatchdogGivesUp, Tick, SendQuery, QueryFails,
      ApplyReply, PublishPolled, Receive, HandlePanelData, HandleStatusChanged, CopyDevices,
      Reconnect, Install, PublishReconnected, Task1, WithMutex, Task3, t1Idle, t1Vars, t3Vars,
      busVars, vars
<1>4. reply' \in {Answer(v) : v \in StatusLists} \cup {NoReply}
  <2>1. CASE ReadFrame
    <3>1. Head(wire) \in Frames
      BY <2>1, TailAt DEF TypeOK, ReadFrame
    <3>2. reply' = reply \/ (Head(wire).type = "answer" /\ reply' = Head(wire))
      BY <2>1, <3>1, FrameKinds DEF ReadFrame
    <3>. QED BY <3>1, <3>2, FrameKinds DEF TypeOK
  <2>2. CASE reply' \in {reply, NoReply}
    BY <2>2 DEF TypeOK
  <2>. QED
    BY <2>1, <2>2 DEF Next, Panel, PanelChanges, PanelAnswers, PanelRefuses, PanelReboots,
      ReadFrame, readerVars, ConnectionLost, WatchdogGivesUp, Tick, SendQuery, QueryFails,
      ApplyReply, PublishPolled, Receive, HandlePanelData, HandleStatusChanged, CopyDevices,
      Reconnect, Install, PublishReconnected, Task1, WithMutex, Task3, t1Idle, t1Vars, t3Vars,
      busVars, vars
<1>5. /\ t1' \in {"recv", "handle", "connect", "install", "snapshot"}
      /\ t3' \in {"tick", "query", "wait", "apply", "publish"}
  BY DEF TypeOK, Next, Panel, PanelChanges, PanelAnswers, PanelRefuses, PanelReboots,
      ReadFrame, readerVars, ConnectionLost, WatchdogGivesUp, Tick, SendQuery, QueryFails,
      ApplyReply, PublishPolled, Receive, HandlePanelData, HandleStatusChanged, CopyDevices,
      Reconnect, Install, PublishReconnected, Task1, WithMutex, Task3, t1Idle, t1Vars, t3Vars,
      busVars, vars
<1>. QED BY <1>2, <1>3, <1>4, <1>5

LEMMA HistoryType ==
    ASSUME TypeOK, [Next]_vars
    PROVE  truths' \in [Devices -> SUBSET Statuses]
<1>1. truths \in [Devices -> SUBSET Statuses] /\ panel \in [Devices -> Statuses]
  BY DEF TypeOK, StatusOf
<1>2. [d \in Devices |-> {panel[d]}] \in [Devices -> SUBSET Statuses]
  BY <1>1
<1>3. NoTruths \in [Devices -> SUBSET Statuses]
  BY DEF NoTruths
<1>4. ASSUME NEW d \in Devices, NEW s \in Statuses
      PROVE  [truths EXCEPT ![d] = @ \cup {s}] \in [Devices -> SUBSET Statuses]
  BY <1>1
<1>5. \/ truths' \in {truths, NoTruths, [d \in Devices |-> {panel[d]}]}
      \/ \E d \in Devices, s \in Statuses : truths' = [truths EXCEPT ![d] = @ \cup {s}]
  BY DEF Next, Panel, PanelChanges, PanelAnswers, PanelRefuses, PanelReboots,
      ReadFrame, readerVars, ConnectionLost, WatchdogGivesUp, Tick, SendQuery, QueryFails,
      ApplyReply, PublishPolled, Receive, HandlePanelData, HandleStatusChanged, CopyDevices,
      Reconnect, Install, PublishReconnected, Task1, WithMutex, Task3, t1Idle, t1Vars, t3Vars,
      busVars, vars
<1>. QED BY <1>1, <1>2, <1>3, <1>4, <1>5

LEMMA FlagsType ==
    ASSUME TypeOK, [Next]_vars
    PROVE  up' \in BOOLEAN /\ watching' \in BOOLEAN /\ refused' \in BOOLEAN /\ ok' \in BOOLEAN
<1>1. up \in BOOLEAN /\ watching \in BOOLEAN /\ refused \in BOOLEAN /\ ok \in BOOLEAN
  BY DEF TypeOK
<1>2. up' \in {up, TRUE, FALSE}
  BY DEF Next, Panel, PanelChanges, PanelAnswers, PanelRefuses, PanelReboots,
      ReadFrame, readerVars, ConnectionLost, WatchdogGivesUp, Tick, SendQuery, QueryFails,
      ApplyReply, PublishPolled, Receive, HandlePanelData, HandleStatusChanged, CopyDevices,
      Reconnect, Install, PublishReconnected, Task1, WithMutex, Task3, t1Idle, t1Vars, t3Vars,
      busVars, vars
<1>3. watching' \in {watching, TRUE, FALSE}
  BY DEF Next, Panel, PanelChanges, PanelAnswers, PanelRefuses, PanelReboots,
      ReadFrame, readerVars, ConnectionLost, WatchdogGivesUp, Tick, SendQuery, QueryFails,
      ApplyReply, PublishPolled, Receive, HandlePanelData, HandleStatusChanged, CopyDevices,
      Reconnect, Install, PublishReconnected, Task1, WithMutex, Task3, t1Idle, t1Vars, t3Vars,
      busVars, vars
<1>4. refused' \in {refused, TRUE, FALSE}
  BY DEF Next, Panel, PanelChanges, PanelAnswers, PanelRefuses, PanelReboots,
      ReadFrame, readerVars, ConnectionLost, WatchdogGivesUp, Tick, SendQuery, QueryFails,
      ApplyReply, PublishPolled, Receive, HandlePanelData, HandleStatusChanged, CopyDevices,
      Reconnect, Install, PublishReconnected, Task1, WithMutex, Task3, t1Idle, t1Vars, t3Vars,
      busVars, vars
<1>5. ok' \in {ok, TRUE, FALSE}
  BY DEF Next, Panel, PanelChanges, PanelAnswers, PanelRefuses, PanelReboots,
      ReadFrame, readerVars, ConnectionLost, WatchdogGivesUp, Tick, SendQuery, QueryFails,
      ApplyReply, PublishPolled, Receive, HandlePanelData, HandleStatusChanged, CopyDevices,
      Reconnect, Install, PublishReconnected, Task1, WithMutex, Task3, t1Idle, t1Vars, t3Vars,
      busVars, vars
<1>. QED BY <1>1, <1>2, <1>3, <1>4, <1>5, Zenon

LEMMA BudgetType ==
    ASSUME TypeOK, [Next]_vars
    PROVE  budget' \in [changes : 0..MaxChanges, faults : 0..MaxFaults]
<1>. DEFINE All == [changes : 0..MaxChanges, faults : 0..MaxFaults]
<1>1. budget' = budget \/ \E what \in {"changes", "faults"} : Spend(what)
  BY DEF Next, Panel, PanelChanges, PanelAnswers, PanelRefuses, PanelReboots,
      ReadFrame, readerVars, ConnectionLost, WatchdogGivesUp, Tick, SendQuery, QueryFails,
      ApplyReply, PublishPolled, Receive, HandlePanelData, HandleStatusChanged, CopyDevices,
      Reconnect, Install, PublishReconnected, Task1, WithMutex, Task3, t1Idle, t1Vars, t3Vars,
      busVars, vars
<1>2. budget \in All
  BY DEF TypeOK
<1>3. ASSUME NEW what \in {"changes", "faults"}, Spend(what) PROVE budget' \in All
  <2>1. budget[what] > 0 /\ budget' = [budget EXCEPT ![what] = budget[what] - 1]
    BY <1>3 DEF Spend
  <2>2. budget.changes \in Nat /\ budget.faults \in Nat
    BY <1>2, CacheConstants
  <2>. QED BY <1>2, <2>1, <2>2, CacheConstants
<1>. QED BY <1>1, <1>2, <1>3

LEMMA TypeStep == TypeOK /\ [Next]_vars => TypeOK'
<1>. SUFFICES ASSUME TypeOK, [Next]_vars PROVE TypeOK'
  OBVIOUS
<1>1. {up', watching', refused', ok', missed'} \subseteq BOOLEAN
  BY FlagsType, BusType, Zenon
<1>. QED
  BY <1>1, StatusesType, WireType, BusType, TasksType, HistoryType, BudgetType DEF TypeOK

-----------------------------------------------------------------------------
(* Events and the cache.  The newest change on its way to MQTT is the cached   *)
(* status, even when older ones were overwritten; without one, what MQTT was  *)
(* told, or the event Task 1 has in hand, is.                               *)

FollowInv ==
    /\ t1 # "handle" => event = NoEvent
    /\ t1 = "install" => \A d \in Devices, f \in Flags : Unannounced(d, f) = {}
    /\ t1 # "install" => \A d \in Devices, f \in Flags : NewestIsCached(d, f)
    /\ ~missed /\ t1 \notin {"install", "snapshot"} =>
          \A d \in Devices, f \in Flags : ToldIsCached(d, f)

LEMMA EmitFollows ==
    ASSUME TypeOK, NEW es \in Seq(Events), Emit(es), NEW c \in StatusOf, cache' = c,
           \A i \in 1..Len(es) : es[i].type = "StatusChanged" => es[i].status = c[es[i].dev],
           NEW d \in Devices, NEW f \in Flags, NewestIsCached(d, f),
           f \in Differ(cache[d], c[d]) => \E i \in 1..Len(es) : Says(es[i], d, f)
    PROVE  /\ NewestIsCached(d, f)'
           /\ ~missed' /\ Unannounced(d, f)' = {} =>
                 ~missed /\ Unannounced(d, f) = {} /\ (f \in c[d] <=> f \in cache[d])
<1>. DEFINE n == Len(bus)
            m == Len(es)
<1>1. /\ n \in Nat /\ m \in Nat /\ (missed => missed')
      /\ bus \in Seq(Events) /\ Len(bus) <= BusCapacity /\ missed \in BOOLEAN
  BY Emitted DEF TypeOK
<1>2. PICK k \in 0..(n + m) :
         /\ Len(bus') = n + m - k
         /\ ~missed' => k = 0
         /\ \A i \in 1..Len(bus') : bus'[i] = IF i + k <= n THEN bus[i + k] ELSE es[i + k - n]
  BY <1>1, Emitted
<1>. HIDE DEF n, m
<1>3. k \in Nat /\ Len(bus') \in Nat
  BY <1>1, <1>2
<1>4. ASSUME NEW i \in 1..n, i > k, Says(bus[i], d, f)
      PROVE  i - k \in Unannounced(d, f)'
  <2>1. i - k \in 1..Len(bus') /\ (i - k) + k = i /\ i <= n
    BY <1>1, <1>2, <1>3, <1>4
  <2>2. bus'[i - k] = bus[i]
    BY <1>2, <2>1
  <2>. QED BY <1>4, <2>1, <2>2 DEF Unannounced
<1>5. ASSUME NEW i \in 1..m, n + i > k, Says(es[i], d, f)
      PROVE  n + i - k \in Unannounced(d, f)'
  <2>1. /\ n + i - k \in 1..Len(bus') /\ (n + i - k) + k = n + i
        /\ ~(n + i <= n) /\ (n + i) - n = i
    BY <1>1, <1>2, <1>3, <1>5
  <2>2. bus'[n + i - k] = es[i]
    <3>1. ASSUME NEW j \in 1..Len(bus'), ~(j + k <= n) PROVE bus'[j] = es[j + k - n]
      BY <1>2, <3>1
    <3>2. ~((n + i - k) + k <= n) /\ (n + i - k) + k - n = i
      BY <1>1, <1>3, <2>1
    <3>. QED BY <2>1, <3>1, <3>2
  <2>. QED BY <1>5, <2>1, <2>2 DEF Unannounced
<1>6. ASSUME NEW i \in Unannounced(d, f)', \A j \in Unannounced(d, f)' : j <= i
      PROVE  f \in bus'[i].status <=> f \in c[d]
  <2>1. i \in 1..Len(bus') /\ Says(bus'[i], d, f) /\ i \in Nat
    BY <1>3 DEF Unannounced
  <2>2. bus'[i] = IF i + k <= n THEN bus[i + k] ELSE es[i + k - n]
    BY <1>2, <2>1
  <2>3. CASE i + k <= n
    <3>1. i + k \in Unannounced(d, f)
      BY <1>1, <1>3, <2>1, <2>2, <2>3 DEF Unannounced, n
    <3>2. ASSUME NEW j \in Unannounced(d, f) PROVE j <= i + k
      <4>1. j \in 1..n /\ Says(bus[j], d, f)
        BY DEF Unannounced, n
      <4>2. CASE j > k
        <5>1. j - k <= i
          BY <1>4, <1>6, <4>1, <4>2
        <5>. QED BY <1>1, <1>3, <2>1, <4>1, <5>1
      <4>3. CASE ~(j > k)
        BY <1>1, <1>3, <2>1, <4>1, <4>3
      <4>. QED BY <4>2, <4>3
    <3>3. f \in bus[i + k].status <=> f \in cache[d]
      BY <3>1, <3>2 DEF NewestIsCached
    <3>4. ASSUME NEW j \in 1..m, Says(es[j], d, f) PROVE FALSE
      <4>1. n + j > k /\ ~(n + j - k <= i)
        BY <1>1, <1>3, <2>1, <2>3
      <4>. QED BY <1>5, <1>6, <3>4, <4>1
    <3>5. f \in c[d] <=> f \in cache[d]
      BY <3>4 DEF m, Differ
    <3>. QED BY <2>2, <2>3, <3>3, <3>5
  <2>4. CASE ~(i + k <= n)
    <3>1. i + k - n \in 1..m
      BY <1>1, <1>2, <1>3, <2>1, <2>4
    <3>2. bus'[i] = es[i + k - n]
      BY <2>2, <2>4
    <3>. QED BY <2>1, <3>1, <3>2 DEF Says, m
  <2>. QED BY <2>3, <2>4
<1>7. ASSUME ~missed', Unannounced(d, f)' = {}
      PROVE  ~missed /\ Unannounced(d, f) = {} /\ (f \in c[d] <=> f \in cache[d])
  <2>1. k = 0 /\ ~missed
    BY <1>1, <1>2, <1>7
  <2>2. ASSUME NEW i \in Unannounced(d, f) PROVE FALSE
    <3>1. i \in 1..n /\ Says(bus[i], d, f) /\ i > k
      BY <1>1, <2>1 DEF Unannounced, n
    <3>. QED BY <1>4, <1>7, <3>1
  <2>3. ASSUME NEW i \in 1..m, Says(es[i], d, f) PROVE FALSE
    <3>1. n + i > k
      BY <1>1, <2>1
    <3>. QED BY <1>5, <1>7, <2>3, <3>1
  <2>. QED BY <2>1, <2>2, <2>3 DEF m, Differ
<1>. QED BY <1>6, <1>7 DEF NewestIsCached

LEMMA EmitQuiet ==
    ASSUME TypeOK, NEW e \in Events, e.type # "StatusChanged", Emit(<<e>>), NEW d \in Devices, NEW f \in Flags,
           Unannounced(d, f) = {}
    PROVE  Unannounced(d, f)' = {}
<1>. DEFINE es == <<e>>
<1>1. /\ es \in Seq(Events) /\ Len(es) = 1 /\ \A i \in 1..1 : es[i] = e
      /\ Len(bus) \in Nat /\ bus \in Seq(Events) /\ Len(bus) <= BusCapacity /\ missed \in BOOLEAN
      /\ Emit(es)
  BY LenProperties DEF TypeOK
<1>. HIDE DEF es
<1>2. PICK k \in 0..(Len(bus) + Len(es)) :
         /\ Len(bus') = Len(bus) + Len(es) - k
         /\ \A i \in 1..Len(bus') :
               bus'[i] = IF i + k <= Len(bus) THEN bus[i + k] ELSE es[i + k - Len(bus)]
  BY <1>1, Emitted
<1>3. ASSUME NEW i \in 1..Len(bus'), Says(bus'[i], d, f) PROVE FALSE
  <2>1. CASE i + k <= Len(bus)
    <3>1. i + k \in 1..Len(bus) /\ bus'[i] = bus[i + k]
      BY <1>1, <1>2, <2>1
    <3>. QED BY <1>3, <3>1 DEF Unannounced
  <2>2. CASE ~(i + k <= Len(bus))
    <3>1. i + k - Len(bus) \in 1..1
      BY <1>1, <1>2, <2>2
    <3>2. bus'[i] = es[i + k - Len(bus)]
      BY <1>2, <2>2
    <3>. QED BY <1>1, <1>3, <3>1, <3>2 DEF Says
  <2>. QED BY <2>1, <2>2
<1>. QED BY <1>3 DEF Unannounced

LEMMA EmitOther ==
    ASSUME TypeOK, FollowInv, NEW e \in Events, e.type # "StatusChanged", Emit(<<e>>),
           UNCHANGED <<cache, view, event, t1>>
    PROVE  FollowInv'
<1>1. cache \in StatusOf /\ cache' = cache
  BY DEF TypeOK
<1>2. /\ <<e>> \in Seq(Events) /\ \A i \in 1..Len(<<e>>) : <<e>>[i].type # "StatusChanged"
  <2>1. Len(<<e>>) = 1 /\ \A i \in 1..1 : <<e>>[i] = e
    OBVIOUS
  <2>. QED BY <2>1
<1>3. ASSUME NEW d \in Devices, NEW f \in Flags, NewestIsCached(d, f)
      PROVE  /\ NewestIsCached(d, f)'
             /\ ~missed' /\ Unannounced(d, f)' = {} => ~missed /\ Unannounced(d, f) = {}
  <2>1. f \notin Differ(cache[d], cache[d])
    BY DEF Differ
  <2>. QED BY <1>1, <1>2, <1>3, <2>1, EmitFollows
<1>4. \A d \in Devices, f \in Flags : Unannounced(d, f) = {} => Unannounced(d, f)' = {}
  BY EmitQuiet
<1>. QED BY <1>3, <1>4 DEF FollowInv, ToldIsCached, WillBeSeen

LEMMA UpdateFollows ==
    ASSUME TypeOK, NEW v \in StatusLists, UpdateStatus(v), t1 # "install",
           NEW d \in Devices, NEW f \in Flags, NewestIsCached(d, f)
    PROVE  /\ NewestIsCached(d, f)'
           /\ ~missed' /\ Unannounced(d, f)' = {} =>
                 ~missed /\ Unannounced(d, f) = {} /\ (f \in cache'[d] <=> f \in cache[d])
<1>1. cache' = Updated(v) /\ Emit(ChangesIn(v))
  BY DEF UpdateStatus, Updated
<1>2. /\ Updated(v) \in StatusOf /\ ChangesIn(v) \in Seq(Events)
      /\ \A i \in 1..Len(ChangesIn(v)) :
            ChangesIn(v)[i].status = Updated(v)[ChangesIn(v)[i].dev]
      /\ f \in Differ(cache[d], Updated(v)[d]) =>
            \E i \in 1..Len(ChangesIn(v)) : Says(ChangesIn(v)[i], d, f)
  BY ChangesAt DEF TypeOK
<1>. QED BY <1>1, <1>2, EmitFollows

LEMMA FollowStep ==
    ASSUME TypeOK, FollowInv, [Next]_vars
    PROVE  FollowInv'
<1>1. NoEvent.type = "none" /\ \A d \in Devices, f \in Flags : ~Says(NoEvent, d, f)
  BY DEF NoEvent, Says
<1>2. CASE ReadFrame
  <2>1. Head(wire) \in Frames /\ Disconnected \in Events /\ Disconnected.type = "Disconnected"
    BY <1>2, TailAt DEF TypeOK, ReadFrame, Events, Disconnected
  <2>2. UNCHANGED <<cache, view, event, t1>>
    BY <1>2 DEF ReadFrame, readerVars, t1Vars
  <2>3. CASE Head(wire).type = "answer"
    <3>1. UNCHANGED <<bus, missed>>
      BY <1>2, <2>3 DEF ReadFrame, busVars
    <3>. QED BY <2>2, <3>1 DEF FollowInv, NewestIsCached, ToldIsCached, WillBeSeen, Unannounced
  <2>4. CASE Head(wire).type = "PanelData"
    <3>1. Emit(<<Head(wire)>>)
      BY <1>2, <2>4, Zenon DEF ReadFrame
    <3>. QED BY <2>1, <2>2, <2>4, <3>1, FrameKinds, EmitOther
  <2>5. CASE Head(wire).type = "BOOTRES"
    <3>1. Emit(<<Disconnected>>)
      BY <1>2, <2>5 DEF ReadFrame
    <3>. QED BY <2>1, <2>2, <3>1, EmitOther
  <2>. QED BY <2>1, <2>3, <2>4, <2>5, FrameKinds
<1>3. CASE ConnectionLost \/ WatchdogGivesUp
  <2>1. Disconnected \in Events /\ Disconnected.type = "Disconnected"
    BY DEF Events, Disconnected
  <2>. QED BY <1>3, <2>1, EmitOther DEF ConnectionLost, WatchdogGivesUp, readerVars, t1Vars
<1>4. CASE ApplyReply
  <2>1. /\ reply.vals \in StatusLists /\ UpdateStatus(reply.vals) /\ UNCHANGED <<view, event, t1>>
    BY <1>4, ReplyList DEF ApplyReply, t1Vars
  <2>2. CASE t1 = "install"
    BY <2>1, <2>2 DEF UpdateStatus, busVars, FollowInv, Unannounced
  <2>3. CASE t1 # "install"
    <3>1. ASSUME NEW d \in Devices, NEW f \in Flags
          PROVE  /\ NewestIsCached(d, f)'
                 /\ ~missed' /\ Unannounced(d, f)' = {} =>
                       ~missed /\ Unannounced(d, f) = {} /\ (f \in cache'[d] <=> f \in cache[d])
      <4>1. NewestIsCached(d, f)
        BY <2>3 DEF FollowInv
      <4>. QED BY <2>1, <2>3, <4>1, UpdateFollows
    <3>. QED BY <2>1, <2>3, <3>1 DEF FollowInv, ToldIsCached, WillBeSeen
  <2>. QED BY <2>2, <2>3
<1>5. CASE HandlePanelData
  <2>. DEFINE v == [d \in {event.dev} |-> event.status]
  <2>1. /\ v \in StatusLists /\ UpdateStatus(v) /\ view' = view /\ event' = NoEvent
        /\ t1 = "handle" /\ t1' = "recv" /\ event.type = "PanelData"
    BY <1>5, HandledList DEF HandlePanelData
  <2>. HIDE DEF v
  <2>2. ASSUME NEW d \in Devices, NEW f \in Flags
        PROVE  /\ NewestIsCached(d, f)'
               /\ ~missed' /\ Unannounced(d, f)' = {} =>
                     ~missed /\ Unannounced(d, f) = {} /\ (f \in cache'[d] <=> f \in cache[d])
    <3>1. NewestIsCached(d, f) /\ t1 # "install"
      BY <2>1 DEF FollowInv
    <3>. QED BY <2>1, <3>1, UpdateFollows
  <2>3. \A d \in Devices, f \in Flags : ~Says(event, d, f)
    BY <2>1 DEF Says
  <2>4. ASSUME ~missed', NEW d \in Devices, NEW f \in Flags PROVE ToldIsCached(d, f)'
    BY <1>1, <2>1, <2>2, <2>3, <2>4 DEF FollowInv, ToldIsCached, WillBeSeen
  <2>. QED BY <2>1, <2>2, <2>4 DEF FollowInv
<1>6. CASE Receive
  <2>1. /\ t1 = "recv" /\ bus # <<>> /\ event' = Head(bus) /\ bus' = Tail(bus)
        /\ t1' = "handle" /\ UNCHANGED <<cache, view, missed>> /\ event = NoEvent
    BY <1>6 DEF Receive, FollowInv
  <2>2. /\ Len(bus) \in Nat \ {0} /\ Len(bus') = Len(bus) - 1 /\ event' = bus[1]
        /\ 1 \in 1..Len(bus)
        /\ \A i \in 1..(Len(bus) - 1) : bus'[i] = bus[i + 1] /\ i + 1 \in 1..Len(bus)
    BY <2>1, TailAt DEF TypeOK
  <2>3. ASSUME NEW d \in Devices, NEW f \in Flags, NEW i \in 1..Len(bus), Says(bus[i], d, f)
        PROVE  i = 1 \/ i - 1 \in Unannounced(d, f)'
    <3>1. CASE i # 1
      <4>1. i - 1 \in 1..(Len(bus) - 1) /\ (i - 1) + 1 = i
        BY <2>2, <3>1
      <4>2. bus'[i - 1] = bus[i] /\ i - 1 \in 1..Len(bus')
        BY <2>2, <4>1
      <4>. QED BY <2>3, <4>2 DEF Unannounced
    <3>. QED BY <3>1
  <2>4. ASSUME NEW d \in Devices, NEW f \in Flags PROVE NewestIsCached(d, f)'
    <3>. SUFFICES ASSUME NEW i \in Unannounced(d, f)', \A j \in Unannounced(d, f)' : j <= i
                  PROVE  f \in bus'[i].status <=> f \in cache[d]
      BY <2>1 DEF NewestIsCached
    <3>1. i \in 1..(Len(bus) - 1) /\ i + 1 \in Unannounced(d, f) /\ bus'[i] = bus[i + 1]
      BY <2>2 DEF Unannounced
    <3>2. ASSUME NEW j \in Unannounced(d, f) PROVE j <= i + 1
      <4>1. j \in 1..Len(bus) /\ Says(bus[j], d, f)
        BY DEF Unannounced
      <4>2. j = 1 \/ j - 1 <= i
        BY <2>3, <4>1
      <4>. QED BY <2>2, <3>1, <4>1, <4>2
    <3>. QED BY <2>1, <3>1, <3>2 DEF FollowInv, NewestIsCached
  <2>5. ASSUME ~missed', NEW d \in Devices, NEW f \in Flags PROVE ToldIsCached(d, f)'
    <3>. DEFINE seen == f \in IF Says(bus[1], d, f) THEN Told(view[d], bus[1]) ELSE view[d]
    <3>. SUFFICES ASSUME Unannounced(d, f)' = {}
                  PROVE  /\ f \in SetTold[d] /\ f \in cache[d] => seen
                         /\ f \in UnsetTold[d] /\ seen => f \in cache[d]
      BY <2>1, <2>2 DEF ToldIsCached, WillBeSeen
    <3>1. \A i \in Unannounced(d, f) : i = 1
      BY <2>3 DEF Unannounced
    <3>2. CASE Says(bus[1], d, f)
      <4>1. 1 \in Unannounced(d, f) /\ \A j \in Unannounced(d, f) : j <= 1
        BY <2>2, <3>1, <3>2 DEF Unannounced
      <4>2. f \in bus[1].status <=> f \in cache[d]
        BY <2>1, <4>1 DEF FollowInv, NewestIsCached
      <4>. QED BY <3>2, <4>2 DEF Told, Says
    <3>3. CASE ~Says(bus[1], d, f)
      <4>1. Unannounced(d, f) = {}
        BY <3>1, <3>3 DEF Unannounced
      <4>. QED BY <1>1, <2>1, <2>5, <3>3, <4>1 DEF FollowInv, ToldIsCached, WillBeSeen
    <3>. QED BY <3>2, <3>3
  <2>. QED BY <2>1, <2>4, <2>5 DEF FollowInv
<1>7. CASE HandleStatusChanged
  <2>1. /\ t1 = "handle" /\ t1' = "recv" /\ event.type = "StatusChanged"
        /\ view' = [view EXCEPT ![event.dev] = Told(@, event)] /\ event' = NoEvent
        /\ UNCHANGED <<bus, cache, missed>>
    BY <1>7 DEF HandleStatusChanged
  <2>2. ASSUME NEW d \in Devices, NEW f \in Flags
        PROVE  f \in view'[d] <=> WillBeSeen(d, f)
    <3>1. view'[d] = IF event.dev = d THEN Told(view[d], event) ELSE view[d]
      BY <2>1 DEF TypeOK
    <3>2. f \notin event.changed => (f \in Told(view[d], event) <=> f \in view[d])
      BY DEF Told
    <3>. QED BY <2>1, <3>1, <3>2 DEF WillBeSeen, Says
  <2>3. ASSUME ~missed', NEW d \in Devices, NEW f \in Flags PROVE ToldIsCached(d, f)'
    <3>1. WillBeSeen(d, f)' <=> WillBeSeen(d, f)
      BY <1>1, <2>1, <2>2 DEF WillBeSeen
    <3>2. Unannounced(d, f)' = Unannounced(d, f)
      BY <2>1 DEF Unannounced
    <3>3. ToldIsCached(d, f)
      BY <2>1, <2>3 DEF FollowInv
    <3>. QED BY <2>1, <3>1, <3>2, <3>3 DEF ToldIsCached
  <2>. QED BY <2>1, <2>3 DEF FollowInv, NewestIsCached, Unannounced
<1>8. CASE CopyDevices
  <2>1. /\ t1 = "handle" /\ t1' = "connect" /\ event' = NoEvent
        /\ \A d \in Devices, f \in Flags : ~Says(event, d, f) /\ UNCHANGED <<bus, cache, view, missed>>
    BY <1>8 DEF CopyDevices, busVars, Says
  <2>2. UNCHANGED <<bus, cache, view, missed>>
    BY <1>8 DEF CopyDevices, busVars
  <2>. QED BY <1>1, <2>1, <2>2 DEF FollowInv, NewestIsCached, ToldIsCached, WillBeSeen, Unannounced
<1>9. CASE Reconnect
  <2>1. t1 = "connect" /\ t1' = "install" /\ bus' = <<>> /\ event' = event
    BY <1>9 DEF Reconnect
  <2>2. \A d \in Devices, f \in Flags : Unannounced(d, f)' = {}
    <3>1. Len(bus') = 0 /\ 1..0 = {}
      BY <2>1, EmptySeq
    <3>. QED BY <3>1 DEF Unannounced
  <2>. QED BY <2>1, <2>2 DEF FollowInv
<1>10. CASE Install
  <2>1. t1 = "install" /\ t1' = "snapshot" /\ UNCHANGED <<bus, event>>
    BY <1>10 DEF Install, busVars
  <2>2. \A d \in Devices, f \in Flags : Unannounced(d, f)' = {}
    BY <2>1 DEF FollowInv, Unannounced
  <2>. QED BY <2>1, <2>2 DEF FollowInv, NewestIsCached
<1>11. CASE PublishReconnected
  <2>1. /\ t1 = "snapshot" /\ t1' = "recv" /\ view' = cache
        /\ UNCHANGED <<bus, event, cache>> /\ event = NoEvent
    BY <1>11 DEF PublishReconnected, PublishSnapshot, FollowInv
  <2>. QED BY <1>1, <2>1 DEF FollowInv, NewestIsCached, ToldIsCached, WillBeSeen, Unannounced
<1>12. CASE PublishPolled
  <2>1. /\ view' = cache /\ UNCHANGED <<bus, event, cache, t1>>
        /\ missed' = (missed /\ event # NoEvent)
    BY <1>12 DEF PublishPolled, PublishSnapshot, t1Vars
  <2>2. ASSUME ~missed', t1 \notin {"install", "snapshot"}, NEW d \in Devices, NEW f \in Flags
        PROVE  ToldIsCached(d, f)'
    <3>1. CASE event = NoEvent
      BY <1>1, <2>1, <3>1 DEF ToldIsCached, WillBeSeen
    <3>2. CASE ~missed
      <4>1. Unannounced(d, f)' = Unannounced(d, f)
        BY <2>1 DEF Unannounced
      <4>2. Unannounced(d, f) = {} =>
               /\ f \in SetTold[d] /\ f \in cache[d] => WillBeSeen(d, f)'
               /\ f \in UnsetTold[d] /\ WillBeSeen(d, f)' => f \in cache[d]
        BY <2>1, <2>2, <3>2 DEF FollowInv, ToldIsCached, WillBeSeen, Told, Says
      <4>. QED BY <2>1, <4>1, <4>2 DEF ToldIsCached
    <3>. QED BY <2>1, <2>2, <3>1, <3>2
  <2>. QED BY <2>1, <2>2 DEF FollowInv, NewestIsCached, Unannounced
<1>13. CASE UNCHANGED <<bus, cache, view, event, t1, missed>>
  BY <1>13 DEF FollowInv, NewestIsCached, ToldIsCached, WillBeSeen, Unannounced
<1>. QED
  BY <1>2, <1>3, <1>4, <1>5, <1>6, <1>7, <1>8, <1>9, <1>10, <1>11, <1>12, <1>13
  DEF Next, Panel, PanelChanges, PanelAnswers, PanelRefuses, PanelReboots, Tick, SendQuery,
      QueryFails, Task1, WithMutex, Task3, busVars, t1Vars, vars

-----------------------------------------------------------------------------
(* The refresh.  While Task 3 holds the mutex there is one answer at most, on  *)
(* the wire or in its hands, about the query it is at; it was true when the    *)
(* panel gave it, unless it is an error; and so is what was stored before.    *)

Answers == {i \in 1..Len(wire) : wire[i].type = "answer"}

TrueOfBatch(v) == DOMAIN v = Batches[batch] /\ \A d \in DOMAIN v : v[d] \in truths[d]

PanelSeen == t3 # "tick" => \A d \in Devices : panel[d] \in truths[d]

AnswerOnWire ==
    \A i \in Answers : /\ t3 = "wait" /\ reply = NoReply
                       /\ \A j \in Answers : j = i
                       /\ ~refused => TrueOfBatch(wire[i].vals)

AnswerInHand == reply # NoReply => t3 = "wait" /\ (~refused => TrueOfBatch(reply.vals))

StoredSoFar ==
    /\ t3 = "tick" => batch = 1
    /\ ~refused /\ t3 \in {"query", "wait"} =>
          \A j \in 1..(batch - 1) : \A d \in Batches[j] : cache[d] \in truths[d]

PollInv == PanelSeen /\ AnswerOnWire /\ AnswerInHand /\ StoredSoFar /\ SnapshotIsPolled

LEMMA WireKept ==
    ASSUME TypeOK, AnswerOnWire,
           \/ wire' = wire
           \/ wire' = <<>>
           \/ \E f \in Frames : f.type # "answer" /\ Send(f)
    PROVE  \A i \in Answers' : i \in Answers /\ wire'[i] = wire[i]
<1>1. wire \in Seq(Frames)
  BY DEF TypeOK
<1>2. CASE wire' = <<>>
  <2>1. Len(wire') = 0 /\ 1..0 = {}
    BY <1>2, EmptySeq
  <2>. QED BY <2>1 DEF Answers
<1>3. ASSUME NEW f \in Frames, f.type # "answer", wire' = Append(wire, f)
      PROVE  \A i \in Answers' : i \in Answers /\ wire'[i] = wire[i]
  BY <1>1, <1>3, AppendAt DEF Answers
<1>. QED BY <1>2, <1>3 DEF Answers, Send

(* Steps that leave Task 3 where it is, and lengthen the history at most. *)
LEMMA PollKept ==
    ASSUME TypeOK, PollInv, UNCHANGED <<t3, batch, reply, refused, ok>>,
           t3 # "tick" => cache' = cache,
           PanelSeen', \A d \in Devices : truths[d] \subseteq truths'[d],
           \A i \in Answers' : i \in Answers /\ wire'[i] = wire[i]
    PROVE  PollInv'
<1>1. ASSUME NEW v, TrueOfBatch(v) PROVE TrueOfBatch(v)'
  <2>1. batch \in 1..Len(Batches) /\ Batches[batch] \in SUBSET Devices
    BY CacheConstants, ElementOfSeq DEF TypeOK
  <2>. QED BY <1>1, <2>1 DEF TrueOfBatch
<1>2. AnswerOnWire'
  BY <1>1 DEF PollInv, AnswerOnWire
<1>3. AnswerInHand'
  BY <1>1 DEF PollInv, AnswerInHand
<1>4. \A j \in 1..Len(Batches) : Batches[j] \in SUBSET Devices
  BY CacheConstants, ElementOfSeq
<1>5. batch \in 1..Len(Batches) /\ Len(Batches) \in Nat
  BY CacheConstants, LenProperties DEF TypeOK
<1>6. StoredSoFar'
  <2>1. CASE t3 = "tick"
    BY <2>1 DEF PollInv, StoredSoFar
  <2>2. CASE t3 # "tick"
    <3>1. ASSUME ~refused, t3 \in {"query", "wait"}, NEW j \in 1..(batch - 1), NEW d \in Batches[j]
          PROVE  cache'[d] \in truths'[d]
      <4>1. j \in 1..Len(Batches)
        BY <1>5
      <4>2. d \in Devices /\ cache[d] \in truths[d]
        BY <1>4, <3>1, <4>1 DEF PollInv, StoredSoFar
      <4>. QED BY <2>2, <4>2
    <3>. QED BY <2>2, <3>1 DEF StoredSoFar
  <2>. QED BY <2>1, <2>2
<1>7. SnapshotIsPolled'
  BY DEF PollInv, SnapshotIsPolled
<1>. QED BY <1>2, <1>3, <1>6, <1>7 DEF PollInv

LEMMA PanelPoll ==
    ASSUME TypeOK, PollInv, Panel \/ ReadFrame \/ ConnectionLost \/ WatchdogGivesUp
    PROVE  PollInv'
<1>1. ASSUME NEW d \in Devices, NEW s \in Statuses, PanelChanges(d, s) PROVE PollInv'
  <2>1. /\ panel' = [panel EXCEPT ![d] = s] /\ UNCHANGED <<t3, batch, reply, refused, ok, cache>>
        /\ truths' = IF t3 = "tick" THEN truths ELSE [truths EXCEPT ![d] = @ \cup {s}]
    BY <1>1 DEF PanelChanges, t3Vars, MutexFree
  <2>2. truths \in [Devices -> SUBSET Statuses] /\ panel \in [Devices -> Statuses]
    BY DEF TypeOK, StatusOf
  <2>3. PanelSeen' /\ \A x \in Devices : truths[x] \subseteq truths'[x]
    BY <2>1, <2>2 DEF PollInv, PanelSeen
  <2>4. Push(d, s) \in Frames /\ Push(d, s).type = "PanelData"
    BY DEF Frames, Push
  <2>5. \A i \in Answers' : i \in Answers /\ wire'[i] = wire[i]
    BY <1>1, <2>4, WireKept DEF PanelChanges, PollInv
  <2>. QED BY <2>1, <2>3, <2>5, PollKept
<1>2. CASE PanelReboots \/ ConnectionLost \/ WatchdogGivesUp
  <2>1. /\ UNCHANGED <<t3, batch, reply, refused, ok, cache, panel, truths>>
    BY <1>2 DEF PanelReboots, ConnectionLost, WatchdogGivesUp, readerVars, t3Vars
  <2>2. BootRes \in Frames /\ BootRes.type = "BOOTRES"
    BY DEF Frames, BootRes
  <2>3. \A i \in Answers' : i \in Answers /\ wire'[i] = wire[i]
    BY <1>2, <2>2, WireKept DEF PanelReboots, ConnectionLost, WatchdogGivesUp, readerVars, PollInv
  <2>4. PanelSeen'
    BY <2>1 DEF PollInv, PanelSeen
  <2>. QED BY <2>1, <2>3, <2>4, PollKept
<1>3. CASE PanelAnswers
  <2>. DEFINE v == [d \in Batches[batch] |-> panel[d]]
  <2>1. /\ t3 = "wait" /\ reply = NoReply /\ Answers = {} /\ wire' = Append(wire, Answer(v))
        /\ UNCHANGED <<t3, batch, reply, refused, ok, cache, panel, truths>>
    BY <1>3 DEF PanelAnswers, Answering, Answers, Send, t3Vars
  <2>2. wire' \in Seq(Frames) /\ wire \in Seq(Frames)
    BY <1>3, WireType DEF TypeOK, Next, Panel
  <2>3. batch \in 1..Len(Batches) /\ Batches[batch] \in SUBSET Devices
    BY CacheConstants, ElementOfSeq DEF TypeOK
  <2>4. TrueOfBatch(v)
    BY <2>1, <2>3 DEF PollInv, PanelSeen, TrueOfBatch
  <2>5. Answer(v).vals = v
    BY DEF Answer
  <2>. HIDE DEF v
  <2>6. Len(wire) \in Nat /\ Len(wire') = Len(wire) + 1 /\ wire'[Len(wire) + 1] = Answer(v)
        /\ \A i \in 1..Len(wire) : wire'[i] = wire[i]
    BY <2>1, <2>2, LenProperties
  <2>7. \A i \in Answers' : i = Len(wire) + 1
    BY <2>1, <2>6 DEF Answers
  <2>8. AnswerOnWire'
    BY <2>1, <2>4, <2>5, <2>6, <2>7 DEF AnswerOnWire, TrueOfBatch
  <2>. QED BY <2>1, <2>8 DEF PollInv, PanelSeen, AnswerInHand, StoredSoFar, SnapshotIsPolled
<1>4. CASE PanelRefuses
  <2>. DEFINE v == [d \in {FirstOf[batch]} |-> ErrorStatus]
  <2>1. /\ t3 = "wait" /\ reply = NoReply /\ Answers = {} /\ wire' = Append(wire, Answer(v))
        /\ refused' /\ UNCHANGED <<t3, batch, reply, ok, cache, panel, truths>>
    BY <1>4 DEF PanelRefuses, Answering, Answers, Send
  <2>2. wire' \in Seq(Frames) /\ wire \in Seq(Frames)
    BY <1>4, WireType DEF TypeOK, Next, Panel
  <2>. HIDE DEF v
  <2>3. Len(wire) \in Nat /\ Len(wire') = Len(wire) + 1
        /\ \A i \in 1..Len(wire) : wire'[i] = wire[i]
    BY <2>1, <2>2, LenProperties
  <2>4. \A i \in Answers' : i = Len(wire) + 1
    BY <2>1, <2>3 DEF Answers
  <2>. QED BY <2>1, <2>4
    DEF PollInv, PanelSeen, AnswerOnWire, AnswerInHand, StoredSoFar, SnapshotIsPolled
<1>5. CASE ReadFrame
  <2>1. /\ wire # <<>> /\ wire' = Tail(wire)
        /\ UNCHANGED <<t3, batch, refused, ok, cache, panel, truths>>
    BY <1>5 DEF ReadFrame, readerVars
  <2>2. /\ Head(wire) \in Frames /\ Head(wire) = wire[1] /\ 1 \in 1..Len(wire)
        /\ Len(wire) \in Nat \ {0} /\ Len(wire') = Len(wire) - 1
        /\ \A i \in 1..(Len(wire) - 1) : wire'[i] = wire[i + 1] /\ i + 1 \in 1..Len(wire)
    BY <2>1, TailAt DEF TypeOK
  <2>3. \A i \in Answers' : i + 1 \in Answers /\ wire'[i] = wire[i + 1] /\ i \in Nat \ {0}
    BY <2>2 DEF Answers
  <2>4. CASE Head(wire).type = "answer"
    <3>1. reply' = Head(wire) /\ 1 \in Answers
      BY <1>5, <2>2, <2>4 DEF ReadFrame, Answers
    <3>2. t3 = "wait" /\ (\A j \in Answers : j = 1) /\ (~refused => TrueOfBatch(wire[1].vals))
      BY <3>1 DEF PollInv, AnswerOnWire
    <3>3. Answers' = {}
      BY <2>3, <3>2
    <3>. QED BY <2>1, <2>2, <3>1, <3>2, <3>3
      DEF PollInv, PanelSeen, AnswerOnWire, AnswerInHand, StoredSoFar, SnapshotIsPolled, TrueOfBatch
  <2>5. CASE Head(wire).type # "answer"
    <3>1. reply' = reply
      BY <1>5, <2>2, <2>5, FrameKinds DEF ReadFrame
    <3>2. ASSUME NEW i \in Answers'
          PROVE  /\ t3 = "wait" /\ reply = NoReply /\ \A j \in Answers' : j = i
                 /\ ~refused => TrueOfBatch(wire'[i].vals)
      <4>1. /\ t3 = "wait" /\ reply = NoReply /\ \A j \in Answers : j = i + 1
            /\ ~refused => TrueOfBatch(wire[i + 1].vals)
        BY <2>3 DEF PollInv, AnswerOnWire
      <4>2. ASSUME NEW j \in Answers' PROVE j = i
        <5>1. j + 1 = i + 1
          BY <2>3, <4>1
        <5>. QED BY <2>3, <5>1
      <4>. QED BY <2>3, <4>1, <4>2
    <3>. QED BY <2>1, <3>1, <3>2
      DEF PollInv, PanelSeen, AnswerOnWire, AnswerInHand, StoredSoFar, SnapshotIsPolled, TrueOfBatch
  <2>. QED BY <2>4, <2>5
<1>. QED BY <1>1, <1>2, <1>3, <1>4, <1>5 DEF Panel

LEMMA Task1Poll ==
    ASSUME TypeOK, PollInv, Task1
    PROVE  PollInv'
<1>1. /\ UNCHANGED <<t3, batch, reply, refused, ok, panel, truths>> /\ wire' \in {wire, <<>>}
      /\ t3 # "tick" => cache' = cache
  BY DEF Task1, WithMutex, Receive, HandlePanelData, HandleStatusChanged, CopyDevices,
     Reconnect, Install, PublishReconnected, t1Idle, t3Vars, MutexFree
<1>2. \A i \in Answers' : i \in Answers /\ wire'[i] = wire[i]
  BY <1>1, WireKept DEF PollInv
<1>3. PanelSeen'
  BY <1>1 DEF PollInv, PanelSeen
<1>. QED BY <1>1, <1>2, <1>3, PollKept

LEMMA Task3Poll ==
    ASSUME TypeOK, PollInv, Task3 \/ QueryFails
    PROVE  PollInv'
<1>1. t3 # "wait" => Answers = {} /\ reply = NoReply
  BY DEF PollInv, AnswerOnWire, AnswerInHand
<1>2. CASE Tick
  <2>1. /\ t3 = "tick" /\ t3' = "query" /\ truths' = [d \in Devices |-> {panel[d]}]
        /\ UNCHANGED <<panel, wire, batch, reply>>
    BY <1>2 DEF Tick
  <2>2. PanelSeen'
    BY <2>1 DEF PanelSeen
  <2>3. batch' = 1 /\ 1..(1 - 1) = {}
    BY <2>1 DEF PollInv, StoredSoFar
  <2>4. StoredSoFar'
    BY <2>1, <2>3 DEF StoredSoFar
  <2>. QED BY <1>1, <2>1, <2>2, <2>4
    DEF PollInv, Answers, AnswerOnWire, AnswerInHand, SnapshotIsPolled
<1>3. CASE SendQuery
  <2>1. /\ t3 = "query" /\ t3' = "wait" /\ reply' = NoReply
        /\ UNCHANGED <<panel, wire, cache, batch, refused, truths>>
    BY <1>3 DEF SendQuery
  <2>. QED BY <1>1, <2>1
    DEF PollInv, PanelSeen, Answers, AnswerOnWire, AnswerInHand, StoredSoFar, SnapshotIsPolled
<1>4. CASE ApplyReply
  <2>. DEFINE v == reply.vals
  <2>1. /\ t3 = "wait" /\ reply # NoReply /\ reply' = NoReply /\ cache' = Updated(v)
        /\ UNCHANGED <<panel, wire, refused, truths>>
        /\ IF batch < Len(Batches)
           THEN t3' = "query" /\ batch' = batch + 1 /\ UNCHANGED ok
           ELSE t3' = "publish" /\ ok' = TRUE /\ UNCHANGED batch
    BY <1>4 DEF ApplyReply, UpdateStatus, Updated
  <2>2. Answers' = {}
    BY <2>1 DEF PollInv, AnswerOnWire, Answers
  <2>3. ~refused => TrueOfBatch(v)
    BY <2>1 DEF PollInv, AnswerInHand
  <2>4. /\ batch \in 1..Len(Batches) /\ Len(Batches) \in Nat
        /\ \A j \in 1..Len(Batches) : Batches[j] \in SUBSET Devices
    BY CacheConstants, LenProperties, ElementOfSeq DEF TypeOK
  <2>. HIDE DEF v
  <2>5. ASSUME ~refused, NEW j \in 1..batch, NEW d \in Batches[j]
        PROVE  cache'[d] \in truths[d]
    <3>1. j \in 1..Len(Batches) /\ (j = batch \/ j \in 1..(batch - 1))
      BY <2>4
    <3>2. d \in Devices
      BY <2>4, <3>1
    <3>3. cache'[d] = IF d \in DOMAIN v THEN v[d] ELSE cache[d]
      BY <2>1, <3>2 DEF Updated
    <3>4. DOMAIN v = Batches[batch] /\ \A x \in DOMAIN v : v[x] \in truths[x]
      BY <2>3, <2>5 DEF TrueOfBatch
    <3>5. CASE j = batch
      BY <2>5, <3>3, <3>4, <3>5
    <3>6. CASE j \in 1..(batch - 1)
      <4>1. cache[d] \in truths[d]
        BY <2>1, <2>5, <3>6 DEF PollInv, StoredSoFar
      <4>. QED BY <3>3, <3>4, <4>1
    <3>. QED BY <3>1, <3>5, <3>6
  <2>6. PanelSeen' /\ AnswerOnWire' /\ AnswerInHand'
    BY <2>1, <2>2 DEF PollInv, PanelSeen, AnswerOnWire, AnswerInHand
  <2>7. CASE batch < Len(Batches)
    <3>1. t3' = "query" /\ batch' = batch + 1 /\ (batch + 1) - 1 = batch
      BY <2>1, <2>4, <2>7
    <3>2. StoredSoFar'
      BY <2>1, <2>5, <3>1 DEF StoredSoFar
    <3>. QED BY <2>6, <3>1, <3>2 DEF PollInv, SnapshotIsPolled
  <2>8. CASE ~(batch < Len(Batches))
    <3>1. t3' = "publish" /\ batch = Len(Batches)
      BY <2>1, <2>4, <2>8
    <3>2. ASSUME ~refused, NEW d \in Devices PROVE cache'[d] \in truths[d]
      <4>1. \E j \in DOMAIN Batches : d \in Batches[j]
        BY CacheConstants
      <4>2. DOMAIN Batches = 1..batch
        BY CacheConstants, LenProperties, <3>1
      <4>. QED BY <2>5, <3>2, <4>1, <4>2
    <3>. QED BY <2>1, <2>6, <3>1, <3>2 DEF PollInv, StoredSoFar, SnapshotIsPolled
  <2>. QED BY <2>7, <2>8
<1>5. CASE PublishPolled
  <2>1. /\ t3 = "publish" /\ t3' = "tick" /\ batch' = 1 /\ UNCHANGED <<wire, reply>>
    BY <1>5 DEF PublishPolled
  <2>. QED BY <1>1, <2>1
    DEF PollInv, PanelSeen, Answers, AnswerOnWire, AnswerInHand, StoredSoFar, SnapshotIsPolled
<1>6. CASE QueryFails
  <2>. DEFINE k == CHOOSE i \in Answers : TRUE
  <2>1. /\ t3 = "wait" /\ reply = NoReply /\ t3' = "publish" /\ ~ok'
        /\ UNCHANGED <<panel, cache, batch, reply, refused, truths>>
        /\ wire' = IF Answers = {} THEN wire ELSE RemoveAt(wire, k)
    BY <1>6 DEF QueryFails, Answers
  <2>2. Answers' = {}
    <3>1. CASE Answers = {}
      BY <2>1, <3>1 DEF Answers
    <3>2. CASE Answers # {}
      <4>1. k \in Answers
        BY <3>2
      <4>. HIDE DEF k
      <4>2. PICK m \in Answers : wire' = RemoveAt(wire, m) /\ \A j \in Answers : j = m
        BY <2>1, <3>2, <4>1 DEF PollInv, AnswerOnWire
      <4>3. wire \in Seq(Frames) /\ m \in 1..Len(wire)
        BY DEF TypeOK, Answers
      <4>4. \A i \in 1..Len(RemoveAt(wire, m)) :
               \E j \in 1..Len(wire) : j # m /\ RemoveAt(wire, m)[i] = wire[j]
        BY <4>3, RemovedAt, SMTT(30)
      <4>5. \A i \in 1..Len(wire') : \E j \in 1..Len(wire) : j # m /\ wire'[i] = wire[j]
        BY <4>2, <4>4, SMTT(30)
      <4>6. ASSUME NEW i \in Answers' PROVE FALSE
        <5>1. i \in 1..Len(wire') /\ wire'[i].type = "answer"
          BY DEF Answers
        <5>2. PICK j \in 1..Len(wire) : j # m /\ wire'[i] = wire[j]
          BY <4>5, <5>1
        <5>3. j \in Answers
          BY <5>1, <5>2 DEF Answers
        <5>. QED BY <4>2, <5>2, <5>3
      <4>. QED BY <4>6
    <3>. QED BY <3>1, <3>2
  <2>. HIDE DEF k
  <2>. QED BY <2>1, <2>2
    DEF PollInv, PanelSeen, AnswerOnWire, AnswerInHand, StoredSoFar, SnapshotIsPolled
<1>. QED BY <1>2, <1>3, <1>4, <1>5, <1>6 DEF Task3

LEMMA PollStep ==
    ASSUME TypeOK, PollInv, [Next]_vars
    PROVE  PollInv'
<1>1. CASE UNCHANGED vars
  <2>1. UNCHANGED <<panel, wire, cache, t3, batch, reply, truths, refused, ok>>
    BY <1>1 DEF vars
  <2>. QED BY <2>1
    DEF PollInv, PanelSeen, Answers, AnswerOnWire, AnswerInHand, TrueOfBatch, StoredSoFar,
        SnapshotIsPolled
<1>. QED BY <1>1, PanelPoll, Task1Poll, Task3Poll DEF Next

-----------------------------------------------------------------------------
CacheInv == TypeOK /\ FollowInv /\ PollInv

LEMMA InitCache == Init => CacheInv
<1>. SUFFICES ASSUME Init PROVE CacheInv
  OBVIOUS
<1>1. Len(<<>>) = 0 /\ 1..0 = {} /\ 1..(1 - 1) = {}
  BY EmptySeq
<1>2. wire = <<>> /\ bus = <<>> /\ wire \in Seq(Frames) /\ bus \in Seq(Events)
  BY DEF Init
<1>3. TypeOK
  <2>1. {MaxWire, BusCapacity, MaxChanges, MaxFaults} \subseteq Nat
    BY CacheConstants
  <2>2. Len(Batches) \in Nat \ {0}
    BY CacheConstants, EmptySeq, LenProperties
  <2>3. saved \in StatusOf
    BY DEF Init, NoCopy
  <2>4. truths \in [Devices -> SUBSET Statuses]
    BY DEF Init, NoTruths
  <2>5. {up, watching, refused, ok, missed} \subseteq BOOLEAN
    BY DEF Init
  <2>6. budget \in [changes : 0..MaxChanges, faults : 0..MaxFaults]
    BY <2>1 DEF Init
  <2>7. view \in [Devices -> SUBSET Flags]
    BY FlagsDiffer DEF Init, StatusOf
  <2>. QED BY <1>1, <1>2, <2>1, <2>2, <2>3, <2>4, <2>5, <2>6, <2>7 DEF Init, TypeOK
<1>4. \A d \in Devices, f \in Flags : Unannounced(d, f) = {}
  BY <1>1, <1>2 DEF Unannounced
<1>5. \A d \in Devices, f \in Flags : ~Says(event, d, f)
  BY DEF Init, NoEvent, Says
<1>6. FollowInv
  BY <1>4, <1>5 DEF Init, FollowInv, NewestIsCached, ToldIsCached, WillBeSeen, NoEvent
<1>7. PollInv
  BY <1>1, <1>2 DEF Init, PollInv, PanelSeen, Answers, AnswerOnWire, AnswerInHand, StoredSoFar,
     SnapshotIsPolled
<1>. QED BY <1>3, <1>6, <1>7 DEF CacheInv

(* What a subscriber has been told, with the events still to be announced, is *)
(* the cache; and what a refresh has stored so far is what the panel had.     *)
THEOREM CacheInvariant == Spec => []CacheInv
<1>1. CacheInv /\ [Next]_vars => CacheInv'
  BY TypeStep, FollowStep, PollStep DEF CacheInv
<1>. QED BY InitCache, <1>1, PTL DEF Spec

(* Types, and the limit of the event channel of event.rs.                    *)
THEOREM TypeCorrect == Spec => []TypeOK
<1>1. CacheInv => TypeOK
  BY DEF CacheInv
<1>. QED BY <1>1, CacheInvariant, PTL

(* A refresh_status of Task 3 that returned Ok shows, for every device, a     *)
(* status it really had since the mutex was taken, unless a query was refused. *)
THEOREM PolledSnapshots == Spec => []SnapshotIsPolled
<1>1. CacheInv => SnapshotIsPolled
  BY DEF CacheInv, PollInv
<1>. QED BY <1>1, CacheInvariant, PTL

(* The events Task 1 has still to announce bring a subscriber of MQTT to every *)
(* cached flag of every device whose changes are published, in the direction  *)
(* in which they are; with the exceptions named in the property.             *)
THEOREM SubscribersFollow == Spec => []SubscriberFollowsCache
<1>1. CacheInv => SubscriberFollowsCache
  BY DEF CacheInv, FollowInv, NewestIsCached, ToldIsCached, SubscriberFollowsCache
<1>. QED BY <1>1, CacheInvariant, PTL
=============================================================================
