------------------------- MODULE CommandEngineProofs -------------------------
(***************************************************************************)
(* Theorems about the command engine, for every number of callers, ids,      *)
(* attempts, permits and calls; the last of them that send_command implements *)
(* the service of CommandService.                                           *)
(***************************************************************************)
EXTENDS CommandEngine, FiniteSetTheorems, TLAPS

USE EngineConstants

(* The invariant holds when a connection has just been made. *)
LEMMA InitInv == Init => EngineInv
<1> SUFFICES ASSUME Init PROVE EngineInv
  OBVIOUS
<1>1. TypeOK
  <2>1. tok \in [Callers -> Attempts]
    BY DEF Init, NoAttempt, Attempts, None
  <2>2. pending \in [1..MaxSeq -> Nat] /\ got \in [Callers -> Nat]
    BY DEF Init, None
  <2>3. pc \in [Callers -> {"idle", "gate", "acquire", "check", "claim", "insert",
                            "write", "wait", "timed_out", "closed"}]
    BY DEF Init
  <2>4. result \in [Callers -> {"none", "Ok", "Io", "Disconnected",
                                "ChannelClosed", "CommandTimeout"}]
    BY DEF Init
  <2>5. is_prog_cmd \in [Callers -> BOOLEAN] /\ attempt \in [Callers -> 0..MaxAttempts]
    BY DEF Init
  <2>6. /\ sequence_id \in 1..MaxSeq /\ permits \in Nat /\ connected \in BOOLEAN
        /\ in_prog \in {"before", "in", "after"} /\ calls \in 0..MaxCalls
        /\ issued \in Nat /\ outstanding \subseteq Attempts
    BY DEF Init
  <2>7. link \in BOOLEAN /\ reading \in BOOLEAN /\ dcn \in {"no", "sent", "done"}
        /\ overrun \in BOOLEAN
    BY DEF Init
  <2> QED
    BY <2>1, <2>2, <2>3, <2>4, <2>5, <2>6, <2>7 DEF TypeOK
<1>2. Live = {}
  BY DEF Init, Live, InFlight
<1>3. Numbering /\ WithinMaxSeq /\ SenderPlace
  BY <1>2 DEF Init, Numbering, WithinMaxSeq, SenderPlace, InFlight, None
<1>4. ReceiverState /\ ClosedOnlyAfterOverrun /\ NoLeakWhileUp
  BY DEF Init, ReceiverState, Receiving, ClosedOnlyAfterOverrun, NoLeakWhileUp
<1> QED
  BY <1>1, <1>3, <1>4 DEF EngineInv

(* Fewer than MaxSeq claims apart, ids differ. *)
LEMMA IdAtInjective ==
    ASSUME NEW seq \in 1..MaxSeq, NEW a \in 0..MaxSeq-1, NEW b \in 0..MaxSeq-1,
           IdAt(seq, a) = IdAt(seq, b)
    PROVE  a = b
BY DEF IdAt

(* Taking an id moves every earlier one a claim further back. *)
LEMMA IdAtNext ==
    ASSUME TypeOK
    PROVE  /\ NextId \in 1..MaxSeq
           /\ IdAt(NextId, 0) = sequence_id
           /\ \A a \in Nat : a + 1 < MaxSeq =>
                 IdAt(NextId, a + 1) = IdAt(sequence_id, a)
<1>1. sequence_id \in 1..MaxSeq
  BY DEF TypeOK
<1> QED
  BY <1>1 DEF IdAt, NextId

(* Two live attempts that follow the id law with the same id are the same.   *)
LEMMA SameIdSameAttempt ==
    ASSUME TypeOK, NEW t \in Attempts, NEW u \in Attempts,
           t.n \in 1..issued, u.n \in 1..issued, IdLaw(t), IdLaw(u),
           Age(t) < MaxSeq, Age(u) < MaxSeq, t.id = u.id
    PROVE  t.n = u.n
<1>1. sequence_id \in 1..MaxSeq /\ issued \in Nat
  BY DEF TypeOK
<1>2. Age(t) \in 0..MaxSeq-1 /\ Age(u) \in 0..MaxSeq-1
  BY <1>1 DEF Age
<1>3. IdAt(sequence_id, Age(t)) = IdAt(sequence_id, Age(u))
  BY DEF IdLaw
<1>4. Age(t) = Age(u)
  BY <1>1, <1>2, <1>3, IdAtInjective
<1> QED
  BY <1>1, <1>4 DEF Age

Results == {"none", "Ok", "Io", "Disconnected", "ChannelClosed", "CommandTimeout"}

(* Returning and leaving an attempt keep the types of what they write. *)
LEMMA ReturnType ==
    ASSUME TypeOK, NEW c \in Callers, NEW r \in Results, Return(c, r)
    PROVE  /\ pc' \in [Callers -> {"idle", "gate", "acquire", "check", "claim",
                         "insert", "write", "wait", "timed_out", "closed"}]
           /\ permits' \in Nat
           /\ is_prog_cmd' \in [Callers -> BOOLEAN]
           /\ attempt' \in [Callers -> 0..MaxAttempts]
           /\ result' \in [Callers -> {"none", "Ok", "Io", "Disconnected",
                                        "ChannelClosed", "CommandTimeout"}]
<1>1. permits' \in Nat /\ attempt' \in [Callers -> 0..MaxAttempts]
  BY DEF Return, TypeOK
<1>2. result' \in [Callers -> {"none", "Ok", "Io", "Disconnected", "ChannelClosed",
                               "CommandTimeout"}]
  BY DEF Return, TypeOK, Results
<1>3. is_prog_cmd' \in [Callers -> BOOLEAN]
  BY DEF Return, TypeOK
<1>4. pc' \in [Callers -> {"idle", "gate", "acquire", "check", "claim", "insert",
                           "write", "wait", "timed_out", "closed"}]
  BY DEF Return, TypeOK, Goto
<1> QED
  BY <1>1, <1>2, <1>3, <1>4

(* Forgetting the locals of an attempt keeps their types. *)
LEMMA LeaveAttemptType ==
    ASSUME TypeOK, NEW c \in Callers, LeaveAttempt(c)
    PROVE  tok' \in [Callers -> Attempts] /\ got' \in [Callers -> Nat]
BY DEF LeaveAttempt, TypeOK, NoAttempt, None, Attempts

(* Every step keeps the variables in their types. *)
LEMMA TypeStep == TypeOK /\ [Next]_vars => TypeOK'
<1> SUFFICES ASSUME TypeOK, [Next]_vars PROVE TypeOK'
  OBVIOUS
<1> USE DEF TypeOK
<1>1. ASSUME NEW c \in Callers, NEW prog \in BOOLEAN, Call(c, prog) PROVE TypeOK'
  BY <1>1 DEF Call, Goto, envVars, wireVars, seqVars
<1>2. ASSUME NEW c \in Callers, PassGate(c) PROVE TypeOK'
  BY <1>2 DEF PassGate, Goto, envVars, wireVars, seqVars, callVars
<1>3. ASSUME NEW c \in Callers, Acquire(c) PROVE TypeOK'
  BY <1>3 DEF Acquire, Goto, envVars, wireVars, seqVars
<1>4. ASSUME NEW c \in Callers, CheckConnected(c) PROVE TypeOK'
  <2>1. CASE connected
    BY <1>4, <2>1 DEF CheckConnected, Goto, envVars, wireVars, seqVars, callVars
  <2>2. CASE ~connected
    <3>1. Return(c, "Disconnected")
      BY <1>4, <2>2 DEF CheckConnected
    <3> QED
      BY <1>4, <3>1, ReturnType DEF CheckConnected, Results, envVars, wireVars, seqVars
  <2> QED
    BY <2>1, <2>2
<1>5. ASSUME NEW c \in Callers, Claim(c) PROVE TypeOK'
  BY <1>5, SMTT(30) DEF Claim, TakeId, NextId, Goto, None, Attempts, envVars, wireVars, callVars
<1>6. ASSUME NEW c \in Callers, Insert(c) PROVE TypeOK'
  BY <1>6 DEF Insert, Goto, Attempts, envVars, seqVars, callVars
<1>7. ASSUME NEW c \in Callers, Write(c) PROVE TypeOK'
  BY <1>7 DEF Write, Goto, envVars, seqVars, callVars
<1>8. ASSUME NEW c \in Callers, WriteFails(c) PROVE TypeOK'
  BY <1>8, ReturnType, LeaveAttemptType
     DEF WriteFails, Results, envVars, wireVars, seqVars
<1>9. ASSUME NEW c \in Callers, Receive(c) PROVE TypeOK'
  BY <1>9, ReturnType, LeaveAttemptType
     DEF Receive, Results, envVars, wireVars, seqVars
<1>10. ASSUME NEW c \in Callers, Timeout(c) \/ SenderDropped(c) PROVE TypeOK'
  BY <1>10, ZenonT(30) DEF Timeout, SenderDropped, Goto, envVars, wireVars, seqVars, callVars
<1>11. ASSUME NEW c \in Callers, TimeoutCleanup(c) PROVE TypeOK'
  <2>1. tok' \in [Callers -> Attempts] /\ got' \in [Callers -> Nat]
    BY <1>11, LeaveAttemptType DEF TimeoutCleanup
  <2>2. pending' \in [1..MaxSeq -> Nat]
    BY <1>11 DEF TimeoutCleanup, RemovePending, None
  <2>3. CASE attempt[c] < MaxAttempts
    <3>1. /\ attempt' = [attempt EXCEPT ![c] = attempt[c] + 1]
          /\ pc' = [pc EXCEPT ![c] = "check"]
          /\ UNCHANGED <<is_prog_cmd, permits, result>>
      BY <1>11, <2>3 DEF TimeoutCleanup, Goto
    <3>2. attempt[c] + 1 \in 0..MaxAttempts
      BY <2>3
    <3> QED
      BY <1>11, <2>1, <2>2, <3>1, <3>2 DEF TimeoutCleanup, envVars, seqVars
  <2>4. CASE attempt[c] = MaxAttempts
    <3>1. Return(c, "CommandTimeout")
      BY <1>11, <2>4 DEF TimeoutCleanup
    <3> QED
      BY <1>11, <2>1, <2>2, <3>1, ReturnType
         DEF TimeoutCleanup, Results, envVars, seqVars
  <2> QED
    BY <1>11, <2>3, <2>4 DEF TimeoutCleanup
<1>12. ASSUME NEW c \in Callers, ClosedCleanup(c) PROVE TypeOK'
  <2>1. pending' \in [1..MaxSeq -> Nat]
    BY <1>12 DEF ClosedCleanup, RemovePending, None
  <2> QED
    BY <1>12, <2>1, ReturnType, LeaveAttemptType
       DEF ClosedCleanup, Results, envVars, seqVars
<1>13. ASSUME NEW t \in outstanding, Reply(t) PROVE TypeOK'
  BY <1>13 DEF Reply, Attempts, None, envVars, seqVars, callerVars
<1>14. ASSUME NEW t \in outstanding, ReplyLost(t) PROVE TypeOK'
  BY <1>14 DEF ReplyLost, envVars, seqVars, callerVars
<1>15. ASSUME PeerGone \/ ReaderStops \/ CrcLimit \/ ClearConnected \/ SetInProg
       PROVE  TypeOK'
  BY <1>15, ZenonT(30) DEF PeerGone, ReaderStops, CrcLimit, ClearConnected, SetInProg,
               wireVars, seqVars, callerVars
<1>16. ASSUME SendDcn PROVE TypeOK'
  BY <1>16, SMTT(30) DEF SendDcn, TakeId, NextId, Attempts, callerVars, seqVars
<1>17. CASE UNCHANGED vars
  BY <1>17 DEF vars
<1> HIDE DEF TypeOK
<1> QED
  BY <1>1, <1>2, <1>3, <1>4, <1>5, <1>6, <1>7, <1>8, <1>9, <1>10, <1>11, <1>12,
     <1>13, <1>14, <1>15, <1>16, <1>17 DEF Next, CallerStep

-----------------------------------------------------------------------------
(* Two callers, or a caller and an attempt the panel has, with the same id    *)
(* are the same attempt while no overrun has happened.                      *)
LEMMA LiveIdsDistinct ==
    ASSUME EngineInv, ~overrun, NEW t \in Live, NEW u \in Live, t.id = u.id
    PROVE  t.n = u.n
<1>1. TypeOK /\ t \in Attempts /\ u \in Attempts
  BY DEF EngineInv, TypeOK, Live
<1>2. /\ t.n \in 1..issued /\ IdLaw(t) /\ Age(t) < MaxSeq
      /\ u.n \in 1..issued /\ IdLaw(u) /\ Age(u) < MaxSeq
  BY DEF EngineInv, Numbering, WithinMaxSeq
<1> QED
  BY <1>1, <1>2, SameIdSameAttempt

(* What any step that claims and inserts nothing preserves. *)
LEMMA NoClaimStep ==
    ASSUME EngineInv, TypeOK', UNCHANGED seqVars,
           outstanding' \subseteq Live,
           \A i \in 1..MaxSeq : pending'[i] = pending[i] \/ pending'[i] = None,
           \A c \in Callers : InFlight(c)' =>
               /\ InFlight(c)
               /\ tok'[c] = tok[c]
               /\ pc'[c] = "insert" => pc[c] = "insert"
    PROVE  Numbering' /\ WithinMaxSeq' /\ SenderPlace'
<1>1. Live' \subseteq Live
  BY DEF Live
<1>2. \A t \in Live : IdLaw(t) => IdLaw(t)'
  BY DEF IdLaw, Age, seqVars
<1>3. WithinMaxSeq'
  BY <1>1 DEF EngineInv, WithinMaxSeq, Age, seqVars
<1>4. \A t \in Live' : t.n \in 1..issued' /\ t.id \in 1..MaxSeq /\ IdLaw(t)'
  BY <1>1, <1>2 DEF EngineInv, Numbering, seqVars
<1> DEFINE Same(c) == /\ InFlight(c)
                      /\ tok'[c] = tok[c]
                      /\ pc'[c] = "insert" => pc[c] = "insert"
<1>5. \A i \in 1..MaxSeq : pending'[i] <= issued'
  <2>1. issued \in Nat /\ issued' = issued
    BY DEF EngineInv, TypeOK, seqVars
  <2>2. \A i \in 1..MaxSeq : pending[i] <= issued
    BY DEF EngineInv, Numbering
  <2> QED
    BY <2>1, <2>2 DEF None
<1>6. \A c, d \in Callers :
         c # d /\ InFlight(c)' /\ InFlight(d)' => tok'[c].n # tok'[d].n
  BY DEF EngineInv, Numbering
<1>7. \A c \in Callers : InFlight(c) => tok[c].n # None
  BY DEF EngineInv, Numbering, Live, None
<1>8. SenderPlace'
  <2> SUFFICES ASSUME NEW c \in Callers, NEW i \in 1..MaxSeq, InFlight(c)',
                      pending'[i] = tok'[c].n
               PROVE  i = tok'[c].id /\ pc'[c] # "insert"
    BY DEF SenderPlace
  <2>1. Same(c)
    OBVIOUS
  <2>2. pending[i] = tok[c].n
    BY <1>7, <2>1
  <2> QED
    BY <2>1, <2>2 DEF EngineInv, SenderPlace
<1> QED
  BY <1>3, <1>4, <1>5, <1>6, <1>8 DEF Numbering

(* What taking an id preserves. *)
LEMMA TakeIdStep ==
    ASSUME EngineInv, TypeOK', TakeId, NEW new,
           new = [n |-> issued + 1, id |-> sequence_id],
           Live' \subseteq Live \cup {new}
    PROVE  /\ WithinMaxSeq'
           /\ \A t \in Live' : t.n \in 1..issued' /\ t.id \in 1..MaxSeq /\ IdLaw(t)'
<1>1. issued \in Nat /\ issued' = issued + 1 /\ sequence_id \in 1..MaxSeq
      /\ sequence_id' = NextId
  BY DEF EngineInv, TypeOK, TakeId
<1>2. Age(new)' = 0 /\ new.n \in 1..issued' /\ new.id \in 1..MaxSeq
  <2>1. new.n = issued + 1 /\ new.id = sequence_id
    OBVIOUS
  <2>2. Age(new)' = issued' - new.n
    BY DEF Age
  <2> QED
    BY <1>1, <2>1, <2>2
<1>3. IdLaw(new)'
  <2>1. IdAt(NextId, 0) = sequence_id
    BY IdAtNext DEF EngineInv
  <2>2. IdLaw(new)' = (Age(new)' < MaxSeq => new.id = IdAt(sequence_id', Age(new)'))
    BY DEF IdLaw, IdAt
  <2> QED
    BY <1>1, <1>2, <2>1, <2>2
<1>4. ASSUME NEW t \in Live
      PROVE  /\ t.n \in 1..issued' /\ t.id \in 1..MaxSeq /\ IdLaw(t)'
             /\ ~overrun' => Age(t)' < MaxSeq
  <2>1. t.n \in 1..issued /\ t.id \in 1..MaxSeq /\ IdLaw(t)
    BY DEF EngineInv, Numbering
  <2>2. Age(t) \in Nat /\ Age(t)' = Age(t) + 1
    BY <1>1, <2>1 DEF Age
  <2>3. IdLaw(t)' = (Age(t)' < MaxSeq => t.id = IdAt(sequence_id', Age(t)'))
    BY DEF IdLaw, IdAt
  <2>5. IdLaw(t)'
    <3>1. CASE Age(t) + 1 < MaxSeq
      <4>1. IdAt(NextId, Age(t) + 1) = IdAt(sequence_id, Age(t))
        BY <3>1, <2>2, IdAtNext DEF EngineInv
      <4>2. t.id = IdAt(sequence_id, Age(t))
        BY <2>1, <2>2, <3>1 DEF IdLaw
      <4> QED
        BY <1>1, <2>2, <4>1, <4>2, <2>3
    <3>2. CASE ~(Age(t) + 1 < MaxSeq)
      BY <3>2, <2>2, <2>3
    <3> QED
      BY <3>1, <3>2
  <2>4. ~overrun' => Age(t)' < MaxSeq
    <3>1. ~overrun' => ~(t.n + MaxSeq <= issued + 1)
      BY DEF TakeId
    <3>2. Age(t)' = issued + 1 - t.n
      BY <1>1, <2>1 DEF Age
    <3> QED
      BY <1>1, <2>1, <3>1, <3>2
  <2> QED
    BY <1>1, <2>1, <2>4, <2>5
<1>5. Age(new)' < MaxSeq
  BY <1>2
<1>6. \A t \in Live' : t = new \/ t \in Live
  OBVIOUS
<1>7. WithinMaxSeq'
  BY <1>4, <1>5, <1>6 DEF WithinMaxSeq
<1> QED
  BY <1>2, <1>3, <1>4, <1>6, <1>7

(* Steps that touch neither the attempts nor the map. *)
LEMMA QuietStep ==
    ASSUME EngineInv, TypeOK',
           UNCHANGED <<pending, outstanding, seqVars, tok, got>>, link' => link,
           \A c \in Callers : /\ pc'[c] = pc[c] \/ (~InFlight(c) /\ ~InFlight(c)')
                             /\ (result'[c] # "ChannelClosed" \/ result'[c] = result[c])
    PROVE  EngineInv'
<1>1. Numbering' /\ WithinMaxSeq' /\ SenderPlace'
  <2>1. \A c \in Callers : InFlight(c)' =>
            InFlight(c) /\ tok'[c] = tok[c] /\ (pc'[c] = "insert" => pc[c] = "insert")
    BY DEF InFlight
  <2>2. outstanding' \subseteq Live
    BY DEF Live
  <2> QED
    BY <2>1, <2>2, NoClaimStep
<1>2. \A c \in Callers : pc'[c] = pc[c] \/
         pc'[c] \notin {"insert", "write", "wait", "timed_out", "closed"}
  BY DEF InFlight
<1>3. ReceiverState'
  BY <1>2 DEF EngineInv, ReceiverState, Receiving, seqVars
<1>4. ClosedOnlyAfterOverrun'
  BY <1>2 DEF EngineInv, ClosedOnlyAfterOverrun, seqVars
<1>5. NoLeakWhileUp'
  <2>1. \A c \in Callers : pc[c] \in {"write", "wait", "timed_out"} => pc'[c] = pc[c]
    BY DEF InFlight
  <2> QED
    BY <2>1 DEF EngineInv, NoLeakWhileUp, seqVars
<1> QED
  BY <1>1, <1>3, <1>4, <1>5 DEF EngineInv

(* The claim of an id. *)
LEMMA ClaimStep ==
    ASSUME EngineInv, TypeOK', NEW c \in Callers, Claim(c)
    PROVE  EngineInv'
<1> DEFINE n == issued + 1
<1>1. TypeOK /\ issued \in Nat /\ pc[c] = "claim" /\ pc' = [pc EXCEPT ![c] = "insert"]
      /\ tok' = [tok EXCEPT ![c] = [n |-> issued + 1, id |-> sequence_id]]
      /\ got' = [got EXCEPT ![c] = None]
      /\ UNCHANGED <<pending, outstanding, result, link>>
  BY DEF EngineInv, TypeOK, Claim, Goto, wireVars, envVars
<1>2. /\ pc'[c] = "insert" /\ tok'[c].n = issued + 1 /\ tok'[c].id = sequence_id
      /\ got'[c] = None
      /\ \A d \in Callers \ {c} : pc'[d] = pc[d] /\ tok'[d] = tok[d] /\ got'[d] = got[d]
  BY <1>1 DEF TypeOK
<1>3. PICK new : new = [n |-> issued + 1, id |-> sequence_id]
  OBVIOUS
<1>4. tok'[c] = new
  BY <1>1, <1>3 DEF TypeOK
<1>5. Live' \subseteq Live \cup {new}
  BY <1>1, <1>2, <1>4 DEF Live, InFlight
<1>6. TakeId
  BY DEF Claim
<1>7. WithinMaxSeq' /\ \A t \in Live' : t.n \in 1..issued' /\ t.id \in 1..MaxSeq /\ IdLaw(t)'
  BY <1>3, <1>5, <1>6, TakeIdStep
<1>8. issued' = issued + 1 /\ (~overrun' => ~overrun)
  BY <1>6 DEF TakeId
<1>9. \A d \in Callers : InFlight(d) => tok[d].n \in 1..issued
  BY DEF EngineInv, Numbering, Live
<1>10. \A i \in 1..MaxSeq : pending[i] \in Nat /\ pending[i] <= issued
  BY DEF EngineInv, Numbering, TypeOK
<1>11. \A d \in Callers \ {c} : InFlight(d)' => InFlight(d)
  BY <1>2 DEF InFlight
<1>12. Numbering'
  <2>1. \A i \in 1..MaxSeq : pending'[i] <= issued'
    BY <1>1, <1>8, <1>10
  <2>2. ASSUME NEW d \in Callers, NEW e \in Callers, d # e, InFlight(d)', InFlight(e)'
        PROVE  tok'[d].n # tok'[e].n
    <3>1. CASE d = c
      BY <2>2, <3>1, <1>1, <1>2, <1>9, <1>11
    <3>2. CASE e = c
      BY <2>2, <3>2, <1>1, <1>2, <1>9, <1>11
    <3>3. CASE d # c /\ e # c
      BY <2>2, <3>3, <1>2, <1>11 DEF EngineInv, Numbering
    <3> QED
      BY <3>1, <3>2, <3>3
  <2> QED
    BY <1>7, <2>1, <2>2 DEF Numbering
<1>13. SenderPlace'
  <2>1. ASSUME NEW d \in Callers, NEW i \in 1..MaxSeq, InFlight(d)', pending'[i] = tok'[d].n
        PROVE  i = tok'[d].id /\ pc'[d] # "insert"
    <3>1. d # c
      BY <2>1, <1>1, <1>2, <1>10
    <3> QED
      BY <2>1, <3>1, <1>1, <1>2, <1>11 DEF EngineInv, SenderPlace
  <2> QED
    BY <2>1 DEF SenderPlace
<1>14. ReceiverState'
  BY <1>1, <1>2, <1>8 DEF EngineInv, ReceiverState, Receiving
<1>15. ClosedOnlyAfterOverrun'
  BY <1>1, <1>2, <1>8 DEF EngineInv, ClosedOnlyAfterOverrun
<1>16. NoLeakWhileUp'
  BY <1>1, <1>2, <1>8 DEF EngineInv, NoLeakWhileUp
<1> QED
  BY <1>7, <1>12, <1>13, <1>14, <1>15, <1>16 DEF EngineInv

(* The sender goes into the map under an id nobody live has. *)
LEMMA InsertStep ==
    ASSUME EngineInv, TypeOK', NEW c \in Callers, Insert(c)
    PROVE  EngineInv'
<1>1. TypeOK /\ pc[c] = "insert" /\ pc' = [pc EXCEPT ![c] = "write"]
      /\ pending' = [pending EXCEPT ![tok[c].id] = tok[c].n]
      /\ UNCHANGED <<outstanding, tok, got, result, link>> /\ UNCHANGED seqVars
  BY DEF EngineInv, Insert, Goto, envVars
<1>2. tok[c] \in Live
  BY <1>1 DEF Live, InFlight
<1>3. tok[c] \in Attempts /\ tok[c].n \in 1..issued /\ tok[c].id \in 1..MaxSeq /\ issued \in Nat
  BY <1>1, <1>2 DEF EngineInv, Numbering, TypeOK
<1>4. /\ pc'[c] = "write"
      /\ \A d \in Callers \ {c} : pc'[d] = pc[d]
      /\ pending'[tok[c].id] = tok[c].n
      /\ \A i \in 1..MaxSeq \ {tok[c].id} : pending'[i] = pending[i]
  BY <1>1, <1>3 DEF TypeOK
<1>5. \A d \in Callers : InFlight(d)' <=> InFlight(d)
  BY <1>1, <1>4 DEF InFlight
<1>6. Live' = Live
  BY <1>1, <1>5 DEF Live
<1>7. \A t \in Live : IdLaw(t) => IdLaw(t)'
  BY <1>1 DEF IdLaw, Age, seqVars
<1>8. Numbering'
  <2>1. \A t \in Live' : t.n \in 1..issued' /\ t.id \in 1..MaxSeq /\ IdLaw(t)'
    BY <1>1, <1>6, <1>7 DEF EngineInv, Numbering, seqVars
  <2>2. \A i \in 1..MaxSeq : pending'[i] <= issued'
    BY <1>1, <1>3, <1>4 DEF EngineInv, Numbering, seqVars
  <2>3. \A d, e \in Callers : d # e /\ InFlight(d)' /\ InFlight(e)' => tok'[d].n # tok'[e].n
    BY <1>1, <1>5 DEF EngineInv, Numbering
  <2> QED
    BY <2>1, <2>2, <2>3 DEF Numbering
<1>9. WithinMaxSeq'
  BY <1>1, <1>6 DEF EngineInv, WithinMaxSeq, Age, seqVars
<1>10. \A d \in Callers \ {c} : InFlight(d) => tok[d] \in Live /\ tok[d].n # tok[c].n
  BY <1>1 DEF EngineInv, Numbering, Live, InFlight
<1>11. SenderPlace'
  <2>1. ASSUME NEW d \in Callers, NEW i \in 1..MaxSeq, InFlight(d)', pending'[i] = tok'[d].n
        PROVE  i = tok'[d].id /\ pc'[d] # "insert"
    <3>1. CASE i = tok[c].id
      BY <2>1, <3>1, <1>1, <1>4, <1>5, <1>10
    <3>2. CASE i # tok[c].id
      BY <2>1, <3>2, <1>1, <1>4, <1>5 DEF EngineInv, SenderPlace
    <3> QED
      BY <3>1, <3>2
  <2> QED
    BY <2>1 DEF SenderPlace
<1>12. ReceiverState'
  <2>1. ASSUME ~overrun', NEW d \in Callers, pc'[d] = "insert" PROVE got'[d] = None
    BY <2>1, <1>1, <1>4 DEF EngineInv, ReceiverState, seqVars
  <2>2. ASSUME ~overrun', NEW d \in Callers, Receiving(d)'
        PROVE  \/ got'[d] = None /\ pending'[tok'[d].id] = tok'[d].n
               \/ got'[d] = tok'[d].n /\ \A i \in 1..MaxSeq : pending'[i] # tok'[d].n
    <3>1. ~overrun
      BY <2>2, <1>1 DEF seqVars
    <3>2. CASE d = c
      BY <3>1, <3>2, <1>1, <1>4 DEF EngineInv, ReceiverState
    <3>3. CASE d # c
      <4>1. Receiving(d) /\ InFlight(d)
        BY <2>2, <3>3, <1>4 DEF Receiving, InFlight
      <4>2. tok[d].id # tok[c].id
        BY <3>1, <3>3, <4>1, <1>2, <1>10, LiveIdsDistinct
      <4>3. tok[d].id \in 1..MaxSeq
        BY <3>3, <4>1, <1>10 DEF EngineInv, Numbering
      <4>4. \/ got[d] = None /\ pending[tok[d].id] = tok[d].n
            \/ got[d] = tok[d].n /\ \A i \in 1..MaxSeq : pending[i] # tok[d].n
        BY <3>1, <4>1 DEF EngineInv, ReceiverState
      <4> QED
        BY <3>3, <4>1, <4>2, <4>3, <4>4, <1>1, <1>4, <1>10
    <3> QED
      BY <3>2, <3>3
  <2> QED
    BY <2>1, <2>2 DEF ReceiverState
<1>13. ClosedOnlyAfterOverrun'
  BY <1>1, <1>4 DEF EngineInv, ClosedOnlyAfterOverrun, seqVars
<1>14. NoLeakWhileUp'
  <2> SUFFICES ASSUME link, ~overrun, NEW i \in 1..MaxSeq, pending'[i] # None
               PROVE  \E d \in Callers : /\ pc'[d] \in {"write", "wait", "timed_out"}
                                         /\ tok[d] = [n |-> pending'[i], id |-> i]
    BY <1>1 DEF NoLeakWhileUp, seqVars
  <2>1. CASE i = tok[c].id
    <3>1. tok[c] = [n |-> pending'[i], id |-> i]
      BY <2>1, <1>3, <1>4 DEF Attempts
    <3> QED
      BY <3>1, <1>4
  <2>2. CASE i # tok[c].id
    <3>1. PICK d \in Callers : /\ pc[d] \in {"write", "wait", "timed_out"}
                              /\ tok[d] = [n |-> pending[i], id |-> i]
      BY <2>2, <1>4 DEF EngineInv, NoLeakWhileUp
    <3> QED
      BY <2>2, <3>1, <1>1, <1>4
  <2> QED
    BY <2>1, <2>2
<1> QED
  BY <1>8, <1>9, <1>11, <1>12, <1>13, <1>14 DEF EngineInv

(* The steps of c after its insertion that leave every sender but its own    *)
(* where it is: the write, the end of the wait and the clean-up.            *)
LEMMA CallerLeavesStep ==
    ASSUME EngineInv, TypeOK', NEW c \in Callers, InFlight(c),
           UNCHANGED seqVars, link' = link, pc[c] # "insert", pc'[c] # "insert",
           outstanding' \subseteq Live,
           \A d \in Callers \ {c} :
               pc'[d] = pc[d] /\ tok'[d] = tok[d] /\ got'[d] = got[d] /\ result'[d] = result[d],
           InFlight(c)' => tok'[c] = tok[c],
           Receiving(c)' => Receiving(c) /\ got'[c] = got[c],
           \A i \in 1..MaxSeq : i # tok[c].id => pending'[i] = pending[i],
           pending'[tok[c].id] = None \/ pending' = pending,
           Receiving(c)' => pending' = pending,
           ~overrun => pc'[c] # "closed" /\ result'[c] # "ChannelClosed",
           link /\ ~overrun /\ pending[tok[c].id] = tok[c].n =>
               \/ pending'[tok[c].id] = None
               \/ pc'[c] \in {"write", "wait", "timed_out"} /\ tok'[c] = tok[c]
    PROVE  EngineInv'
<1>1. TypeOK /\ tok[c] \in Live /\ (overrun' <=> overrun)
  BY DEF EngineInv, Live, seqVars
<1>2. tok[c] \in Attempts /\ tok[c].id \in 1..MaxSeq /\ tok[c].n \in 1..issued
      /\ issued \in Nat
  BY <1>1 DEF EngineInv, Numbering, TypeOK
<1>3. \A i \in 1..MaxSeq : pending'[i] = pending[i] \/ pending'[i] = None
  OBVIOUS
<1>4. Numbering' /\ WithinMaxSeq' /\ SenderPlace'
  <2>1. \A d \in Callers : InFlight(d)' =>
            InFlight(d) /\ tok'[d] = tok[d] /\ (pc'[d] = "insert" => pc[d] = "insert")
    BY DEF InFlight
  <2> QED
    BY <1>3, <2>1, NoClaimStep
<1>5. ReceiverState'
  <2>1. ASSUME ~overrun, NEW d \in Callers, pc'[d] = "insert" PROVE got'[d] = None
    BY <2>1 DEF EngineInv, ReceiverState
  <2>2. ASSUME ~overrun, NEW d \in Callers, Receiving(d)'
        PROVE  \/ got'[d] = None /\ pending'[tok'[d].id] = tok'[d].n
               \/ got'[d] = tok'[d].n /\ \A i \in 1..MaxSeq : pending'[i] # tok'[d].n
    <3>1. CASE d = c
      BY <2>2, <3>1 DEF EngineInv, ReceiverState, Receiving, InFlight
    <3>2. CASE d # c
      <4>1. Receiving(d) /\ InFlight(d) /\ tok[d] \in Live
        BY <2>2, <3>2 DEF Receiving, InFlight, Live
      <4>2. tok[d].n # tok[c].n
        BY <3>2, <4>1 DEF EngineInv, Numbering
      <4>3. tok[d].id # tok[c].id
        BY <1>1, <2>2, <4>1, <4>2, LiveIdsDistinct
      <4>4. tok[d].id \in 1..MaxSeq /\ tok[d].n # None
        BY <4>1 DEF EngineInv, Numbering, None
      <4>5. \/ got[d] = None /\ pending[tok[d].id] = tok[d].n
            \/ got[d] = tok[d].n /\ \A i \in 1..MaxSeq : pending[i] # tok[d].n
        BY <2>2, <4>1 DEF EngineInv, ReceiverState
      <4> QED
        BY <1>3, <3>2, <4>3, <4>4, <4>5
    <3> QED
      BY <3>1, <3>2
  <2> QED
    BY <1>1, <2>1, <2>2 DEF ReceiverState
<1>6. ClosedOnlyAfterOverrun'
  BY <1>1 DEF EngineInv, ClosedOnlyAfterOverrun
<1>7. NoLeakWhileUp'
  <2> SUFFICES ASSUME link, ~overrun, NEW i \in 1..MaxSeq, pending'[i] # None
               PROVE  \E d \in Callers : /\ pc'[d] \in {"write", "wait", "timed_out"}
                                         /\ tok'[d] = [n |-> pending'[i], id |-> i]
    BY <1>1 DEF NoLeakWhileUp
  <2>1. pending'[i] = pending[i]
    BY <1>3
  <2>2. PICK d \in Callers : /\ pc[d] \in {"write", "wait", "timed_out"}
                            /\ tok[d] = [n |-> pending[i], id |-> i]
    BY <2>1 DEF EngineInv, NoLeakWhileUp
  <2>3. CASE d = c
    <3>1. i = tok[c].id /\ pending[i] = tok[c].n
      BY <2>2, <2>3
    <3>2. pc'[c] \in {"write", "wait", "timed_out"} /\ tok'[c] = tok[c]
      BY <3>1
    <3> QED
      BY <2>1, <2>2, <2>3, <3>2
  <2>4. CASE d # c
    BY <2>1, <2>2, <2>4
  <2> QED
    BY <2>3, <2>4
<1> QED
  BY <1>4, <1>5, <1>6, <1>7 DEF EngineInv

(* A reply goes to the caller that waits for it. *)
LEMMA ReplyStep ==
    ASSUME EngineInv, TypeOK', NEW t \in outstanding, Reply(t)
    PROVE  EngineInv'
<1>1. /\ TypeOK /\ t \in Live
      /\ outstanding' = outstanding \ {t}
      /\ got' = [c \in Callers |->
                   IF Receiving(c) /\ pending[t.id] = tok[c].n THEN t.n ELSE got[c]]
      /\ pending' = [pending EXCEPT ![t.id] = None]
      /\ UNCHANGED <<pc, tok, result, link>> /\ UNCHANGED seqVars
  BY DEF EngineInv, Live, Reply, callerVars, envVars
<1>2. t.id \in 1..MaxSeq /\ t.n \in 1..issued
  BY <1>1 DEF EngineInv, Numbering
<1>3. /\ pending'[t.id] = None
      /\ \A i \in 1..MaxSeq \ {t.id} : pending'[i] = pending[i]
  BY <1>1, <1>2 DEF TypeOK
<1>4. \A i \in 1..MaxSeq : pending'[i] = pending[i] \/ pending'[i] = None
  BY <1>3
<1>5. Numbering' /\ WithinMaxSeq' /\ SenderPlace'
  <2>1. \A d \in Callers : InFlight(d)' =>
            InFlight(d) /\ tok'[d] = tok[d] /\ (pc'[d] = "insert" => pc[d] = "insert")
    BY <1>1 DEF InFlight
  <2>2. outstanding' \subseteq Live
    BY <1>1 DEF Live
  <2> QED
    BY <1>1, <1>4, <2>1, <2>2, NoClaimStep
<1>6. ReceiverState'
  <2>1. ASSUME ~overrun, NEW d \in Callers, pc[d] = "insert" PROVE got'[d] = None
    BY <2>1, <1>1 DEF EngineInv, ReceiverState, Receiving
  <2>2. ASSUME ~overrun, NEW d \in Callers, Receiving(d)
        PROVE  \/ got'[d] = None /\ pending'[tok[d].id] = tok[d].n
               \/ got'[d] = tok[d].n /\ \A i \in 1..MaxSeq : pending'[i] # tok[d].n
    <3>1. InFlight(d) /\ tok[d] \in Live
      BY <2>2 DEF Receiving, InFlight, Live
    <3>2. tok[d].id \in 1..MaxSeq /\ tok[d].n # None
      BY <3>1 DEF EngineInv, Numbering, None
    <3>3. \A i \in 1..MaxSeq : pending[i] = tok[d].n => i = tok[d].id
      BY <3>1 DEF EngineInv, SenderPlace
    <3>4. CASE pending[t.id] = tok[d].n
      <4>1. t.id = tok[d].id
        BY <1>2, <3>3, <3>4
      <4>2. t.n = tok[d].n
        BY <1>1, <2>2, <3>1, <4>1, LiveIdsDistinct
      <4>3. got'[d] = tok[d].n
        BY <1>1, <2>2, <3>4, <4>2
      <4>4. \A i \in 1..MaxSeq : pending'[i] # tok[d].n
        BY <1>3, <3>2, <3>3, <4>1
      <4> QED
        BY <4>3, <4>4
    <3>5. CASE pending[t.id] # tok[d].n
      <4>1. got'[d] = got[d]
        BY <1>1, <3>5
      <4>2. \/ got[d] = None /\ pending[tok[d].id] = tok[d].n
            \/ got[d] = tok[d].n /\ \A i \in 1..MaxSeq : pending[i] # tok[d].n
        BY <2>2 DEF EngineInv, ReceiverState
      <4> QED
        BY <1>3, <1>4, <3>2, <3>5, <4>1, <4>2
    <3> QED
      BY <3>4, <3>5
  <2>3. \A d \in Callers : Receiving(d)' <=> Receiving(d)
    BY <1>1 DEF Receiving
  <2> QED
    BY <1>1, <2>1, <2>2, <2>3 DEF ReceiverState, seqVars
<1>7. ClosedOnlyAfterOverrun'
  BY <1>1 DEF EngineInv, ClosedOnlyAfterOverrun, seqVars
<1>8. NoLeakWhileUp'
  BY <1>1, <1>4 DEF EngineInv, NoLeakWhileUp, seqVars
<1> QED
  BY <1>5, <1>6, <1>7, <1>8 DEF EngineInv

(* disconnect's DCN takes an id but stores no sender. *)
LEMMA DcnStep ==
    ASSUME EngineInv, TypeOK', SendDcn
    PROVE  EngineInv'
<1>1. UNCHANGED <<pc, tok, result, pending, got, link>>
  BY DEF SendDcn, callerVars
<1>2. CASE connected
  <2>1. TakeId
    BY <1>2 DEF SendDcn
  <2>2. PICK new : new = [n |-> issued + 1, id |-> sequence_id]
    OBVIOUS
  <2>3. outstanding' \subseteq outstanding \cup {new}
    BY <1>2, <2>2 DEF SendDcn
  <2>4. Live' \subseteq Live \cup {new}
    BY <1>1, <2>3 DEF Live, InFlight
  <2>5. WithinMaxSeq' /\ \A t \in Live' : t.n \in 1..issued' /\ t.id \in 1..MaxSeq /\ IdLaw(t)'
    BY <2>1, <2>2, <2>4, TakeIdStep
  <2>6. issued \in Nat /\ issued' = issued + 1 /\ (~overrun' => ~overrun)
    BY <2>1 DEF TakeId, EngineInv, TypeOK
  <2>7. \A i \in 1..MaxSeq : pending[i] \in Nat /\ pending[i] <= issued
    BY DEF EngineInv, Numbering, TypeOK
  <2>8. \A i \in 1..MaxSeq : pending'[i] <= issued'
    BY <1>1, <2>6, <2>7
  <2>9. \A c \in Callers : (InFlight(c)' <=> InFlight(c)) /\ (Receiving(c)' <=> Receiving(c))
    BY <1>1 DEF InFlight, Receiving
  <2>10. Numbering'
    BY <1>1, <2>5, <2>8, <2>9 DEF EngineInv, Numbering
  <2>11. SenderPlace' /\ ReceiverState'
    BY <1>1, <2>6, <2>9 DEF EngineInv, SenderPlace, ReceiverState
  <2>12. ClosedOnlyAfterOverrun' /\ NoLeakWhileUp'
    BY <1>1, <2>6 DEF EngineInv, ClosedOnlyAfterOverrun, NoLeakWhileUp
  <2> QED
    BY <2>5, <2>10, <2>11, <2>12 DEF EngineInv
<1>3. CASE ~connected
  <2>1. UNCHANGED seqVars /\ UNCHANGED outstanding
    BY <1>3 DEF SendDcn
  <2> QED
    BY <1>1, <2>1, QuietStep
<1> QED
  BY <1>2, <1>3

(* Every step of the callers, the reader task, the panel, the network and    *)
(* disconnect preserves the invariant.                                      *)
LEMMA InvStep == EngineInv /\ [Next]_vars => EngineInv'
<1> SUFFICES ASSUME EngineInv, [Next]_vars PROVE EngineInv'
  OBVIOUS
<1>0. TypeOK /\ TypeOK'
  BY TypeStep DEF EngineInv
<1>1. ASSUME NEW c \in Callers,
             \/ \E prog \in BOOLEAN : Call(c, prog)
             \/ PassGate(c) \/ Acquire(c) \/ CheckConnected(c)
      PROVE  EngineInv'
  <2>1. UNCHANGED <<pending, outstanding, tok, got, link>> /\ UNCHANGED seqVars
    BY <1>1 DEF Call, PassGate, Acquire, CheckConnected, wireVars, envVars
  <2>2. \A d \in Callers : d # c => pc'[d] = pc[d] /\ result'[d] = result[d]
    BY <1>0, <1>1, ZenonT(30) DEF Call, PassGate, Acquire, CheckConnected, Return, Goto, TypeOK
  <2>3. ~InFlight(c) /\ ~InFlight(c)'
    BY <1>0, <1>1, ZenonT(30) DEF Call, PassGate, Acquire, CheckConnected, Return, Goto, TypeOK,
                      InFlight
  <2>4. result'[c] # "ChannelClosed" \/ result'[c] = result[c]
    BY <1>0, <1>1 DEF Call, PassGate, Acquire, CheckConnected, Return, TypeOK
  <2> QED
    BY <1>0, <2>1, <2>2, <2>3, <2>4, QuietStep
<1>2. ASSUME NEW c \in Callers, Write(c) PROVE EngineInv'
  <2>1. /\ pc[c] = "write" /\ pc' = [pc EXCEPT ![c] = "wait"]
        /\ UNCHANGED <<pending, tok, got, result, link>> /\ UNCHANGED seqVars
        /\ outstanding' \subseteq outstanding \cup {tok[c]}
    BY <1>2 DEF Write, Goto, envVars
  <2>2. InFlight(c) /\ Receiving(c) /\ pc'[c] = "wait"
        /\ \A d \in Callers \ {c} : pc'[d] = pc[d]
    BY <1>0, <2>1 DEF InFlight, Receiving, TypeOK
  <2>3. outstanding' \subseteq Live
    BY <2>1, <2>2 DEF Live
  <2>4. ~overrun => result[c] # "ChannelClosed"
    BY DEF EngineInv, ClosedOnlyAfterOverrun
  <2> QED
    BY <1>0, <2>1, <2>2, <2>3, <2>4, CallerLeavesStep
<1>3. ASSUME NEW c \in Callers, Timeout(c) \/ SenderDropped(c) PROVE EngineInv'
  <2>1. /\ pc[c] = "wait" /\ got[c] = None
        /\ UNCHANGED <<pending, outstanding, tok, got, result, link>> /\ UNCHANGED seqVars
    BY <1>3 DEF Timeout, SenderDropped, wireVars, envVars
  <2>2. InFlight(c) /\ Receiving(c) /\ tok[c] \in Live
    BY <2>1 DEF InFlight, Receiving, Live
  <2>3. tok[c].id \in 1..MaxSeq /\ tok[c].n # None
    BY <2>2 DEF EngineInv, Numbering, None
  <2>4. ~overrun => SenderStored(c)
    BY <2>1, <2>2, <2>3 DEF EngineInv, ReceiverState, SenderStored
  <2>5. pc'[c] \in {"timed_out", "closed"} /\ (~overrun => pc'[c] = "timed_out")
        /\ \A d \in Callers \ {c} : pc'[d] = pc[d]
    BY <1>0, <1>3, <2>4 DEF Timeout, SenderDropped, Goto, TypeOK
  <2>6. outstanding \subseteq Live /\ ~Receiving(c)'
    BY <2>5 DEF Live, Receiving
  <2>7. ~overrun => result[c] # "ChannelClosed"
    BY DEF EngineInv, ClosedOnlyAfterOverrun
  <2> QED
    BY <1>0, <2>1, <2>2, <2>5, <2>6, <2>7, CallerLeavesStep
<1>4. ASSUME NEW c \in Callers, WriteFails(c) \/ Receive(c) PROVE EngineInv'
  <2>1. /\ UNCHANGED <<pending, outstanding, link>> /\ UNCHANGED seqVars
        /\ LeaveAttempt(c) /\ (Return(c, "Io") \/ Return(c, "Ok"))
        /\ pc[c] \in {"write", "wait"}
    BY <1>4 DEF WriteFails, Receive, wireVars, envVars
  <2>2. /\ pc'[c] = "idle" /\ result'[c] # "ChannelClosed"
        /\ \A d \in Callers \ {c} :
             pc'[d] = pc[d] /\ tok'[d] = tok[d] /\ got'[d] = got[d] /\ result'[d] = result[d]
    BY <1>0, <2>1, SMTT(30) DEF Return, LeaveAttempt, Goto, TypeOK
  <2>3. InFlight(c) /\ ~InFlight(c)' /\ ~Receiving(c)' /\ outstanding \subseteq Live
    BY <2>1, <2>2 DEF InFlight, Receiving, Live
  <2>4. ~(link /\ ~overrun /\ pending[tok[c].id] = tok[c].n)
    <3>1. CASE WriteFails(c)
      BY <3>1 DEF WriteFails
    <3>2. CASE Receive(c)
      <4>1. pc[c] = "wait" /\ got[c] # None
        BY <3>2 DEF Receive
      <4>2. tok[c].id \in 1..MaxSeq
        BY <2>3 DEF EngineInv, Numbering, Live
      <4> QED
        BY <4>1, <4>2 DEF EngineInv, ReceiverState, Receiving
    <3> QED
      BY <1>4, <3>1, <3>2
  <2> QED
    BY <1>0, <2>1, <2>2, <2>3, <2>4, CallerLeavesStep
<1>5. ASSUME NEW c \in Callers, TimeoutCleanup(c) \/ ClosedCleanup(c) PROVE EngineInv'
  <2>1. /\ UNCHANGED <<outstanding, link>> /\ UNCHANGED seqVars
        /\ RemovePending(c) /\ LeaveAttempt(c)
        /\ pc[c] \in {"timed_out", "closed"}
    BY <1>5 DEF TimeoutCleanup, ClosedCleanup, envVars
  <2>2. InFlight(c) /\ tok[c] \in Live /\ outstanding \subseteq Live
    BY <2>1 DEF InFlight, Live
  <2>3. tok[c].id \in 1..MaxSeq
    BY <2>2 DEF EngineInv, Numbering
  <2>4. pending'[tok[c].id] = None /\ \A i \in 1..MaxSeq : i # tok[c].id => pending'[i] = pending[i]
    BY <1>0, <2>1, <2>3 DEF RemovePending, TypeOK
  <2>5. pc'[c] \in {"idle", "check"}
        /\ \A d \in Callers \ {c} : pc'[d] = pc[d] /\ result'[d] = result[d]
    BY <1>0, <1>5, ZenonT(30) DEF TimeoutCleanup, ClosedCleanup, Return, Goto, TypeOK
  <2>6. \A d \in Callers \ {c} : tok'[d] = tok[d] /\ got'[d] = got[d]
    BY <1>0, <2>1 DEF LeaveAttempt, TypeOK
  <2>7. ~InFlight(c)' /\ ~Receiving(c)'
    BY <2>5 DEF InFlight, Receiving
  <2>8. ~overrun => result'[c] # "ChannelClosed"
    <3>1. CASE TimeoutCleanup(c)
      <4>1. result'[c] = result[c] \/ result'[c] = "CommandTimeout"
        BY <1>0, <3>1 DEF TimeoutCleanup, Return, TypeOK
      <4> QED
        BY <4>1 DEF EngineInv, ClosedOnlyAfterOverrun
    <3>2. CASE ClosedCleanup(c)
      BY <3>2 DEF ClosedCleanup, EngineInv, ClosedOnlyAfterOverrun
    <3> QED
      BY <1>5, <3>1, <3>2
  <2> QED
    BY <1>0, <2>1, <2>2, <2>4, <2>5, <2>6, <2>7, <2>8, CallerLeavesStep
<1>6. ASSUME NEW t \in outstanding, ReplyLost(t) PROVE EngineInv'
  <2>1. /\ UNCHANGED <<pc, tok, got, pending, result, link>> /\ UNCHANGED seqVars
        /\ outstanding' \subseteq Live
    BY <1>6 DEF ReplyLost, callerVars, envVars, Live
  <2>2. Numbering' /\ WithinMaxSeq' /\ SenderPlace'
    BY <1>0, <2>1, NoClaimStep DEF InFlight
  <2>3. ReceiverState' /\ ClosedOnlyAfterOverrun' /\ NoLeakWhileUp'
    BY <2>1 DEF EngineInv, ReceiverState, Receiving, ClosedOnlyAfterOverrun,
                NoLeakWhileUp, seqVars
  <2> QED
    BY <1>0, <2>2, <2>3 DEF EngineInv
<1>7. ASSUME \/ PeerGone \/ ReaderStops \/ CrcLimit \/ ClearConnected \/ SetInProg
             \/ UNCHANGED vars
      PROVE  EngineInv'
  <2>1. /\ UNCHANGED <<pc, tok, got, pending, outstanding, result>> /\ UNCHANGED seqVars
        /\ link' => link
    BY <1>7 DEF PeerGone, ReaderStops, CrcLimit, ClearConnected, SetInProg, vars,
                callerVars, wireVars, seqVars
  <2> QED
    BY <1>0, <2>1, QuietStep
<1> QED
  BY <1>0, <1>1, <1>2, <1>3, <1>4, <1>5, <1>6, <1>7, ClaimStep, InsertStep, ReplyStep,
     DcnStep DEF Next, CallerStep

-----------------------------------------------------------------------------
(* The state of the engine has its type and the strengthened invariant holds. *)
THEOREM EngineInvariant == Spec => []EngineInv
  BY InitInv, InvStep, PTL DEF Spec

(* Whatever the number of callers, ids and attempts, a caller is given the    *)
(* reply to its own attempt, unless an id was claimed again while still live. *)
THEOREM RepliesReachTheirCallers == Spec => []OwnReply
<1>1. EngineInv => OwnReply
  BY DEF EngineInv, ReceiverState, OwnReply, Receiving
<1> QED
  BY <1>1, EngineInvariant, PTL

(* Unless an id was claimed again while live, nobody is told ChannelClosed.   *)
THEOREM NobodyIsClosed == Spec => []ClosedOnlyAfterOverrun
<1>1. EngineInv => ClosedOnlyAfterOverrun
  BY DEF EngineInv
<1> QED
  BY <1>1, EngineInvariant, PTL

(* Nothing is left in the map while writes succeed: timeouts, retries, late   *)
(* and lost replies all clean up, unless an id was claimed again while live.  *)
THEOREM NothingIsLeft == Spec => []NoLeakWhileUp
<1>1. EngineInv => NoLeakWhileUp
  BY DEF EngineInv
<1> QED
  BY <1>1, EngineInvariant, PTL

(* Ids stay in 1..MaxSeq, attempts within MaxAttempts, and the rest of the   *)
(* engine's state in its types.                                             *)
THEOREM TypeCorrect == Spec => []TypeOK
<1>1. EngineInv => TypeOK
  BY DEF EngineInv
<1> QED
  BY <1>1, EngineInvariant, PTL

-----------------------------------------------------------------------------
(* Permits *)

Holders == {c \in Callers : HoldsPermit(c)}

LEMMA HoldersFinite == IsFiniteSet(Holders) /\ Cardinality(Holders) \in Nat
<1>1. IsFiniteSet(Holders)
  BY CallersFinite, FS_Subset DEF Holders
<1>. QED BY <1>1, FS_CardinalityType

LEMMA PermitReturned ==
    ASSUME TypeOK, PermitsConserved, NEW c \in Callers, NEW r, HoldsPermit(c), Return(c, r)
    PROVE  PermitsConserved'
<1>1. pc' = [pc EXCEPT ![c] = "idle"] /\ permits' = permits + 1
  BY DEF Return, Goto
<1>2. Holders' = Holders \ {c}
  BY <1>1 DEF Holders, HoldsPermit, InFlight, TypeOK
<1>3. Cardinality(Holders \ {c}) = Cardinality(Holders) - 1
  BY HoldersFinite, FS_RemoveElement DEF Holders
<1>4. permits + Cardinality(Holders) = Permits /\ permits \in Nat
  BY DEF PermitsConserved, Holders, TypeOK
<1>5. permits' + Cardinality(Holders') = Permits
  BY <1>1, <1>2, <1>3, <1>4, HoldersFinite
<1>. QED BY <1>5 DEF PermitsConserved, Holders

LEMMA PermitTaken ==
    ASSUME TypeOK, PermitsConserved, NEW c \in Callers, Acquire(c)
    PROVE  PermitsConserved'
<1>1. pc[c] = "acquire" /\ pc' = [pc EXCEPT ![c] = "check"] /\ permits' = permits - 1
  BY DEF Acquire, Goto
<1>2. Holders' = Holders \cup {c} /\ c \notin Holders
  BY <1>1 DEF Holders, HoldsPermit, InFlight, TypeOK
<1>3. Cardinality(Holders \cup {c}) = Cardinality(Holders) + 1
  BY <1>2, HoldersFinite, FS_AddElement
<1>4. permits + Cardinality(Holders) = Permits /\ permits \in Nat
  BY DEF PermitsConserved, Holders, TypeOK
<1>5. permits' + Cardinality(Holders') = Permits
  BY <1>1, <1>2, <1>3, <1>4, HoldersFinite
<1>. QED BY <1>5 DEF PermitsConserved, Holders

LEMMA PermitKept ==
    ASSUME PermitsConserved, permits' = permits,
           \A c \in Callers : HoldsPermit(c)' <=> HoldsPermit(c)
    PROVE  PermitsConserved'
<1>1. Holders' = Holders
  BY DEF Holders
<1>. QED BY <1>1 DEF PermitsConserved, Holders

LEMMA PermitStep ==
    ASSUME TypeOK, PermitsConserved, [Next]_vars
    PROVE  PermitsConserved'
<1>1. ASSUME NEW c \in Callers, Acquire(c) PROVE PermitsConserved'
  BY <1>1, PermitTaken
<1>2. ASSUME NEW c \in Callers,
             CheckConnected(c) \/ WriteFails(c) \/ Receive(c) \/ TimeoutCleanup(c)
               \/ ClosedCleanup(c)
      PROVE  PermitsConserved'
  <2>1. HoldsPermit(c)
    BY <1>2 DEF CheckConnected, WriteFails, Receive, TimeoutCleanup, ClosedCleanup,
                HoldsPermit, InFlight
  <2>2. CASE \E r : Return(c, r)
    BY <2>1, <2>2, PermitReturned
  <2>3. CASE \E l \in {"check", "claim"} : Goto(c, l) /\ permits' = permits
    BY <2>1, <2>3, PermitKept DEF Goto, HoldsPermit, InFlight, TypeOK
  <2>. QED BY <1>2, <2>2, <2>3
       DEF CheckConnected, WriteFails, Receive, TimeoutCleanup, ClosedCleanup
<1>3. ASSUME NEW c \in Callers,
             \/ \E prog \in BOOLEAN : Call(c, prog)
             \/ PassGate(c) \/ Claim(c) \/ Insert(c) \/ Write(c) \/ Timeout(c)
             \/ SenderDropped(c)
      PROVE  PermitsConserved'
  BY <1>3, PermitKept
     DEF Call, PassGate, Claim, Insert, Write, Timeout, SenderDropped, Goto, HoldsPermit,
         InFlight, TypeOK
<1>4. CASE \/ \E t \in outstanding : Reply(t) \/ ReplyLost(t)
           \/ PeerGone \/ ReaderStops \/ CrcLimit \/ SendDcn \/ ClearConnected \/ SetInProg
           \/ UNCHANGED vars
  <2>1. UNCHANGED <<pc, permits>>
    BY <1>4 DEF Reply, ReplyLost, PeerGone, ReaderStops, CrcLimit, SendDcn, ClearConnected,
                SetInProg, callerVars, vars
  <2>. QED BY <2>1, PermitKept DEF HoldsPermit, InFlight
<1>. QED BY <1>1, <1>2, <1>3, <1>4 DEF Next, CallerStep

(* Whichever way send_command returns, its permit goes back: for any number   *)
(* of callers and permits, none is lost and none is made.                    *)
THEOREM PermitsAreConserved == Spec => []PermitsConserved
<1>1. Init => PermitsConserved
  <2>. SUFFICES ASSUME Init PROVE PermitsConserved
    OBVIOUS
  <2>1. Holders = {} /\ permits = Permits
    BY DEF Init, Holders, HoldsPermit, InFlight
  <2>2. Cardinality(Holders) = 0
    BY <2>1, FS_EmptySet
  <2>. QED BY <2>1, <2>2, EngineConstants DEF PermitsConserved, Holders
<1>2. TypeOK /\ PermitsConserved /\ [Next]_vars => PermitsConserved'
  BY PermitStep
<1>. QED BY <1>1, <1>2, TypeCorrect, PTL DEF Spec

-----------------------------------------------------------------------------
(* The service *)

(* A receiver holds a reply only while its caller waits for it, and the panel  *)
(* cannot answer an attempt that has not been written.                       *)
Unanswered ==
    /\ ~overrun => \A c \in Callers : pc[c] # "wait" => got[c] = None
    /\ \A c \in Callers : pc[c] \in {"insert", "write"} => tok[c] \notin outstanding

ServiceInv == EngineInv /\ Unanswered

LEMMA OverrunStays ==
    ASSUME EngineInv, [Next]_vars, ~overrun'
    PROVE  ~overrun
<1>1. overrun' = overrun \/ TakeId
  BY DEF Next, CallerStep, Call, PassGate, Acquire, CheckConnected, Claim, Insert, Write,
         WriteFails, Receive, Timeout, SenderDropped, TimeoutCleanup, ClosedCleanup, Reply,
         ReplyLost, PeerGone, ReaderStops, CrcLimit, SendDcn, ClearConnected, SetInProg,
         seqVars, vars
<1>. QED BY <1>1 DEF TakeId

(* A reply goes to the caller that waits for it, or to nobody. *)
LEMMA ReplyDelivered ==
    ASSUME EngineInv, Unanswered, ~overrun, NEW t \in outstanding, Reply(t)
    PROVE  \/ got' = got
           \/ \E c \in Callers : /\ pc[c] = "wait" /\ got[c] = None
                                 /\ got' = [got EXCEPT ![c] = tok[c].n]
<1>1. /\ TypeOK /\ t \in Live
      /\ got' = [c \in Callers |->
                   IF Receiving(c) /\ pending[t.id] = tok[c].n THEN t.n ELSE got[c]]
  BY DEF EngineInv, Live, Reply
<1>2. got \in [Callers -> Nat]
  BY <1>1 DEF TypeOK
<1>3. CASE \A c \in Callers : ~(Receiving(c) /\ pending[t.id] = tok[c].n)
  BY <1>1, <1>2, <1>3
<1>4. ASSUME NEW c \in Callers, Receiving(c), pending[t.id] = tok[c].n
      PROVE  /\ pc[c] = "wait" /\ got[c] = None
             /\ got' = [got EXCEPT ![c] = tok[c].n]
  <2>1. /\ InFlight(c) /\ tok[c] \in Live /\ t.id \in 1..MaxSeq
        /\ t \in Attempts /\ tok[c] \in Attempts
    BY <1>1, <1>4 DEF Receiving, InFlight, Live, EngineInv, Numbering, TypeOK
  <2>2. t.id = tok[c].id
    BY <1>4, <2>1 DEF EngineInv, SenderPlace
  <2>3. t.n = tok[c].n
    BY <1>1, <2>1, <2>2, LiveIdsDistinct
  <2>4. t = tok[c]
    BY <2>1, <2>2, <2>3 DEF Attempts
  <2>5. pc[c] = "wait"
    BY <1>4, <2>4 DEF Unanswered, Receiving
  <2>6. got[c] = None
    BY <1>4, <2>1 DEF EngineInv, ReceiverState
  <2>7. \A d \in Callers : Receiving(d) /\ pending[t.id] = tok[d].n => d = c
    BY <1>4, <2>1 DEF EngineInv, Numbering, Receiving, InFlight
  <2>8. got' = [got EXCEPT ![c] = tok[c].n]
    BY <1>1, <1>2, <1>4, <2>3, <2>7
  <2>. QED BY <2>5, <2>6, <2>8
<1>. QED BY <1>3, <1>4

LEMMA UnansweredStep ==
    ASSUME EngineInv, Unanswered, EngineInv', [Next]_vars
    PROVE  Unanswered'
<1>0. TypeOK /\ (~overrun' => ~overrun)
  BY OverrunStays DEF EngineInv
<1>. USE DEF Goto
<1>1. ASSUME NEW c \in Callers,
             CheckConnected(c) \/ WriteFails(c) \/ Receive(c) \/ TimeoutCleanup(c)
               \/ ClosedCleanup(c)
      PROVE  Unanswered'
  BY <1>0, <1>1
     DEF CheckConnected, WriteFails, Receive, TimeoutCleanup, ClosedCleanup, Return,
         LeaveAttempt, Unanswered, TypeOK, None, wireVars
<1>2. ASSUME NEW c \in Callers,
             (\E prog \in BOOLEAN : Call(c, prog)) \/ PassGate(c) \/ Acquire(c)
      PROVE  Unanswered'
  BY <1>0, <1>2 DEF Call, PassGate, Acquire, Unanswered, TypeOK, wireVars
<1>3. ASSUME NEW c \in Callers, Claim(c) PROVE Unanswered'
  <2>1. \A t \in outstanding : t.n \in 1..issued /\ issued \in Nat
    BY DEF EngineInv, Numbering, Live, TypeOK
  <2>2. [n |-> issued + 1, id |-> sequence_id] \notin outstanding
    BY <2>1
  <2>. QED BY <1>0, <1>3, <2>2 DEF Claim, Unanswered, TypeOK, wireVars
<1>4. ASSUME NEW c \in Callers, Insert(c) \/ Timeout(c) \/ SenderDropped(c)
      PROVE  Unanswered'
  BY <1>0, <1>4 DEF Insert, Timeout, SenderDropped, Unanswered, TypeOK, wireVars
<1>5. ASSUME NEW c \in Callers, Write(c) PROVE Unanswered'
  <2>1. /\ pc[c] = "write" /\ pc' = [pc EXCEPT ![c] = "wait"] /\ UNCHANGED <<tok, got>>
        /\ outstanding' \subseteq outstanding \cup {tok[c]}
    BY <1>5 DEF Write
  <2>2. \A d \in Callers \ {c} : pc[d] \in {"insert", "write"} => tok[d] # tok[c]
    BY <2>1 DEF EngineInv, Numbering, InFlight
  <2>. QED BY <1>0, <2>1, <2>2 DEF Unanswered, TypeOK
<1>6. ASSUME NEW t \in outstanding, Reply(t) PROVE Unanswered'
  <2>1. UNCHANGED <<pc, tok>> /\ outstanding' \subseteq outstanding
    BY <1>6 DEF Reply, callerVars
  <2>2. ~overrun' => \A c \in Callers : pc[c] # "wait" => got'[c] = None
    BY <1>0, <1>6, ReplyDelivered DEF Unanswered, TypeOK
  <2>. QED BY <2>1, <2>2 DEF Unanswered
<1>7. CASE SendDcn
  <2>1. /\ UNCHANGED <<pc, tok, got>>
        /\ outstanding' \subseteq outstanding \cup {[n |-> issued + 1, id |-> sequence_id]}
    BY <1>7 DEF SendDcn, callerVars
  <2>2. \A c \in Callers : pc[c] \in {"insert", "write"} =>
           tok[c].n \in 1..issued /\ issued \in Nat
    BY DEF EngineInv, Numbering, Live, InFlight, TypeOK
  <2>. QED BY <1>0, <2>1, <2>2 DEF Unanswered
<1>8. CASE \/ \E t \in outstanding : ReplyLost(t)
           \/ PeerGone \/ ReaderStops \/ CrcLimit \/ ClearConnected \/ SetInProg
           \/ UNCHANGED vars
  <2>1. UNCHANGED <<pc, tok, got>> /\ outstanding' \subseteq outstanding
    BY <1>8 DEF ReplyLost, PeerGone, ReaderStops, CrcLimit, ClearConnected, SetInProg,
                callerVars, wireVars, vars
  <2>. QED BY <1>0, <2>1 DEF Unanswered
<1>. QED BY <1>1, <1>2, <1>3, <1>4, <1>5, <1>6, <1>7, <1>8 DEF Next, CallerStep

(* What the callers see of the engine. *)
Calling == {c \in Callers : pc[c] # "idle"}
Waiting == [c \in Callers |-> IF InFlight(c) THEN tok[c].n ELSE None]
Seen == <<Calling, Waiting, got, result, 1..issued>>

ServiceStep == Service!Next \/ UNCHANGED Seen

(* A call that ends gives up its attempt. *)
LEMMA ServiceReturn ==
    ASSUME ServiceInv, NEW c \in Callers, NEW r, pc[c] # "idle", Return(c, r),
           got' = [got EXCEPT ![c] = None], UNCHANGED issued,
           \A d \in Callers \ {c} : tok'[d] = tok[d]
    PROVE  Service!Return(c, r)
<1>1. pc' = [pc EXCEPT ![c] = "idle"] /\ result' = [result EXCEPT ![c] = r]
  BY DEF Return, Goto
<1>2. TypeOK
  BY DEF ServiceInv, EngineInv
<1>3. Calling' = Calling \ {c} /\ c \in Calling
  BY <1>1, <1>2 DEF Calling, TypeOK
<1>4. Waiting' = [Waiting EXCEPT ![c] = None]
  BY <1>1, <1>2 DEF Waiting, InFlight, TypeOK
<1>. QED BY <1>1, <1>3, <1>4 DEF Service!Return, Calling, Waiting

(* An attempt that is made is a new one. *)
LEMMA ServiceAttempt ==
    ASSUME ServiceInv, issued' = issued + 1, UNCHANGED <<got, result>>, Calling' = Calling,
           \/ Waiting' = Waiting
           \/ \E c \in Calling : /\ Waiting[c] = None
                                /\ Waiting' = [Waiting EXCEPT ![c] = issued + 1]
    PROVE  Service!Attempt
<1>1. issued \in Nat
  BY DEF ServiceInv, EngineInv, TypeOK
<1>2. /\ issued + 1 \in (1..issued') \ (1..issued)
      /\ 1..issued' = (1..issued) \cup {issued + 1}
  BY <1>1
<1>. QED BY <1>2 DEF Service!Attempt, Calling, Waiting

LEMMA ServedCaller ==
    ASSUME ServiceInv, ~overrun, ClosedOnlyAfterOverrun, NEW c \in Callers, CallerStep(c)
    PROVE  ServiceStep
<1>0. /\ TypeOK /\ (pc[c] # "wait" => got[c] = None)
      /\ got \in [Callers -> Nat] /\ issued \in Nat
      /\ (InFlight(c) => tok[c].n # None)
  <2>1. TypeOK /\ (pc[c] # "wait" => got[c] = None)
    BY DEF ServiceInv, EngineInv, Unanswered
  <2>2. got \in [Callers -> Nat] /\ issued \in Nat
    BY <2>1, Zenon DEF TypeOK
  <2>3. InFlight(c) => tok[c].n # None
    <3>. SUFFICES ASSUME InFlight(c) PROVE tok[c].n # None
      OBVIOUS
    <3>1. tok[c] \in Live
      BY DEF Live
    <3>2. tok[c].n \in 1..issued
      BY <3>1 DEF ServiceInv, EngineInv, Numbering
    <3>. QED BY <2>2, <3>2 DEF None
  <2>. QED BY <2>1, <2>2, <2>3
<1>. USE DEF ServiceStep
<1>1. CASE PassGate(c) \/ Acquire(c) \/ Insert(c) \/ Write(c) \/ Timeout(c) \/ SenderDropped(c)
  <2>1. UNCHANGED <<tok, got, result, issued>>
    BY <1>1 DEF PassGate, Acquire, Insert, Write, Timeout, SenderDropped, seqVars
  <2>2. \A d \in Callers : (pc'[d] # "idle" <=> pc[d] # "idle") /\ (InFlight(d)' <=> InFlight(d))
    BY <1>0, <1>1 DEF PassGate, Acquire, Insert, Write, Timeout, SenderDropped, Goto, InFlight,
                      TypeOK
  <2>3. Calling' = Calling /\ Waiting' = Waiting
    BY <2>1, <2>2 DEF Calling, Waiting
  <2>. QED BY <2>1, <2>3 DEF Seen
<1>2. CASE CheckConnected(c)
  <2>1. UNCHANGED <<tok, got, issued>> /\ pc[c] = "check"
    BY <1>2 DEF CheckConnected, seqVars
  <2>2. CASE Goto(c, "claim") /\ UNCHANGED result
    <3>1. Calling' = Calling /\ Waiting' = Waiting
      BY <1>0, <2>1, <2>2 DEF Calling, Waiting, Goto, InFlight, TypeOK
    <3>. QED BY <2>1, <2>2, <3>1 DEF Seen
  <2>3. CASE Return(c, "Disconnected")
    <3>1. got' = [got EXCEPT ![c] = None]
      BY <1>0, <2>1
    <3>2. Service!Return(c, "Disconnected")
      BY <2>1, <2>3, <3>1, ServiceReturn
    <3>. QED BY <1>0, <2>1, <3>2 DEF Service!Next, Service!Fail, Service!Errors
  <2>. QED BY <1>2, <2>2, <2>3 DEF CheckConnected
<1>3. CASE Claim(c)
  <2>1. /\ pc[c] = "claim" /\ pc' = [pc EXCEPT ![c] = "insert"] /\ issued' = issued + 1
        /\ tok' = [tok EXCEPT ![c] = [n |-> issued + 1, id |-> sequence_id]]
        /\ got' = [got EXCEPT ![c] = None] /\ UNCHANGED result
    BY <1>3 DEF Claim, TakeId, Goto
  <2>2. got' = got
    BY <1>0, <2>1
  <2>3. c \in Calling /\ Calling' = Calling
    BY <1>0, <2>1 DEF Calling, TypeOK
  <2>4. Waiting[c] = None /\ Waiting' = [Waiting EXCEPT ![c] = issued + 1]
    BY <1>0, <2>1 DEF Waiting, InFlight, TypeOK
  <2>. QED BY <2>1, <2>2, <2>3, <2>4, ServiceAttempt DEF Service!Next
<1>4. CASE WriteFails(c)
  <2>1. Service!Return(c, "Io")
    BY <1>0, <1>4, ServiceReturn DEF WriteFails, LeaveAttempt, seqVars, TypeOK
  <2>. QED BY <1>0, <1>4, <2>1 DEF WriteFails, Service!Next, Service!Fail, Service!Errors
<1>5. CASE Receive(c)
  <2>1. Service!Return(c, "Ok")
    BY <1>0, <1>5, ServiceReturn DEF Receive, LeaveAttempt, seqVars, TypeOK
  <2>2. InFlight(c) /\ got[c] = tok[c].n
    BY <1>5 DEF Receive, InFlight, Receiving, ServiceInv, EngineInv, ReceiverState
  <2>. QED BY <1>0, <2>1, <2>2 DEF Service!Next, Service!Ok
<1>6. CASE TimeoutCleanup(c)
  <2>1. /\ pc[c] = "timed_out" /\ InFlight(c) /\ UNCHANGED issued
        /\ tok' = [tok EXCEPT ![c] = NoAttempt] /\ got' = [got EXCEPT ![c] = None]
    BY <1>6 DEF TimeoutCleanup, LeaveAttempt, InFlight, seqVars
  <2>2. CASE Goto(c, "check") /\ UNCHANGED result
    <3>1. got' = got /\ got[c] = None
      BY <1>0, <2>1
    <3>2. Calling' = Calling
      BY <1>0, <2>1, <2>2 DEF Calling, Goto, TypeOK
    <3>3. Waiting' = [Waiting EXCEPT ![c] = None] /\ Waiting[c] # None
      BY <1>0, <2>1, <2>2 DEF Waiting, Goto, InFlight, TypeOK
    <3>4. Service!Retry(c)
      BY <2>1, <2>2, <3>1, <3>2, <3>3 DEF Service!Retry, Calling, Waiting
    <3>. QED BY <3>4 DEF Service!Next
  <2>3. CASE Return(c, "CommandTimeout")
    <3>1. Service!Return(c, "CommandTimeout")
      BY <1>0, <2>1, <2>3, ServiceReturn DEF TypeOK
    <3>. QED BY <1>0, <2>1, <3>1 DEF Service!Next, Service!Fail, Service!Errors
  <2>. QED BY <1>6, <2>2, <2>3 DEF TimeoutCleanup
<1>7. CASE ClosedCleanup(c)
  BY <1>7 DEF ClosedCleanup, ClosedOnlyAfterOverrun
<1>. QED BY <1>1, <1>2, <1>3, <1>4, <1>5, <1>6, <1>7 DEF CallerStep

LEMMA ServedStep ==
    ASSUME ServiceInv, EngineInv', [Next]_vars, ~overrun'
    PROVE  ServiceStep /\ UNCHANGED overrun
<1>1. ~overrun /\ overrun \in BOOLEAN /\ overrun' \in BOOLEAN
  BY OverrunStays DEF ServiceInv, EngineInv, TypeOK
<1>2. overrun' = overrun
  BY <1>1
<1>. USE DEF ServiceStep
<1>3. ASSUME NEW c \in Callers, CallerStep(c) PROVE ServiceStep
  BY <1>1, <1>3, ServedCaller DEF ServiceInv, EngineInv
<1>4. ASSUME NEW c \in Callers, NEW prog \in BOOLEAN, Call(c, prog) PROVE ServiceStep
  <2>1. /\ pc[c] = "idle" /\ pc' = [pc EXCEPT ![c] = "gate"] /\ UNCHANGED <<tok, got, issued>>
        /\ result' = [result EXCEPT ![c] = "none"]
    BY <1>4 DEF Call, Goto, seqVars
  <2>2. c \notin Calling /\ Calling' = Calling \cup {c} /\ Waiting' = Waiting
    BY <2>1 DEF Calling, Waiting, InFlight, ServiceInv, EngineInv, TypeOK
  <2>3. Service!Call(c)
    BY <2>1, <2>2 DEF Service!Call, Calling, Waiting
  <2>. QED BY <2>3 DEF Service!Next
<1>5. ASSUME NEW t \in outstanding, Reply(t) PROVE ServiceStep
  <2>1. UNCHANGED <<pc, tok, result, issued>>
    BY <1>5 DEF Reply, callerVars, seqVars
  <2>2. Calling' = Calling /\ Waiting' = Waiting
    BY <2>1 DEF Calling, Waiting, InFlight
  <2>3. CASE got' = got
    BY <2>1, <2>2, <2>3 DEF Seen
  <2>4. ASSUME NEW c \in Callers, pc[c] = "wait", got[c] = None,
               got' = [got EXCEPT ![c] = tok[c].n]
        PROVE  Service!Answer(c)
    <3>1. Waiting[c] = tok[c].n /\ tok[c].n # None
      BY <2>4 DEF Waiting, InFlight, ServiceInv, EngineInv, Numbering, Live, None
    <3>. QED BY <2>1, <2>2, <2>4, <3>1 DEF Service!Answer, Calling, Waiting
  <2>. QED BY <1>1, <1>5, <2>3, <2>4, ReplyDelivered DEF Service!Next, ServiceInv
<1>6. ASSUME SendDcn PROVE ServiceStep
  <2>1. UNCHANGED <<pc, tok, got, result>>
    BY <1>6 DEF SendDcn, callerVars
  <2>2. Calling' = Calling /\ Waiting' = Waiting
    BY <2>1 DEF Calling, Waiting, InFlight
  <2>3. issued' = issued \/ issued' = issued + 1
    BY <1>6 DEF SendDcn, TakeId, seqVars
  <2>4. CASE issued' = issued
    BY <2>1, <2>2, <2>4 DEF Seen
  <2>5. CASE issued' = issued + 1
    BY <2>1, <2>2, <2>5, ServiceAttempt DEF Service!Next
  <2>. QED BY <2>3, <2>4, <2>5
<1>7. ASSUME \/ \E t \in outstanding : ReplyLost(t)
             \/ PeerGone \/ ReaderStops \/ CrcLimit \/ ClearConnected \/ SetInProg
             \/ UNCHANGED vars
      PROVE  ServiceStep
  <2>1. UNCHANGED <<pc, tok, got, result, issued>>
    BY <1>7 DEF ReplyLost, PeerGone, ReaderStops, CrcLimit, ClearConnected, SetInProg,
                callerVars, wireVars, seqVars, vars
  <2>. QED BY <2>1 DEF Seen, Calling, Waiting, InFlight
<1>. QED BY <1>2, <1>3, <1>4, <1>5, <1>6, <1>7 DEF Next

THEOREM ServiceInvariant == Spec => []ServiceInv
<1>1. Init => Unanswered
  BY DEF Init, Unanswered
<1>2. EngineInv /\ Unanswered /\ EngineInv' /\ [Next]_vars => Unanswered'
  BY UnansweredStep
<1>3. EngineInv /\ Unanswered => ServiceInv
  BY DEF ServiceInv
<1>. QED BY <1>1, <1>2, <1>3, EngineInvariant, PTL DEF Spec

(* send_command implements the service for any number of callers, ids and     *)
(* attempts: an answer that has come is what its call returns, and a call     *)
(* that returns no answer says why, as long as no id is claimed while live.   *)
THEOREM CommandsAreServed == Spec => ServesCommands
<1>1. Init => Service!Init
  <2>. SUFFICES ASSUME Init PROVE Service!Init
    OBVIOUS
  <2>1. Calling = {} /\ Waiting = [c \in Callers |-> None] /\ 1..issued = {}
    BY DEF Init, Calling, Waiting, InFlight
  <2>. QED BY <2>1 DEF Init, Service!Init, Calling, Waiting
<1>2. ServiceInv /\ EngineInv' /\ [Next]_vars =>
        [overrun' \/ (Service!Next /\ UNCHANGED overrun)]_(Service!vars)
  <2>. SUFFICES ASSUME ServiceInv, EngineInv', [Next]_vars, ~overrun'
                PROVE  (Service!Next /\ UNCHANGED overrun) \/ UNCHANGED Service!vars
    OBVIOUS
  <2>1. ServiceStep /\ UNCHANGED overrun
    BY ServedStep
  <2>. QED BY <2>1 DEF ServiceStep, Seen, Service!vars, Calling, Waiting
<1>. QED BY <1>1, <1>2, ServiceInvariant, EngineInvariant, PTL
     DEF Spec, ServesCommands, Service!Spec
=============================================================================
