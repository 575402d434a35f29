---------------------------- MODULE CommandEngine ----------------------------
(***************************************************************************)
(* transport/command.rs: concurrent callers of send_command share one      *)
(* sequence counter (1-MaxSeq), one map from sequence id to the oneshot     *)
(* sender of the waiting caller, and one TCP writer.  The reader task       *)
(* (transport/direct.rs, process_message) routes a reply by its id alone.   *)
(*                                                                          *)
(* An ATTEMPT is one claimed id: the record [n, id], n counting the claims  *)
(* of the whole connection.  The program never sees n: it is what lets us    *)
(* say whose reply a caller was given.                                      *)
(***************************************************************************)
EXTENDS Integers, FiniteSets

CONSTANTS
    Callers,      \* tasks that may be inside send_command at the same time
    MaxSeq,       \* largest sequence id (49 in the code)
    MaxAttempts,  \* max_attempts (3 in the code)
    Permits,      \* concurrent_commands
    MaxCalls      \* bound: send_command calls made over the connection

ASSUME EngineConstants ==
    /\ MaxSeq \in Nat \ {0}
    /\ MaxAttempts \in Nat \ {0}
    /\ Permits \in Nat \ {0}
    /\ MaxCalls \in Nat

ASSUME CallersFinite == IsFiniteSet(Callers)

VARIABLES
    sequence_id,  \* next id to claim
    pending,      \* id -> n of the attempt whose sender is stored, or None
    permits,      \* free permits of pipeline_semaphore
    in_prog,      \* "before", "in" or "after" the one programming session
    connected,    \* the engine's connected flag
    pc,           \* where each caller is
    is_prog_cmd,  \* the second argument of each caller's call
    attempt,      \* its attempt number
    tok,          \* its current attempt
    got,          \* n of the reply in its oneshot channel, or None
    result,       \* outcome of its last call
    calls,        \* calls made so far
    issued,       \* ids claimed so far
    outstanding,  \* attempts the panel has received and not yet answered
    link,         \* the peer still takes what is written
    reading,      \* the reader task is running
    dcn,          \* progress of disconnect()
    overrun       \* history: an id was claimed MaxSeq claims after a live one

vars == <<sequence_id, pending, permits, in_prog, connected, pc, is_prog_cmd,
          attempt, tok, got, result, calls, issued, outstanding, link, reading,
          dcn, overrun>>

None == 0

Attempts == [n : Nat, id : 0..MaxSeq]
NoAttempt == [n |-> None, id |-> 0]

(* An attempt is in flight from the claim of its id until its call leaves   *)
(* the attempt; a receiver exists until the timeout drops it.               *)
InFlight(c)  == pc[c] \in {"insert", "write", "wait", "timed_out", "closed"}
Receiving(c) == pc[c] \in {"write", "wait"}
HoldsPermit(c) == pc[c] \in {"check", "claim"} \/ InFlight(c)

Live == {tok[c] : c \in {d \in Callers : InFlight(d)}} \cup outstanding

(* Mutant: the counter wraps one id too late. *)
NextIdWrapsLate == IF sequence_id > MaxSeq THEN 1 ELSE sequence_id + 1

NextId == IF sequence_id >= MaxSeq THEN 1 ELSE sequence_id + 1

SenderStored(c) == \E i \in 1..MaxSeq : pending[i] = tok[c].n

(* The engine's state: ids in 1..MaxSeq (next_sequence_id), attempts up to     *)
(* max_attempts, one outcome of send_command per call.                      *)
TypeOK ==
    /\ sequence_id \in 1..MaxSeq
    /\ pending \in [1..MaxSeq -> Nat]
    /\ permits \in Nat
    /\ in_prog \in {"before", "in", "after"}
    /\ connected \in BOOLEAN
    /\ pc \in [Callers -> {"idle", "gate", "acquire", "check", "claim", "insert",
                           "write", "wait", "timed_out", "closed"}]
    /\ is_prog_cmd \in [Callers -> BOOLEAN]
    /\ attempt \in [Callers -> 0..MaxAttempts]
    /\ tok \in [Callers -> Attempts]
    /\ got \in [Callers -> Nat]
    /\ result \in [Callers -> {"none", "Ok", "Io", "Disconnected",
                               "ChannelClosed", "CommandTimeout"}]
    /\ calls \in 0..MaxCalls
    /\ issued \in Nat
    /\ outstanding \subseteq Attempts
    /\ link \in BOOLEAN
    /\ reading \in BOOLEAN
    /\ dcn \in {"no", "sent", "done"}
    /\ overrun \in BOOLEAN

Init ==
    /\ sequence_id = 1
    /\ pending = [i \in 1..MaxSeq |-> None]
    /\ permits = Permits
    /\ in_prog = "before"
    /\ connected = TRUE
    /\ pc = [c \in Callers |-> "idle"]
    /\ is_prog_cmd = [c \in Callers |-> FALSE]
    /\ attempt = [c \in Callers |-> 0]
    /\ tok = [c \in Callers |-> NoAttempt]
    /\ got = [c \in Callers |-> None]
    /\ result = [c \in Callers |-> "none"]
    /\ calls = 0
    /\ issued = 0
    /\ outstanding = {}
    /\ link = TRUE
    /\ reading = TRUE
    /\ dcn = "no"
    /\ overrun = FALSE

-----------------------------------------------------------------------------
(* send_command *)

envVars  == <<in_prog, connected, link, reading, dcn>>
wireVars == <<pending, outstanding>>
seqVars  == <<sequence_id, issued, overrun>>
callVars == <<is_prog_cmd, attempt>>

Goto(c, l) == pc' = [pc EXCEPT ![c] = l]

(* The locals of an attempt (the id, the receiver) go out of scope. *)
LeaveAttempt(c) ==
    /\ tok' = [tok EXCEPT ![c] = NoAttempt]
    /\ got' = [got EXCEPT ![c] = None]

(* Mutant: a failed call forgets its permit. *)
ReturnForgetsPermit(c, r) ==
    /\ Goto(c, "idle")
    /\ result' = [result EXCEPT ![c] = r]
    /\ permits' = IF r = "Ok" THEN permits + 1 ELSE permits
    /\ attempt' = [attempt EXCEPT ![c] = 0]
    /\ is_prog_cmd' = [is_prog_cmd EXCEPT ![c] = FALSE]

(* send_command returns: the permit is dropped with the call. *)
Return(c, r) ==
    /\ Goto(c, "idle")
    /\ result' = [result EXCEPT ![c] = r]
    /\ permits' = permits + 1
    /\ attempt' = [attempt EXCEPT ![c] = 0]
    /\ is_prog_cmd' = [is_prog_cmd EXCEPT ![c] = FALSE]

Call(c, prog) ==
    /\ pc[c] = "idle"
    /\ calls < MaxCalls
    /\ calls' = calls + 1
    /\ is_prog_cmd' = [is_prog_cmd EXCEPT ![c] = prog]
    /\ result' = [result EXCEPT ![c] = "none"]
    /\ Goto(c, "gate")
    /\ UNCHANGED <<envVars, wireVars, seqVars, permits, attempt, tok, got>>

(* The 5 s polling loop on in_prog lets the call through. *)
PassGate(c) ==
    /\ pc[c] = "gate"
    /\ in_prog # "in" \/ is_prog_cmd[c]
    /\ Goto(c, "acquire")
    /\ UNCHANGED <<envVars, wireVars, seqVars, callVars, calls, permits, tok, got,
                   result>>

Acquire(c) ==
    /\ pc[c] = "acquire"
    /\ permits > 0
    /\ permits' = permits - 1
    /\ attempt' = [attempt EXCEPT ![c] = 1]
    /\ Goto(c, "check")
    /\ UNCHANGED <<envVars, wireVars, seqVars, is_prog_cmd, calls, tok, got, result>>

CheckConnected(c) ==
    /\ pc[c] = "check"
    /\ \/ /\ connected
          /\ Goto(c, "claim")
          /\ UNCHANGED <<callVars, permits, result>>
       \/ /\ ~connected
          /\ Return(c, "Disconnected")
    /\ UNCHANGED <<envVars, wireVars, seqVars, calls, tok, got>>

(* Mutant: the id is read and the counter is not advanced, so two callers   *)
(* claim the same id.                                                       *)
TakeIdAgain ==
    /\ UNCHANGED sequence_id
    /\ issued' = issued + 1
    /\ overrun' = (overrun \/ \E t \in Live : t.n + MaxSeq <= issued + 1)

(* Claim the next id.  Only the counter's mutex is held: the sender is      *)
(* stored by a later step, Insert.                                          *)
TakeId ==
    /\ sequence_id' = NextId
    /\ issued' = issued + 1
    /\ overrun' = (overrun \/ \E t \in Live : t.n + MaxSeq <= issued + 1)

Claim(c) ==
    /\ pc[c] = "claim"
    /\ TakeId
    /\ tok' = [tok EXCEPT ![c] = [n |-> issued + 1, id |-> sequence_id]]
    /\ got' = [got EXCEPT ![c] = None]
    /\ Goto(c, "insert")
    /\ UNCHANGED <<envVars, wireVars, callVars, calls, permits, result>>

(* HashMap::insert replaces, and so drops, a sender stored under the id. *)
Insert(c) ==
    /\ pc[c] = "insert"
    /\ pending' = [pending EXCEPT ![tok[c].id] = tok[c].n]
    /\ Goto(c, "write")
    /\ UNCHANGED <<envVars, seqVars, callVars, calls, outstanding, permits, tok,
                   got, result>>

(* Written bytes reach the panel only while the peer is there. *)
Write(c) ==
    /\ pc[c] = "write"
    /\ outstanding' = IF link THEN outstanding \cup {tok[c]} ELSE outstanding
    /\ Goto(c, "wait")
    /\ UNCHANGED <<envVars, seqVars, callVars, calls, pending, permits, tok, got,
                   result>>

(* A failed write returns at once: the sender stays in the map. *)
WriteFails(c) ==
    /\ pc[c] = "write"
    /\ ~link
    /\ Return(c, "Io")
    /\ LeaveAttempt(c)
    /\ UNCHANGED <<envVars, wireVars, seqVars, calls>>

Receive(c) ==
    /\ pc[c] = "wait"
    /\ got[c] # None
    /\ Return(c, "Ok")
    /\ LeaveAttempt(c)
    /\ UNCHANGED <<envVars, wireVars, seqVars, calls>>

(* Mutant: the timer is looked at before the receiver. *)
TimeoutFirst(c) ==
    /\ pc[c] = "wait"
    /\ Goto(c, "timed_out")
    /\ UNCHANGED <<envVars, wireVars, seqVars, callVars, calls, permits, tok, got,
                   result>>

(* The receiver polls before the timer: it times out only while its sender  *)
(* is still stored.                                                         *)
Timeout(c) ==
    /\ pc[c] = "wait"
    /\ got[c] = None
    /\ SenderStored(c)
    /\ Goto(c, "timed_out")
    /\ UNCHANGED <<envVars, wireVars, seqVars, callVars, calls, permits, tok, got,
                   result>>

SenderDropped(c) ==
    /\ pc[c] = "wait"
    /\ got[c] = None
    /\ ~SenderStored(c)
    /\ Goto(c, "closed")
    /\ UNCHANGED <<envVars, wireVars, seqVars, callVars, calls, permits, tok, got,
                   result>>

(* Mutants: the whole map is cleared; nothing is removed. *)
RemoveAllPending(c) == pending' = [i \in 1..MaxSeq |-> None]
RemoveNothing(c) == UNCHANGED pending

(* Both error arms remove whatever is stored under the id by then. *)
RemovePending(c) == pending' = [pending EXCEPT ![tok[c].id] = None]

TimeoutCleanup(c) ==
    /\ pc[c] = "timed_out"
    /\ RemovePending(c)
    /\ \/ /\ attempt[c] < MaxAttempts
          /\ attempt' = [attempt EXCEPT ![c] = @ + 1]
          /\ Goto(c, "check")
          /\ UNCHANGED <<is_prog_cmd, permits, result>>
       \/ /\ attempt[c] = MaxAttempts
          /\ Return(c, "CommandTimeout")
    /\ LeaveAttempt(c)
    /\ UNCHANGED <<envVars, seqVars, calls, outstanding>>

ClosedCleanup(c) ==
    /\ pc[c] = "closed"
    /\ RemovePending(c)
    /\ Return(c, "ChannelClosed")
    /\ LeaveAttempt(c)
    /\ UNCHANGED <<envVars, seqVars, calls, outstanding>>

CallerStep(c) ==
    \/ PassGate(c) \/ Acquire(c) \/ CheckConnected(c) \/ Claim(c) \/ Insert(c)
    \/ Write(c) \/ WriteFails(c) \/ Receive(c) \/ Timeout(c) \/ SenderDropped(c)
    \/ TimeoutCleanup(c) \/ ClosedCleanup(c)

-----------------------------------------------------------------------------
(* The panel and the reader task *)

callerVars == <<pc, is_prog_cmd, attempt, tok, result, calls, permits>>

(* The reply to attempt t arrives: process_message takes the sender stored  *)
(* under its id, whoever's it is, and sends into it.                        *)
Reply(t) ==
    /\ reading
    /\ t \in outstanding
    /\ outstanding' = outstanding \ {t}
    /\ got' = [c \in Callers |->
                 IF Receiving(c) /\ pending[t.id] = tok[c].n THEN t.n ELSE got[c]]
    /\ pending' = [pending EXCEPT ![t.id] = None]
    /\ UNCHANGED <<envVars, seqVars, callerVars>>

(* The panel ignores a command, or its reply fails the CRC test. *)
ReplyLost(t) ==
    /\ t \in outstanding
    /\ outstanding' = outstanding \ {t}
    /\ UNCHANGED <<envVars, seqVars, callerVars, pending, got>>

PeerGone ==
    /\ link
    /\ link' = FALSE
    /\ UNCHANGED <<wireVars, seqVars, callerVars, got, in_prog, connected, reading,
                   dcn>>

(* End of stream, a read error or socket_timeout. *)
ReaderStops ==
    /\ reading
    /\ reading' = FALSE
    /\ connected' = FALSE
    /\ UNCHANGED <<wireVars, seqVars, callerVars, got, in_prog, link, dcn>>

(* The eleventh bad CRC: the flag is cleared, the reader goes on. *)
CrcLimit ==
    /\ reading /\ connected
    /\ connected' = FALSE
    /\ UNCHANGED <<wireVars, seqVars, callerVars, got, in_prog, link, reading, dcn>>

(* disconnect: a raw DCN claims an id without storing a sender, then the    *)
(* flag is cleared.                                                         *)
SendDcn ==
    /\ dcn = "no"
    /\ dcn' = "sent"
    /\ \/ /\ connected
          /\ TakeId
          /\ outstanding' = IF link
               THEN outstanding \cup {[n |-> issued + 1, id |-> sequence_id]}
               ELSE outstanding
       \/ /\ ~connected
          /\ UNCHANGED <<seqVars, outstanding>>
    /\ UNCHANGED <<callerVars, pending, got, in_prog, connected, link, reading>>

ClearConnected ==
    /\ dcn = "sent"
    /\ dcn' = "done"
    /\ connected' = FALSE
    /\ UNCHANGED <<wireVars, seqVars, callerVars, got, in_prog, link, reading>>

(* set_in_prog, by the one programming session of a connection (comm.rs). *)
SetInProg ==
    /\ \/ in_prog = "before" /\ in_prog' = "in"
       \/ in_prog = "in" /\ in_prog' = "after"
    /\ UNCHANGED <<wireVars, seqVars, callerVars, got, connected, link, reading, dcn>>

Next ==
    \/ \E c \in Callers : \/ \E prog \in BOOLEAN : Call(c, prog)
                          \/ CallerStep(c)
    \/ \E t \in outstanding : Reply(t) \/ ReplyLost(t)
    \/ PeerGone \/ ReaderStops \/ CrcLimit \/ SendDcn \/ ClearConnected \/ SetInProg

Spec == Init /\ [][Next]_vars

(* Tasks are scheduled and timers fire; tokio's semaphore serves its waiters *)
(* in order, so a caller is not overtaken for ever (SF); the programming     *)
(* session ends.  Neither the panel nor the network is fair.                *)
FairSpec ==
    /\ Spec
    /\ \A c \in Callers : WF_vars(CallerStep(c)) /\ SF_vars(Acquire(c))
    /\ WF_vars(in_prog = "in" /\ SetInProg)

-----------------------------------------------------------------------------
(* The reply a caller is about to return is the panel's answer to the very  *)
(* attempt it waits for, never to an earlier attempt or to another caller's  *)
(* command, as long as no id was claimed again while an attempt that had it  *)
(* was still live.                                                          *)
OwnReply ==
    ~overrun => \A c \in Callers :
        pc[c] = "wait" /\ got[c] # None => got[c] = tok[c].n

(* A caller is told ChannelClosed (which it does not retry) only when its    *)
(* sender was thrown out of the map by a claim of the same id.              *)
ClosedOnlyAfterOverrun ==
    ~overrun => \A c \in Callers : pc[c] # "closed" /\ result[c] # "ChannelClosed"

(* While writes succeed, every sender in the map belongs to an attempt in    *)
(* flight: timeouts, retries, late and lost replies leave nothing behind.    *)
NoLeakWhileUp ==
    link /\ ~overrun => \A i \in 1..MaxSeq :
        pending[i] # None => \E c \in Callers :
            /\ pc[c] \in {"write", "wait", "timed_out"}
            /\ tok[c] = [n |-> pending[i], id |-> i]

(* Every call of send_command returns, whatever the panel and the network do. *)
EveryCallReturns == \A c \in Callers : pc[c] # "idle" ~> pc[c] = "idle"

(* Permits are conserved: whichever way send_command returns, the permit it    *)
(* acquired goes back to pipeline_semaphore, once.                          *)
PermitsConserved ==
    permits + Cardinality({c \in Callers : HoldsPermit(c)}) = Permits

(* What the callers see of the engine. *)
Service == INSTANCE CommandService WITH
    calling <- {c \in Callers : pc[c] # "idle"},
    attempt <- [c \in Callers |-> IF InFlight(c) THEN tok[c].n ELSE None],
    reply   <- got,
    used    <- 1..issued,
    lost    <- overrun

(* send_command implements the service: whatever replies, timers, retries and  *)
(* the connection do, a reply that has come in time is what its call returns,  *)
(* and no call returns for any reason the service does not give.             *)
ServesCommands == Service!Spec

-----------------------------------------------------------------------------
(* The inductive invariant the proofs rest on. *)

(* The id claimed a claims before the latest one, around the cycle, for a   *)
(* less than MaxSeq; seq is the counter now.                                *)
IdAt(seq, a) == IF seq > a + 1 THEN seq - a - 1 ELSE seq - a - 1 + MaxSeq

Age(t) == issued - t.n

IdLaw(t) == Age(t) < MaxSeq => t.id = IdAt(sequence_id, Age(t))

Numbering ==
    /\ \A t \in Live : t.n \in 1..issued /\ t.id \in 1..MaxSeq /\ IdLaw(t)
    /\ \A i \in 1..MaxSeq : pending[i] <= issued
    /\ \A c, d \in Callers :
          c # d /\ InFlight(c) /\ InFlight(d) => tok[c].n # tok[d].n

WithinMaxSeq == ~overrun => \A t \in Live : Age(t) < MaxSeq

(* A sender is stored under its own id, once its caller has inserted it. *)
SenderPlace ==
    \A c \in Callers, i \in 1..MaxSeq :
        InFlight(c) /\ pending[i] = tok[c].n => i = tok[c].id /\ pc[c] # "insert"

(* A receiver is empty with its sender stored, or holds its own reply. *)
ReceiverState ==
    ~overrun => \A c \in Callers :
        /\ pc[c] = "insert" => got[c] = None
        /\ Receiving(c) =>
             \/ got[c] = None /\ pending[tok[c].id] = tok[c].n
             \/ got[c] = tok[c].n /\ \A i \in 1..MaxSeq : pending[i] # tok[c].n

(* What makes the properties above inductive: ids follow the cycle of the      *)
(* counter, so within MaxSeq claims none is shared, a sender is stored under *)
(* the id of its own attempt, and a receiver is empty or has its own reply.  *)
EngineInv ==
    /\ TypeOK
    /\ Numbering
    /\ WithinMaxSeq
    /\ SenderPlace
    /\ ReceiverState
    /\ ClosedOnlyAfterOverrun
    /\ NoLeakWhileUp
=============================================================================
