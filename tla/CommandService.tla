---------------------------- MODULE CommandService ----------------------------
(***************************************************************************)
(* What send_command promises to the tasks that share a connection: a call    *)
(* makes attempts, one at a time, each of its own; an attempt is answered at  *)
(* most once, and only its caller gets the answer; an answer that has come is *)
(* what the call returns; a call that returns no answer says why.  Nothing is *)
(* promised once ids have run out.                                          *)
(***************************************************************************)
CONSTANTS Callers, None

VARIABLES
    calling,  \* callers whose call has not returned
    attempt,  \* the attempt each waits on, or None
    reply,    \* the attempt whose answer has come for it, or None
    result,   \* what each call returned
    used,     \* attempts made
    lost      \* ids have run out

vars == <<calling, attempt, reply, result, used, lost>>

Errors == {"Io", "Disconnected", "CommandTimeout"}

Init ==
    /\ calling = {}
    /\ attempt = [c \in Callers |-> None]
    /\ reply = [c \in Callers |-> None]
    /\ result = [c \in Callers |-> "none"]
    /\ used = {}
    /\ lost = FALSE

Call(c) ==
    /\ c \notin calling
    /\ calling' = calling \cup {c}
    /\ result' = [result EXCEPT ![c] = "none"]
    /\ UNCHANGED <<attempt, reply, used>>

(* An attempt is a new one; disconnect makes one too, for nobody. *)
Attempt ==
    /\ \E n \in used' \ used :
         /\ used' = used \cup {n}
         /\ \/ UNCHANGED attempt
            \/ \E c \in calling : /\ attempt[c] = None
                                  /\ attempt' = [attempt EXCEPT ![c] = n]
    /\ UNCHANGED <<calling, reply, result>>

Answer(c) ==
    /\ attempt[c] # None /\ reply[c] = None
    /\ reply' = [reply EXCEPT ![c] = attempt[c]]
    /\ UNCHANGED <<calling, attempt, result, used>>

(* An attempt is given up only when its answer has not come. *)
Retry(c) ==
    /\ attempt[c] # None /\ reply[c] = None
    /\ attempt' = [attempt EXCEPT ![c] = None]
    /\ UNCHANGED <<calling, reply, result, used>>

Return(c, r) ==
    /\ c \in calling
    /\ calling' = calling \ {c}
    /\ result' = [result EXCEPT ![c] = r]
    /\ attempt' = [attempt EXCEPT ![c] = None]
    /\ reply' = [reply EXCEPT ![c] = None]
    /\ UNCHANGED used

Ok(c) == attempt[c] # None /\ reply[c] = attempt[c] /\ Return(c, "Ok")

Fail(c) == reply[c] = None /\ \E r \in Errors : Return(c, r)

Next ==
    \/ \E c \in Callers : Call(c) \/ Answer(c) \/ Retry(c) \/ Ok(c) \/ Fail(c)
    \/ Attempt

Spec == Init /\ [][lost' \/ (Next /\ UNCHANGED lost)]_vars
=============================================================================
