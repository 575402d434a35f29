------------------------- MODULE UnsolicitedDelivery -------------------------
(***************************************************************************)
(* transport/direct.rs, process_message, for messages the panel sends of    *)
(* its own accord (ids 50-99): the reader acknowledges every one whose CRC   *)
(* is right, drops one that repeats the last id, and hands the others to the *)
(* event bus.  The panel (external) keeps one message at a time and sends it *)
(* again until its id is acknowledged.  Both directions of the TCP stream    *)
(* are FIFO; a frame may be damaged, and an ACK may fail to be written.      *)
(*                                                                          *)
(* Messages are numbered 1, 2, ...; the wire carries only IdOf[n].          *)
(***************************************************************************)
EXTENDS Naturals, Sequences

CONSTANTS
    Ids,          \* ids of unsolicited messages (50-99)
    NoId,         \* no message received yet
    IdOf,         \* the id the panel gives to each of its messages
    BadCrcLimit,  \* BAD_CRC_LIMIT (10 in the code)
    MaxMessages,  \* bound: messages the panel has to send
    MaxFrames     \* bound: frames in flight in each direction

ASSUME DeliveryConstants ==
    /\ NoId \notin Ids
    /\ BadCrcLimit \in Nat
    /\ MaxMessages \in Nat
    /\ MaxFrames \in Nat
    /\ IdOf \in [1..MaxMessages -> Ids]
    /\ \A n \in 1..MaxMessages :
          n + 1 \in 1..MaxMessages => IdOf[n] # IdOf[n + 1]

VARIABLES
    cur,            \* the panel's latest message
    waiting,        \* it has not been acknowledged to the panel yet
    toReader,       \* frames on their way to the reader task
    toPanel,        \* ACKs on their way to the panel
    last_id,        \* last_received_unsolicited_id
    emitted,        \* messages given to emit_panel_data, in order
    bad_crc_count,
    recent,         \* the last CRC error is less than CRC_RESET_WINDOW old
    connected

vars == <<cur, waiting, toReader, toPanel, last_id, emitted, bad_crc_count,
          recent, connected>>

(* The state of the panel, the wire and the reader task (process_message).   *)
TypeOK ==
    /\ cur \in 0..MaxMessages
    /\ waiting \in BOOLEAN
    /\ toReader \in Seq(Nat)
    /\ toPanel \in Seq(Nat)
    /\ last_id \in Ids \cup {NoId}
    /\ emitted \in Seq(Nat)
    /\ bad_crc_count \in Nat
    /\ recent \in BOOLEAN
    /\ connected \in BOOLEAN

Init ==
    /\ cur = 0
    /\ waiting = FALSE
    /\ toReader = <<>>
    /\ toPanel = <<>>
    /\ last_id = NoId
    /\ emitted = <<>>
    /\ bad_crc_count = 0
    /\ recent = FALSE
    /\ connected = TRUE

-----------------------------------------------------------------------------
(* The panel *)

readerVars == <<last_id, emitted, bad_crc_count, recent, connected>>

PanelOffers ==
    /\ ~waiting
    /\ cur < MaxMessages
    /\ Len(toReader) < MaxFrames
    /\ cur' = cur + 1
    /\ waiting' = TRUE
    /\ toReader' = Append(toReader, cur + 1)
    /\ UNCHANGED <<toPanel, readerVars>>

PanelRepeats ==
    /\ waiting
    /\ Len(toReader) < MaxFrames
    /\ toReader' = Append(toReader, cur)
    /\ UNCHANGED <<cur, waiting, toPanel, readerVars>>

PanelTakesAck ==
    /\ toPanel # <<>>
    /\ toPanel' = Tail(toPanel)
    /\ waiting' = (waiting /\ IdOf[Head(toPanel)] # IdOf[cur])
    /\ UNCHANGED <<cur, toReader, readerVars>>

AckDamaged ==
    /\ toPanel # <<>>
    /\ toPanel' = Tail(toPanel)
    /\ UNCHANGED <<cur, waiting, toReader, readerVars>>

-----------------------------------------------------------------------------
(* The reader task *)

crcVars == <<bad_crc_count, recent, connected>>

(* Mutant: a repeated message is not acknowledged. *)
SendAckOnce(n) ==
    IF last_id = IdOf[n]
    THEN UNCHANGED toPanel
    ELSE Len(toPanel) < MaxFrames /\ toPanel' = Append(toPanel, n)

(* send_ack: its error is ignored. *)
SendAck(n) ==
    \/ Len(toPanel) < MaxFrames /\ toPanel' = Append(toPanel, n)
    \/ UNCHANGED toPanel

(* Mutant: no message is taken for a repetition. *)
DeduplicateNever(n) ==
    /\ last_id' = IdOf[n]
    /\ emitted' = Append(emitted, n)

(* Only the last id is remembered. *)
Deduplicate(n) ==
    IF last_id = IdOf[n]
    THEN UNCHANGED <<last_id, emitted>>
    ELSE /\ last_id' = IdOf[n]
         /\ emitted' = Append(emitted, n)

ReadMessage ==
    /\ toReader # <<>>
    /\ toReader' = Tail(toReader)
    /\ SendAck(Head(toReader))
    /\ Deduplicate(Head(toReader))
    /\ UNCHANGED <<cur, waiting, crcVars>>

(* handle_bad_crc: the count starts again when the last error is older than  *)
(* CRC_RESET_WINDOW; past the limit the connected flag is cleared, and the   *)
(* reader goes on reading.                                                  *)
HandleBadCrc ==
    /\ bad_crc_count' = IF recent THEN bad_crc_count + 1 ELSE 1
    /\ recent' = TRUE
    /\ connected' = (connected /\ bad_crc_count' <= BadCrcLimit)

(* Mutant: a damaged message is acknowledged. *)
ReadDamagedAcks ==
    /\ toReader # <<>>
    /\ recent => bad_crc_count <= BadCrcLimit
    /\ toReader' = Tail(toReader)
    /\ SendAck(Head(toReader))
    /\ HandleBadCrc
    /\ UNCHANGED <<cur, waiting, last_id, emitted>>

ReadDamaged ==
    /\ toReader # <<>>
    /\ recent => bad_crc_count <= BadCrcLimit
    /\ toReader' = Tail(toReader)
    /\ HandleBadCrc
    /\ UNCHANGED <<cur, waiting, toPanel, last_id, emitted>>

WindowElapses ==
    /\ recent
    /\ recent' = FALSE
    /\ UNCHANGED <<cur, waiting, toReader, toPanel, last_id, emitted,
                   bad_crc_count, connected>>

Next ==
    \/ PanelOffers \/ PanelRepeats \/ PanelTakesAck \/ AckDamaged
    \/ ReadMessage \/ ReadDamaged \/ WindowElapses

Spec == Init /\ [][Next]_vars

(* The panel repeats until acknowledged and the reader is scheduled; neither  *)
(* direction damages every frame, and not every ACK fails to be written.     *)
FairSpec ==
    /\ Spec
    /\ WF_vars(PanelRepeats)
    /\ WF_vars(ReadMessage)
    /\ SF_vars(ReadMessage /\ toPanel' # toPanel)
    /\ SF_vars(PanelTakesAck)

-----------------------------------------------------------------------------
(* process_message gives the bus every message the panel offers, in order    *)
(* and once, whatever is repeated, damaged or left unacknowledged.          *)
Delivery == INSTANCE InOrderDelivery WITH offered <- cur, received <- emitted

DeliveredInOrder == Delivery!Spec

(* The panel never waits for an ACK for ever: a repeated message is          *)
(* acknowledged although it is dropped as a duplicate.                      *)
EventuallyAcknowledged == waiting ~> ~waiting

(* When the panel has been told that a message arrived, the bus was given it. *)
AcknowledgedIsEmitted == ~waiting => Len(emitted) = cur

-----------------------------------------------------------------------------
(* The inductive invariant: ACKs in flight are no newer than the latest       *)
(* message emitted, frames in flight no older, and all are of the current    *)
(* message or of the one before it.                                         *)
Latest == Len(emitted)

Sorted(s) == \A i, j \in 1..Len(s) : i <= j => s[i] <= s[j]

(* With the reader's last_received_unsolicited_id the id of the latest        *)
(* message emitted, this is what lets one remembered id tell a repetition    *)
(* from a new message.                                                      *)
DeliveryInv ==
    /\ TypeOK
    /\ \A i \in 1..Latest : emitted[i] = i
    /\ Latest <= cur /\ cur <= Latest + 1
    /\ waiting => cur > 0
    /\ AcknowledgedIsEmitted
    /\ last_id = IF Latest = 0 THEN NoId ELSE IdOf[Latest]
    /\ Sorted(toPanel) /\ Sorted(toReader)
    /\ \A i \in 1..Len(toPanel) :
         /\ 1 <= toPanel[i] /\ toPanel[i] <= Latest
         /\ toPanel[i] + (IF waiting THEN 1 ELSE 0) >= cur
    /\ \A i \in 1..Len(toReader) :
         1 <= toReader[i] /\ Latest <= toReader[i] /\ toReader[i] <= cur
=============================================================================
