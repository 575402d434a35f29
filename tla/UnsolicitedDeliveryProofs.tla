---------------------- MODULE UnsolicitedDeliveryProofs ----------------------
(* The reader delivers every message once and in order, for every number of   *)
(* messages and ids and every length of the channels.                       *)
EXTENDS UnsolicitedDelivery, TLAPS

USE DeliveryConstants

(* The parts of the invariant about the two channels. *)
AcksOk ==
    /\ Sorted(toPanel)
    /\ \A i \in 1..Len(toPanel) :
         /\ 1 <= toPanel[i] /\ toPanel[i] <= Latest
         /\ toPanel[i] + (IF waiting THEN 1 ELSE 0) >= cur

FramesOk ==
    /\ Sorted(toReader)
    /\ \A i \in 1..Len(toReader) :
         1 <= toReader[i] /\ Latest <= toReader[i] /\ toReader[i] <= cur

(* Taking the first element of a sorted sequence of numbers. *)
LEMMA SortedTail ==
    ASSUME NEW s \in Seq(Nat), s # <<>>, Sorted(s)
    PROVE  /\ Head(s) = s[1] /\ 1 \in 1..Len(s)
           /\ Tail(s) \in Seq(Nat) /\ Len(Tail(s)) = Len(s) - 1
           /\ \A i \in 1..Len(Tail(s)) : Tail(s)[i] = s[i + 1] /\ i + 1 \in 1..Len(s)
           /\ \A i \in 1..Len(Tail(s)) : Head(s) <= Tail(s)[i]
           /\ Sorted(Tail(s))
<1>1. Head(s) = s[1] /\ Len(s) \in Nat /\ 1 \in 1..Len(s)
  OBVIOUS
<1>2. Tail(s) \in Seq(Nat) /\ Len(Tail(s)) = Len(s) - 1
  OBVIOUS
<1>3. \A i \in 1..Len(Tail(s)) : Tail(s)[i] = s[i + 1] /\ i + 1 \in 1..Len(s)
  BY <1>1, <1>2
<1>4. \A i \in 1..Len(Tail(s)) : Head(s) <= Tail(s)[i]
  BY <1>1, <1>2, <1>3 DEF Sorted
<1>5. Sorted(Tail(s))
  BY <1>1, <1>2, <1>3 DEF Sorted
<1> QED
  BY <1>1, <1>2, <1>3, <1>4, <1>5

(* What Append does to a sequence of numbers. *)
LEMMA AppendFacts ==
    ASSUME NEW s \in Seq(Nat), NEW n \in Nat
    PROVE  /\ Append(s, n) \in Seq(Nat) /\ Len(s) \in Nat /\ Len(Append(s, n)) = Len(s) + 1
           /\ \A i \in 1..Len(Append(s, n)) :
                Append(s, n)[i] = IF i \in 1..Len(s) THEN s[i] ELSE n
OBVIOUS

(* Putting a number no smaller than the others at the end of one. *)
LEMMA SortedAppend ==
    ASSUME NEW s \in Seq(Nat), NEW n \in Nat, Sorted(s),
           \A i \in 1..Len(s) : s[i] <= n
    PROVE  /\ Append(s, n) \in Seq(Nat) /\ Len(Append(s, n)) = Len(s) + 1
           /\ \A i \in 1..Len(Append(s, n)) :
                Append(s, n)[i] = IF i \in 1..Len(s) THEN s[i] ELSE n
           /\ Sorted(Append(s, n))
<1>1. /\ Append(s, n) \in Seq(Nat) /\ Len(s) \in Nat /\ Len(Append(s, n)) = Len(s) + 1
      /\ \A i \in 1..Len(Append(s, n)) :
           Append(s, n)[i] = IF i \in 1..Len(s) THEN s[i] ELSE n
  BY AppendFacts
<1>2. Sorted(Append(s, n))
  <2> SUFFICES ASSUME NEW i \in 1..Len(Append(s, n)), NEW j \in 1..Len(Append(s, n)), i <= j
               PROVE  Append(s, n)[i] <= Append(s, n)[j]
    BY DEF Sorted
  <2>1. CASE j \in 1..Len(s)
    BY <1>1, <2>1 DEF Sorted
  <2>2. CASE j \notin 1..Len(s)
    BY <1>1, <2>2, SMTT(30)
  <2> QED
    BY <2>1, <2>2
<1> QED
  BY <1>1, <1>2

(* Nothing has been offered, emitted or acknowledged at the start. *)
LEMMA DeliveryInit == Init => DeliveryInv
<1> SUFFICES ASSUME Init PROVE DeliveryInv
  OBVIOUS
<1>1. Latest = 0 /\ emitted \in Seq(Nat) /\ toPanel \in Seq(Nat) /\ toReader \in Seq(Nat)
  BY DEF Init, Latest
<1>5. TypeOK
  <2>1. cur \in 0..MaxMessages /\ last_id \in Ids \cup {NoId}
    BY DEF Init
  <2>2. waiting \in BOOLEAN /\ bad_crc_count \in Nat /\ recent \in BOOLEAN
        /\ connected \in BOOLEAN
    BY DEF Init
  <2> QED
    BY <1>1, <2>1, <2>2 DEF TypeOK
<1>2. \A i \in 1..Latest : emitted[i] = i
  BY <1>1
<1>3. Len(toPanel) = 0 /\ Len(toReader) = 0 /\ cur = 0 /\ last_id = NoId /\ ~waiting
  BY DEF Init
<1>4. Sorted(toPanel) /\ Sorted(toReader)
  BY <1>3 DEF Sorted
<1> QED
  BY <1>1, <1>2, <1>3, <1>4, <1>5 DEF DeliveryInv, AcknowledgedIsEmitted, Latest

(* The head of toReader is a repetition of the latest message emitted, and its *)
(* id says so, or it is the next message, and its id differs.               *)
LEMMA HeadOfToReader ==
    ASSUME DeliveryInv, toReader # <<>>
    PROVE  LET m == Head(toReader)
           IN  /\ m \in Nat \ {0}
               /\ last_id = IdOf[m] => m = Latest
               /\ last_id # IdOf[m] => m = Latest + 1 /\ m = cur
<1> DEFINE m == Head(toReader)
<1>1. Latest \in Nat /\ cur \in 0..MaxMessages
  BY DEF DeliveryInv, TypeOK, Latest
<1>2. m = toReader[1] /\ 1 \in 1..Len(toReader)
  BY SortedTail DEF DeliveryInv, TypeOK
<1>3. m \in Nat /\ 1 <= m /\ Latest <= m /\ m <= cur /\ cur <= Latest + 1
  BY <1>2 DEF DeliveryInv, TypeOK
<1>4. m \in 1..MaxMessages /\ (m = Latest \/ (m = Latest + 1 /\ m = cur))
  BY <1>1, <1>3
<1>5. CASE m = Latest
  BY <1>3, <1>4, <1>5 DEF DeliveryInv
<1>6. CASE m = Latest + 1 /\ m = cur
  <2>1. last_id # IdOf[m]
    BY <1>1, <1>4, <1>6 DEF DeliveryInv
  <2> QED
    BY <1>3, <1>6, <2>1
<1> QED
  BY <1>4, <1>5, <1>6

(* Dropping the first ACK, and dropping the first frame unread. *)
LEMMA DropAck ==
    ASSUME DeliveryInv, toPanel # <<>>, toPanel' = Tail(toPanel),
           UNCHANGED <<cur, emitted>>,
           waiting' = waiting \/ (~waiting' /\ Head(toPanel) = cur)
    PROVE  toPanel' \in Seq(Nat) /\ AcksOk'
<1>1. /\ toPanel \in Seq(Nat) /\ Sorted(toPanel) /\ cur \in Nat /\ waiting \in BOOLEAN
      /\ Latest' = Latest /\ Latest \in Nat
      /\ \A i \in 1..Len(toPanel) :
           /\ 1 <= toPanel[i] /\ toPanel[i] <= Latest
           /\ toPanel[i] + (IF waiting THEN 1 ELSE 0) >= cur
  BY DEF DeliveryInv, TypeOK, Latest
<1>2. /\ toPanel' \in Seq(Nat) /\ Sorted(toPanel)'
      /\ \A i \in 1..Len(toPanel') :
           /\ toPanel'[i] = toPanel[i + 1] /\ i + 1 \in 1..Len(toPanel)
           /\ Head(toPanel) <= toPanel'[i]
  BY <1>1, SortedTail DEF Sorted
<1>3. ASSUME NEW i \in 1..Len(toPanel')
      PROVE  /\ 1 <= toPanel'[i] /\ toPanel'[i] <= Latest'
             /\ toPanel'[i] + (IF waiting' THEN 1 ELSE 0) >= cur'
  <2>1. toPanel'[i] \in Nat /\ 1 <= toPanel'[i] /\ toPanel'[i] <= Latest
        /\ toPanel'[i] + (IF waiting THEN 1 ELSE 0) >= cur /\ Head(toPanel) <= toPanel'[i]
    BY <1>1, <1>2
  <2>2. CASE waiting' = waiting
    BY <1>1, <2>1, <2>2
  <2>3. CASE ~waiting' /\ Head(toPanel) = cur
    BY <1>1, <2>1, <2>3
  <2> QED
    BY <2>2, <2>3
<1> QED
  BY <1>2, <1>3 DEF AcksOk

(* The first frame leaves the stream towards the reader. *)
LEMMA DropFrame ==
    ASSUME DeliveryInv, toReader # <<>>, toReader' = Tail(toReader), cur' = cur,
           Latest' \in Nat, Latest' <= Head(toReader)
    PROVE  toReader' \in Seq(Nat) /\ FramesOk'
<1>1. /\ toReader \in Seq(Nat) /\ Sorted(toReader) /\ cur \in Nat
      /\ \A i \in 1..Len(toReader) : 1 <= toReader[i] /\ toReader[i] <= cur
  BY DEF DeliveryInv, TypeOK
<1>2. /\ toReader' \in Seq(Nat) /\ Sorted(toReader)'
      /\ \A i \in 1..Len(toReader') :
           /\ toReader'[i] = toReader[i + 1] /\ i + 1 \in 1..Len(toReader)
           /\ Head(toReader) <= toReader'[i]
  BY <1>1, SortedTail DEF Sorted
<1>4. Head(toReader) \in Nat
  BY <1>1, SortedTail
<1>3. \A i \in 1..Len(toReader') :
         1 <= toReader'[i] /\ Latest' <= toReader'[i] /\ toReader'[i] <= cur'
  BY <1>1, <1>2, <1>4
<1> QED
  BY <1>2, <1>3 DEF FramesOk

(* The reader handles one undamaged frame. *)
LEMMA ReadStep ==
    ASSUME DeliveryInv, ReadMessage
    PROVE  DeliveryInv' /\ [Delivery!Next]_<<cur, emitted>>
<1> DEFINE m == Head(toReader)
<1>1. /\ toReader # <<>> /\ toReader' = Tail(toReader) /\ SendAck(m) /\ Deduplicate(m)
      /\ UNCHANGED <<cur, waiting, bad_crc_count, recent, connected>>
  BY DEF ReadMessage, crcVars
<1>2. /\ Latest \in Nat /\ cur \in 0..MaxMessages /\ waiting \in BOOLEAN
      /\ emitted \in Seq(Nat) /\ \A i \in 1..Latest : emitted[i] = i
      /\ toPanel \in Seq(Nat) /\ Len(toPanel) \in Nat
      /\ Latest <= cur /\ cur <= Latest + 1 /\ (~waiting => Latest = cur)
  <2>1. TypeOK /\ Latest <= cur /\ cur <= Latest + 1 /\ (~waiting => Latest = cur)
        /\ \A i \in 1..Latest : emitted[i] = i
    BY DEF DeliveryInv, AcknowledgedIsEmitted, Latest
  <2>2. cur \in 0..MaxMessages /\ waiting \in BOOLEAN /\ emitted \in Seq(Nat)
        /\ toPanel \in Seq(Nat)
    BY <2>1 DEF TypeOK
  <2>3. Latest \in Nat /\ Len(toPanel) \in Nat
    BY <2>2 DEF Latest
  <2> QED
    BY <2>1, <2>2, <2>3
<1>3. /\ m \in Nat \ {0}
      /\ last_id = IdOf[m] => m = Latest
      /\ last_id # IdOf[m] => m = Latest + 1 /\ m = cur
  BY <1>1, HeadOfToReader
<1> HIDE DEF m
<1>4. m <= cur /\ cur <= m + 1 /\ (~waiting => m = cur) /\ m \in 1..MaxMessages
      /\ Latest <= m
  BY <1>2, <1>3
<1>5. /\ Latest' = m /\ (\A i \in 1..m : emitted'[i] = i) /\ emitted' \in Seq(Nat)
      /\ last_id' = IdOf[m]
      /\ [Delivery!Next]_<<cur, emitted>>
  <2>1. CASE last_id = IdOf[m]
    BY <1>1, <1>2, <1>3, <2>1 DEF Deduplicate, Latest
  <2>2. CASE last_id # IdOf[m]
    <3>1. m = Latest + 1 /\ m = cur
      BY <1>3, <2>2
    <3>2. emitted' = Append(emitted, m) /\ last_id' = IdOf[m]
      BY <1>1, <2>2 DEF Deduplicate
    <3>3. /\ emitted' \in Seq(Nat) /\ Len(emitted') = Len(emitted) + 1
          /\ \A i \in 1..Len(emitted') :
               emitted'[i] = IF i \in 1..Len(emitted) THEN emitted[i] ELSE m
      BY <1>2, <1>3, <3>2, AppendFacts
    <3>4. Latest' = m /\ Len(emitted) = Latest
      BY <1>2, <3>1, <3>3 DEF Latest
    <3>5. \A i \in 1..m : emitted'[i] = i
      BY <1>2, <3>1, <3>3, <3>4
    <3>6. Delivery!Take
      <4>1. Len(emitted) < cur /\ cur' = cur
        BY <1>1, <1>2, <3>1, <3>4
      <4> QED
        BY <3>1, <3>2, <4>1 DEF Delivery!Take
    <3> QED
      BY <3>2, <3>3, <3>4, <3>5, <3>6 DEF Delivery!Next
  <2> QED
    BY <2>1, <2>2
<1>6. toPanel' \in Seq(Nat) /\ AcksOk'
  <2>1. /\ Sorted(toPanel)
        /\ \A i \in 1..Len(toPanel) :
             /\ toPanel[i] \in Nat /\ 1 <= toPanel[i] /\ toPanel[i] <= m
             /\ toPanel[i] + (IF waiting THEN 1 ELSE 0) >= cur
    <3>1. /\ Sorted(toPanel)
          /\ \A i \in 1..Len(toPanel) :
               /\ 1 <= toPanel[i] /\ toPanel[i] <= Latest
               /\ toPanel[i] + (IF waiting THEN 1 ELSE 0) >= cur
      BY DEF DeliveryInv
    <3>2. \A i \in 1..Len(toPanel) : toPanel[i] \in Nat
      BY <1>2
    <3> QED
      BY <1>2, <1>3, <1>4, <3>1, <3>2
  <2>2. CASE toPanel' = Append(toPanel, m)
    <3>1. /\ Append(toPanel, m) \in Seq(Nat)
          /\ Len(Append(toPanel, m)) = Len(toPanel) + 1
          /\ \A i \in 1..Len(Append(toPanel, m)) :
               Append(toPanel, m)[i] = IF i \in 1..Len(toPanel) THEN toPanel[i] ELSE m
          /\ Sorted(Append(toPanel, m))
      BY <1>2, <1>3, <2>1, SortedAppend
    <3>2. Sorted(toPanel)'
      BY <2>2, <3>1 DEF Sorted
    <3>3. ASSUME NEW i \in 1..Len(toPanel')
          PROVE  /\ 1 <= toPanel'[i] /\ toPanel'[i] <= m
                 /\ toPanel'[i] + (IF waiting THEN 1 ELSE 0) >= cur
      <4>1. CASE i \in 1..Len(toPanel)
        <5>1. toPanel'[i] = toPanel[i]
          BY <2>2, <3>1, <4>1
        <5> QED
          BY <2>1, <4>1, <5>1
      <4>2. CASE i \notin 1..Len(toPanel)
        <5>1. toPanel'[i] = m
          BY <2>2, <3>1, <4>2
        <5>2. m + (IF waiting THEN 1 ELSE 0) >= cur
          BY <1>2, <1>3, <1>4
        <5> QED
          BY <1>3, <5>1, <5>2
      <4> QED
        BY <4>1, <4>2
    <3> QED
      BY <1>1, <1>5, <2>2, <3>1, <3>2, <3>3 DEF AcksOk
  <2>3. CASE toPanel' = toPanel
    BY <1>1, <1>2, <1>5, <2>1, <2>3 DEF AcksOk, Sorted
  <2> QED
    BY <1>1, <2>2, <2>3 DEF SendAck
<1>7. toReader' \in Seq(Nat) /\ FramesOk'
  BY <1>1, <1>3, <1>5, DropFrame DEF m
<1>8. TypeOK'
  BY <1>1, <1>4, <1>5, <1>6, <1>7 DEF DeliveryInv, TypeOK
<1> QED
  BY <1>1, <1>2, <1>3, <1>4, <1>5, <1>6, <1>7, <1>8
     DEF DeliveryInv, AcknowledgedIsEmitted, Latest, AcksOk, FramesOk

(* Every step of the panel, the wire and the reader preserves the invariant. *)
LEMMA DeliveryStep ==
    DeliveryInv /\ [Next]_vars => DeliveryInv' /\ [Delivery!Next]_<<cur, emitted>>
<1> SUFFICES ASSUME DeliveryInv, [Next]_vars
             PROVE  DeliveryInv' /\ [Delivery!Next]_<<cur, emitted>>
  OBVIOUS
<1>1. TypeOK /\ AcksOk /\ FramesOk
  BY DEF DeliveryInv, AcksOk, FramesOk
<1>2. /\ Latest \in Nat /\ cur \in 0..MaxMessages /\ waiting \in BOOLEAN
      /\ toReader \in Seq(Nat) /\ toPanel \in Seq(Nat)
      /\ Latest <= cur /\ cur <= Latest + 1 /\ (~waiting => Latest = cur)
  <2>1. emitted \in Seq(Nat) /\ cur \in 0..MaxMessages /\ waiting \in BOOLEAN
        /\ toReader \in Seq(Nat) /\ toPanel \in Seq(Nat)
    BY <1>1 DEF TypeOK
  <2>2. Latest <= cur /\ cur <= Latest + 1 /\ (~waiting => Latest = cur)
    BY DEF DeliveryInv, AcknowledgedIsEmitted, Latest
  <2>3. Latest \in Nat
    BY <2>1 DEF Latest
  <2> QED
    BY <2>1, <2>2, <2>3
<1>3. ASSUME NEW n \in Nat, toReader' = Append(toReader, n), n = cur', 1 <= n,
             cur' \in Nat, cur <= cur', emitted' = emitted, Latest <= n
      PROVE  toReader' \in Seq(Nat) /\ FramesOk'
  <2>1. \A i \in 1..Len(toReader) :
           toReader[i] \in Nat /\ 1 <= toReader[i] /\ Latest <= toReader[i] /\ toReader[i] <= n
    BY <1>1, <1>2, <1>3 DEF FramesOk
  <2>5. /\ toReader' \in Seq(Nat) /\ Sorted(Append(toReader, n))
        /\ \A i \in 1..Len(toReader') :
             toReader'[i] = IF i \in 1..Len(toReader) THEN toReader[i] ELSE n
    BY <1>1, <1>2, <1>3, <2>1, SortedAppend DEF FramesOk
  <2>2. Sorted(toReader)'
    BY <1>3, <2>5 DEF Sorted
  <2>3. Latest' = Latest
    BY <1>3 DEF Latest
  <2>4. \A i \in 1..Len(toReader') :
           1 <= toReader'[i] /\ Latest' <= toReader'[i] /\ toReader'[i] <= cur'
    BY <1>2, <1>3, <2>1, <2>5, <2>3
  <2> QED
    BY <2>2, <2>4, <2>5 DEF FramesOk
<1>4. ASSUME PanelOffers PROVE DeliveryInv' /\ [Delivery!Next]_<<cur, emitted>>
  <2>1. /\ ~waiting /\ cur < MaxMessages /\ cur' = cur + 1 /\ waiting'
        /\ toReader' = Append(toReader, cur + 1)
        /\ UNCHANGED <<toPanel, last_id, emitted, bad_crc_count, recent, connected>>
    BY <1>4 DEF PanelOffers, readerVars
  <2>2. toReader' \in Seq(Nat) /\ FramesOk'
    BY <1>2, <1>3, <2>1
  <2>3. Latest' = Latest
    BY <2>1 DEF Latest
  <2>4. AcksOk'
    BY <1>1, <1>2, <2>1, <2>3 DEF AcksOk, Sorted
  <2>5. TypeOK'
    BY <1>1, <1>2, <2>1, <2>2 DEF TypeOK
  <2>6. Delivery!Offer
    BY <1>2, <2>1 DEF Delivery!Offer, Latest
  <2>7. /\ \A i \in 1..Latest' : emitted'[i] = i
        /\ Latest' <= cur' /\ cur' <= Latest' + 1 /\ cur' > 0
        /\ last_id' = IF Latest' = 0 THEN NoId ELSE IdOf[Latest']
    BY <1>2, <2>1, <2>3 DEF DeliveryInv
  <2> QED
    BY <2>1, <2>2, <2>4, <2>5, <2>6, <2>7
       DEF DeliveryInv, AcknowledgedIsEmitted, AcksOk, FramesOk, Delivery!Next
<1>5. ASSUME PanelRepeats PROVE DeliveryInv' /\ UNCHANGED <<cur, emitted>>
  <2>1. /\ waiting /\ waiting' = waiting /\ cur' = cur
        /\ toReader' = Append(toReader, cur)
        /\ UNCHANGED <<toPanel, last_id, emitted, bad_crc_count, recent, connected>>
    BY <1>5 DEF PanelRepeats, readerVars
  <2>2. Latest' = Latest
    BY <2>1 DEF Latest
  <2>4. cur > 0
    BY <2>1 DEF DeliveryInv
  <2>5. toReader' \in Seq(Nat) /\ FramesOk'
    BY <1>2, <1>3, <2>1, <2>4
  <2>6. AcksOk'
    BY <1>1, <2>1, <2>2 DEF AcksOk, Sorted
  <2>7. TypeOK'
    BY <1>1, <2>1, <2>5 DEF TypeOK
  <2> QED
    BY <2>1, <2>2, <2>5, <2>6, <2>7
       DEF DeliveryInv, AcknowledgedIsEmitted, AcksOk, FramesOk, Latest
<1>6. ASSUME toPanel # <<>>, toPanel' = Tail(toPanel),
             waiting' = waiting \/ (~waiting' /\ Head(toPanel) = cur), waiting' \in BOOLEAN,
             UNCHANGED <<cur, toReader, readerVars>>
      PROVE  DeliveryInv' /\ UNCHANGED <<cur, emitted>>
  <2>1. UNCHANGED <<last_id, emitted, bad_crc_count, recent, connected>>
    BY <1>6 DEF readerVars
  <2>2. Latest' = Latest
    BY <2>1 DEF Latest
  <2>3. toPanel' \in Seq(Nat) /\ AcksOk'
    BY <1>6, <2>1, DropAck
  <2>4. FramesOk'
    BY <1>1, <1>6, <2>2 DEF FramesOk, Sorted
  <2>5. TypeOK'
    BY <1>1, <1>6, <2>1, <2>3 DEF TypeOK
  <2>6. (~waiting' => Latest = cur) /\ (waiting' => cur > 0)
    <3>1. toPanel[1] = Head(toPanel) /\ 1 \in 1..Len(toPanel)
      BY <1>2, <1>6
    <3>2. Head(toPanel) <= Latest
      BY <1>1, <3>1 DEF AcksOk
    <3>3. waiting => cur > 0
      BY DEF DeliveryInv
    <3>4. CASE waiting' = waiting
      BY <1>2, <3>3, <3>4
    <3>5. CASE ~waiting' /\ Head(toPanel) = cur
      BY <1>2, <3>2, <3>5
    <3> QED
      BY <1>6, <3>4, <3>5
  <2>7. /\ \A i \in 1..Latest : emitted[i] = i
        /\ last_id = IF Latest = 0 THEN NoId ELSE IdOf[Latest]
    BY DEF DeliveryInv
  <2> QED
    BY <1>2, <1>6, <2>1, <2>2, <2>3, <2>4, <2>5, <2>6, <2>7
       DEF DeliveryInv, AcknowledgedIsEmitted, AcksOk, FramesOk, Latest
<1>7. CASE PanelTakesAck
  <2>1. /\ toPanel # <<>> /\ toPanel' = Tail(toPanel)
        /\ waiting' = (waiting /\ IdOf[Head(toPanel)] # IdOf[cur])
        /\ UNCHANGED <<cur, toReader, readerVars>>
    BY <1>7 DEF PanelTakesAck
  <2>2. toPanel[1] = Head(toPanel) /\ 1 \in 1..Len(toPanel) /\ Head(toPanel) \in Nat
    BY <1>2, <2>1
  <2>3. /\ 1 <= Head(toPanel) /\ Head(toPanel) <= cur
        /\ Head(toPanel) + (IF waiting THEN 1 ELSE 0) >= cur
    BY <1>1, <1>2, <2>2 DEF AcksOk
  <2>4. Head(toPanel) = cur \/ Head(toPanel) + 1 = cur
    BY <1>2, <2>2, <2>3
  <2>5. IdOf[Head(toPanel)] = IdOf[cur] => Head(toPanel) = cur
    BY <1>2, <2>2, <2>3, <2>4
  <2>6. waiting' = waiting \/ (~waiting' /\ Head(toPanel) = cur)
    BY <1>2, <2>1, <2>5
  <2>7. waiting' \in BOOLEAN
    BY <2>1
  <2> QED
    BY <1>6, <2>1, <2>6, <2>7
<1>8. CASE AckDamaged
  BY <1>2, <1>6, <1>8 DEF AckDamaged
<1>9. CASE ReadMessage
  BY <1>9, ReadStep
<1>10. CASE ReadDamaged
  <2>1. /\ toReader # <<>> /\ toReader' = Tail(toReader)
        /\ UNCHANGED <<cur, waiting, toPanel, last_id, emitted>>
        /\ bad_crc_count' \in Nat /\ recent' \in BOOLEAN /\ connected' \in BOOLEAN
    BY <1>1, <1>10 DEF ReadDamaged, HandleBadCrc, TypeOK
  <2>2. Latest' = Latest
    BY <2>1 DEF Latest
  <2>3. toReader[1] = Head(toReader) /\ 1 \in 1..Len(toReader)
    BY <1>2, <2>1
  <2>4. Latest <= Head(toReader)
    BY <1>1, <2>3 DEF FramesOk
  <2>5. toReader' \in Seq(Nat) /\ FramesOk'
    BY <1>2, <2>1, <2>2, <2>4, DropFrame
  <2>6. AcksOk'
    BY <1>1, <2>1, <2>2 DEF AcksOk, Sorted
  <2>7. TypeOK'
    BY <1>1, <2>1, <2>5 DEF TypeOK
  <2> QED
    BY <2>1, <2>2, <2>5, <2>6, <2>7
       DEF DeliveryInv, AcknowledgedIsEmitted, AcksOk, FramesOk, Latest
<1>11. CASE WindowElapses \/ UNCHANGED vars
  <2>1. /\ UNCHANGED <<cur, waiting, toReader, toPanel, last_id, emitted>>
        /\ bad_crc_count' \in Nat /\ recent' \in BOOLEAN /\ connected' \in BOOLEAN
    BY <1>1, <1>11 DEF WindowElapses, vars, TypeOK
  <2>2. Latest' = Latest /\ TypeOK'
    BY <1>1, <2>1 DEF Latest, TypeOK
  <2> QED
    BY <2>1, <2>2 DEF DeliveryInv, AcknowledgedIsEmitted, Sorted, Latest
<1> QED
  BY <1>4, <1>5, <1>7, <1>8, <1>9, <1>10, <1>11 DEF Next

-----------------------------------------------------------------------------
(* Frames and ACKs in flight stay within one message of what was emitted, and *)
(* an acknowledged message has been emitted.                                *)
THEOREM DeliveryInvariant == Spec => []DeliveryInv
  BY DeliveryInit, DeliveryStep, PTL DEF Spec

(* The reader implements in-order, exactly-once delivery.                   *)
THEOREM DeliveryRefinement == Spec => DeliveredInOrder
<1>1. Init => Delivery!Init
  BY DEF Init, Delivery!Init
<1> QED
  BY <1>1, DeliveryStep, DeliveryInvariant, PTL DEF Spec, DeliveredInOrder, Delivery!Spec
=============================================================================
