------------------------------ MODULE MCFraming ------------------------------
(* Model-checking instance of Framing: sixteen bytes, so that XOR is that of   *)
(* four bits, and CRCs of two digits.                                        *)
EXTENDS Framing, Bitwise

MCBytes  == 0..15
MCDigits == {0, 1}   \* 2 is a letter, 15 a byte of another character set
MCXor(a, b) == a ^^ b
MCLossy(b) == <<15, 15, 15>>

(* A CRC whose value depends on the place of each byte. *)
RECURSIVE Weigh(_, _)
Weigh(s, w) == IF s = <<>> THEN 0 ELSE (w * (Head(s) + 1) + Weigh(Tail(s), w + 1)) % 4
MCCrc(s) == <<Weigh(s, 1) \div 2, Weigh(s, 1) % 2>>

(* One message of each shape, and all the commands of up to two characters.   *)
Texts == UNION {[1..n -> {0, 2, 15}] : n \in 1..2}
MCMessages ==
    {[id |-> i, command |-> c, crypt |-> e] :
        i \in {<<0, 1>>}, c \in Texts, e \in BOOLEAN}
      \cup {[id |-> <<>>, command |-> <<2, 0>>, crypt |-> e] : e \in BOOLEAN}

(* No encryption (panel id 0), and two keys under which letters, digits, the   *)
(* separator and the CRC become framing bytes.                              *)
MCKeys == {[n \in 1..16 |-> 0], [n \in 1..16 |-> (3 * n) % 16],
           [n \in 1..16 |-> (5 * n + 1) % 16]}
=============================================================================
