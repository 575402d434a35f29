------------------------------- MODULE Framing -------------------------------
(***************************************************************************)
(* Frames on the TCP stream: crypto.rs (encode_command, decode_message) and   *)
(* the reader loop of transport/direct.rs with split_messages.  The panel     *)
(* (external) frames what it sends as encode_command does; TCP delivers the    *)
(* bytes in chunks of any size.                                              *)
(*                                                                          *)
(* Bytes are a small group under XorByte that holds one of each kind the code     *)
(* tells apart; a key is a pseudo buffer.                                    *)
(***************************************************************************)
EXTENDS Naturals, Sequences, SequencesExt

CONSTANTS
    Bytes, Digits,
    STX, ETX, DLE, CRYPT, SEP,
    Utf8,       \* bytes that are UTF-8 on their own
    Lossy(_),   \* what from_utf8_lossy makes of another byte: a sequence
    XorByte(_, _),
    Crc(_),     \* the CRC of a sequence of bytes, as the characters sent
    Keys,       \* pseudo buffers (of 255 bytes)
    Messages,   \* messages of the panel: [id, command, crypt]
    ReadSize,   \* size of the read buffer (4096)
    MaxSent,    \* bound: messages sent
    MaxFrame    \* length of the longest frame

Stuffed == {STX, ETX, DLE}

(* The hexadecimal digits of a CRC and the digits of an id are plain text;    *)
(* what is sent without encryption holds no framing byte.                     *)
ASSUME FramingConstants ==
    /\ Stuffed \cup {CRYPT, SEP} \cup Digits \cup Utf8 \subseteq Bytes
    /\ STX # ETX /\ DLE \notin {STX, ETX} /\ CRYPT \notin Stuffed
    /\ Digits \cap (Stuffed \cup {CRYPT, SEP}) = {} /\ SEP \notin Stuffed \cup {CRYPT}
    /\ Digits \cup {SEP} \subseteq Utf8
    /\ \A b \in Bytes \ Utf8 : Lossy(b) \in Seq(Bytes)
    /\ \A a, b \in Bytes : XorByte(a, b) \in Bytes /\ XorByte(XorByte(a, b), b) = a
    /\ Keys \subseteq Seq(Bytes)
    /\ MaxSent \in Nat /\ ReadSize \in Nat /\ MaxFrame \in Nat \ {0}
    /\ \A m \in Messages :
          /\ m.id \in [1..2 -> Digits] \cup {<<>>}
          /\ m.command \in Seq(Bytes) /\ SEP \notin ToSet(m.command)
          /\ m.id = <<>> => Len(m.command) > 0 /\ m.command[1] \notin Digits
          /\ m.crypt \in BOOLEAN
          /\ ~m.crypt => ToSet(m.command) \cap (Stuffed \cup {CRYPT}) = {}
          /\ Crc(m.id \o m.command \o <<SEP>>) \in Seq(Utf8 \ Stuffed)

VARIABLES
    key,       \* pseudo_buffer of both sides
    sent,      \* the messages the panel has sent
    wire,      \* bytes not yet read
    leftover,
    decoded    \* what decode_message returned, in order

vars == <<key, sent, wire, leftover, decoded>>

-----------------------------------------------------------------------------
(* crypto.rs *)

(* encrypt_chars: XOR, then stuff; crypt_pos counts the bytes before the      *)
(* stuffing.                                                                *)
Stuff(b) == IF b \in Stuffed THEN <<DLE, b>> ELSE <<b>>

EncryptChars(data, k, crypt) ==
    FlattenSeq([i \in DOMAIN data |->
        Stuff(IF crypt THEN XorByte(data[i], k[i]) ELSE data[i])])

(* The command with its id and separator, and what is encrypted of it. *)
CmdBytes(m) == m.id \o m.command \o <<SEP>>
Payload(m)  == CmdBytes(m) \o Crc(CmdBytes(m))

EncodeFrame(m, k) ==
    <<STX>> \o (IF m.crypt THEN <<CRYPT>> ELSE <<>>)
      \o EncryptChars(Payload(m), k, m.crypt) \o <<ETX>>

(* No message is longer than the key (encrypt_chars would index past it), and  *)
(* no frame longer than MaxFrame.                                           *)
ASSUME FrameLengths ==
    \A m \in Messages, k \in Keys :
        Len(Payload(m)) <= Len(k) /\ Len(EncodeFrame(m, k)) <= MaxFrame

(* decrypt_chars, one byte at a time: the DLE that announces a stuffed byte    *)
(* before the ETX is skipped, unless it was announced itself; any other byte   *)
(* is decrypted with the key byte of its place in the result.                 *)
DecryptByte(s, data, i, k, crypt) ==
    IF crypt /\ ~s.escaped /\ data[i] = DLE /\ i + 1 < Len(data) /\ data[i + 1] \in Stuffed
    THEN [result |-> s.result, escaped |-> TRUE]
    ELSE [result  |-> Append(s.result,
                        IF crypt THEN XorByte(data[i], k[Len(s.result) + 1]) ELSE data[i]),
          escaped |-> FALSE]

(* Mutant: stuffed bytes are not unstuffed. *)
DecryptCharsStuffed(data, k, crypt) ==
    LET first == IF crypt THEN 3 ELSE 2
    IN [n \in 1..(Len(data) - first) |->
          IF crypt THEN XorByte(data[first + n - 1], k[n]) ELSE data[first + n - 1]]

(* The loop starts after the framing bytes and stops before the ETX. *)
DecryptLoop(data, k, crypt) ==
    LET loop[i \in 0..(Len(data) - 1)] ==
            IF i < (IF crypt THEN 3 ELSE 2)
            THEN [result |-> <<>>, escaped |-> FALSE]
            ELSE DecryptByte(loop[i - 1], data, i, k, crypt)
    IN loop

DecryptChars(data, k, crypt) == DecryptLoop(data, k, crypt)[Len(data) - 1].result

(* The bytes before the first separator, and those after it. *)
SepAt(s) == SelectInSeq(s, LAMBDA b : b = SEP)
BeforeSep(s) == IF SepAt(s) = 0 THEN s ELSE SubSeq(s, 1, SepAt(s) - 1)
AfterSep(s)  == IF SepAt(s) = 0 THEN <<>> ELSE SubSeq(s, SepAt(s) + 1, Len(s))

FromUtf8Lossy(s) ==
    FlattenSeq([i \in DOMAIN s |-> IF s[i] \in Utf8 THEN <<s[i]>> ELSE Lossy(s[i])])

(* is_valid_crc computes the CRC of the decoded text, not of the bytes. *)
IsValidCrc(bytes, crc) ==
    LET text == FromUtf8Lossy(bytes)
    IN SepAt(text) # 0 /\ FromUtf8Lossy(crc) = Crc(BeforeSep(text) \o <<SEP>>)

DecodeMessage(data, k) ==
    LET crypt == Len(data) > 1 /\ data[2] = CRYPT
        bytes == DecryptChars(data, k, crypt)
        idLen == IF Len(bytes) >= 2 /\ {bytes[1], bytes[2]} \subseteq Digits THEN 2 ELSE 0
        rest  == SubSeq(bytes, idLen + 1, Len(bytes))
    IN [cmd_id    |-> SubSeq(bytes, 1, idLen),
        command   |-> FromUtf8Lossy(BeforeSep(rest)),
        crc_valid |-> IsValidCrc(bytes, AfterSep(rest))]

-----------------------------------------------------------------------------
(* transport/direct.rs *)

(* split_messages, one byte at a time: an ETX that no DLE escapes ends a      *)
(* message.                                                                 *)
SplitByte(s, b) ==
    LET begun == Append(s.leftover, b)
    IN IF b = ETX /\ ~s.escaped
       THEN [messages |-> Append(s.messages, begun), leftover |-> <<>>, escaped |-> FALSE]
       ELSE [messages |-> s.messages, leftover |-> begun, escaped |-> b = DLE /\ ~s.escaped]

SplitLoop(data) ==
    LET loop[i \in 0..Len(data)] ==
            IF i = 0
            THEN [messages |-> <<>>, leftover |-> <<>>, escaped |-> FALSE]
            ELSE SplitByte(loop[i - 1], data[i])
    IN loop

(* Mutants: what is left over is not cut off; it is dropped. *)
SplitMessagesKeepsAll(data)  == [SplitLoop(data)[Len(data)] EXCEPT !.leftover = data]
SplitMessagesDropsRest(data) == [SplitLoop(data)[Len(data)] EXCEPT !.leftover = <<>>]

SplitMessages(data) == SplitLoop(data)[Len(data)]

Init ==
    /\ key \in Keys
    /\ sent = <<>>
    /\ wire = <<>>
    /\ leftover = <<>>
    /\ decoded = <<>>

PanelSends(m) ==
    /\ Len(sent) < MaxSent
    /\ sent' = Append(sent, m)
    /\ wire' = wire \o EncodeFrame(m, key)
    /\ UNCHANGED <<key, leftover, decoded>>

(* The reader task reads some bytes and processes the frames they complete. *)
Read ==
    /\ wire # <<>>
    /\ \E n \in 1..Len(wire) :
         LET split == SplitMessages(leftover \o SubSeq(wire, 1, n)) IN
         /\ n <= ReadSize
         /\ wire' = SubSeq(wire, n + 1, Len(wire))
         /\ leftover' = split.leftover
         /\ decoded' = decoded \o [i \in DOMAIN split.messages |->
                                     DecodeMessage(split.messages[i], key)]
    /\ UNCHANGED <<key, sent>>

Next == (\E m \in Messages : PanelSends(m)) \/ Read

Spec == Init /\ [][Next]_vars

-----------------------------------------------------------------------------
(* Types, and a limit: what the reader keeps between reads never reaches the   *)
(* length of a frame, whatever chunks TCP delivers.                          *)
TypeOK ==
    /\ key \in Keys
    /\ sent \in Seq(Messages) /\ Len(sent) <= MaxSent
    /\ wire \in Seq(Bytes)
    /\ leftover \in Seq(Bytes) /\ Len(leftover) < MaxFrame
    /\ decoded \in Seq([cmd_id : [1..2 -> Digits] \cup {<<>>}, command : Seq(Bytes),
                        crc_valid : BOOLEAN])

(* What the panel sends is what decode_message returns, in order: whatever the *)
(* key, the bytes that had to be stuffed and the chunks they came in, and     *)
(* with or without encryption and an id.  Text that is not UTF-8 is excepted: *)
(* its CRC is computed on the replacement characters.                        *)
FramesSurvive ==
    /\ Len(decoded) <= Len(sent)
    /\ \A i \in DOMAIN decoded :
         ToSet(sent[i].command) \subseteq Utf8 =>
             decoded[i] = [cmd_id |-> sent[i].id, command |-> sent[i].command,
                           crc_valid |-> TRUE]

(* No byte is lost, read twice or held back: what is left over and what is    *)
(* still to be read are the frames not yet decoded, the first of them          *)
(* incomplete.                                                              *)
ChunksDoNotMatter ==
    LET frames == [i \in DOMAIN sent |-> EncodeFrame(sent[i], key)]
        rest == SubSeq(frames, Len(decoded) + 1, Len(frames))
    IN /\ leftover \o wire = FlattenSeq(rest)
       /\ leftover # <<>> => IsStrictPrefix(leftover, rest[1])
=============================================================================
