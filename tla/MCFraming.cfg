SPECIFICATION Spec
CONSTANTS
    Bytes <- MCBytes
    Digits <- MCDigits
    STX = 3
    ETX = 4
    DLE = 5
    CRYPT = 6
    SEP = 7
    Utf8 = {0, 1, 2, 3, 4, 5, 6, 7}
    Lossy <- MCLossy
    XorByte <- MCXor
    Crc <- MCCrc
    Keys <- MCKeys
    Messages <- MCMessages
    ReadSize = 20
    MaxSent = 2
    MaxFrame = 17
INVARIANTS
    TypeOK
    FramesSurvive
    ChunksDoNotMatter
CHECK_DEADLOCK FALSE
