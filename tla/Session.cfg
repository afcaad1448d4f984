SPECIFICATION Spec
CONSTANTS
    Payloads <- MCPayloads
    OversizeClaims = {5}
    MaxLength = 5
    MaxPacketSize = 4
    MaxPackets = 2
CHECK_DEADLOCK FALSE
INVARIANTS
    TypeOK
    FramingInStep
    BufferIsRecentInput
    NoOverread
