SPECIFICATION Spec
CONSTANTS
    Payloads <- MCPayloads
    OversizeClaims = {}
    MaxLength = 5
    MaxPacketSize = 4
    MaxPackets = 1
CHECK_DEADLOCK FALSE
INVARIANT
    AllSizesDelivered
