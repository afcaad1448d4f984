SPECIFICATION Spec
CONSTANTS
    Payloads <- MCPayloads
    MaxLength = 5
    MaxPacketSize = 6
    MaxSends = 3
CHECK_DEADLOCK FALSE
INVARIANT
    RepliesMatchRequests
