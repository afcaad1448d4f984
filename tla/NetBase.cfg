SPECIFICATION FairSpec
CONSTANTS
    MaxSessions = 3
    MaxSends = 3
INVARIANTS
    TypeOK
    SessionsTracked
    OneAcceptPending
    NoOpOnDeleted
    WritesInTurn
PROPERTY
    SendsWritten
