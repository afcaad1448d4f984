SPECIFICATION FairSpec
CONSTANTS
    MaxConns = 3
    MaxFd = 2
    MaxSends = 3
INVARIANTS
    TypeOK
    ClientSocketsLive
    PendingScheduled
    NoDanglingWriter
PROPERTY
    DataSent
