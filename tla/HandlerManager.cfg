SPECIFICATION Spec
CONSTANTS
    h1 = h1
    h2 = h2
    h3 = h3
    Handler = {h1, h2, h3}
    threadName <- MCThreadName
    Overrides = {h1}
    Connection = {1, 2}
    Packet <- MCPacket
    MaxPackets = 3
INVARIANTS
    TypeOK
    CallsTraceable
    OrderlyShutdown
PROPERTY
    PacketsRun
