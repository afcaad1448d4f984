SPECIFICATION Spec
CONSTANTS
    Query <- MCQuery
    Cell = {"5", "-7"}
    Negative = {"-7"}
    FullLength = {"-7"}
    MaxPrepares = 2
INVARIANTS
    TypeOK
    ExecutedAsBound
    ValueOfCurrentRow
    BuffersFitQuery
