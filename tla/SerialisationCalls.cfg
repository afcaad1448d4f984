SPECIFICATION Spec
CONSTANTS
    Values <- MCValues
    Calls <- MCCalls
    Answers <- MCAnswers
INVARIANT
    CallsCutBrace
CHECK_DEADLOCK FALSE
