SPECIFICATION Spec
CONSTANTS
    Values <- MCValues
    Calls <- MCCalls
    Answers <- MCAnswers
INVARIANTS
    ObjectsReadBack
    CallsReadBack
    AnswersReadBack
CHECK_DEADLOCK FALSE
