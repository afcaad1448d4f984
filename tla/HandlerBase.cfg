SPECIFICATION HandlerFairSpec
CONSTANTS
    MaxPosts = 3
    MaxExits = 1
    MaxPendingTimers = 1
    Call <- MCCall
    Client <- MCClient
    functions_ <- MCFunctions
    CanAnswer <- MCCanAnswer
    MaxDepth = 2
INVARIANTS
    HandlerTypeOK
    OwnNetInfo
    AnswersMatchCalls
    OnlyUnknownUnanswered
PROPERTY
    CallsAnswered
