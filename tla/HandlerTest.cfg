SPECIFICATION TestSpec
CONSTANTS
    MaxPosts = 1
    MaxExits = 1
    MaxPendingTimers = 1
    Call <- MCCall
    Client = {"c1"}
    functions_ = {"addUser"}
    CanAnswer = {"c1"}
    MaxDepth = 1
INVARIANT
    ReadAnswerTest
