CONSTANTS
    Kinds = {"history"}
    Polls = 2
    MaxRequests = 4
    MaxPushes = 1
SPECIFICATION FairSpec
CHECK_DEADLOCK FALSE
INVARIANTS
    WrongAnswerNeedsSlip
    AnswersCountOnce
    TimeoutDespiteAnswerNeedsAsk
PROPERTIES
    RequestsEnd
    ListenerReturns
