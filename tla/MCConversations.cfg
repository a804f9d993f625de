SPECIFICATION FairSpec
CONSTANTS
    Turns <- MCTurns
    FeishuTurns <- MCFeishu
    NameOf <- MCNames
    QueueOf <- MCQueues
    Answers <- MCAnswers
    MaxRounds = 1
    Limit = 2
    Arrivals = 2
INVARIANTS TypeOK RequestsComplete CompressionIsAtomic OneSessionPerName AnsweredOnce
PROPERTY EveryTurnEnds
CHECK_DEADLOCK FALSE
