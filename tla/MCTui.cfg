SPECIFICATION Spec
CONSTANTS
    Lines = {"y", "/init", "/off", "/plan", "/clear"}
    MaxKeys = 3
    AgentsFile = {TRUE}
    MaxQueued = 0
    Answers <- MCAnswers
    MaxRequests = 1
    SkipPermissions = FALSE
    RequireConfirmation = TRUE
    Enabled = TRUE
    MaxRounds = 2
    Keep = 1
INVARIANTS TypeOK RequestsAccepted QuietIsIdle AskedIsReachable RunsOnlyWithConsent
PROPERTIES TurnAlone QuestionsKept
CHECK_DEADLOCK FALSE
