\* One session, two prompts, two tool calls per turn.
CONSTANTS
    Sessions = {s1}
    MaxPrompts = 2
    MaxCalls <- Calls
SPECIFICATION Spec
INVARIANTS
    TypeOK
    TurnsAreContiguous
    CancelHitsOnlyItsTurn
PROPERTIES
    ConsentBeforeExecution
    NothingAfterResponse
    BusyMeansUnanswered
    CancelEndsTurn
    EveryPromptAnswered
