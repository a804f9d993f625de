SPECIFICATION FairSpec
CONSTANTS
    Commands <- MCCommands
    Texts <- MCTexts
    Natives <- MCNatives
    MaxDelta = 12
    MaxPhases = 1
INVARIANTS TypeOK CallsOfTheWhole TextOfTheWhole RunsWholeAnswers RequestsComplete
PROPERTY EveryCallEnds
CHECK_DEADLOCK FALSE
