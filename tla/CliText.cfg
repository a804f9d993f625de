SPECIFICATION Spec
CONSTANTS
    Commands <- MCCommands
    Texts <- MCTexts
    Natives <- MCNatives
    MaxDelta = 12
    MaxPhases = 1
INVARIANT TextIsKept
CHECK_DEADLOCK FALSE
