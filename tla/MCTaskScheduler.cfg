\* One one-shot and one recurring task, three failures in a row, two faults.
CONSTANTS
    Tasks = {t1, t2}
    Cron = {t2}
    MaxFailures = 3
    MaxFaults = 2
    None = None
SPECIFICATION Spec
INVARIANTS
    TypeOK
    RunningIsOwned
PROPERTIES
    OneShotSucceedsOnce
    GivesUp
    DeletionIsFinal
    DueTaskIsTaken
