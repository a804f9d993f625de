\* Two one-shot tasks, no fault.
CONSTANTS
    Tasks = {t1, t2}
    Cron = {}
    MaxFailures = 2
    MaxFaults = 0
    None = None
SPECIFICATION Spec
PROPERTY PausedTaskIsSkipped
