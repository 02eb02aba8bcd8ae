SPECIFICATION LiveSpec
CONSTANTS
    Calls = {c1, c2}
INVARIANTS
    HealthIsEarned
    WithdrawnBeforeRefusing
    SchedulerOutlivesCalls
PROPERTIES
    SignalEndsProcess
CHECK_DEADLOCK FALSE
