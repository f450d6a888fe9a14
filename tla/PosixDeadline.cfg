\* One thread waits, locks and sleeps with timeouts at the boundaries.
CONSTANTS
    ClockTimes <- MCClockTimes
    WaitTimeouts <- MCWaitTimeouts
    LockTimeouts <- MCTimeouts
    SleepTimes <- MCTimeouts
SPECIFICATION Spec
CHECK_DEADLOCK FALSE
INVARIANTS
    DeadlineIsRight
    SleepsLongEnough
