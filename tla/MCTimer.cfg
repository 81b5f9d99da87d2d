SPECIFICATION FairSpec
CONSTANTS
    u1 = u1
    u2 = u2
    a = a
    b = b
    TimerThread = TimerThread
    NoTimer = NoTimer
    Users <- MCUsers
    Timers <- MCTimers
    Interval <- MCInterval
    Repeats <- MCRepeats
    NewIntervals <- MCNewIntervals
    UserCalls <- MCUserCalls
    CallbackCalls <- MCCallbackCalls
    CallbackMust = FALSE
    Disciplined = TRUE
    MaxCalls = 2
    MaxTime = 3
INVARIANTS
    TypeOK
    ArrayAgrees
PROPERTIES
    NeverEarly
    EventuallyFires
CHECK_DEADLOCK FALSE
