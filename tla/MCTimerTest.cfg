SPECIFICATION FairSpec
CONSTANTS
    u1 = u1
    u2 = u2
    a = a
    b = b
    TimerThread = TimerThread
    NoTimer = NoTimer
    Users <- TestUsers
    Timers <- TestTimers
    Interval <- TestInterval
    Repeats <- TestRepeats
    NewIntervals = {}
    UserCalls <- TestUserCalls
    CallbackCalls <- TestCallbackCalls
    CallbackMust = TRUE
    Disciplined = FALSE
    MaxCalls = 1
    MaxTime = 3
PROPERTIES
    KeepsFiring
CHECK_DEADLOCK FALSE
