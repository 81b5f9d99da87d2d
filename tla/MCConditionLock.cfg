SPECIFICATION FairSpec
CONSTANTS
    t1 = t1
    t2 = t2
    t3 = t3
    NoThread = NoThread
    Threads <- MCThreads
    Conditions <- MCConditions
    Initial = 0
INVARIANTS
    TypeOK
    NoLostWakeup
PROPERTIES
    TimedCallReturns
    ServedWhenStable
    Implements
