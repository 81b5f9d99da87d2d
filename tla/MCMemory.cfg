SPECIFICATION FairSpec
CONSTANTS
    main = main
    worker = worker
    var1 = var1
    var2 = var2
    dictionary = dictionary
    events = events
    enumerator = enumerator
    Nil = Nil
    Main = main
    Threads <- MCThreads
    Slots <- MCSlots
    Instances <- MCInstances
    MayHold <- MCMayHold
    Enumerator <- MCEnumerator
    Careful = TRUE
    BlockSize = 2
    Modulus = 5
    MaxReferences = 3
    MaxPools <- MCMaxPools
INVARIANTS
    TypeOK
    CountsReferences
    NothingLeaks
    NoAbort
PROPERTIES
    CallsReturn
