SPECIFICATION Spec
CONSTANTS
    main = main
    worker = worker
    var1 = var1
    var2 = var2
    dictionary = dictionary
    events = events
    enumerator = enumerator
    Nil = Nil
    Main = main
    Threads <- DrainThreads
    Slots <- DrainSlots
    Instances <- MCInstances
    MayHold <- MCMayHold
    Enumerator <- MCEnumerator
    Careful = FALSE
    BlockSize = 2
    Modulus = 4
    MaxReferences = 2
    MaxPools <- DrainMaxPools
INVARIANTS
    NothingLeaks
