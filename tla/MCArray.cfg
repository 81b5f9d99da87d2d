SPECIFICATION FairSpec
CONSTANTS
    a1 = a1
    a2 = a2
    b = b
    Data <- MCData
    Value <- MCValue
    Nil = Nil
    ItemsPerPage = 2
    Capacity <- MCCapacity
    MaxCount = 8
    MaxLength = 3
    Others <- MCOthers
    IndexSets <- MCIndexSets
    Anywhere = FALSE
INVARIANTS TypeOK ItemsInPlace CountsMembers CallsDoAsTheySay
PROPERTIES Implements SortedStaysSorted CallsReturn
