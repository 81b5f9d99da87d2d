SPECIFICATION CollectionsSpec
CONSTANTS
    k1 = k1
    k2 = k2
    k3 = k3
    v1 = v1
    v2 = v2
    Keys <- MCKeys
    Vals = {v1, v2}
    Hash <- MCHash
    Nil = Nil
    MinCount = 1
    MaxCount = 7
    Kinds = {"dictionary", "set", "counted"}
    Others <- MCOthers
    MaxOccurrences = 2
    MaxIndex = 3
    MaxLength = 4
INVARIANTS TypeOK AllEnumerated HoldsReferences EqualByContents
PROPERTIES Implements
