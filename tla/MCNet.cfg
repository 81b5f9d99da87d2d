SPECIFICATION MCSpec
CONSTANTS
    Sockets = {s1, s2}
    Descriptors = {0, 1}
    Objects = {o1}
    Nil = Nil
    Timeouts = {0, 4}
    Slice = 2
    MaxBytes = 3
    MaxBacklog = 1
    MaxRoom = 1
    Lengths = {2}
    Directions = {{"read", "write"}}
    Octets = 2
    Bits = 2
    Groups = 4
    GroupValues = {0, 1}
    Ports = {0, 1, 5}
    PortBits = 2
    Empty = Empty
    Star = Star
    Patterns <- MCPatterns
    Hosts = {h}
    OtherName = lo
    AnyHost = AnyHost
    Listable <- MCListable
    MaxListed = 2
INVARIANTS OwnsWhatItHolds ResultsAreTrue PatternsMatch HostsResolve
PROPERTIES TimedCallsReturn
