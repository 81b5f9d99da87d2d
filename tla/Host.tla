-------------------------------- MODULE Host --------------------------------
(***************************************************************************)
(* net/wi-host.c: the addresses of a host, asked for anew each time: those *)
(* of the resolver, or of the interfaces of this machine that are up.      *)
(* `interfaces' is what getifaddrs lists, `answer' what getaddrinfo says;  *)
(* both change as networks do.                                             *)
(***************************************************************************)
EXTENDS Address, Error

CONSTANTS Hosts,       \* strings hosts are made of
          OtherName,   \* an interface with a name that is none of them
          AnyHost,     \* the host without a string
          Listable,    \* addresses of the families IPv4 and IPv6
          MaxListed    \* bound: entries of a list

VARIABLES interfaces, answer

HostAssumption == AddressAssumption /\ Listable \subseteq IPv4 \cup IPv6

ListedAddresses == Listable \cup {NoAddress}

Interfaces == [name : Hosts \cup {OtherName}, up : BOOLEAN, sa : ListedAddresses]

Answers == [tcp : BOOLEAN, sa : ListedAddresses]

Failed == <<[domain |-> "failed"]>>

HostInit ==
    /\ AddressInit
    /\ interfaces = <<>> /\ answer = Failed /\ error = EnterThread

InterfacesChange ==
    /\ \/ interfaces' \in {<<>>, Failed}
       \/ /\ interfaces # Failed /\ Len(interfaces) < MaxListed
          /\ \E i \in Interfaces : interfaces' = Append(interfaces, i)
    /\ UNCHANGED <<address, pattern, answer, error>>

AnswerChanges ==
    /\ \/ answer' \in {<<>>, Failed}
       \/ /\ answer # Failed /\ Len(answer) < MaxListed
          /\ \E x \in Answers : answer' = Append(answer, x)
    /\ UNCHANGED <<address, pattern, interfaces, error>>

\* qsort with wi_address_compare_family, which leaves the order within a family open.
SortsByFamily(s) ==
    {u \in {[i \in DOMAIN s |-> s[p[i]]] : p \in Bijection(DOMAIN s, DOMAIN s)} :
        \A i, j \in DOMAIN s : i < j => CompareFamily(u[i], u[j]) <= 0}

\* What a list of addresses may become, or NULL with an error.
Results(s, e) ==
    IF s = <<>> THEN {[addresses |-> <<>>, error |-> SetLibwiredError("no available addresses")]}
    ELSE {[addresses |-> u, error |-> e] : u \in SortsByFamily(s)}

\* Of an interface that is up, and has the name of the host if it has one
AddInterface(host, s, i) ==
    IF IsKnown(i.sa) /\ i.up /\ host \in {AnyHost, i.name} THEN Append(s, i.sa) ELSE s

OfInterfaces(host) ==
    LET added[n \in 0 .. Len(interfaces)] ==
            IF n = 0 THEN <<>> ELSE AddInterface(host, added[n - 1], interfaces[n])
    IN  added[Len(interfaces)]

ForInterface(host, e) ==
    IF interfaces = Failed THEN {[addresses |-> <<>>, error |-> SetErrno("getifaddrs")]}
    ELSE Results(OfInterfaces(host), e)

\* wi_array_contains_data
ContainsData(s, a) == \E i \in DOMAIN s : IsEqual(s[i], a)

\* A bug: an address is added once for each kind of socket the resolver lists it for.
AddAnswerOften(s, x) == IF x.tcp /\ IsKnown(x.sa) THEN Append(s, x.sa) ELSE s

AddAnswer(s, x) == IF x.tcp /\ IsKnown(x.sa) /\ ~ ContainsData(s, x.sa) THEN Append(s, x.sa) ELSE s

OfAnswer ==
    LET added[n \in 0 .. Len(answer)] == IF n = 0 THEN <<>> ELSE AddAnswer(added[n - 1], answer[n])
    IN  added[Len(answer)]

ForHost(e) ==
    IF answer = Failed THEN {[addresses |-> <<>>, error |-> SetError("gai", "no name")]}
    ELSE Results(OfAnswer, e)

\* wi_host_addresses: a host that has no name is looked for among the interfaces.
AddressesOf(host, e) ==
    IF host = AnyHost THEN ForInterface(host, e)
    ELSE UNION {IF found.addresses = <<>> /\ found.error.domain = "gai"
                THEN ForInterface(host, found.error) ELSE {found} : found \in ForHost(e)}

\* wi_host_address
FirstOf(found) == IF found.addresses = <<>> THEN NoAddress ELSE Head(found.addresses)

\* Counts, and whether the one contains each of the other.
EqualLists(s, u) == Len(s) = Len(u) /\ \A i \in DOMAIN s : ContainsData(u, s[i])

AskAddresses ==
    /\ \E host \in Hosts \cup {AnyHost} : \E found \in AddressesOf(host, error) : error' = found.error
    /\ UNCHANGED <<address, pattern, interfaces, answer>>

AskError == error' = Described(error) /\ UNCHANGED <<address, pattern, interfaces, answer>>

HostNext == InterfacesChange \/ AnswerChanges \/ AskAddresses \/ AskError

hostVars == <<address, pattern, interfaces, answer, error>>

HostSpec == HostInit /\ [][HostNext]_hostVars

-----------------------------------------------------------------------------

\* The addresses a host should have: its own, or those of the interface of its name if the
\* resolver does not know it.
Resolved == {x.sa : x \in {y \in Range(answer) : y.tcp}} \ {NoAddress}

Up(host) == {i.sa : i \in {j \in Range(interfaces) : j.up /\ host \in {AnyHost, j.name}}} \ {NoAddress}

ByInterface(host) == host = AnyHost \/ answer = Failed

Expected(host) ==
    IF ~ByInterface(host) THEN Resolved ELSE IF interfaces = Failed THEN {} ELSE Up(host)

\* However networks change, a host has exactly its addresses, IPv6 first, none twice if the
\* resolver lists it for several kinds of sockets; no address means an error that says so; its
\* one address is none that goes behind another; and two hosts with addresses that do not
\* repeat are equal both ways or not at all, in whatever order they have them.
HostsResolve ==
    /\ \A host \in Hosts \cup {AnyHost} : \A r \in AddressesOf(host, error) :
           LET s == r.addresses
           IN  /\ Range(s) = Expected(host)
               /\ \A i, j \in DOMAIN s : i < j => CompareFamily(s[i], s[j]) <= 0
               /\ ~ByInterface(host) => Len(s) = Cardinality(Range(s))
               /\ s = <<>> => r.error.code = IF ByInterface(host) /\ interfaces = Failed
                                             THEN "getifaddrs" ELSE "no available addresses"
               /\ IF Expected(host) = {} THEN FirstOf(r) = NoAddress
                  ELSE /\ FirstOf(r) \in Expected(host)
                       /\ \A a \in Expected(host) : CompareFamily(FirstOf(r), a) <= 0
    /\ \A h1, h2 \in Hosts \cup {AnyHost} :
           \A r1 \in AddressesOf(h1, error), r2 \in AddressesOf(h2, error) :
               (\A r \in {r1, r2} : Len(r.addresses) = Cardinality(Range(r.addresses)))
                   => (EqualLists(r1.addresses, r2.addresses) <=> Expected(h1) = Expected(h2))

\* The table of strings has a comment with the code above each string (wi-error.c:87-126):
\* the string of an error is the one of its code.
StringsNameErrors == error.string \in {NoString, <<error.domain, error.code>>}

=============================================================================
