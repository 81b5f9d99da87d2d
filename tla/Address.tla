------------------------------- MODULE Address -------------------------------
(***************************************************************************)
(* net/wi-address.c: socket addresses and the patterns they match.  An     *)
(* IPv4 address is Octets numbers of Bits bits (4 of 8 in C), an IPv6      *)
(* address Groups numbers (8 in C).  Text is its components: of an IPv4    *)
(* address the octets, of an IPv6 address the groups, Empty between two    *)
(* colons.  `address' is a mutable address of a client, `pattern' the last *)
(* one it was compared with.                                               *)
(***************************************************************************)
EXTENDS Integers, Sequences, FiniteSetsExt

CONSTANTS Octets, Bits, Groups,  \* positive sizes of an address
          GroupValues,           \* values of a group of IPv6, 0 among them
          Ports, PortBits,       \* numbers given as ports, and the width of a port
          Empty, Star,           \* the component of no characters, and "*"
          Patterns               \* the patterns that are asked for

VARIABLES address, pattern

\* The bits a double has: 2 ^ 32 - 2 ^ (32 - cidr) takes cidr of them.  With a longer prefix it
\* rounds to 2 ^ 32, and what that is as a uint32_t is undefined.
Significand == 53

\* The component of no characters is not a group; there are at least three groups.
AddressAssumption ==
    /\ Octets \in Nat \ {0} /\ Bits \in Nat \ {0} /\ Groups \in Nat /\ Groups > 2
    /\ 0 \in GroupValues /\ Empty \notin GroupValues
    /\ Ports \subseteq Nat /\ PortBits \in Nat
    /\ \A p \in Patterns :
          \/ p.kind = "ipv4" /\ p.text \in Seq(Nat)
          \/ p.kind = "ipv6" /\ p.text \in Seq(GroupValues \cup {Empty})
          \/ p.kind = "wildcard"
          \/ /\ p.kind = "netmask" /\ p.text \in Seq(Nat)
             /\ \/ p.mask.dotted = TRUE /\ p.mask.text \in Seq(Nat)
                \/ p.mask.dotted = FALSE /\ p.mask.cidr \in 0 .. Significand

\* 2 ^ n
Exp2(n) == LET exp[m \in 0 .. n] == IF m = 0 THEN 1 ELSE 2 * exp[m - 1] IN exp[n]

Width == Octets * Bits
Octet == 0 .. Exp2(Bits) - 1

IPv4 == [family : {"ipv4"}, bytes : [1 .. Octets -> Octet], port : 0 .. Exp2(PortBits) - 1]
IPv6 == [family : {"ipv6"}, bytes : [1 .. Groups -> GroupValues], port : 0 .. Exp2(PortBits) - 1]

NoAddress == [family |-> "none"]

-----------------------------------------------------------------------------
(* Making addresses *)

\* init_with_sa: FALSE for a family it does not know, and the instance is released.
IsKnown(sa) == sa.family \in {"ipv4", "ipv6"}

WithSa(sa) == IF IsKnown(sa) THEN sa ELSE NoAddress

Wildcard(family) ==
    WithSa([family |-> family, port |-> 0,
            bytes |-> [i \in 1 .. (IF family = "ipv4" THEN Octets ELSE Groups) |-> 0]])

\* htons keeps 16 bits.
SetPort(a, port) == [a EXCEPT !.port = port % Exp2(PortBits)]

SetSa(a, sa) == IF IsKnown(sa) THEN sa ELSE a

Copy(a) == WithSa(a)

Family(a) == IF a.family = "ipv4" THEN "ipv4" ELSE "ipv6"

Port(a) == a.port

\* -1, 0 or 1: IPv6 goes first.
CompareFamily(a, b) ==
    CASE Family(a) = "ipv4" /\ Family(b) = "ipv6" -> 1
      [] Family(a) = "ipv6" /\ Family(b) = "ipv4" -> -1
      [] OTHER -> 0

-----------------------------------------------------------------------------
(* Text *)

ZeroRuns(bytes) ==
    {r \in (1 .. Len(bytes)) \X (1 .. Len(bytes)) : r[1] < r[2] /\ \A i \in r[1] .. r[2] : bytes[i] = 0}

IsLongest(bytes, r) ==
    \A q \in ZeroRuns(bytes) : \/ q[2] - q[1] < r[2] - r[1]
                               \/ q[2] - q[1] = r[2] - r[1] /\ r[1] <= q[1]

LongestRun(bytes) == CHOOSE r \in ZeroRuns(bytes) : IsLongest(bytes, r)

\* The longest run of zero groups, the first of several, is what "::" stands for; one group
\* is written out.
Compressed(bytes) ==
    LET r == LongestRun(bytes)
        front == SubSeq(bytes, 1, r[1] - 1)
        back == SubSeq(bytes, r[2] + 1, Len(bytes))
    IN  IF ZeroRuns(bytes) = {} THEN bytes
        ELSE (IF front = <<>> THEN <<Empty>> ELSE front) \o <<Empty>>
             \o (IF back = <<>> THEN <<Empty>> ELSE back)

\* wi_address_string: getnameinfo with NI_NUMERICHOST
Text(a) ==
    IF a.family = "ipv4" THEN a.bytes ELSE Compressed(a.bytes)

\* The numbers that the text of an IPv6 address denotes: the groups left out of it are zero.
Denoted(text) ==
    LET gap == {i \in 1 .. Len(text) : text[i] = Empty} IN
    IF gap = {} THEN text
    ELSE LET front == SubSeq(text, 1, Min(gap) - 1)
             back == SubSeq(text, Max(gap) + 1, Len(text))
         IN  front \o [i \in 1 .. Groups - Len(front) - Len(back) |-> 0] \o back

\* inet_pton of a text with dots, or else with colons: "::" stands for one group or more.
IsIPv4Text(text) == Len(text) = Octets /\ \A i \in 1 .. Octets : text[i] \in Octet

IsIPv6Text(text) ==
    LET gap == {i \in 1 .. Len(text) : text[i] = Empty}
        first == Min(gap)
        final == Max(gap)
    IN  IF gap = {} THEN Len(text) = Groups
        ELSE /\ gap = first .. final /\ Len(text) - (final - first + 1) < Groups
             /\ final - first = (IF first = 1 THEN 1 ELSE 0) + (IF final = Len(text) THEN 1 ELSE 0)

WithString(kind, text) ==
    IF kind = "ipv4" /\ IsIPv4Text(text)
    THEN [family |-> "ipv4", bytes |-> text, port |-> 0]
    ELSE IF kind = "ipv6" /\ IsIPv6Text(text)
         THEN [family |-> "ipv6", bytes |-> Denoted(text), port |-> 0]
         ELSE NoAddress

\* The texts tell the families apart, by dots or colons.
IsEqual(a, b) == Family(a) = Family(b) /\ Text(a) = Text(b) /\ Port(a) = Port(b)

-----------------------------------------------------------------------------
(* Patterns: [kind, text], and for a netmask also its mask *)

MatchesWildcard(a, p) ==
    LET ip == Text(a) IN
    /\ Len(ip) = Octets /\ Len(ip) = Len(p.text)
    /\ \A i \in 1 .. Octets : p.text[i] \in {ip[i], Star}

\* a << 24 + b << 16 + c << 8 + d; what has another number of numbers is 0
Uint32(text) ==
    LET shifted[i \in 0 .. Len(text)] ==
            IF i = 0 THEN 0 ELSE shifted[i - 1] * Exp2(Bits) + text[i]
    IN  IF Len(text) < Octets THEN 0 ELSE shifted[Octets] % Exp2(Width)

\* pow(2, 32) - pow(2, 32 - cidr), without what is behind the point
PrefixMask(cidr) == IF cidr > Width THEN Exp2(Width) - 1 ELSE Exp2(Width) - Exp2(Width - cidr)

Netmask(mask) == IF mask.dotted THEN Uint32(mask.text) ELSE PrefixMask(mask.cidr)

Bit(x, i) == (x \div Exp2(i)) % 2

MatchesNetmask(a, p) ==
    LET ip == Uint32(Text(a))
        other == Uint32(p.text)
        mask == Netmask(p.mask)
    IN  \A i \in 0 .. Width - 1 : Bit(mask, i) = 1 => Bit(ip, i) = Bit(other, i)

MatchesLiteral(a, p) == p.kind = a.family /\ Text(a) = p.text

\* Empty components at the front go, one elsewhere becomes 0000, and the groups that are
\* missing are put at the front wherever the "::" is; what has less than two colons is NULL.
WithoutEmptyFront(text) ==
    LET full == {i \in 1 .. Len(text) : text[i] # Empty} IN
    IF full = {} THEN <<>>
    ELSE SubSeq(text, Min(full), Len(text))

\* A bug: the missing groups are put behind the others.
ExpandedAtTheBack(text) ==
    LET groups == WithoutEmptyFront(text) IN
    IF Len(text) < 3 THEN <<>>
    ELSE [i \in 1 .. Len(groups) |-> IF groups[i] = Empty THEN 0 ELSE groups[i]]
         \o [i \in 1 .. Groups - Len(groups) |-> 0]

Expanded(text) ==
    LET groups == WithoutEmptyFront(text) IN
    IF Len(text) < 3 THEN <<>>
    ELSE [i \in 1 .. Groups - Len(groups) |-> 0]
         \o [i \in 1 .. Len(groups) |-> IF groups[i] = Empty THEN 0 ELSE groups[i]]

MatchesIPv6(a, p) ==
    LET ip == Expanded(Text(a))
        other == IF p.kind = "ipv6" THEN Expanded(p.text) ELSE <<>>
    IN  ip # <<>> /\ other # <<>> /\ ip = other

\* wi_address_matches_pattern
MatchesPattern(a, p) ==
    IF a.family # "ipv4" THEN MatchesIPv6(a, p)
    ELSE CASE p.kind = "wildcard" -> MatchesWildcard(a, p)
           [] p.kind = "netmask" -> MatchesNetmask(a, p)
           [] OTHER -> MatchesLiteral(a, p)

-----------------------------------------------------------------------------
(* A client changes its address, then asks whether it matches patterns. *)

NoPattern == [kind |-> "none"]

AddressInit == address = Wildcard("ipv4") /\ pattern = NoPattern

ChangeSa ==
    /\ pattern = NoPattern
    /\ \E sa \in {a \in IPv4 \cup IPv6 : a.port = 0} \cup {NoAddress} : address' = SetSa(address, sa)
    /\ UNCHANGED pattern

ChangePort ==
    /\ pattern = NoPattern
    /\ \E port \in Ports : address' = SetPort(address, port)
    /\ UNCHANGED pattern

Parse ==
    /\ pattern = NoPattern
    /\ \E p \in {q \in Patterns : q.kind \in {"ipv4", "ipv6"}} :
           LET a == WithString(p.kind, p.text) IN
           address' = IF a = NoAddress THEN address ELSE Copy(a)
    /\ UNCHANGED pattern

Ask == pattern = NoPattern /\ pattern' \in Patterns /\ UNCHANGED address

Asked == pattern # NoPattern /\ pattern' = NoPattern /\ UNCHANGED address

AddressNext == ChangeSa \/ ChangePort \/ Parse \/ Ask \/ Asked

AddressSpec == AddressInit /\ [][AddressNext]_<<address, pattern>>

-----------------------------------------------------------------------------

\* A pattern the code can read: its mask is a prefix or complete, and groups are left out
\* of an IPv6 text at its front only, in the address as in the pattern.
FrontOnly(text) == \A i \in 2 .. Len(text) : text[i] = Empty => text[1] = Empty

CanRead(p) ==
    CASE p.kind = "ipv6" -> FrontOnly(p.text) /\ IsIPv6Text(p.text)
      [] p.kind = "netmask" -> /\ IsIPv4Text(p.text)
                               /\ p.mask.dotted => IsIPv4Text(p.mask.text)
      [] p.kind = "wildcard" -> Len(p.text) = Octets
      [] OTHER -> TRUE

\* The bits of a sequence of octets, first bit first.
BitsOf(bytes) == [i \in 1 .. Width |-> Bit(bytes[(i - 1) \div Bits + 1], Bits - 1 - ((i - 1) % Bits))]

Denotes(p, a) ==
    CASE p.kind = "ipv6" -> a.family = "ipv6" /\ a.bytes = Denoted(p.text)
      [] p.kind = "ipv4" -> a.family = "ipv4" /\ a.bytes = p.text
      [] p.kind = "wildcard" ->
             a.family = "ipv4" /\ \A i \in 1 .. Octets : p.text[i] # Star => a.bytes[i] = p.text[i]
      [] p.kind = "netmask" ->
             /\ a.family = "ipv4"
             /\ \A i \in 1 .. Width :
                    (IF p.mask.dotted THEN BitsOf(p.mask.text)[i] = 1 ELSE i <= p.mask.cidr)
                        => BitsOf(a.bytes)[i] = BitsOf(p.text)[i]

\* An address matches a pattern the code can read exactly when it is one of those the
\* pattern stands for: prefixes of any length, also 0 and all bits, masks, stars and both
\* families.
PatternsMatch ==
    /\ address \in IPv4 \cup IPv6
    /\ /\ pattern # NoPattern
       /\ CanRead(pattern)
       /\ address.family = "ipv6" => FrontOnly(Text(address))
       => (MatchesPattern(address, pattern) <=> Denotes(pattern, address))

=============================================================================
