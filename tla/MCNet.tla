-------------------------------- MODULE MCNet --------------------------------
(* Sockets, and hosts with their addresses: one program of the list runs. *)
EXTENDS Socket, Host

VARIABLE program

MCOctet == 0 .. 2 ^ Bits - 1
MCTexts4 == [1 .. Octets -> MCOctet]

\* With the groups from i to j left out, some of them not zero, and one text too short.
MCTexts6 ==
    LET full == [1 .. Groups -> GroupValues]
        cut(t, i, j) == (IF i = 1 THEN <<Empty>> ELSE SubSeq(t, 1, i - 1)) \o <<Empty>>
                        \o (IF j = Groups THEN <<Empty>> ELSE SubSeq(t, j + 1, Groups))
    IN  full \cup {<<1, 1>>}
             \cup {cut(t, ij[1], ij[2]) : t \in full,
                       ij \in {p \in (1 .. Groups) \X (1 .. Groups) : p[1] <= p[2]}}

MCMasks == [dotted : {TRUE}, text : MCTexts4] \cup [dotted : {FALSE}, cidr : 0 .. Octets * Bits + 1]

MCPatterns ==
    [kind : {"ipv4"}, text : MCTexts4] \cup [kind : {"ipv6"}, text : MCTexts6]
    \cup [kind : {"wildcard"}, text : [1 .. Octets -> MCOctet \cup {Star}] \cup {<<Star>>}]
    \cup [kind : {"netmask"}, text : MCTexts4 \cup {<<1>>}, mask : MCMasks]

\* Both wildcards, and another IPv6 address
MCListable ==
    {[family |-> "ipv4", port |-> 0, bytes |-> [i \in 1 .. Octets |-> 0]]}
    \cup {[family |-> "ipv6", port |-> 0, bytes |-> [i \in 1 .. Groups |-> IF i = 1 THEN n ELSE 0]] :
              n \in GroupValues}

ASSUME NetAssumption == HostAssumption

Programs == {"server", "client", "tls", "datagram", "descriptor", "objects", "host", "address"}

netVars == <<address, pattern, interfaces, answer>>
MCVars == <<vars, netVars, program>>

MCInit == Init /\ HostInit /\ program \in Programs

Uses ==
    CASE program = "server" -> Listen \/ Accept \/ WaitMultiple \/ SetBlocking
      [] program = "client" -> Connect \/ ReadBytes \/ WriteBytes \/ SetBlocking
      [] program = "tls" -> Connect \/ ConnectTls \/ AcceptTls \/ ReadBytes \/ WriteBytes \/ SetBlocking
      [] program = "datagram" -> Listen \/ SendTo \/ RecvFrom \/ WaitMultiple \/ SetDirection
      [] program = "descriptor" -> InitWithDescriptor \/ WriteBytes
      [] OTHER -> SetCertificate \/ SetPrivateKey \/ SetCiphers \/ Forget

\* Clients and users of datagrams have one socket.
UsesSockets ==
    /\ program \notin {"host", "address"}
    /\ \/ World \/ Steps \/ Interrupted \/ Close \/ Dealloc \/ Uses
       \/ InitWithAddress /\ (program \in {"client", "tls", "datagram"} => Live = {})
    /\ UNCHANGED netVars

UsesHosts == program = "host" /\ HostNext /\ UNCHANGED <<socket, kernel, call, objects>>

UsesAddresses ==
    /\ program = "address" /\ AddressNext
    /\ UNCHANGED <<interfaces, answer>> /\ UNCHANGED vars

MCNext == (UsesSockets \/ UsesHosts \/ UsesAddresses) /\ UNCHANGED program

MCSpec == MCInit /\ [][MCNext]_MCVars /\ WF_MCVars(Steps /\ UNCHANGED <<netVars, program>>)

=============================================================================
