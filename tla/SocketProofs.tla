----------------------------- MODULE SocketProofs -----------------------------
(***************************************************************************)
(* Proofs about Socket, for any sockets, descriptors, objects, time-outs,  *)
(* lengths and bounds: every descriptor and object has the owners it       *)
(* should, and what a call returns is true.                                *)
(***************************************************************************)
EXTENDS Socket, FiniteSetTheorems, Lists

States == {"free", "new", "connecting", "connected", "refused", "listening"}
Ways == Directions \cup {{}, {"read"}}
MaybeObject == Objects \cup {Nil}

SocketRecords ==
    [sd : {-1} \cup Descriptors, type : {"tcp", "udp", "none"}, close : BOOLEAN, direction : Ways,
     ssl : BOOLEAN, certificate : MaybeObject, private_key : MaybeObject, ciphers : MaybeObject]

KernelRecords ==
    [state : States, owner : Sockets \cup {Nil, "program"}, blocking : BOOLEAN, arrived : Nat,
     taken : Nat, held : Nat, eof : BOOLEAN, room : 0 .. MaxRoom]

Multiple == {"wait_multiple", "accept_multiple", "recvfrom_multiple"}

Operations ==
    Multiple \cup {"listen", "accept", "connect", "connect_tls", "accept_tls", "sendto", "recvfrom",
                   "read", "write"}

Places == {"wait_multiple", "accept", "connecting", "handshake", "shaking", "recvfrom", "read", "reading",
           "write", "writing", "return"}

Errnos ==
    {"ETIMEDOUT", "EMFILE", "ENOPROTOOPT", "EINTR", "EAGAIN", "EPIPE", "EADDRINUSE", "ECONNREFUSED",
     "EINPROGRESS", "ENOBUFS", "ECONNRESET"}

Failures ==
    ({"errno"} \X Errnos) \cup
        {<<"libwired", "eof">>, <<"openssl", "setup">>, <<"openssl", "alert">>, <<"ssl", "zero_return">>,
         <<"ssl", "want_read">>, <<"ssl", "want_write">>}

CallRecords ==
    [op : Operations, s : Sockets, timeout : Int, timed : BOOLEAN, at : Places, mode : BOOLEAN,
     from : Nat, length : Nat, buffer : Seq(Nat), moved : BOOLEAN, direction : SUBSET {"read", "write"},
     result : {"none", "true", "false", "nothing"}, value : Nat \cup Sockets, happened : SUBSET Failures]

FailedInits ==
    [op : {"init"}, s : Sockets, timed : {FALSE}, happened : SUBSET Failures, at : {"return"},
     result : {"false"}, value : {0}]

Typed ==
    /\ socket \in [Sockets -> SocketRecords \cup {NoSocket}]
    /\ kernel \in [Descriptors -> KernelRecords]
    /\ refs \in [Objects -> Int] /\ owned \subseteq Objects
    /\ IsError(error)

\* Bytes and connections are taken when they have arrived, and arrive when there is a peer.  A
\* descriptor that is free has no owner.
Sound(k) ==
    /\ k.taken + k.held <= k.arrived
    /\ k.eof => k.state = "connected"
    /\ k.state \in {"new", "connecting"} => k.arrived = k.taken
    /\ k.state = "free" => k.owner = Nil

TakesWhatArrived == \A d \in Descriptors : Sound(kernel[d])

Owned ==
    /\ \A s \in Usable : /\ Of(s).state # "free"
                         /\ Of(s).owner = IF socket[s].close THEN s ELSE "program"
    /\ \A d \in Descriptors : kernel[d].owner \in Sockets => Fd(kernel[d].owner) = d

Counted ==
    \A o \in Objects :
        refs[o] = (IF o \in owned THEN 1 ELSE 0)
                  + Cardinality({s \in Live : socket[s].certificate = o})
                  + Cardinality({s \in Live : socket[s].private_key = o})
                  + Cardinality({s \in Live : socket[s].ciphers = o})

\* What a call that has succeeded has done, c with the socket x and its descriptor k.
Done(c, x, k) ==
    /\ c.op \in {"connect", "connect_tls", "accept_tls"} =>
          k.state = "connected" /\ k.blocking = c.mode
    /\ c.op = "read" =>
          /\ c.buffer = [i \in 1 .. c.value |-> c.from + i] /\ k.taken = c.from + c.value
          /\ c.value \in Nat
          /\ IF x.ssl THEN c.value \in 1 .. c.length ELSE c.value = c.length
    /\ c.op = "write" => c.buffer = [i \in 1 .. c.length |-> i] /\ c.value = c.length
    /\ c.op = "wait_multiple" => IsReady(k, x.direction)

\* A call that keeps its bounds, and may run out of time if it has a limit.
Good(c) ==
    /\ c \in CallRecords /\ Len(c.buffer) <= c.length
    /\ c.timed => <<"errno", "ETIMEDOUT">> \in c.happened

\* How far a call has come.
Progress(c, x, k) ==
    /\ Good(c)
    /\ c.at = "wait_multiple" =>
          c.op \in Multiple /\ (c.timeout > 0 => c.op = "wait_multiple" /\ c.timed)
    /\ c.at = "accept" => c.op \in {"accept", "accept_multiple"}
    /\ c.at = "recvfrom" => c.op \in {"recvfrom", "recvfrom_multiple"} /\ k.state = "listening"
    /\ c.at = "connecting" =>
          /\ c.op = "connect" /\ c.timed /\ ~ k.blocking
          /\ k.state \in {"connecting", "connected", "refused"}
    /\ c.at \in {"handshake", "shaking"} =>
          /\ c.op \in {"connect_tls", "accept_tls"} /\ k.state = "connected"
          /\ k.blocking = IF c.timed THEN FALSE ELSE c.mode
          /\ c.at = "shaking" => c.timed
    /\ c.at \in {"read", "reading"} =>
          /\ c.op = "read" /\ c.value \in 0 .. c.length /\ k.taken = c.from + c.value
          /\ c.buffer = [i \in 1 .. c.value |-> c.from + i]
          /\ x.ssl => c.value = 0
    /\ c.at = "reading" => x.ssl
    /\ c.at \in {"write", "writing"} =>
          /\ c.op = "write" /\ c.value \in 0 .. c.length /\ c.buffer = [i \in 1 .. c.value |-> i]
    /\ c.at = "return" =>
          /\ c.result \in {"true", "false", "nothing"}
          /\ c.result = "true" => Done(c, x, k)
          /\ c.result = "nothing" => c.op = "wait_multiple" /\ c.timed

CallGoesOn ==
    call = Idle \/ call \in FailedInits \/ (call.s \in Usable /\ Progress(call, socket[call.s], Of(call.s)))

Accepted ==
    call # Idle /\ call.at = "return" /\ call.result = "true" /\ call.op = "accept" =>
        call.value \in Usable /\ socket[call.value].close

ErrorIsTold ==
    call # Idle /\ call.at = "return" /\ call.result = "false" =>
        <<error.domain, error.code>> \in call.happened

Core == Typed /\ TakesWhatArrived /\ Owned /\ Counted

Told == CallGoesOn /\ Accepted /\ ErrorIsTold

IInv == Core /\ Told

-----------------------------------------------------------------------------
(* Sockets and descriptors *)

LEMMA LiveSockets ==
    ASSUME Typed, NEW s \in Live
    PROVE  /\ s \in Sockets /\ socket[s] \in SocketRecords /\ Fd(s) \in {-1} \cup Descriptors
           /\ s \in Usable <=> Fd(s) \in Descriptors
           /\ s \in Usable => Of(s) \in KernelRecords
<1>1. s \in Sockets /\ socket[s] \in SocketRecords
  BY DEF Live, Typed
<1>2. Fd(s) \in {-1} \cup Descriptors
  BY <1>1 DEF Fd, SocketRecords
<1>3. s \in Usable <=> Fd(s) \in Descriptors
  BY <1>2, SocketAssumption DEF Usable, Fd
<1> QED
  BY <1>1, <1>2, <1>3 DEF Of, Typed

LEMMA DeadSockets ==
    ASSUME Typed, NEW s \in Sockets, s \notin Live
    PROVE  socket[s] = NoSocket /\ Fd(s) = -2 /\ \A d \in Descriptors : Fd(s) # d
<1>1. socket[s] = NoSocket
  BY DEF Live
<1>2. Fd(s) = -2
  BY <1>1 DEF Fd, NoSocket
<1> QED
  BY <1>1, <1>2, SocketAssumption

LEMMA RecordsAreSockets == NoSocket \notin SocketRecords
<1>1. ASSUME NoSocket \in SocketRecords PROVE FALSE
  <2>1. NoSocket.sd \in {-1} \cup Descriptors
    BY <1>1 DEF SocketRecords
  <2> QED
    BY <2>1, SocketAssumption DEF NoSocket
<1> QED
  BY <1>1

LEMMA NextFreeIsFree ==
    ASSUME IsFree
    PROVE  NextFree \in Descriptors /\ kernel[NextFree].state = "free"
<1> DEFINE F == {d \in Descriptors : kernel[d].state = "free"}
<1>1. F \in SUBSET Nat /\ F # {}
  BY SocketAssumption DEF IsFree
<1>2. Min(F) \in F /\ \A d \in F : Min(F) <= d
  BY <1>1, LeastNumber
<1> QED
  BY <1>2 DEF NextFree

\* What edits that leave owners and objects alone keep
SocketsKept ==
    /\ socket' \in [Sockets -> SocketRecords \cup {NoSocket}]
    /\ \A s \in Sockets :
          /\ socket'[s] = NoSocket <=> socket[s] = NoSocket
          /\ socket[s] # NoSocket =>
                /\ socket'[s].sd = socket[s].sd /\ socket'[s].close = socket[s].close
                /\ socket'[s].certificate = socket[s].certificate
                /\ socket'[s].private_key = socket[s].private_key
                /\ socket'[s].ciphers = socket[s].ciphers

KernelKept ==
    /\ kernel' \in [Descriptors -> KernelRecords]
    /\ \A d \in Descriptors :
          kernel'[d].owner = kernel[d].owner /\ (kernel'[d].state = "free" <=> kernel[d].state = "free")

LEMMA KeptSockets ==
    ASSUME Typed, SocketsKept
    PROVE  /\ Live' = Live /\ Usable' = Usable
           /\ \A s \in Sockets : Fd(s)' = Fd(s)
<1>1. Live' = Live
  BY DEF Live, SocketsKept
<1>2. \A s \in Live : socket'[s].sd = socket[s].sd
  BY DEF Live, SocketsKept
<1>3. \A s \in Sockets : Fd(s)' = Fd(s)
  BY DEF Fd, SocketsKept, NoSocket
<1>4. Usable' = Usable
  BY <1>1, <1>2 DEF Usable
<1> QED
  BY <1>1, <1>3, <1>4

LEMMA OwnedKept ==
    ASSUME Typed, Owned, SocketsKept, KernelKept
    PROVE  Owned'
<1>1. Usable' = Usable /\ \A s \in Sockets : Fd(s)' = Fd(s)
  BY KeptSockets
<1>2. \A s \in Usable : s \in Live /\ s \in Sockets /\ Fd(s) \in Descriptors /\ socket[s] # NoSocket
  BY LiveSockets DEF Usable, Live
<1>3. ASSUME NEW s \in Usable
      PROVE  Of(s)'.state # "free" /\ Of(s)'.owner = IF socket'[s].close THEN s ELSE "program"
  <2>1. Of(s)' = kernel'[Fd(s)] /\ Of(s) = kernel[Fd(s)]
    BY <1>1, <1>2 DEF Of
  <2>2. Of(s).state # "free" /\ Of(s).owner = IF socket[s].close THEN s ELSE "program"
    BY <1>3 DEF Owned
  <2>3. socket'[s].close = socket[s].close
    BY <1>2 DEF SocketsKept
  <2>4. Of(s)'.owner = Of(s).owner /\ (Of(s)'.state = "free" <=> Of(s).state = "free")
    BY <1>2, <2>1 DEF KernelKept
  <2> QED
    BY <2>2, <2>3, <2>4
<1>4. ASSUME NEW d \in Descriptors, kernel'[d].owner \in Sockets
      PROVE  socket'[kernel'[d].owner].sd = d
  <2>1. kernel'[d].owner = kernel[d].owner /\ Fd(kernel[d].owner) = d
    BY <1>4 DEF KernelKept, Owned
  <2>2. socket[kernel[d].owner].sd = d
    BY <2>1 DEF Fd
  <2>3. socket[kernel[d].owner] # NoSocket
    BY <2>2, SocketAssumption DEF NoSocket
  <2> QED
    BY <1>4, <2>1, <2>2, <2>3 DEF SocketsKept
<1> QED
  BY <1>1, <1>3, <1>4 DEF Owned, Fd

LEMMA CountedKept ==
    ASSUME Typed, Counted, SocketsKept, UNCHANGED objects
    PROVE  Counted'
<1>1. Live' = Live
  BY KeptSockets
<1>2. refs' = refs /\ owned' = owned
  BY DEF objects
<1>3. ASSUME NEW s \in Live
      PROVE  /\ socket'[s].certificate = socket[s].certificate
             /\ socket'[s].private_key = socket[s].private_key
             /\ socket'[s].ciphers = socket[s].ciphers
  BY DEF Live, SocketsKept
<1>4. \A o : /\ {s \in Live : socket'[s].certificate = o} = {s \in Live : socket[s].certificate = o}
             /\ {s \in Live : socket'[s].private_key = o} = {s \in Live : socket[s].private_key = o}
             /\ {s \in Live : socket'[s].ciphers = o} = {s \in Live : socket[s].ciphers = o}
  BY <1>3
<1> QED
  BY <1>1, <1>2, <1>4 DEF Counted

-----------------------------------------------------------------------------
(* Edits of one descriptor *)

Edited(f, d, x) == [f EXCEPT ![d] = x]

LEMMA KernelEdit ==
    ASSUME Typed, TakesWhatArrived, NEW d \in Descriptors, NEW k \in KernelRecords, Sound(k),
           k.owner = kernel[d].owner, k.state = "free" <=> kernel[d].state = "free",
           kernel' = Edited(kernel, d, k)
    PROVE  KernelKept /\ TakesWhatArrived' /\ kernel'[d] = k
<1>1. kernel' \in [Descriptors -> KernelRecords]
  BY DEF Typed, Edited
<1>2. \A c \in Descriptors : kernel'[c] = IF c = d THEN k ELSE kernel[c]
  BY DEF Typed, Edited
<1>3. KernelKept
  BY <1>1, <1>2 DEF KernelKept
<1>4. TakesWhatArrived'
  BY <1>2 DEF TakesWhatArrived
<1> QED
  BY <1>2, <1>3, <1>4

LEMMA KernelSame ==
    ASSUME Typed, TakesWhatArrived, UNCHANGED kernel
    PROVE  KernelKept /\ TakesWhatArrived'
BY DEF Typed, TakesWhatArrived, KernelKept

LEMMA SocketsSame ==
    ASSUME Typed, UNCHANGED socket
    PROVE  SocketsKept
BY DEF Typed, SocketsKept

LEMMA TypedKept ==
    ASSUME Typed, SocketsKept, KernelKept, UNCHANGED objects, IsError(error)'
    PROVE  Typed'
BY DEF Typed, SocketsKept, KernelKept, objects

\* A descriptor that no socket has.
LEMMA StrangerEdit ==
    ASSUME Typed, TakesWhatArrived, Owned, Counted, NEW d \in Descriptors, NEW k \in KernelRecords,
           Sound(k), k.owner \notin Sockets, \A s \in Live : Fd(s) # d,
           kernel' = Edited(kernel, d, k), UNCHANGED <<socket, objects>>, IsError(error)'
    PROVE  /\ Typed' /\ TakesWhatArrived' /\ Owned' /\ Counted'
           /\ Usable' = Usable /\ \A s \in Usable : Of(s)' = Of(s)
<1>1. kernel' \in [Descriptors -> KernelRecords]
  BY DEF Typed, Edited
<1>2. \A c \in Descriptors : kernel'[c] = IF c = d THEN k ELSE kernel[c]
  BY DEF Typed, Edited
<1>3. Typed' /\ TakesWhatArrived'
  BY <1>1, <1>2 DEF TakesWhatArrived, Typed, objects
<1>4. SocketsKept
  BY SocketsSame
<1>5. Live' = Live /\ Usable' = Usable /\ \A s \in Sockets : Fd(s)' = Fd(s)
  BY <1>4, KeptSockets
<1>6. \A s \in Usable : s \in Live /\ s \in Sockets /\ Fd(s) \in Descriptors
  BY LiveSockets DEF Usable
<1>7. \A s \in Usable : Of(s)' = Of(s)
  BY <1>2, <1>5, <1>6 DEF Of
<1>8. Counted'
  BY <1>4, CountedKept DEF objects
<1>9. ASSUME NEW c \in Descriptors, kernel'[c].owner \in Sockets
      PROVE  socket'[kernel'[c].owner].sd = c
  BY <1>2, <1>9 DEF Owned, Fd
<1>10. Owned'
  BY <1>5, <1>7, <1>9 DEF Owned, Fd
<1> QED
  BY <1>3, <1>5, <1>7, <1>8, <1>10

-----------------------------------------------------------------------------
(* The peers and the rest of the program *)

\* What a descriptor may have become while a call waits.
Later(k, l) ==
    /\ IF k.state = "connecting" THEN l.state \in {"connecting", "connected", "refused"}
                                 ELSE l.state = k.state
    /\ l.blocking = k.blocking /\ l.taken = k.taken
    /\ \A direction : IsReady(k, direction) => IsReady(l, direction)

Waited == Usable' = Usable /\ \A s \in Usable : Later(Of(s), Of(s)')

LEMMA LaterIsReflexive == \A k : Later(k, k)
BY DEF Later

LEMMA DoneStays ==
    ASSUME NEW c, NEW x, NEW k, NEW l, Done(c, x, k), Later(k, l)
    PROVE  Done(c, x, l)
<1>1. IsReady(k, x.direction) => IsReady(l, x.direction)
  BY DEF Later
<1>2. k.state = "connected" => l.state = "connected"
  BY DEF Later
<1>3. l.blocking = k.blocking /\ l.taken = k.taken
  BY DEF Later
<1> QED
  BY <1>1, <1>2, <1>3 DEF Done

LEMMA ProgressStays ==
    ASSUME NEW c, NEW x, NEW k, NEW l, Progress(c, x, k), Later(k, l)
    PROVE  Progress(c, x, l)
<1>1. l.blocking = k.blocking /\ l.taken = k.taken
  BY DEF Later
<1>2. /\ k.state = "connected" => l.state = "connected"
      /\ k.state = "listening" => l.state = "listening"
      /\ k.state \in {"connecting", "connected", "refused"} =>
            l.state \in {"connecting", "connected", "refused"}
  BY DEF Later
<1>3. Done(c, x, k) => Done(c, x, l)
  BY DoneStays
<1> QED
  BY <1>1, <1>2, <1>3 DEF Progress

\* A change of a descriptor by its peer.
LEMMA PeerEdit ==
    ASSUME Typed, TakesWhatArrived, Owned, Counted, NEW d \in Descriptors, NEW k \in KernelRecords,
           Sound(k), Later(kernel[d], k), k.owner = kernel[d].owner,
           k.state = "free" <=> kernel[d].state = "free",
           kernel' = Edited(kernel, d, k), UNCHANGED <<socket, objects, error>>
    PROVE  Typed' /\ TakesWhatArrived' /\ Owned' /\ Counted' /\ Waited
<1>1. KernelKept /\ TakesWhatArrived'
  BY KernelEdit
<1>2. SocketsKept
  BY SocketsSame
<1>3. Typed'
  BY <1>1, <1>2, TypedKept DEF Typed
<1>4. Owned' /\ Counted'
  BY <1>1, <1>2, OwnedKept, CountedKept
<1>5. Usable' = Usable /\ \A s \in Sockets : Fd(s)' = Fd(s)
  BY <1>2, KeptSockets
<1>6. \A s \in Usable : s \in Sockets /\ Fd(s) \in Descriptors
  BY LiveSockets DEF Usable
<1>7. \A c \in Descriptors : kernel'[c] = IF c = d THEN k ELSE kernel[c]
  BY DEF Typed, Edited
<1>8. \A s \in Usable : Later(Of(s), Of(s)')
  <2> SUFFICES ASSUME NEW s \in Usable PROVE Later(Of(s), Of(s)')
    OBVIOUS
  <2>1. Of(s) = kernel[Fd(s)] /\ Of(s)' = kernel'[Fd(s)]
    BY <1>5, <1>6 DEF Of
  <2>2. CASE Fd(s) = d
    BY <1>7, <2>1, <2>2
  <2>3. CASE Fd(s) # d
    BY <1>6, <1>7, <2>1, <2>3, LaterIsReflexive
  <2> QED
    BY <2>2, <2>3
<1> QED
  BY <1>1, <1>3, <1>4, <1>5, <1>8 DEF Waited

LEMMA KernelRecordEdits ==
    ASSUME NEW k \in KernelRecords
    PROVE  /\ k.state \in States /\ k.owner \in Sockets \cup {Nil, "program"}
           /\ k.blocking \in BOOLEAN /\ k.arrived \in Nat /\ k.taken \in Nat /\ k.held \in Nat
           /\ k.eof \in BOOLEAN /\ k.room \in 0 .. MaxRoom
           /\ \A n \in Nat : [k EXCEPT !.arrived = n] \in KernelRecords
           /\ \A n \in Nat : [k EXCEPT !.taken = n] \in KernelRecords
           /\ \A n \in Nat : [k EXCEPT !.held = n] \in KernelRecords
           /\ \A b \in BOOLEAN : [k EXCEPT !.eof = b] \in KernelRecords
           /\ \A b \in BOOLEAN : [k EXCEPT !.blocking = b] \in KernelRecords
           /\ \A n \in 0 .. MaxRoom : [k EXCEPT !.room = n] \in KernelRecords
           /\ \A t \in States : [k EXCEPT !.state = t] \in KernelRecords
BY DEF KernelRecords

LEMMA KernelBytesEdit ==
    ASSUME NEW k \in KernelRecords, NEW n \in Nat, NEW h \in Nat
    PROVE  [k EXCEPT !.taken = n, !.held = h] \in KernelRecords
BY DEF KernelRecords

LEMMA WorldWaits ==
    ASSUME Typed, TakesWhatArrived, Owned, Counted, World
    PROVE  Typed' /\ TakesWhatArrived' /\ Owned' /\ Counted' /\ (call = Idle \/ Waited)
<1> USE SocketAssumption
<1>1. UNCHANGED <<socket, call, error, objects>>
  BY DEF World
<1>2. \A d \in Descriptors : kernel[d] \in KernelRecords /\ Sound(kernel[d])
  BY DEF Typed, TakesWhatArrived
<1>3. CASE Knock
  <2>1. PICK d \in Descriptors :
            /\ kernel[d].state \in {"listening", "connected"}
            /\ kernel' = [kernel EXCEPT ![d].arrived = @ + 1]
    BY <1>3 DEF Knock
  <2>2. PICK k : k = [kernel[d] EXCEPT !.arrived = @ + 1]
    OBVIOUS
  <2>3. k \in KernelRecords
    BY <1>2, <2>2, KernelRecordEdits
  <2>4. /\ k.arrived = kernel[d].arrived + 1 /\ k.taken = kernel[d].taken /\ k.held = kernel[d].held
        /\ k.eof = kernel[d].eof
        /\ k.state = kernel[d].state /\ k.room = kernel[d].room /\ k.owner = kernel[d].owner
        /\ k.blocking = kernel[d].blocking
    BY <1>2, <2>2 DEF KernelRecords
  <2>5. kernel' = Edited(kernel, d, k)
    BY <2>1, <2>2 DEF Edited
  <2>6. kernel[d].arrived \in Nat /\ kernel[d].taken \in Nat /\ kernel[d].held \in Nat
    BY <1>2 DEF KernelRecords
  <2>7. Sound(k)
    BY <1>2, <2>1, <2>4, <2>6 DEF Sound
  <2>8. Later(kernel[d], k)
    BY <2>1, <2>4, <2>6 DEF Later, IsReady, Readable, Waiting, Writable
  <2> QED
    BY <1>1, <2>1, <2>3, <2>4, <2>5, <2>7, <2>8, PeerEdit
<1>4. CASE PeerAnswers
  <2>1. PICK d \in Descriptors, answer \in {"connected", "refused"} :
            kernel[d].state = "connecting" /\ kernel' = [kernel EXCEPT ![d].state = answer]
    BY <1>4 DEF PeerAnswers
  <2>2. PICK k : k = [kernel[d] EXCEPT !.state = answer]
    OBVIOUS
  <2>3. k \in KernelRecords
    BY <1>2, <2>2, KernelRecordEdits DEF States
  <2>4. /\ k.arrived = kernel[d].arrived /\ k.taken = kernel[d].taken /\ k.held = kernel[d].held
        /\ k.eof = kernel[d].eof
        /\ k.state = answer /\ k.room = kernel[d].room /\ k.owner = kernel[d].owner
        /\ k.blocking = kernel[d].blocking
    BY <1>2, <2>2 DEF KernelRecords
  <2>5. kernel' = Edited(kernel, d, k)
    BY <2>1, <2>2 DEF Edited
  <2>6. Sound(k)
    BY <1>2, <2>1, <2>4 DEF Sound
  <2>7. Later(kernel[d], k)
    BY <2>1, <2>4 DEF Later, IsReady, Readable, Waiting, Writable
  <2> QED
    BY <1>1, <2>1, <2>3, <2>4, <2>5, <2>6, <2>7, PeerEdit
<1>5. CASE PeerEnds
  <2>1. PICK d \in Descriptors :
            kernel[d].state = "connected" /\ kernel' = [kernel EXCEPT ![d].eof = TRUE]
    BY <1>5 DEF PeerEnds
  <2>2. PICK k : k = [kernel[d] EXCEPT !.eof = TRUE]
    OBVIOUS
  <2>3. k \in KernelRecords
    BY <1>2, <2>2, KernelRecordEdits
  <2>4. /\ k.arrived = kernel[d].arrived /\ k.taken = kernel[d].taken /\ k.held = kernel[d].held
        /\ k.eof = TRUE
        /\ k.state = kernel[d].state /\ k.room = kernel[d].room /\ k.owner = kernel[d].owner
        /\ k.blocking = kernel[d].blocking
    BY <1>2, <2>2 DEF KernelRecords
  <2>5. kernel' = Edited(kernel, d, k)
    BY <2>1, <2>2 DEF Edited
  <2>6. Sound(k)
    BY <1>2, <2>1, <2>4 DEF Sound
  <2>7. Later(kernel[d], k)
    BY <2>1, <2>4 DEF Later, IsReady, Readable, Waiting, Writable
  <2> QED
    BY <1>1, <2>1, <2>3, <2>4, <2>5, <2>6, <2>7, PeerEdit
<1>6. CASE PeerReads
  <2>1. PICK d \in Descriptors :
            /\ kernel[d].state = "connected" /\ kernel[d].room < MaxRoom
            /\ kernel' = [kernel EXCEPT ![d].room = @ + 1]
    BY <1>6 DEF PeerReads
  <2>2. PICK k : k = [kernel[d] EXCEPT !.room = @ + 1]
    OBVIOUS
  <2>3. kernel[d].room \in 0 .. MaxRoom /\ kernel[d].room + 1 \in 0 .. MaxRoom
    BY <1>2, <2>1 DEF KernelRecords
  <2>4. k \in KernelRecords
    BY <1>2, <2>2, <2>3, KernelRecordEdits
  <2>5. /\ k.arrived = kernel[d].arrived /\ k.taken = kernel[d].taken /\ k.held = kernel[d].held
        /\ k.eof = kernel[d].eof
        /\ k.state = kernel[d].state /\ k.room = kernel[d].room + 1 /\ k.owner = kernel[d].owner
        /\ k.blocking = kernel[d].blocking
    BY <1>2, <2>2 DEF KernelRecords
  <2>6. kernel' = Edited(kernel, d, k)
    BY <2>1, <2>2 DEF Edited
  <2>7. Sound(k)
    BY <1>2, <2>5 DEF Sound
  <2>8. Later(kernel[d], k)
    BY <2>1, <2>3, <2>5 DEF Later, IsReady, Readable, Waiting, Writable
  <2> QED
    BY <1>1, <2>1, <2>4, <2>5, <2>6, <2>7, <2>8, PeerEdit
<1>7. CASE Opens
  <2>1. IsFree /\ kernel' = [kernel EXCEPT ![NextFree] = [Open("program") EXCEPT !.state = "connected"]]
    BY <1>7 DEF Opens
  <2>2. NextFree \in Descriptors /\ kernel[NextFree].state = "free"
    BY <2>1, NextFreeIsFree
  <2>3. PICK k : k = [Open("program") EXCEPT !.state = "connected"]
    OBVIOUS
  <2>4. k = [state |-> "connected", owner |-> "program", blocking |-> TRUE, arrived |-> 0, taken |-> 0, held |-> 0,
             eof |-> FALSE, room |-> MaxRoom]
    BY <2>3 DEF Open, Unused
  <2>5. k \in KernelRecords /\ Sound(k) /\ k.owner \notin Sockets
    BY <2>4 DEF KernelRecords, States, Sound
  <2>6. \A s \in Live : Fd(s) # NextFree
    BY <2>2, LiveSockets DEF Owned, Of
  <2>7. kernel' = Edited(kernel, NextFree, k)
    BY <2>1, <2>3 DEF Edited
  <2>8. /\ Typed' /\ TakesWhatArrived' /\ Owned' /\ Counted'
        /\ Usable' = Usable /\ \A s \in Usable : Of(s)' = Of(s)
    BY <1>1, <2>2, <2>5, <2>6, <2>7, StrangerEdit DEF Typed
  <2> QED
    BY <2>8, LaterIsReflexive DEF Waited
<1>8. CASE Closes
  <2>1. PICK d \in Descriptors :
            call = Idle /\ (\A s \in Live : Fd(s) # d) /\ kernel' = [kernel EXCEPT ![d] = Unused]
    BY <1>8 DEF Closes
  <2>2. Unused \in KernelRecords /\ Sound(Unused) /\ Unused.owner \notin Sockets
    BY DEF KernelRecords, States, Sound, Unused
  <2>3. kernel' = Edited(kernel, d, Unused)
    BY <2>1 DEF Edited
  <2> QED
    BY <1>1, <2>1, <2>2, <2>3, StrangerEdit DEF Typed
<1> QED
  BY <1>3, <1>4, <1>5, <1>6, <1>7, <1>8 DEF World

LEMMA CoreKept ==
    ASSUME Core, SocketsKept, KernelKept, TakesWhatArrived', UNCHANGED objects, IsError(error)'
    PROVE  Core'
BY TypedKept, OwnedKept, CountedKept DEF Core

-----------------------------------------------------------------------------
(* Calls that return or go on *)

Succeeded(c, v) == [c EXCEPT !.at = "return", !.result = "true", !.value = v]

Failed(c) == [c EXCEPT !.at = "return", !.result = "false"]

LEMMA SucceededCall ==
    ASSUME NEW c, Good(c), NEW v \in Nat \cup Sockets
    PROVE  /\ Good(Succeeded(c, v))
           /\ Succeeded(c, v).op = c.op /\ Succeeded(c, v).s = c.s /\ Succeeded(c, v).mode = c.mode
           /\ Succeeded(c, v).from = c.from /\ Succeeded(c, v).length = c.length
           /\ Succeeded(c, v).buffer = c.buffer /\ Succeeded(c, v).at = "return"
           /\ Succeeded(c, v).result = "true" /\ Succeeded(c, v).value = v
BY DEF Succeeded, Good, CallRecords, Places

LEMMA FailedCall ==
    ASSUME NEW c, Good(c)
    PROVE  /\ Good(Failed(c)) /\ Failed(c).s = c.s /\ Failed(c).at = "return"
           /\ Failed(c).result = "false" /\ Failed(c).happened = c.happened
BY DEF Failed, Good, CallRecords, Places

LEMMA CallSucceeds ==
    ASSUME NEW c, Good(c), NEW v \in Nat \cup Sockets, Succeeds(c, v), c.s \in Usable',
           Done(Succeeded(c, v), socket'[c.s], Of(c.s)'),
           c.op = "accept" => v \in Usable' /\ socket'[v].close
    PROVE  Told' /\ error' = error
<1>1. call' = Succeeded(c, v) /\ error' = error
  BY DEF Succeeds, Succeeded
<1>2. /\ Good(Succeeded(c, v)) /\ Succeeded(c, v).s = c.s /\ Succeeded(c, v).at = "return"
      /\ Succeeded(c, v).result = "true" /\ Succeeded(c, v).value = v /\ Succeeded(c, v).op = c.op
  BY SucceededCall
<1>3. Progress(Succeeded(c, v), socket'[c.s], Of(c.s)')
  BY <1>2 DEF Progress
<1>4. call'.s \in Usable' /\ Progress(call', socket'[call'.s], Of(call.s)')
  BY <1>1, <1>2, <1>3
<1>5. CallGoesOn'
  BY <1>4 DEF CallGoesOn
<1>6. Accepted' /\ ErrorIsTold'
  BY <1>1, <1>2 DEF Accepted, ErrorIsTold
<1> QED
  BY <1>1, <1>5, <1>6 DEF Told

LEMMA CallFails ==
    ASSUME NEW c, Good(c), NEW e, Fails(c, e), <<e.domain, e.code>> \in c.happened, c.s \in Usable'
    PROVE  Told' /\ error' = e
<1>1. call' = Failed(c) /\ error' = e
  BY DEF Fails, Failed
<1>2. /\ Good(Failed(c)) /\ Failed(c).s = c.s /\ Failed(c).at = "return"
      /\ Failed(c).result = "false" /\ Failed(c).happened = c.happened
  BY FailedCall
<1>3. Progress(Failed(c), socket'[c.s], Of(c.s)')
  BY <1>2 DEF Progress
<1>4. call'.s \in Usable' /\ Progress(call', socket'[call'.s], Of(call.s)')
  BY <1>1, <1>2, <1>3
<1>5. CallGoesOn'
  BY <1>4 DEF CallGoesOn
<1>6. Accepted' /\ ErrorIsTold'
  BY <1>1, <1>2 DEF Accepted, ErrorIsTold
<1> QED
  BY <1>1, <1>5, <1>6 DEF Told

LEMMA HappensToCall ==
    ASSUME NEW c, Good(c), NEW what \in Failures
    PROVE  /\ Good(Happens(c, what)) /\ what \in Happens(c, what).happened
           /\ Happens(c, what).s = c.s
BY DEF Happens, Good, CallRecords

LEMMA ErrnoIsError ==
    ASSUME NEW errno \in Errnos
    PROVE  /\ IsError(SetErrno(errno)) /\ SetErrno(errno).domain = "errno"
           /\ SetErrno(errno).code = errno /\ <<"errno", errno>> \in Failures
BY DEF IsError, SetErrno, SetError, Domains, NoString, Failures

LEMMA CallReports ==
    ASSUME NEW c, Good(c), NEW errno \in Errnos, Reports(c, errno), c.s \in Usable'
    PROVE  Told' /\ IsError(error)'
<1>1. Fails(Happens(c, <<"errno", errno>>), SetErrno(errno))
  BY DEF Reports, FailsWith
<1>2. /\ Good(Happens(c, <<"errno", errno>>))
      /\ <<"errno", errno>> \in Happens(c, <<"errno", errno>>).happened
      /\ Happens(c, <<"errno", errno>>).s = c.s
  BY ErrnoIsError, HappensToCall
<1>3. Told' /\ error' = SetErrno(errno)
  BY <1>1, <1>2, ErrnoIsError, CallFails
<1> QED
  BY <1>3, ErrnoIsError

LEMMA CallTimesOut ==
    ASSUME NEW c, Good(c), c.timed, FailsWith(c, "ETIMEDOUT"), c.s \in Usable'
    PROVE  Told' /\ IsError(error)'
<1>1. Fails(c, SetErrno("ETIMEDOUT")) /\ "ETIMEDOUT" \in Errnos
  BY DEF FailsWith, Errnos
<1>2. <<"errno", "ETIMEDOUT">> \in c.happened
  BY DEF Good
<1>3. Told' /\ error' = SetErrno("ETIMEDOUT")
  BY <1>1, <1>2, ErrnoIsError, CallFails
<1> QED
  BY <1>1, <1>3, ErrnoIsError

LEMMA SslFailuresAreTold ==
    ASSUME NEW o \in SslFailures \cup Wants
    PROVE  /\ o.means \in Failures /\ IsError(TellSsl(o))
           /\ <<TellSsl(o).domain, TellSsl(o).code>> = o.means
<1>1. CASE o = [code |-> "syscall", result |-> 0, queue |-> <<>>, means |-> <<"libwired", "eof">>]
  <2>1. TellSsl(o) = SetLibwiredError("eof")
    BY <1>1 DEF TellSsl, SetSSLError
  <2> QED
    BY <1>1, <2>1 DEF SetLibwiredError, SetError, IsError, Domains, Failures
<1>2. CASE o = [code |-> "syscall", result |-> -1, queue |-> <<>>, means |-> <<"errno", "ECONNRESET">>]
  <2>1. TellSsl(o) = SetErrno("ECONNRESET")
    BY <1>2 DEF TellSsl, SetSSLError, SetOpenSSLError
  <2> QED
    BY <1>2, <2>1 DEF SetErrno, SetError, IsError, Domains, Failures, Errnos
<1>3. CASE o = [code |-> "ssl", result |-> -1, queue |-> <<"alert">>, means |-> <<"openssl", "alert">>]
  <2>1. TellSsl(o) = SetErrorWithString("openssl", "alert", <<"openssl", "alert">>)
    BY <1>3 DEF TellSsl, SetSSLError, SetOpenSSLError
  <2> QED
    BY <1>3, <2>1 DEF SetErrorWithString, SetError, IsError, Domains, Failures
<1>4. CASE o = [code |-> "zero_return", result |-> 0, queue |-> <<>>, means |-> <<"ssl", "zero_return">>]
  <2>1. TellSsl(o) = SetErrorWithString("ssl", "zero_return", <<"ssl", "zero_return">>)
    BY <1>4 DEF TellSsl, SetSSLError
  <2>2. TellSsl(o) = [domain |-> "ssl", code |-> "zero_return", string |-> <<"ssl", "zero_return">>]
    BY <2>1 DEF SetErrorWithString, SetError
  <2> QED
    BY <1>4, <2>2 DEF IsError, Domains, Failures
<1>5. CASE o \in Wants
  <2>1. PICK w \in {"want_read", "want_write"} :
            o = [code |-> w, result |-> -1, queue |-> <<>>, means |-> <<"ssl", w>>]
    BY <1>5 DEF Wants
  <2>2. TellSsl(o) = SetErrorWithString("ssl", w, <<"ssl", w>>)
    BY <2>1 DEF TellSsl, SetSSLError
  <2>3. TellSsl(o) = [domain |-> "ssl", code |-> w, string |-> <<"ssl", w>>]
    BY <2>2 DEF SetErrorWithString, SetError
  <2> QED
    BY <2>1, <2>3 DEF IsError, Domains, Failures
<1> QED
  BY <1>1, <1>2, <1>3, <1>4, <1>5 DEF SslFailures

LEMMA CallFailsInSsl ==
    ASSUME NEW c, Good(c), NEW o \in SslFailures \cup Wants,
           Fails(Happens(c, o.means), TellSsl(o)), c.s \in Usable'
    PROVE  Told' /\ IsError(error)'
<1>1. Good(Happens(c, o.means)) /\ o.means \in Happens(c, o.means).happened /\ Happens(c, o.means).s = c.s
  BY SslFailuresAreTold, HappensToCall
<1>2. IsError(TellSsl(o)) /\ <<TellSsl(o).domain, TellSsl(o).code>> \in Happens(c, o.means).happened
  BY <1>1, SslFailuresAreTold
<1>3. Told' /\ error' = TellSsl(o)
  BY <1>1, <1>2, CallFails
<1> QED
  BY <1>2, <1>3

LEMMA CallGoes ==
    ASSUME NEW c, Goes(c), c.s \in Usable', Progress(c, socket'[c.s], Of(c.s)'), c.at # "return"
    PROVE  Told' /\ error' = error
BY DEF Goes, Told, CallGoesOn, Accepted, ErrorIsTold

LEMMA NoCall ==
    ASSUME call' = Idle
    PROVE  Told'
BY DEF Told, CallGoesOn, Accepted, ErrorIsTold

\* The call that goes on, in its place.
LEMMA CallInPlace ==
    ASSUME Core, Told, call # Idle, NEW place \in Places, call.at = place, place # "return"
    PROVE  /\ call.s \in Usable /\ call.s \in Live /\ call.s \in Sockets /\ Fd(call.s) \in Descriptors
           /\ Progress(call, socket[call.s], Of(call.s)) /\ Good(call)
           /\ Of(call.s) \in KernelRecords /\ Sound(Of(call.s)) /\ socket[call.s] \in SocketRecords
<1>1. call \notin FailedInits
  BY DEF FailedInits
<1>2. call.s \in Usable /\ Progress(call, socket[call.s], Of(call.s))
  BY <1>1 DEF Told, CallGoesOn
<1>3. /\ call.s \in Live /\ call.s \in Sockets /\ Fd(call.s) \in Descriptors
      /\ Of(call.s) \in KernelRecords /\ socket[call.s] \in SocketRecords
  BY <1>2, LiveSockets DEF Usable, Core
<1>4. Sound(Of(call.s))
  BY <1>3 DEF Core, TakesWhatArrived, Of
<1> QED
  BY <1>2, <1>3, <1>4 DEF Progress

\* A call on an open socket is good.
LEMMA NewCall ==
    ASSUME Core, NEW s \in Usable, NEW op \in Operations, NEW timeout \in Nat, NEW at \in Places,
           NEW c, c = Call(op, s, timeout, at)
    PROVE  /\ Good(c) /\ c.op = op /\ c.s = s /\ c.timeout = timeout /\ c.timed = (timeout > 0)
           /\ c.at = at /\ c.mode = Of(s).blocking /\ c.from = Of(s).taken /\ c.length = 0
           /\ c.buffer = <<>> /\ c.value = 0 /\ c.result = "none"
<1>1. Of(s) \in KernelRecords /\ s \in Sockets
  BY LiveSockets DEF Core, Usable
<1>2. Of(s).blocking \in BOOLEAN /\ Of(s).taken \in Nat
  BY <1>1, KernelRecordEdits
<1>3. PICK timed \in BOOLEAN : timed = (timeout > 0)
  <2>1. (timeout > 0) \in BOOLEAN
    OBVIOUS
  <2> QED
    BY <2>1
<1>4. PICK happened : happened = IF timed THEN {<<"errno", "ETIMEDOUT">>} ELSE {}
  OBVIOUS
<1>5. c = [op |-> op, s |-> s, timeout |-> timeout, timed |-> timed, at |-> at,
           mode |-> Of(s).blocking, from |-> Of(s).taken, length |-> 0, buffer |-> <<>>,
           moved |-> FALSE, direction |-> {}, result |-> "none", value |-> 0,
           happened |-> happened]
  BY <1>3, <1>4 DEF Call
<1>6. happened \in SUBSET Failures
  BY <1>4 DEF Failures, Errnos
<1>7. c \in CallRecords
  BY <1>1, <1>2, <1>5, <1>6 DEF CallRecords
<1>8. Len(c.buffer) <= c.length
  BY <1>5
<1>9. c.timed => <<"errno", "ETIMEDOUT">> \in c.happened
  BY <1>4, <1>5
<1> QED
  BY <1>3, <1>5, <1>7, <1>8, <1>9 DEF Good

-----------------------------------------------------------------------------
(* Edits of one socket, and of the descriptor of a call *)

LEMMA SocketEdit ==
    ASSUME Typed, NEW s \in Live, NEW x \in SocketRecords,
           x.sd = socket[s].sd, x.close = socket[s].close, x.certificate = socket[s].certificate,
           x.private_key = socket[s].private_key, x.ciphers = socket[s].ciphers,
           socket' = Edited(socket, s, x)
    PROVE  SocketsKept /\ socket'[s] = x /\ \A u \in Sockets : u # s => socket'[u] = socket[u]
<1>1. s \in Sockets /\ socket[s] # NoSocket /\ x # NoSocket
  BY RecordsAreSockets DEF Live
<1>2. socket' \in [Sockets -> SocketRecords \cup {NoSocket}]
  BY DEF Typed, Edited
<1>3. \A u \in Sockets : socket'[u] = IF u = s THEN x ELSE socket[u]
  BY DEF Typed, Edited
<1> QED
  BY <1>1, <1>2, <1>3 DEF SocketsKept

LEMMA SocketRecordEdits ==
    ASSUME NEW x \in SocketRecords
    PROVE  /\ x.sd \in {-1} \cup Descriptors /\ x.close \in BOOLEAN /\ x.direction \in Ways
           /\ x.ssl \in BOOLEAN /\ x.certificate \in MaybeObject /\ x.private_key \in MaybeObject
           /\ x.ciphers \in MaybeObject
           /\ \A b \in BOOLEAN : [x EXCEPT !.ssl = b] \in SocketRecords
           /\ \A w \in Ways : [x EXCEPT !.direction = w] \in SocketRecords
BY DEF SocketRecords

LEMMA DirectionEdit ==
    ASSUME Typed, NEW s \in Live, NEW w \in Ways, socket' = [socket EXCEPT ![s].direction = w]
    PROVE  SocketsKept /\ socket'[s].ssl = socket[s].ssl /\ socket'[s].direction = w
<1>1. socket[s] \in SocketRecords /\ s \in Sockets
  BY LiveSockets
<1>2. PICK x : x = [socket[s] EXCEPT !.direction = w]
  OBVIOUS
<1>3. x \in SocketRecords
  BY <1>1, <1>2, SocketRecordEdits
<1>4. /\ x.sd = socket[s].sd /\ x.close = socket[s].close /\ x.certificate = socket[s].certificate
      /\ x.private_key = socket[s].private_key /\ x.ciphers = socket[s].ciphers
      /\ x.ssl = socket[s].ssl /\ x.direction = w
  BY <1>1, <1>2 DEF SocketRecords
<1>5. socket' = Edited(socket, s, x)
  BY <1>2 DEF Edited
<1> QED
  BY <1>3, <1>4, <1>5, SocketEdit

LEMMA SslEdit ==
    ASSUME Typed, NEW s \in Live, NEW b \in BOOLEAN, socket' = [socket EXCEPT ![s].ssl = b]
    PROVE  SocketsKept /\ socket'[s].ssl = b
<1>1. socket[s] \in SocketRecords /\ s \in Sockets
  BY LiveSockets
<1>2. PICK x : x = [socket[s] EXCEPT !.ssl = b]
  OBVIOUS
<1>3. x \in SocketRecords
  BY <1>1, <1>2, SocketRecordEdits
<1>4. /\ x.sd = socket[s].sd /\ x.close = socket[s].close /\ x.certificate = socket[s].certificate
      /\ x.private_key = socket[s].private_key /\ x.ciphers = socket[s].ciphers /\ x.ssl = b
  BY <1>1, <1>2 DEF SocketRecords
<1>5. socket' = Edited(socket, s, x)
  BY <1>2 DEF Edited
<1> QED
  BY <1>3, <1>4, <1>5, SocketEdit

\* The descriptor of an open socket, edited.
LEMMA OwnEdit ==
    ASSUME Core, NEW s \in Usable, NEW k \in KernelRecords, Sound(k), k.owner = Of(s).owner,
           k.state # "free", kernel' = Edited(kernel, Fd(s), k), SocketsKept
    PROVE  KernelKept /\ TakesWhatArrived' /\ Of(s)' = k /\ Usable' = Usable
<1>1. s \in Live /\ s \in Sockets /\ Fd(s) \in Descriptors /\ Of(s) = kernel[Fd(s)]
  BY LiveSockets DEF Usable, Core, Of
<1>2. Of(s).state # "free"
  BY DEF Core, Owned
<1>3. KernelKept /\ TakesWhatArrived' /\ kernel'[Fd(s)] = k
  BY <1>1, <1>2, KernelEdit DEF Core
<1>4. Usable' = Usable /\ Fd(s)' = Fd(s)
  BY <1>1, KeptSockets DEF Core
<1> QED
  BY <1>3, <1>4 DEF Of

LEMMA NothingEdited ==
    ASSUME Core, UNCHANGED <<kernel, objects>>, SocketsKept, IsError(error)'
    PROVE  Core' /\ Usable' = Usable /\ \A s \in Usable : Of(s)' = Of(s)
<1>1. KernelKept /\ TakesWhatArrived'
  BY KernelSame DEF Core
<1>2. Core'
  BY <1>1, CoreKept
<1>3. Usable' = Usable /\ \A s \in Sockets : Fd(s)' = Fd(s)
  BY KeptSockets DEF Core
<1>4. \A s \in Usable : s \in Sockets
  BY LiveSockets DEF Usable, Core
<1> QED
  BY <1>2, <1>3, <1>4 DEF Of

-----------------------------------------------------------------------------
(* The steps of a call *)

LEMMA Returns == ASSUME Core, Told, Return PROVE Core' /\ Told'
<1>1. UNCHANGED <<socket, kernel, objects>> /\ call' = Idle /\ error' = EnterThread
  BY DEF Return
<1>2. IsError(error)'
  BY <1>1 DEF IsError, EnterThread, Domains
<1>3. SocketsKept
  BY <1>1, SocketsSame DEF Core
<1> QED
  BY <1>1, <1>2, <1>3, NothingEdited, NoCall

\* A call that changes nothing else.
LEMMA CallOnly ==
    ASSUME Core, UNCHANGED <<socket, kernel, objects>>
    PROVE  /\ IsError(error)' => Core'
           /\ Usable' = Usable /\ \A s \in Usable : Of(s)' = Of(s)
<1>1. SocketsKept
  BY SocketsSame DEF Core
<1>2. Usable' = Usable /\ \A s \in Sockets : Fd(s)' = Fd(s)
  BY <1>1, KeptSockets DEF Core
<1>3. \A s \in Usable : s \in Sockets
  BY LiveSockets DEF Usable, Core
<1> QED
  BY <1>1, <1>2, <1>3, NothingEdited DEF Of

LEMMA CoreErrors == ASSUME Core PROVE IsError(error)
BY DEF Core, Typed

LEMMA SelectsStep == ASSUME Core, Told, Selects PROVE Core' /\ Told'
<1>1. call # Idle /\ call.at = "wait_multiple" /\ UNCHANGED <<socket, kernel, objects>>
  BY DEF Selects
<1>2. /\ call.s \in Usable /\ Progress(call, socket[call.s], Of(call.s)) /\ Good(call)
      /\ call \in CallRecords
  BY <1>1, CallInPlace DEF Places, Good
<1>3. Usable' = Usable /\ \A s \in Usable : Of(s)' = Of(s)
  BY <1>1, CallOnly
<1>4. call.op \in Multiple /\ (call.timeout > 0 => call.op = "wait_multiple" /\ call.timed)
  BY <1>1, <1>2 DEF Progress
<1>5. ASSUME NEW s \in Among(call.op)
      PROVE  /\ s \in Usable /\ s \in Sockets
             /\ call.op = "recvfrom_multiple" => Of(s).state = "listening"
  <2>1. s \in Usable /\ (call.op = "recvfrom_multiple" => Of(s).state = "listening")
    BY <1>4, <1>5 DEF Among, Multiple
  <2> QED
    BY <2>1, LiveSockets DEF Usable, Core
<1> DEFINE ready == {s \in Among(call.op) : IsReady(Of(s), socket[s].direction)}
<1>6. \/ \E s \in ready :
             CASE call.op = "wait_multiple" -> Succeeds([call EXCEPT !.s = s], 0)
               [] call.op = "accept_multiple" -> Goes([call EXCEPT !.s = s, !.at = "accept"])
               [] OTHER -> Goes([call EXCEPT !.s = s, !.at = "recvfrom"])
      \/ call.timeout > 0 /\ Goes([call EXCEPT !.at = "return", !.result = "nothing"])
      \/ Reports(call, "EINTR")
  BY DEF Selects
<1>7. ASSUME NEW s \in ready, call.op = "wait_multiple", Succeeds([call EXCEPT !.s = s], 0)
      PROVE  Core' /\ Told'
  <2>1. s \in Usable /\ s \in Sockets /\ IsReady(Of(s), socket[s].direction)
    BY <1>5, <1>7
  <2>2. PICK c : c = [call EXCEPT !.s = s]
    OBVIOUS
  <2>3. Good(c) /\ c.s = s /\ c.op = "wait_multiple"
    BY <1>2, <1>7, <2>1, <2>2 DEF Good, CallRecords
  <2>4. Done(Succeeded(c, 0), socket'[s], Of(s)')
    BY <1>1, <1>3, <2>1, <2>3, SucceededCall DEF Done
  <2>5. Succeeds(c, 0)
    BY <1>7, <2>2
  <2>6. Told' /\ error' = error
    BY <1>3, <2>1, <2>3, <2>4, <2>5, CallSucceeds
  <2> QED
    BY <1>1, <2>6, CallOnly, CoreErrors
<1>8. ASSUME NEW s \in ready, call.op = "accept_multiple",
             Goes([call EXCEPT !.s = s, !.at = "accept"])
      PROVE  Core' /\ Told'
  <2>1. s \in Usable /\ s \in Sockets
    BY <1>5, <1>8
  <2>2. PICK c : c = [call EXCEPT !.s = s, !.at = "accept"]
    OBVIOUS
  <2>3. Good(c) /\ c.s = s /\ c.op = "accept_multiple" /\ c.at = "accept"
    BY <1>2, <1>8, <2>1, <2>2 DEF Good, CallRecords, Places
  <2>4. Progress(c, socket'[s], Of(s)')
    BY <2>3 DEF Progress
  <2>5. Goes(c)
    BY <1>8, <2>2
  <2>6. Told' /\ error' = error
    BY <1>3, <2>1, <2>3, <2>4, <2>5, CallGoes
  <2> QED
    BY <1>1, <2>6, CallOnly, CoreErrors
<1>9. ASSUME NEW s \in ready, call.op = "recvfrom_multiple",
             Goes([call EXCEPT !.s = s, !.at = "recvfrom"])
      PROVE  Core' /\ Told'
  <2>1. s \in Usable /\ s \in Sockets /\ Of(s).state = "listening"
    BY <1>5, <1>9
  <2>2. PICK c : c = [call EXCEPT !.s = s, !.at = "recvfrom"]
    OBVIOUS
  <2>3. Good(c) /\ c.s = s /\ c.op = "recvfrom_multiple" /\ c.at = "recvfrom"
    BY <1>2, <1>9, <2>1, <2>2 DEF Good, CallRecords, Places
  <2>4. Progress(c, socket'[s], Of(s)')
    BY <1>3, <2>1, <2>3 DEF Progress
  <2>5. Goes(c)
    BY <1>9, <2>2
  <2>6. Told' /\ error' = error
    BY <1>3, <2>1, <2>3, <2>4, <2>5, CallGoes
  <2> QED
    BY <1>1, <2>6, CallOnly, CoreErrors
<1>10. ASSUME call.timeout > 0, Goes([call EXCEPT !.at = "return", !.result = "nothing"])
      PROVE  Core' /\ Told'
  <2>1. PICK c : c = [call EXCEPT !.at = "return", !.result = "nothing"]
    OBVIOUS
  <2>2. Good(c) /\ c.s = call.s /\ c.op = call.op /\ c.at = "return" /\ c.result = "nothing"
        /\ c.timed = call.timed
    BY <1>2, <2>1 DEF Good, CallRecords, Places
  <2>3. Progress(c, socket'[c.s], Of(c.s)')
    BY <1>4, <1>10, <2>2 DEF Progress
  <2>4. call' = c /\ error' = error
    BY <1>10, <2>1 DEF Goes
  <2>5. Told'
    BY <1>2, <1>3, <2>2, <2>3, <2>4 DEF Told, CallGoesOn, Accepted, ErrorIsTold
  <2> QED
    BY <1>1, <2>4, <2>5, CallOnly, CoreErrors
<1>11. ASSUME Reports(call, "EINTR")
       PROVE  Core' /\ Told'
  <2>1. "EINTR" \in Errnos
    BY DEF Errnos
  <2>2. Told' /\ IsError(error)'
    BY <1>2, <1>3, <1>11, <2>1, CallReports
  <2> QED
    BY <1>1, <2>2, CallOnly
<1> QED
  BY <1>4, <1>6, <1>7, <1>8, <1>9, <1>10, <1>11 DEF Multiple

\* A step of a call that edits the descriptor of its socket.
LEMMA StepKeepsCore ==
    ASSUME Core, NEW s \in Usable, NEW k \in KernelRecords, Sound(k), k.owner = Of(s).owner,
           k.state # "free", kernel' = Edited(kernel, Fd(s), k), SocketsKept, UNCHANGED objects
    PROVE  Of(s)' = k /\ Usable' = Usable /\ (IsError(error)' => Core')
BY OwnEdit, CoreKept

LEMMA RestoredEdit ==
    ASSUME Core, NEW c \in CallRecords, c.s \in Usable, kernel' = Restored(kernel, c), SocketsKept,
           UNCHANGED objects
    PROVE  /\ Of(c.s)'.state = Of(c.s).state
           /\ Of(c.s)'.blocking = IF c.timed /\ c.mode THEN TRUE ELSE Of(c.s).blocking
           /\ Usable' = Usable /\ (IsError(error)' => Core')
<1>1. c.s \in Live /\ Fd(c.s) \in Descriptors /\ Of(c.s) \in KernelRecords /\ Of(c.s) = kernel[Fd(c.s)]
  BY LiveSockets DEF Usable, Core, Of
<1>2. Sound(Of(c.s)) /\ Of(c.s).state # "free"
  BY <1>1 DEF Core, TakesWhatArrived, Owned
<1>3. PICK b : b = IF c.timed /\ c.mode THEN TRUE ELSE Of(c.s).blocking
  OBVIOUS
<1>4. b \in BOOLEAN
  BY <1>1, <1>3, KernelRecordEdits
<1>5. PICK k : k = [Of(c.s) EXCEPT !.blocking = b]
  OBVIOUS
<1>6. k \in KernelRecords
  BY <1>1, <1>4, <1>5, KernelRecordEdits
<1>7. /\ k.state = Of(c.s).state /\ k.owner = Of(c.s).owner /\ k.blocking = b
      /\ k.arrived = Of(c.s).arrived /\ k.taken = Of(c.s).taken /\ k.held = Of(c.s).held
      /\ k.eof = Of(c.s).eof
  BY <1>1, <1>5 DEF KernelRecords
<1>8. Sound(k)
  BY <1>2, <1>7 DEF Sound
<1>9. kernel' = Edited(kernel, Fd(c.s), k)
  BY <1>1, <1>3, <1>5 DEF Restored, Edited
<1> QED
  BY <1>2, <1>3, <1>6, <1>7, <1>8, <1>9, StepKeepsCore

\* A call on a connection that succeeds, its mode restored.
LEMMA ConnectedDone ==
    ASSUME NEW c, Good(c), c.op \in {"connect", "connect_tls", "accept_tls"}, NEW x, NEW k,
           k.state = "connected", k.blocking = c.mode
    PROVE  Done(Succeeded(c, 0), x, k)
BY SucceededCall DEF Done

LEMMA ConnectingStep == ASSUME Core, Told, Connecting PROVE Core' /\ Told'
<1> USE SocketAssumption
<1>1. call # Idle /\ call.at = "connecting" /\ UNCHANGED objects
  BY DEF Connecting
<1>2. /\ call.s \in Usable /\ call.s \in Live /\ call.s \in Sockets
      /\ Progress(call, socket[call.s], Of(call.s)) /\ Good(call)
      /\ Of(call.s) \in KernelRecords /\ Sound(Of(call.s)) /\ socket[call.s] \in SocketRecords
  BY <1>1, CallInPlace DEF Places
<1>3. /\ call.op = "connect" /\ call.timed /\ Of(call.s).blocking = FALSE
      /\ Of(call.s).state \in {"connecting", "connected", "refused"}
  BY <1>1, <1>2, KernelRecordEdits DEF Progress
<1>4. call \in CallRecords /\ call.timeout \in Int /\ call.mode \in BOOLEAN
  BY <1>2 DEF Good, CallRecords
<1>5. TimeLeft(call) \in Int
  BY <1>4 DEF TimeLeft
<1>6. PICK state \in Wait(Of(call.s), Slice, {"read", "write"}) :
          LET left == TimeLeft(call) IN
          IF state = "timeout" /\ left >= 0
          THEN Goes([call EXCEPT !.timeout = left]) /\ UNCHANGED <<socket, kernel>>
          ELSE IF state = "error"
          THEN Reports(call, "EINTR") /\ UNCHANGED <<socket, kernel>>
          ELSE IF left <= 0
          THEN FailsWith(call, "ETIMEDOUT") /\ UNCHANGED <<socket, kernel>>
          ELSE IF Of(call.s).state = "refused"
          THEN Reports(call, "ECONNREFUSED") /\ UNCHANGED <<socket, kernel>>
          ELSE kernel' = Restored(kernel, call) /\ Connected(call)
  BY DEF Connecting
<1>7. PICK left \in Int : left = TimeLeft(call)
  BY <1>5
<1>8. PICK s : s = call.s
  OBVIOUS
<1>9. CASE Goes([call EXCEPT !.timeout = left]) /\ UNCHANGED <<socket, kernel>>
  <2>1. PICK c : c = [call EXCEPT !.timeout = left]
    OBVIOUS
  <2>2. /\ Good(c) /\ c.s = call.s /\ c.op = call.op /\ c.at = "connecting" /\ c.timed = call.timed
    BY <1>1, <1>2, <1>4, <2>1 DEF Good, CallRecords
  <2>3. Usable' = Usable /\ Of(s)' = Of(s)
    BY <1>1, <1>2, <1>9, <1>8, CallOnly
  <2>4. Progress(c, socket'[c.s], Of(c.s)')
    BY <1>3, <1>8, <2>2, <2>3 DEF Progress
  <2>5. Goes(c)
    BY <1>9, <2>1
  <2>6. Told' /\ error' = error
    BY <1>2, <2>2, <2>3, <2>4, <2>5, CallGoes
  <2> QED
    BY <1>1, <1>9, <2>6, CallOnly, CoreErrors
<1>10. CASE Reports(call, "EINTR") /\ UNCHANGED <<socket, kernel>>
  <2>1. "EINTR" \in Errnos /\ Usable' = Usable
    BY <1>1, <1>10, CallOnly DEF Errnos
  <2>2. Told' /\ IsError(error)'
    BY <1>2, <1>10, <2>1, CallReports
  <2> QED
    BY <1>1, <1>10, <2>2, CallOnly
<1>11. CASE FailsWith(call, "ETIMEDOUT") /\ UNCHANGED <<socket, kernel>>
  <2>1. Usable' = Usable
    BY <1>1, <1>11, CallOnly
  <2>2. Told' /\ IsError(error)'
    BY <1>2, <1>3, <1>11, <2>1, CallTimesOut
  <2> QED
    BY <1>1, <1>11, <2>2, CallOnly
<1>12. CASE Reports(call, "ECONNREFUSED") /\ UNCHANGED <<socket, kernel>>
  <2>1. "ECONNREFUSED" \in Errnos /\ Usable' = Usable
    BY <1>1, <1>12, CallOnly DEF Errnos
  <2>2. Told' /\ IsError(error)'
    BY <1>2, <1>12, <2>1, CallReports
  <2> QED
    BY <1>1, <1>12, <2>2, CallOnly
<1>13. ASSUME state = "ready", Of(call.s).state # "refused"
       PROVE  Of(call.s).state = "connected"
  <2>1. IsReady(Of(call.s), {"read", "write"})
    BY <1>13 DEF Wait
  <2>2. CASE Of(call.s).state = "connecting"
    <3>1. Of(call.s).arrived = Of(call.s).taken /\ ~ Of(call.s).eof
      BY <1>2, <2>2 DEF Sound
    <3>2. Of(call.s).arrived \in Nat /\ Of(call.s).taken \in Nat /\ Of(call.s).held \in Nat
      BY <1>2, KernelRecordEdits
    <3> QED
      BY <2>1, <2>2, <3>1, <3>2 DEF IsReady, Readable, Waiting, Writable
  <2> QED
    BY <1>3, <1>13, <2>2
<1>14. CASE kernel' = Restored(kernel, call) /\ Connected(call) /\ Of(call.s).state = "connected"
  <2>1. socket' = [socket EXCEPT ![call.s].direction = {"read"}] /\ Succeeds(call, 0)
    BY <1>14 DEF Connected
  <2>2. {"read"} \in Ways
    BY DEF Ways
  <2>3. SocketsKept
    BY <1>2, <2>1, <2>2, DirectionEdit DEF Core
  <2>4. /\ Of(s)'.state = "connected" /\ Of(s)'.blocking = call.mode
        /\ Usable' = Usable /\ (IsError(error)' => Core')
    BY <1>1, <1>2, <1>3, <1>4, <1>8, <1>14, <2>3, RestoredEdit
  <2>5. Done(Succeeded(call, 0), socket'[s], Of(s)')
    BY <1>2, <1>3, <2>4, ConnectedDone
  <2>6. Told' /\ error' = error
    BY <1>2, <1>3, <1>8, <2>1, <2>4, <2>5, CallSucceeds
  <2> QED
    BY <2>4, <2>6, CoreErrors
<1>15. state \in {"error", "ready", "timeout"}
  BY DEF Wait
<1> QED
  BY <1>6, <1>7, <1>9, <1>10, <1>11, <1>12, <1>13, <1>14, <1>15

LEMMA ShakenGoes ==
    ASSUME Core, Good(call), call.s \in Usable, Progress(call, socket[call.s], Of(call.s)),
           call.at \in {"handshake", "shaking"}, call.timed, UNCHANGED <<socket, kernel, objects>>,
           NEW c \in CallRecords, c.op = call.op, c.s = call.s, c.timed = TRUE, c.at = "shaking",
           c.buffer = call.buffer, c.length = call.length, c.happened = call.happened, Goes(c)
    PROVE  Core' /\ Told'
<1>1. Usable' = Usable /\ Of(c.s)' = Of(c.s)
  BY CallOnly
<1>2. Good(c)
  BY DEF Good
<1>3. Progress(c, socket'[c.s], Of(c.s)')
  BY <1>1, <1>2 DEF Progress
<1>4. Told' /\ error' = error
  BY <1>1, <1>3, CallGoes
<1> QED
  BY <1>4, CallOnly, CoreErrors

LEMMA HandshakeEnds ==
    ASSUME Core, Good(call), call.s \in Usable, Progress(call, socket[call.s], Of(call.s)),
           call.at \in {"handshake", "shaking"}, kernel' = Restored(kernel, call), Succeeds(call, 0),
           UNCHANGED <<socket, objects>>
    PROVE  Core' /\ Told'
<1>1. call \in CallRecords /\ call.mode \in BOOLEAN
  BY DEF Good, CallRecords
<1>2. /\ call.op \in {"connect_tls", "accept_tls"} /\ Of(call.s).state = "connected"
      /\ Of(call.s).blocking = IF call.timed THEN FALSE ELSE call.mode
  BY DEF Progress
<1>3. SocketsKept
  BY SocketsSame DEF Core
<1>4. PICK s : s = call.s
  OBVIOUS
<1>5. /\ Of(s)'.state = "connected" /\ Of(s)'.blocking = call.mode
      /\ Usable' = Usable /\ (IsError(error)' => Core')
  BY <1>1, <1>2, <1>3, <1>4, RestoredEdit
<1>6. Done(Succeeded(call, 0), socket'[s], Of(s)')
  BY <1>2, <1>5, ConnectedDone
<1>7. Told' /\ error' = error
  BY <1>2, <1>5, <1>6, <1>4, CallSucceeds
<1> QED
  BY <1>5, <1>7, CoreErrors

LEMMA HandshakeStep == ASSUME Core, Told, Handshake PROVE Core' /\ Told'
<1>1. call # Idle /\ call.at = "handshake" /\ UNCHANGED <<socket, objects>>
  BY DEF Handshake
<1>2. /\ call.s \in Usable /\ Progress(call, socket[call.s], Of(call.s)) /\ Good(call)
      /\ call \in CallRecords
  BY <1>1, CallInPlace DEF Places, Good
<1>3. CASE kernel' = Restored(kernel, call) /\ Succeeds(call, 0)
  BY <1>1, <1>2, <1>3, HandshakeEnds
<1>4. ASSUME NEW o \in Wants, call.timed, UNCHANGED kernel,
             Goes([call EXCEPT !.at = "shaking", !.direction = Directed(o)])
      PROVE  Core' /\ Told'
  <2>1. PICK d : d = Directed(o)
    OBVIOUS
  <2>2. d \in SUBSET {"read", "write"}
    BY <2>1 DEF Directed
  <2>3. PICK c : c = [call EXCEPT !.at = "shaking", !.direction = d]
    OBVIOUS
  <2>4. /\ c \in CallRecords /\ c.op = call.op /\ c.s = call.s /\ c.timed = call.timed /\ c.at = "shaking"
        /\ c.buffer = call.buffer /\ c.length = call.length /\ c.happened = call.happened
    BY <1>2, <2>2, <2>3 DEF CallRecords, Places
  <2>5. Goes(c)
    BY <1>4, <2>1, <2>3
  <2>6. c.timed = TRUE
    BY <1>4, <2>4 DEF CallRecords
  <2> QED
    BY <1>1, <1>2, <1>4, <2>4, <2>5, <2>6, ShakenGoes
<1>5. ASSUME NEW o \in SslFailures \cup Wants, UNCHANGED kernel,
             Fails(Happens(call, o.means), TellSsl(o))
      PROVE  Core' /\ Told'
  <2>1. Usable' = Usable
    BY <1>1, <1>5, CallOnly
  <2>2. Told' /\ IsError(error)'
    BY <1>2, <1>5, <2>1, CallFailsInSsl
  <2> QED
    BY <1>1, <1>5, <2>2, CallOnly
<1> QED
  BY <1>3, <1>4, <1>5 DEF Handshake

LEMMA ShakingStep == ASSUME Core, Told, Shaking PROVE Core' /\ Told'
<1> USE SocketAssumption
<1>1. call # Idle /\ call.at = "shaking" /\ UNCHANGED <<socket, objects>>
  BY DEF Shaking
<1>2. /\ call.s \in Usable /\ Progress(call, socket[call.s], Of(call.s)) /\ Good(call)
      /\ call \in CallRecords /\ call.timed
  BY <1>1, CallInPlace DEF Places, Good, Progress
<1>3. call.timeout \in Int /\ call.timed = TRUE
  BY <1>2 DEF CallRecords
<1>4. PICK left \in Int : left = TimeLeft(call)
  BY <1>3 DEF TimeLeft
<1>5. ASSUME NEW errno \in Errnos, UNCHANGED kernel, Reports(call, errno) PROVE Core' /\ Told'
  <2>1. Usable' = Usable
    BY <1>1, <1>5, CallOnly
  <2>2. Told' /\ IsError(error)'
    BY <1>2, <1>5, <2>1, CallReports
  <2> QED
    BY <1>1, <1>5, <2>2, CallOnly
<1>6. ASSUME UNCHANGED kernel, FailsWith(call, "ETIMEDOUT") PROVE Core' /\ Told'
  <2>1. Usable' = Usable
    BY <1>1, <1>6, CallOnly
  <2>2. Told' /\ IsError(error)'
    BY <1>2, <1>6, <2>1, CallTimesOut
  <2> QED
    BY <1>1, <1>6, <2>2, CallOnly
<1>7. ASSUME UNCHANGED kernel, Goes([call EXCEPT !.timeout = left]) PROVE Core' /\ Told'
  <2>1. PICK c : c = [call EXCEPT !.timeout = left]
    OBVIOUS
  <2>2. /\ c \in CallRecords /\ c.op = call.op /\ c.s = call.s /\ c.timed = TRUE /\ c.at = "shaking"
        /\ c.buffer = call.buffer /\ c.length = call.length /\ c.happened = call.happened
    BY <1>1, <1>2, <1>3, <2>1 DEF CallRecords
  <2>3. Goes(c)
    BY <1>7, <2>1
  <2> QED
    BY <1>1, <1>2, <1>7, <2>2, <2>3, ShakenGoes
<1>8. CASE kernel' = Restored(kernel, call) /\ Succeeds(call, 0)
  BY <1>1, <1>2, <1>8, HandshakeEnds
<1>9. ASSUME NEW o \in Wants, UNCHANGED kernel,
             Goes([call EXCEPT !.timeout = left, !.direction = Directed(o)])
      PROVE  Core' /\ Told'
  <2>1. PICK d : d = Directed(o)
    OBVIOUS
  <2>2. d \in SUBSET {"read", "write"}
    BY <2>1 DEF Directed
  <2>3. PICK c : c = [call EXCEPT !.timeout = left, !.direction = d]
    OBVIOUS
  <2>4. /\ c \in CallRecords /\ c.op = call.op /\ c.s = call.s /\ c.timed = TRUE /\ c.at = "shaking"
        /\ c.buffer = call.buffer /\ c.length = call.length /\ c.happened = call.happened
    BY <1>1, <1>2, <1>3, <2>2, <2>3 DEF CallRecords
  <2>5. Goes(c)
    BY <1>9, <2>1, <2>3
  <2> QED
    BY <1>1, <1>2, <1>9, <2>4, <2>5, ShakenGoes
<1>10. ASSUME NEW o \in SslFailures \cup Wants, UNCHANGED kernel,
             Fails(Happens(call, o.means), TellSsl(o))
      PROVE  Core' /\ Told'
  <2>1. Usable' = Usable
    BY <1>1, <1>10, CallOnly
  <2>2. Told' /\ IsError(error)'
    BY <1>2, <1>10, <2>1, CallFailsInSsl
  <2> QED
    BY <1>1, <1>10, <2>2, CallOnly
<1>11. "EINTR" \in Errnos
  BY DEF Errnos
<1> QED
  BY <1>4, <1>5, <1>6, <1>7, <1>8, <1>9, <1>10, <1>11 DEF Shaking

-----------------------------------------------------------------------------
(* Reading and writing *)

LEMMA LesserOfTwo ==
    ASSUME NEW m \in Int, NEW n \in Int
    PROVE  Lesser(m, n) \in Int /\ Lesser(m, n) <= m /\ Lesser(m, n) <= n
BY DEF Lesser

LEMMA PartOfTwo ==
    ASSUME NEW m \in Int, NEW n \in Int, NEW i, i \in 1 .. Lesser(m, n)
    PROVE  i \in Nat /\ i > 0 /\ i <= m /\ i <= n
<1>1. Lesser(m, n) \in Int /\ Lesser(m, n) <= m /\ Lesser(m, n) <= n
  BY LesserOfTwo
<1> QED
  BY <1>1

LEMMA ReadOutcomes ==
    ASSUME NEW k \in KernelRecords, NEW length \in Nat, NEW o \in Read(k, length)
    PROVE  \/ o.n \in Nat /\ o.n > 0 /\ o.n <= Waiting(k) /\ o.n <= length
           \/ o.n = 0 /\ k.eof
           \/ o.n = -1 /\ o.errno \in Errnos
<1>1. Waiting(k) \in Int /\ k.blocking \in BOOLEAN /\ k.eof \in BOOLEAN
  <2>1. /\ k.arrived \in Nat /\ k.taken \in Nat /\ k.held \in Nat
        /\ k.blocking \in BOOLEAN /\ k.eof \in BOOLEAN
    BY KernelRecordEdits
  <2> QED
    BY <2>1 DEF Waiting
<1>2. CASE Waiting(k) > 0
  <2>1. PICK i \in 1 .. Lesser(Waiting(k), length) : o = Got(i)
    BY <1>2 DEF Read
  <2>2. o.n = i
    BY <2>1 DEF Got
  <2> QED
    BY <1>1, <2>1, <2>2, PartOfTwo
<1>3. CASE ~ Waiting(k) > 0 /\ k.eof
  BY <1>3 DEF Read, Got
<1>4. CASE ~ Waiting(k) > 0 /\ ~ k.eof
  <2>1. o \in Blocked(k)
    BY <1>4 DEF Read
  <2> QED
    BY <2>1 DEF Blocked, NotGot, Errnos
<1> QED
  BY <1>2, <1>3, <1>4

LEMMA WriteOutcomes ==
    ASSUME NEW k \in KernelRecords, NEW length \in Nat, NEW o \in Write(k, length)
    PROVE  \/ o.n \in 1 .. Lesser(k.room, length)
           \/ o.n = -1 /\ o.errno \in Errnos
<1>1. CASE ~ k.eof /\ k.room > 0
  <2>1. PICK i \in 1 .. Lesser(k.room, length) : o = Got(i)
    BY <1>1 DEF Write
  <2> QED
    BY <2>1 DEF Got
<1>2. CASE k.eof
  BY <1>2 DEF Write, NotGot, Errnos
<1>3. CASE ~ k.eof /\ ~ k.room > 0
  BY <1>3 DEF Write, NotGot, Errnos
<1> QED
  BY <1>1, <1>2, <1>3

\* Bytes are taken or held, that have arrived.
LEMMA ByteEdit ==
    ASSUME Core, NEW s \in Usable, NEW n \in Nat, NEW h \in Nat, n + h <= Of(s).arrived,
           kernel' = Edited(kernel, Fd(s), [Of(s) EXCEPT !.taken = n, !.held = h]),
           UNCHANGED <<socket, objects>>, Of(s).state \in {"new", "connecting"} => n = Of(s).taken
    PROVE  /\ Of(s)'.taken = n /\ Of(s)'.state = Of(s).state
           /\ Usable' = Usable /\ (IsError(error)' => Core')
<1>1. s \in Live /\ Fd(s) \in Descriptors /\ Of(s) \in KernelRecords /\ Of(s) = kernel[Fd(s)]
  BY LiveSockets DEF Usable, Core, Of
<1>2. Sound(Of(s)) /\ Of(s).state # "free" /\ Of(s).arrived \in Nat /\ Of(s).taken \in Nat
  BY <1>1, KernelRecordEdits DEF Core, TakesWhatArrived, Owned
<1>3. PICK k : k = [Of(s) EXCEPT !.taken = n, !.held = h]
  OBVIOUS
<1>4. k \in KernelRecords
  BY <1>1, <1>3, KernelBytesEdit
<1>5. /\ k.state = Of(s).state /\ k.owner = Of(s).owner /\ k.arrived = Of(s).arrived
      /\ k.taken = n /\ k.held = h /\ k.eof = Of(s).eof
  BY <1>1, <1>3 DEF KernelRecords
<1>6. Sound(k)
  BY <1>2, <1>5 DEF Sound
<1>7. kernel' = Edited(kernel, Fd(s), k)
  BY <1>3
<1>8. SocketsKept
  BY SocketsSame DEF Core
<1> QED
  BY <1>2, <1>4, <1>5, <1>6, <1>7, <1>8, StepKeepsCore

\* The numbers of a descriptor that has bytes waiting.
LEMMA WaitingBytes ==
    ASSUME Core, NEW s \in Usable
    PROVE  /\ Of(s).taken \in Nat /\ Of(s).held \in Nat /\ Of(s).arrived \in Nat
           /\ Of(s) = kernel[Fd(s)] /\ Of(s) \in KernelRecords /\ Of(s).taken + Of(s).held <= Of(s).arrived
           /\ Waiting(Of(s)) = Of(s).arrived - (Of(s).taken + Of(s).held)
           /\ Waiting(Of(s)) > 0 => Of(s).state \notin {"new", "connecting"}
<1>1. Of(s) \in KernelRecords /\ Fd(s) \in Descriptors /\ Of(s) = kernel[Fd(s)]
  BY LiveSockets DEF Usable, Core, Of
<1>2. Sound(Of(s)) /\ Of(s).taken \in Nat /\ Of(s).held \in Nat /\ Of(s).arrived \in Nat
  BY <1>1, KernelRecordEdits DEF Core, TakesWhatArrived
<1> QED
  BY <1>1, <1>2 DEF Sound, Waiting

\* A part of what waits is taken.
LEMMA TakenEdit ==
    ASSUME Core, NEW s \in Usable, NEW n \in Nat, n > 0, n <= Waiting(Of(s)),
           kernel' = [kernel EXCEPT ![Fd(s)].taken = @ + n], UNCHANGED <<socket, objects>>
    PROVE  /\ Of(s)'.taken = Of(s).taken + n /\ Of(s)'.state = Of(s).state
           /\ Usable' = Usable /\ (IsError(error)' => Core')
<1>1. /\ Of(s).taken \in Nat /\ Of(s).held \in Nat /\ Of(s).arrived \in Nat
      /\ Of(s) = kernel[Fd(s)] /\ Of(s) \in KernelRecords
      /\ Waiting(Of(s)) = Of(s).arrived - (Of(s).taken + Of(s).held)
      /\ Waiting(Of(s)) > 0 => Of(s).state \notin {"new", "connecting"}
  BY WaitingBytes
<1>2. PICK t \in Nat, h \in Nat : t = Of(s).taken + n /\ h = Of(s).held
  <2>1. Of(s).taken + n \in Nat /\ Of(s).held \in Nat
    BY <1>1
  <2> QED
    BY <2>1
<1>3. [Of(s) EXCEPT !.taken = @ + n] = [Of(s) EXCEPT !.taken = t, !.held = h]
  BY <1>1, <1>2 DEF KernelRecords
<1>4. kernel' = Edited(kernel, Fd(s), [Of(s) EXCEPT !.taken = t, !.held = h])
  BY <1>1, <1>3 DEF Edited
<1>5. t + h <= Of(s).arrived /\ Of(s).state \notin {"new", "connecting"}
  BY <1>1, <1>2
<1> QED
  BY <1>2, <1>4, <1>5, ByteEdit

\* Room is taken by what is written.
LEMMA RoomEdit ==
    ASSUME Core, NEW s \in Usable, NEW n \in 0 .. MaxRoom,
           kernel' = [kernel EXCEPT ![Fd(s)].room = n], UNCHANGED <<socket, objects>>
    PROVE  Usable' = Usable /\ (IsError(error)' => Core')
<1>1. s \in Live /\ Fd(s) \in Descriptors /\ Of(s) \in KernelRecords /\ Of(s) = kernel[Fd(s)]
  BY LiveSockets DEF Usable, Core, Of
<1>2. Sound(Of(s)) /\ Of(s).state # "free"
  BY <1>1 DEF Core, TakesWhatArrived, Owned
<1>3. PICK k : k = [Of(s) EXCEPT !.room = n]
  OBVIOUS
<1>4. k \in KernelRecords
  BY <1>1, <1>3, KernelRecordEdits
<1>5. /\ k.state = Of(s).state /\ k.owner = Of(s).owner /\ k.arrived = Of(s).arrived
      /\ k.taken = Of(s).taken /\ k.held = Of(s).held /\ k.eof = Of(s).eof
  BY <1>1, <1>3 DEF KernelRecords
<1>6. Sound(k)
  BY <1>2, <1>5 DEF Sound
<1>7. kernel' = Edited(kernel, Fd(s), k)
  BY <1>1, <1>3 DEF Edited
<1>8. SocketsKept
  BY SocketsSame DEF Core
<1> QED
  BY <1>2, <1>4, <1>5, <1>6, <1>7, <1>8, StepKeepsCore

\* A step of the call in progress that only fails.
LEMMA StepReports ==
    ASSUME Core, Good(call), call.s \in Usable, UNCHANGED <<socket, kernel, objects>>,
           NEW errno \in Errnos, Reports(call, errno)
    PROVE  Core' /\ Told'
<1>1. Usable' = Usable
  BY CallOnly
<1>2. Told' /\ IsError(error)'
  BY <1>1, CallReports
<1> QED
  BY <1>2, CallOnly

LEMMA StepFailsInSsl ==
    ASSUME Core, Good(call), call.s \in Usable, UNCHANGED <<socket, kernel, objects>>,
           NEW o \in SslFailures \cup Wants, Fails(Happens(call, o.means), TellSsl(o))
    PROVE  Core' /\ Told'
<1>1. Usable' = Usable
  BY CallOnly
<1>2. Told' /\ IsError(error)'
  BY <1>1, CallFailsInSsl
<1> QED
  BY <1>2, CallOnly

LEMMA StepTimesOut ==
    ASSUME Core, Good(call), call.s \in Usable, UNCHANGED <<socket, kernel, objects>>,
           call.timed, FailsWith(call, "ETIMEDOUT")
    PROVE  Core' /\ Told'
<1>1. Usable' = Usable
  BY CallOnly
<1>2. Told' /\ IsError(error)'
  BY <1>1, CallTimesOut
<1> QED
  BY <1>2, CallOnly

LEMMA WaitFails ==
    ASSUME Core, Good(call), call.s \in Usable, UNCHANGED <<socket, objects>>,
           NEW direction, NotReady(direction)
    PROVE  Core' /\ Told'
<1>1. UNCHANGED kernel
  BY DEF NotReady
<1>2. PICK state \in Waits(direction) \ {"ready"} :
          IF state = "timeout" THEN FailsWith(call, "ETIMEDOUT") ELSE Reports(call, "EINTR")
  BY DEF NotReady
<1>3. call.timed
  BY <1>2 DEF Waits
<1>4. "EINTR" \in Errnos
  BY DEF Errnos
<1> QED
  BY <1>1, <1>2, <1>3, <1>4, StepTimesOut, StepReports

LEMMA ReceivesStep == ASSUME Core, Told, Receives PROVE Core' /\ Told'
<1>1. call # Idle /\ call.at = "recvfrom" /\ UNCHANGED <<socket, objects>>
  BY DEF Receives
<1>2. /\ call.s \in Usable /\ Progress(call, socket[call.s], Of(call.s)) /\ Good(call)
      /\ Of(call.s) \in KernelRecords /\ Sound(Of(call.s))
  BY <1>1, CallInPlace DEF Places
<1>3. call.op \in {"recvfrom", "recvfrom_multiple"} /\ Of(call.s).state = "listening"
  BY <1>1, <1>2 DEF Progress
<1>4. PICK o \in Read(Of(call.s), 1) :
          IF o.n < 0 THEN Reports(call, o.errno) /\ UNCHANGED kernel
          ELSE /\ Succeeds(call, o.n)
               /\ kernel' = [kernel EXCEPT ![Fd(call.s)].taken = @ + 1]
  BY DEF Receives
<1>5. \/ o.n \in Nat /\ o.n > 0 /\ o.n <= Waiting(Of(call.s)) /\ o.n <= 1
      \/ o.n = 0 /\ Of(call.s).eof
      \/ o.n = -1 /\ o.errno \in Errnos
  BY <1>2, ReadOutcomes
<1>6. CASE o.n = -1 /\ o.errno \in Errnos
  <2>1. Reports(call, o.errno) /\ UNCHANGED kernel
    BY <1>4, <1>6
  <2> QED
    BY <1>1, <1>2, <1>6, <2>1, StepReports
<1>7. ~ Of(call.s).eof
  BY <1>2, <1>3 DEF Sound
<1>8. CASE o.n \in Nat /\ o.n > 0 /\ o.n <= Waiting(Of(call.s)) /\ o.n <= 1
  <2>1. PICK n \in Nat : n = 1 /\ n > 0 /\ n <= Waiting(Of(call.s)) /\ o.n = 1
    BY <1>8
  <2>2. Succeeds(call, 1) /\ kernel' = [kernel EXCEPT ![Fd(call.s)].taken = @ + n]
    BY <1>4, <2>1
  <2>3. PICK s : s = call.s
    OBVIOUS
  <2>4. Usable' = Usable /\ (IsError(error)' => Core')
    BY <1>1, <1>2, <2>1, <2>2, TakenEdit
  <2>5. Done(Succeeded(call, 1), socket'[s], Of(s)')
    BY <1>2, <1>3, SucceededCall DEF Done
  <2>6. Told' /\ error' = error
    BY <1>2, <1>3, <2>2, <2>3, <2>4, <2>5, CallSucceeds
  <2> QED
    BY <2>4, <2>6, CoreErrors
<1> QED
  BY <1>5, <1>6, <1>7, <1>8

Joint(buffer, part) == buffer \o part

\* The stream that goes on where the buffer ended.
LEMMA PutContinues ==
    ASSUME NEW from \in Nat, NEW v \in Nat, NEW n \in Nat, NEW m, m = from + v, NEW t, t = v + n,
           NEW buffer, buffer = From(from, v), NEW part, part = From(m, n)
    PROVE  Put(buffer, v, part) = From(from, t) /\ Joint(buffer, part) = From(from, t)
<1> USE DEF From
<1>1. buffer \in Seq(Nat) /\ part \in Seq(Nat) /\ Len(buffer) = v /\ Len(part) = n
  OBVIOUS
<1>2. SubSeq(buffer, 1, v) = buffer
  BY <1>1
<1>3. PICK b : b = buffer \o part
  OBVIOUS
<1>4. /\ b \in Seq(Nat) /\ Len(b) = v + n
      /\ \A j \in 1 .. v : b[j] = buffer[j]
      /\ \A j \in v + 1 .. v + n : b[j] = part[j - v]
  BY <1>1, <1>3, Joined
<1>5. ASSUME NEW j \in 1 .. v + n PROVE b[j] = from + j
  <2>1. CASE j \in 1 .. v
    BY <1>4, <2>1
  <2>2. CASE j \in v + 1 .. v + n
    <3>1. j - v \in 1 .. n
      BY <2>2
    <3>2. part[j - v] = from + v + (j - v)
      BY <3>1
    <3> QED
      BY <1>4, <2>2, <3>2
  <2> QED
    BY <2>1, <2>2
<1>6. DOMAIN b = 1 .. v + n /\ b = [j \in DOMAIN b |-> b[j]]
  BY <1>4
<1>7. b = [i \in 1 .. v + n |-> from + i]
  BY <1>5, <1>6
<1> QED
  BY <1>2, <1>3, <1>7 DEF Put, Joint

LEMMA ReadsStep == ASSUME Core, Told, Reads PROVE Core' /\ Told'
<1>1. call # Idle /\ call.at = "read" /\ ~ socket[call.s].ssl /\ UNCHANGED <<socket, objects>>
  BY DEF Reads
<1>2. /\ call.s \in Usable /\ Progress(call, socket[call.s], Of(call.s)) /\ Good(call)
      /\ Of(call.s) \in KernelRecords /\ Sound(Of(call.s)) /\ call \in CallRecords
  BY <1>1, CallInPlace DEF Places, Good
<1>3. /\ call.op = "read" /\ call.value \in 0 .. call.length
      /\ Of(call.s).taken = call.from + call.value
      /\ call.buffer = [i \in 1 .. call.value |-> call.from + i]
  BY <1>1, <1>2 DEF Progress
<1>4. call.length \in Nat /\ call.from \in Nat /\ call.value \in Nat
  BY <1>2, <1>3 DEF CallRecords
<1>5. PICK s \in Usable, from \in Nat, v \in Nat, length \in Nat :
          s = call.s /\ from = call.from /\ v = call.value /\ length = call.length
  BY <1>2, <1>4
<1>6. CASE NotReady({"read"})
  BY <1>1, <1>2, <1>6, WaitFails
<1>7. ASSUME NEW o \in Read(Of(s), length - v),
             LET filled == [call EXCEPT
                        !.buffer = Put(@, call.value, Bytes(Of(call.s), o.n)),
                        !.value = @ + o.n]
             IN  CASE o.n < 0 -> Reports(call, o.errno) /\ UNCHANGED kernel
                   [] o.n = 0 -> /\ Fails(Happens(call, <<"libwired", "eof">>),
                                          SetLibwiredError("eof"))
                                 /\ UNCHANGED kernel
                   [] OTHER -> /\ kernel' = [kernel EXCEPT ![Fd(call.s)].taken = @ + o.n]
                               /\ IF filled.value = call.length
                                  THEN Succeeds(filled, filled.value) ELSE Goes(filled)
      PROVE  Core' /\ Told'
  <2>1. length - v \in Nat
    BY <1>3, <1>5
  <2>2. \/ o.n \in Nat /\ o.n > 0 /\ o.n <= Waiting(Of(s)) /\ o.n <= length - v
        \/ o.n = 0 /\ Of(s).eof
        \/ o.n = -1 /\ o.errno \in Errnos
    BY <1>2, <1>5, <1>7, <2>1, ReadOutcomes
  <2>3. CASE o.n = -1 /\ o.errno \in Errnos
    <3>1. Reports(call, o.errno) /\ UNCHANGED kernel
      BY <1>7, <2>3
    <3> QED
      BY <1>1, <1>2, <2>3, <3>1, StepReports
  <2>4. CASE o.n = 0
    <3>1. /\ Fails(Happens(call, <<"libwired", "eof">>), SetLibwiredError("eof"))
          /\ UNCHANGED kernel
      BY <1>7, <2>4
    <3>2. Usable' = Usable
      BY <1>1, <3>1, CallOnly
    <3>3. <<"libwired", "eof">> \in Failures
      BY DEF Failures
    <3>4. /\ Good(Happens(call, <<"libwired", "eof">>))
          /\ <<"libwired", "eof">> \in Happens(call, <<"libwired", "eof">>).happened
          /\ Happens(call, <<"libwired", "eof">>).s = call.s
      BY <1>2, <3>3, HappensToCall
    <3>5. /\ SetLibwiredError("eof").domain = "libwired" /\ SetLibwiredError("eof").code = "eof"
          /\ IsError(SetLibwiredError("eof"))
      BY DEF SetLibwiredError, SetError, IsError, Domains
    <3>6. Told' /\ error' = SetLibwiredError("eof")
      BY <1>2, <3>1, <3>2, <3>4, <3>5, CallFails
    <3> QED
      BY <1>1, <3>1, <3>5, <3>6, CallOnly
  <2>5. CASE o.n \in Nat /\ o.n > 0 /\ o.n <= Waiting(Of(s)) /\ o.n <= length - v
    <3>1. PICK n \in Nat : n = o.n
      BY <2>5
    <3>2. PICK buffer, part, b :
              buffer = call.buffer /\ part = Bytes(Of(s), n) /\ b = Put(buffer, v, part)
      OBVIOUS
    <3>3. PICK m, t : m = from + v /\ t = v + n
      OBVIOUS
    <3>4. buffer = From(from, v) /\ part = From(m, n)
      BY <1>3, <1>5, <3>2, <3>3 DEF Bytes, From
    <3>5. b = From(from, t)
      BY <3>2, <3>3, <3>4, PutContinues
    <3>6. b = [i \in 1 .. v + n |-> from + i]
      BY <3>3, <3>5 DEF From
    <3>7. v + n \in Nat /\ v + n \in 0 .. length
      BY <2>5, <3>1
    <3>8. b \in Seq(Nat) /\ Len(b) = v + n
      BY <3>6, <3>7
    <3>9. PICK c : c = [call EXCEPT !.buffer = b, !.value = v + n]
      OBVIOUS
    <3>10. /\ c \in CallRecords /\ c.buffer = b /\ c.value = v + n /\ c.op = "read" /\ c.s = s
          /\ c.at = "read" /\ c.from = from /\ c.length = length /\ c.timed = call.timed
          /\ c.happened = call.happened
      BY <1>1, <1>2, <1>3, <1>5, <3>7, <3>8, <3>9 DEF CallRecords
    <3>11. Good(c)
      BY <1>2, <3>7, <3>8, <3>10 DEF Good
    <3>12. c = [call EXCEPT !.buffer = Put(@, call.value, Bytes(Of(call.s), o.n)), !.value = @ + o.n]
      BY <1>5, <3>1, <3>2, <3>9
    <3>13. /\ kernel' = [kernel EXCEPT ![Fd(s)].taken = @ + n]
           /\ IF c.value = length THEN Succeeds(c, c.value) ELSE Goes(c)
      BY <1>5, <1>7, <2>5, <3>1, <3>12
    <3>14. /\ Of(s)'.taken = Of(s).taken + n /\ Usable' = Usable /\ (IsError(error)' => Core')
      BY <1>1, <1>2, <1>5, <2>5, <3>1, <3>13, TakenEdit
    <3>15. Of(s)'.taken = from + (v + n)
      BY <1>3, <1>5, <3>14
    <3>16. CASE v + n = length
      <4>1. Succeeds(c, v + n)
        BY <3>10, <3>13, <3>16
      <4>2. socket'[s].ssl = socket[s].ssl
        BY <1>1
      <4>3. PICK r : r = Succeeded(c, v + n)
        OBVIOUS
      <4>4. /\ r.op = "read" /\ r.from = from /\ r.length = length /\ r.buffer = b
            /\ r.value = v + n
        BY <3>10, <3>11, <3>7, <4>3, SucceededCall
      <4>5. Done(r, socket'[s], Of(s)')
        BY <1>1, <1>5, <3>6, <3>7, <3>15, <3>16, <4>2, <4>4 DEF Done
      <4>6. Told' /\ error' = error
        BY <1>5, <3>10, <3>11, <3>7, <3>14, <4>1, <4>3, <4>5, CallSucceeds
      <4> QED
        BY <3>14, <4>6, CoreErrors
    <3>17. CASE v + n # length
      <4>1. Goes(c)
        BY <3>10, <3>13, <3>17
      <4>2. socket'[s].ssl = socket[s].ssl
        BY <1>1
      <4>3. Progress(c, socket'[s], Of(s)')
        BY <1>1, <1>5, <3>6, <3>7, <3>8, <3>10, <3>11, <3>15, <4>2 DEF Progress
      <4>4. Told' /\ error' = error
        BY <1>2, <1>5, <3>10, <3>14, <4>1, <4>3, CallGoes
      <4> QED
        BY <3>14, <4>4, CoreErrors
    <3> QED
      BY <3>16, <3>17
  <2> QED
    BY <2>2, <2>3, <2>4, <2>5
<1> QED
  BY <1>5, <1>6, <1>7 DEF Reads, Left

\* A call that goes on elsewhere, or where it was, with the same progress.
LEMMA GoesElsewhere ==
    ASSUME Core, Good(call), call.s \in Usable, Progress(call, socket[call.s], Of(call.s)),
           UNCHANGED <<socket, objects>>, Usable' = Usable, IsError(error)' => Core',
           NEW s, s = call.s, Of(s)'.taken = Of(s).taken, NEW place \in Places, NEW b \in BOOLEAN,
           \/ call.at \in {"read", "reading"} /\ place = "read"
           \/ call.at \in {"read", "reading"} /\ place = "reading" /\ socket[call.s].ssl
           \/ call.at \in {"write", "writing"} /\ place \in {"write", "writing"},
           Goes([call EXCEPT !.at = place, !.moved = b])
    PROVE  Core' /\ Told'
<1>1. PICK c : c = [call EXCEPT !.at = place, !.moved = b]
  OBVIOUS
<1>2. /\ c \in CallRecords /\ c.op = call.op /\ c.s = call.s /\ c.timed = call.timed /\ c.at = place
      /\ c.buffer = call.buffer /\ c.length = call.length /\ c.happened = call.happened
      /\ c.from = call.from /\ c.value = call.value
  BY <1>1 DEF CallRecords, Good
<1>3. Good(c) /\ Goes(c)
  BY <1>1, <1>2 DEF Good
<1>4. c.s \in Usable' /\ socket'[c.s] = socket[c.s]
  BY <1>2
<1>5. c.s = s /\ Of(c.s)'.taken = Of(c.s).taken
  BY <1>2
<1>6. CASE call.at \in {"read", "reading"} /\ place \in {"read", "reading"}
  <2>1. /\ c.op = "read" /\ c.value \in 0 .. c.length /\ Of(c.s).taken = c.from + c.value
        /\ c.buffer = [i \in 1 .. c.value |-> c.from + i] /\ (socket[c.s].ssl => c.value = 0)
    BY <1>2, <1>6 DEF Progress
  <2>2. place = "reading" => socket[c.s].ssl
    BY <1>2
  <2>3. Progress(c, socket'[c.s], Of(c.s)')
    BY <1>2, <1>3, <1>4, <1>5, <1>6, <2>1, <2>2 DEF Progress
  <2>4. Told' /\ error' = error
    BY <1>2, <1>3, <1>4, <1>6, <2>3, CallGoes
  <2> QED
    BY <2>4, CoreErrors
<1>7. CASE call.at \in {"write", "writing"} /\ place \in {"write", "writing"}
  <2>1. c.op = "write" /\ c.value \in 0 .. c.length /\ c.buffer = [i \in 1 .. c.value |-> i]
    BY <1>2, <1>7 DEF Progress
  <2>2. Progress(c, socket'[c.s], Of(c.s)')
    BY <1>2, <1>3, <1>7, <2>1 DEF Progress
  <2>3. Told' /\ error' = error
    BY <1>2, <1>3, <1>4, <1>7, <2>2, CallGoes
  <2> QED
    BY <2>3, CoreErrors
<1> QED
  BY <1>6, <1>7

\* The same when nothing but the call has changed.
LEMMA MovesOn ==
    ASSUME Core, Good(call), call.s \in Usable, Progress(call, socket[call.s], Of(call.s)),
           UNCHANGED <<socket, kernel, objects>>, NEW place \in Places, NEW b \in BOOLEAN,
           \/ call.at \in {"read", "reading"} /\ place = "read"
           \/ call.at \in {"read", "reading"} /\ place = "reading" /\ socket[call.s].ssl
           \/ call.at \in {"write", "writing"} /\ place \in {"write", "writing"},
           Goes([call EXCEPT !.at = place, !.moved = b])
    PROVE  Core' /\ Told'
<1>1. PICK s \in Usable : s = call.s
  OBVIOUS
<1>2. Usable' = Usable /\ (IsError(error)' => Core') /\ Of(s)' = Of(s)
  BY CallOnly
<1> QED
  BY <1>1, <1>2, GoesElsewhere

\* A place is written down as it is, and so is what has moved.
LEMMA SamePlace ==
    ASSUME Good(call)
    PROVE  /\ call.moved \in BOOLEAN /\ call.at \in Places
           /\ call = [call EXCEPT !.at = call.at, !.moved = call.moved]
           /\ \A place : [call EXCEPT !.at = place]
                         = [call EXCEPT !.at = place, !.moved = call.moved]
BY DEF Good, CallRecords

LEMMA SslFailsStep ==
    ASSUME Core, Good(call), call.s \in Usable, UNCHANGED <<socket, objects>>,
           NEW failures, failures \subseteq SslFailures \cup Wants, SslFails(failures)
    PROVE  Core' /\ Told'
<1>1. PICK o \in failures : Fails(Happens(call, o.means), TellSsl(o))
  BY DEF SslFails
<1>2. o \in SslFailures \cup Wants /\ UNCHANGED kernel
  BY DEF SslFails
<1> QED
  BY <1>1, <1>2, StepFailsInSsl

\* What SSL_read may do, called at "read" or still in it at "reading".
LEMMA SslReadStep ==
    ASSUME Core, Good(call), call.s \in Usable, Progress(call, socket[call.s], Of(call.s)),
           call.at \in {"read", "reading"}, socket[call.s].ssl, UNCHANGED <<socket, objects>>, SslRead
    PROVE  Core' /\ Told'
<1>1. PICK s \in Usable : s = call.s
  OBVIOUS
<1>2. /\ Of(s).taken \in Nat /\ Of(s).held \in Nat /\ Of(s).arrived \in Nat
      /\ Of(s) = kernel[Fd(s)] /\ Of(s) \in KernelRecords
      /\ Waiting(Of(s)) = Of(s).arrived - (Of(s).taken + Of(s).held)
      /\ Waiting(Of(s)) > 0 => Of(s).state \notin {"new", "connecting"}
  BY WaitingBytes
<1>3. /\ call.op = "read" /\ call.value = 0 /\ Of(s).taken = call.from + call.value
      /\ call.length \in Nat /\ call.from \in Nat /\ call \in CallRecords
  BY <1>1 DEF Progress, Good, CallRecords
<1>4. PICK from \in Nat, length \in Nat : from = call.from /\ length = call.length /\ Of(s).taken = from
  BY <1>3
<1>5. ASSUME Waiting(Of(s)) > 0, NEW n \in Nat,
             n \in 1 .. Lesser(Of(s).arrived - Of(s).taken, length),
             kernel' = [kernel EXCEPT ![Fd(s)].taken = @ + n, ![Fd(s)].held = 0],
             Succeeds([call EXCEPT !.buffer = Bytes(Of(s), n)], n)
      PROVE  Core' /\ Told'
  <2>1. n \in Nat /\ n > 0 /\ n <= Of(s).arrived - Of(s).taken /\ n <= length
    <3>1. Of(s).arrived - Of(s).taken \in Int /\ length \in Int
      BY <1>2
    <3> QED
      BY <1>5, <3>1, PartOfTwo
  <2>2. PICK b : b = Bytes(Of(s), n)
    OBVIOUS
  <2>3. b = [i \in 1 .. n |-> from + i]
    BY <1>4, <2>2 DEF Bytes
  <2>4. b \in Seq(Nat) /\ Len(b) = n
    BY <2>1, <2>3
  <2>5. PICK c : c = [call EXCEPT !.buffer = b]
    OBVIOUS
  <2>6. /\ c \in CallRecords /\ c.buffer = b /\ c.op = "read" /\ c.s = s /\ c.from = from
        /\ c.length = length /\ c.timed = call.timed /\ c.happened = call.happened
    BY <1>1, <1>3, <1>4, <2>4, <2>5 DEF CallRecords
  <2>7. Good(c)
    BY <2>1, <2>4, <2>6 DEF Good
  <2>8. Succeeds(c, n)
    BY <1>5, <2>2, <2>5
  <2>9. PICK t \in Nat, z \in Nat : t = from + n /\ z = 0
    BY <2>1
  <2>10. [[Of(s) EXCEPT !.taken = @ + n] EXCEPT !.held = 0] = [Of(s) EXCEPT !.taken = t, !.held = z]
    BY <1>2, <1>4, <2>9 DEF KernelRecords
  <2>11. [kernel EXCEPT ![Fd(s)].taken = @ + n, ![Fd(s)].held = 0]
         = Edited(kernel, Fd(s), [[Of(s) EXCEPT !.taken = @ + n] EXCEPT !.held = 0])
    <3>1. Fd(s) \in Descriptors /\ kernel \in [Descriptors -> KernelRecords]
      BY LiveSockets DEF Core, Typed, Usable
    <3> QED
      BY <1>2, <3>1 DEF Edited
  <2>12. kernel' = Edited(kernel, Fd(s), [Of(s) EXCEPT !.taken = t, !.held = z])
    BY <1>5, <2>10, <2>11
  <2>13. t + z <= Of(s).arrived
    BY <1>2, <1>4, <2>1, <2>9
  <2>14. Of(s)'.taken = t /\ Usable' = Usable /\ (IsError(error)' => Core')
    BY <1>2, <1>5, <2>12, <2>13, ByteEdit
  <2>15. PICK r : r = Succeeded(c, n)
    OBVIOUS
  <2>16. r.op = "read" /\ r.from = from /\ r.length = length /\ r.buffer = b /\ r.value = n
    <3>1. n \in Nat \cup Sockets
      OBVIOUS
    <3>2. /\ Succeeded(c, n).op = c.op /\ Succeeded(c, n).from = c.from /\ Succeeded(c, n).length = c.length
          /\ Succeeded(c, n).buffer = c.buffer /\ Succeeded(c, n).value = n
      BY <2>7, <3>1, SucceededCall
    <3> QED
      BY <2>6, <2>15, <3>2
  <2>17. socket'[s].ssl /\ n \in 1 .. length
    BY <1>1, <2>1
  <2>18. Done(r, socket'[s], Of(s)')
    BY <2>1, <2>3, <2>9, <2>14, <2>16, <2>17 DEF Done
  <2>19. Told' /\ error' = error
    BY <1>1, <2>1, <2>6, <2>7, <2>8, <2>14, <2>15, <2>18, CallSucceeds
  <2> QED
    BY <2>14, <2>19, CoreErrors
<1>6. ASSUME Waiting(Of(s)) > 0, Goes(call),
             kernel' = [kernel EXCEPT ![Fd(s)].held = @ + Waiting(Of(s))]
      PROVE  Core' /\ Told'
  <2>1. PICK t \in Nat, h \in Nat : t = Of(s).taken /\ h = Of(s).held + Waiting(Of(s))
    BY <1>2, <1>6
  <2>2. [Of(s) EXCEPT !.held = @ + Waiting(Of(s))] = [Of(s) EXCEPT !.taken = t, !.held = h]
    BY <1>2, <2>1 DEF KernelRecords
  <2>3. kernel' = Edited(kernel, Fd(s), [Of(s) EXCEPT !.taken = t, !.held = h])
    BY <1>2, <1>6, <2>2 DEF Edited
  <2>4. t + h <= Of(s).arrived
    BY <1>2, <2>1
  <2>5. Of(s)'.taken = t /\ Usable' = Usable /\ (IsError(error)' => Core')
    BY <1>2, <1>6, <2>3, <2>4, ByteEdit
  <2>6. /\ Goes([call EXCEPT !.at = call.at, !.moved = call.moved])
        /\ call.at \in Places /\ call.moved \in BOOLEAN
    BY <1>6, SamePlace
  <2>7. Of(s)'.taken = Of(s).taken
    BY <2>1, <2>5
  <2> QED
    BY <1>1, <2>5, <2>6, <2>7, GoesElsewhere
<1>7. CASE SslFails(SslFailures)
  BY <1>7, SslFailsStep
<1> QED
  <2>1. \A n \in 1 .. Lesser(Of(s).arrived - Of(s).taken, length) : n \in Nat
    OBVIOUS
  <2> QED
    BY <1>1, <1>4, <1>5, <1>6, <1>7, <2>1 DEF SslRead

LEMMA ReadsTlsStep == ASSUME Core, Told, ReadsTls PROVE Core' /\ Told'
<1>1. call # Idle /\ call.at = "read" /\ socket[call.s].ssl /\ UNCHANGED <<socket, objects>>
  BY DEF ReadsTls
<1>2. call.s \in Usable /\ Progress(call, socket[call.s], Of(call.s)) /\ Good(call)
  BY <1>1, CallInPlace DEF Places
<1>3. CASE NotReady({"read"})
  BY <1>1, <1>2, <1>3, WaitFails
<1>4. CASE Goes([call EXCEPT !.at = "reading"]) /\ UNCHANGED kernel
  <2>1. Goes([call EXCEPT !.at = "reading", !.moved = call.moved]) /\ call.moved \in BOOLEAN
    BY <1>2, <1>4, SamePlace
  <2>2. "reading" \in Places
    BY DEF Places
  <2> QED
    BY <1>1, <1>2, <1>4, <2>1, <2>2, MovesOn
<1>5. CASE SslRead
  BY <1>1, <1>2, <1>5, SslReadStep
<1>6. CASE SslFails({o \in Wants : o.code = "want_write"})
  <2>1. {o \in Wants : o.code = "want_write"} \subseteq SslFailures \cup Wants
    OBVIOUS
  <2> QED
    BY <1>1, <1>2, <1>6, <2>1, SslFailsStep
<1> QED
  BY <1>3, <1>4, <1>5, <1>6 DEF ReadsTls

LEMMA ReadingStep == ASSUME Core, Told, Reading PROVE Core' /\ Told'
<1>1. call # Idle /\ call.at = "reading" /\ SslRead /\ UNCHANGED <<socket, objects>>
  BY DEF Reading
<1>2. call.s \in Usable /\ Progress(call, socket[call.s], Of(call.s)) /\ Good(call)
  BY <1>1, CallInPlace DEF Places
<1>3. socket[call.s].ssl
  BY <1>1, <1>2 DEF Progress
<1> QED
  BY <1>1, <1>2, <1>3, SslReadStep

\* What is written follows what has been written, whoever waits for it.
LEMMA SendsStep ==
    ASSUME Core, Good(call), call.s \in Usable, Progress(call, socket[call.s], Of(call.s)),
           call.at \in {"write", "writing"}, UNCHANGED <<socket, objects>>,
           NEW n \in Nat, n \in 1 .. Lesser(Of(call.s).room, Left(call)), Sends(n)
    PROVE  Core' /\ Told'
<1>1. /\ call.op = "write" /\ call.value \in 0 .. call.length
      /\ call.buffer = [i \in 1 .. call.value |-> i]
  BY DEF Progress
<1>2. call \in CallRecords /\ call.length \in Nat /\ call.value \in Nat
  BY <1>1 DEF CallRecords, Good
<1>3. PICK s \in Usable, v \in Nat, length \in Nat :
          s = call.s /\ v = call.value /\ length = call.length
  BY <1>2
<1>4. Of(s) = kernel[Fd(s)] /\ Of(s) \in KernelRecords
  BY WaitingBytes
<1>5. Of(s).room \in 0 .. MaxRoom /\ Of(s).room \in Int /\ Left(call) = length - v /\ Left(call) \in Int
  <2>1. Of(s).room \in 0 .. MaxRoom
    BY <1>4, KernelRecordEdits
  <2> QED
    BY <1>3, <2>1, SocketAssumption DEF Left
<1>6. n \in Nat /\ n > 0 /\ n <= Of(s).room /\ n <= length - v
  BY <1>3, <1>5, PartOfTwo
<1>7. PICK buffer, part, b :
          buffer = call.buffer /\ part = From(v, n) /\ b = Joint(buffer, part)
  OBVIOUS
<1>8. PICK t, zero \in Nat : t = v + n /\ zero = 0 /\ v = zero + v
  OBVIOUS
<1>9. buffer = From(zero, v)
  BY <1>1, <1>3, <1>7, <1>8 DEF From
<1>10. b = From(zero, t)
  BY <1>6, <1>7, <1>8, <1>9, PutContinues
<1>11. b = [i \in 1 .. v + n |-> i]
  BY <1>8, <1>10 DEF From
<1>12. v + n \in Nat /\ v + n \in 0 .. length
  BY <1>6
<1>13. b \in Seq(Nat) /\ Len(b) = v + n
  BY <1>11, <1>12
<1>14. PICK c : c = [call EXCEPT !.buffer = b, !.value = v + n, !.moved = TRUE]
  OBVIOUS
<1>15. /\ c \in CallRecords /\ c.buffer = b /\ c.value = v + n /\ c.op = "write" /\ c.s = s
       /\ c.at \in {"write", "writing"} /\ c.length = length /\ c.timed = call.timed
       /\ c.happened = call.happened
  BY <1>1, <1>2, <1>3, <1>12, <1>13, <1>14 DEF CallRecords
<1>16. Good(c)
  BY <1>12, <1>13, <1>15 DEF Good
<1>17. c = [call EXCEPT !.buffer = @ \o From(call.value, n), !.value = @ + n, !.moved = TRUE]
  BY <1>3, <1>7, <1>14 DEF Joint
<1>18. /\ kernel' = [kernel EXCEPT ![Fd(call.s)].room = @ - n]
       /\ IF c.value = length THEN Succeeds(c, c.value) ELSE Goes(c)
  BY <1>3, <1>17 DEF Sends
<1>19. PICK room \in 0 .. MaxRoom : room = Of(s).room - n
  BY <1>5, <1>6, SocketAssumption
<1>20. kernel' = [kernel EXCEPT ![Fd(s)].room = room]
  BY <1>3, <1>4, <1>18, <1>19
<1>21. Usable' = Usable /\ (IsError(error)' => Core')
  BY <1>20, RoomEdit
<1>22. CASE v + n = length
  <2>1. Succeeds(c, v + n)
    BY <1>15, <1>18, <1>22
  <2>2. PICK r : r = Succeeded(c, v + n)
    OBVIOUS
  <2>3. r.op = "write" /\ r.length = length /\ r.buffer = b /\ r.value = v + n
    <3>1. v + n \in Nat \cup Sockets
      BY <1>12
    <3>2. /\ Succeeded(c, v + n).op = c.op /\ Succeeded(c, v + n).length = c.length
          /\ Succeeded(c, v + n).buffer = c.buffer /\ Succeeded(c, v + n).value = v + n
      BY <1>16, <3>1, SucceededCall
    <3> QED
      BY <1>15, <2>2, <3>2
  <2>4. Done(r, socket'[s], Of(s)')
    BY <1>11, <1>22, <2>3 DEF Done
  <2>5. Told' /\ error' = error
    BY <1>3, <1>12, <1>15, <1>16, <1>21, <2>1, <2>2, <2>4, CallSucceeds
  <2> QED
    BY <1>21, <2>5, CoreErrors
<1>23. CASE v + n # length
  <2>1. Goes(c)
    BY <1>15, <1>18, <1>23
  <2>2. Progress(c, socket'[s], Of(s)')
    BY <1>11, <1>12, <1>15, <1>16 DEF Progress
  <2>3. Told' /\ error' = error
    BY <1>3, <1>15, <1>21, <2>1, <2>2, CallGoes
  <2> QED
    BY <1>21, <2>3, CoreErrors
<1> QED
  BY <1>22, <1>23

LEMMA EntersWriteStep ==
    ASSUME Core, Good(call), call.s \in Usable, Progress(call, socket[call.s], Of(call.s)),
           call.at = "write", UNCHANGED <<socket, objects>>, EntersWrite
    PROVE  Core' /\ Told'
<1>1. UNCHANGED kernel /\ Goes([call EXCEPT !.at = "writing", !.moved = FALSE])
  BY DEF EntersWrite
<1>2. "writing" \in Places
  BY DEF Places
<1> QED
  BY <1>1, <1>2, MovesOn

LEMMA WritesStep == ASSUME Core, Told, Writes PROVE Core' /\ Told'
<1>1. call # Idle /\ call.at = "write" /\ UNCHANGED <<socket, objects>>
  BY DEF Writes
<1>2. /\ call.s \in Usable /\ Progress(call, socket[call.s], Of(call.s)) /\ Good(call)
      /\ Of(call.s) \in KernelRecords
  BY <1>1, CallInPlace DEF Places
<1>3. CASE NotReady({"write"})
  BY <1>1, <1>2, <1>3, WaitFails
<1>4. CASE EntersWrite
  BY <1>1, <1>2, <1>4, EntersWriteStep
<1>5. ASSUME NEW o \in Write(Of(call.s), Left(call)),
             IF o.n < 0 THEN Reports(call, o.errno) /\ UNCHANGED kernel ELSE Sends(o.n)
      PROVE  Core' /\ Told'
  <2>1. call.op = "write" /\ call.value \in 0 .. call.length /\ call.length \in Nat
    BY <1>1, <1>2 DEF Progress, Good, CallRecords
  <2>2. Left(call) \in Nat
    BY <2>1 DEF Left
  <2>3. \/ o.n \in 1 .. Lesser(Of(call.s).room, Left(call))
        \/ o.n = -1 /\ o.errno \in Errnos
    BY <1>2, <1>5, <2>2, WriteOutcomes
  <2>4. CASE o.n = -1 /\ o.errno \in Errnos
    <3>1. Reports(call, o.errno) /\ UNCHANGED kernel
      BY <1>5, <2>4
    <3> QED
      BY <1>1, <1>2, <2>4, <3>1, StepReports
  <2>5. CASE o.n \in 1 .. Lesser(Of(call.s).room, Left(call))
    <3>1. o.n \in Nat /\ ~ o.n < 0
      BY <2>5
    <3>2. Sends(o.n)
      BY <1>5, <3>1
    <3> QED
      BY <1>1, <1>2, <2>5, <3>1, <3>2, SendsStep
  <2> QED
    BY <2>3, <2>4, <2>5
<1> QED
  BY <1>3, <1>4, <1>5 DEF Writes

\* What SSL_write may do, called at "write" or still in it at "writing".
LEMMA SslWriteStep ==
    ASSUME Core, Good(call), call.s \in Usable, Progress(call, socket[call.s], Of(call.s)),
           call.at \in {"write", "writing"}, UNCHANGED <<socket, objects>>, SslWrite
    PROVE  Core' /\ Told'
<1>1. CASE SslFails(SslFailures)
  BY <1>1, SslFailsStep
<1>2. ASSUME NEW n \in 1 .. Lesser(Of(call.s).room, Left(call)), Sends(n)
      PROVE  Core' /\ Told'
  <2>1. n \in Nat
    OBVIOUS
  <2> QED
    BY <1>2, <2>1, SendsStep
<1> QED
  BY <1>1, <1>2 DEF SslWrite

LEMMA WritesTlsStep == ASSUME Core, Told, WritesTls PROVE Core' /\ Told'
<1>1. call # Idle /\ call.at = "write" /\ UNCHANGED <<socket, objects>>
  BY DEF WritesTls
<1>2. call.s \in Usable /\ Progress(call, socket[call.s], Of(call.s)) /\ Good(call)
  BY <1>1, CallInPlace DEF Places
<1>3. CASE NotReady({"write"})
  BY <1>1, <1>2, <1>3, WaitFails
<1>4. CASE EntersWrite
  BY <1>1, <1>2, <1>4, EntersWriteStep
<1>5. CASE SslWrite
  BY <1>1, <1>2, <1>5, SslWriteStep
<1>6. CASE SslFails({o \in Wants : o.code = "want_read"})
  <2>1. {o \in Wants : o.code = "want_read"} \subseteq SslFailures \cup Wants
    OBVIOUS
  <2> QED
    BY <1>1, <1>2, <1>6, <2>1, SslFailsStep
<1> QED
  BY <1>3, <1>4, <1>5, <1>6 DEF WritesTls

LEMMA WritingStep == ASSUME Core, Told, Writing PROVE Core' /\ Told'
<1>1. call # Idle /\ call.at = "writing" /\ UNCHANGED <<socket, objects>>
  BY DEF Writing
<1>2. call.s \in Usable /\ Progress(call, socket[call.s], Of(call.s)) /\ Good(call)
  BY <1>1, CallInPlace DEF Places
<1>3. CASE SslWrite
  BY <1>1, <1>2, <1>3, SslWriteStep
<1>4. CASE Goes([call EXCEPT !.at = "write"]) /\ UNCHANGED kernel
  <2>1. Goes([call EXCEPT !.at = "write", !.moved = call.moved]) /\ call.moved \in BOOLEAN
    BY <1>2, <1>4, SamePlace
  <2>2. "write" \in Places
    BY DEF Places
  <2> QED
    BY <1>1, <1>2, <1>4, <2>1, <2>2, MovesOn
<1>5. CASE Reports(call, "EPIPE") /\ UNCHANGED kernel
  <2>1. "EPIPE" \in Errnos
    BY DEF Errnos
  <2> QED
    BY <1>1, <1>2, <1>5, <2>1, StepReports
<1>6. ASSUME NEW n \in 1 .. Lesser(Of(call.s).room, Left(call)), Sends(n)
      PROVE  Core' /\ Told'
  <2>1. n \in Nat
    OBVIOUS
  <2> QED
    BY <1>1, <1>2, <1>6, <2>1, SendsStep
<1> QED
  BY <1>3, <1>4, <1>5, <1>6 DEF Writing

LEMMA InterruptedStep == ASSUME Core, Told, Interrupted PROVE Core' /\ Told'
<1>1. call # Idle /\ call.at \in {"reading", "writing"} /\ UNCHANGED <<socket, kernel, objects>>
  BY DEF Interrupted, HeldUp
<1>2. call.s \in Usable /\ Progress(call, socket[call.s], Of(call.s)) /\ Good(call)
  BY <1>1, CallInPlace DEF Places
<1>3. call.moved \in BOOLEAN /\ "read" \in Places /\ "write" \in Places /\ "EINTR" \in Errnos
  BY <1>2, SamePlace DEF Places, Errnos
<1>4. CASE call.at = "reading"
  <2>1. Goes([call EXCEPT !.at = "read", !.moved = call.moved])
    BY <1>2, <1>4, SamePlace DEF Interrupted
  <2> QED
    BY <1>1, <1>2, <1>3, <1>4, <2>1, MovesOn
<1>5. CASE call.at = "writing" /\ Goes([call EXCEPT !.at = "write"])
  <2>1. Goes([call EXCEPT !.at = "write", !.moved = call.moved])
    BY <1>2, <1>5, SamePlace
  <2> QED
    BY <1>1, <1>2, <1>3, <1>5, <2>1, MovesOn
<1>6. CASE Reports(call, "EINTR")
  BY <1>1, <1>2, <1>3, <1>6, StepReports
<1> QED
  BY <1>1, <1>4, <1>5, <1>6 DEF Interrupted

-----------------------------------------------------------------------------
(* Sockets that come and go *)

\* Live sockets that keep the objects they hold.
ObjectsKept ==
    /\ Live' = Live
    /\ \A s \in Live : /\ socket'[s].certificate = socket[s].certificate
                       /\ socket'[s].private_key = socket[s].private_key
                       /\ socket'[s].ciphers = socket[s].ciphers

LEMMA CountedSame ==
    ASSUME Counted, ObjectsKept, UNCHANGED objects
    PROVE  Counted'
<1>1. Live' = Live /\ refs' = refs /\ owned' = owned
  BY DEF objects, ObjectsKept
<1>2. \A o : /\ {s \in Live : socket'[s].certificate = o} = {s \in Live : socket[s].certificate = o}
             /\ {s \in Live : socket'[s].private_key = o} = {s \in Live : socket[s].private_key = o}
             /\ {s \in Live : socket'[s].ciphers = o} = {s \in Live : socket[s].ciphers = o}
  BY DEF ObjectsKept
<1> QED
  BY <1>1, <1>2 DEF Counted

\* A socket that holds nothing.
Empty(x) == x.certificate = Nil /\ x.private_key = Nil /\ x.ciphers = Nil

LEMMA SocketAdded ==
    ASSUME Typed, Counted, NEW s \in Sockets, s \notin Live, NEW x \in SocketRecords, Empty(x),
           socket' = Edited(socket, s, x), UNCHANGED objects
    PROVE  /\ socket' \in [Sockets -> SocketRecords \cup {NoSocket}] /\ socket'[s] = x
           /\ \A u \in Sockets : u # s => socket'[u] = socket[u] /\ Fd(u)' = Fd(u)
           /\ Live' = Live \cup {s} /\ Counted'
<1>1. socket' \in [Sockets -> SocketRecords \cup {NoSocket}]
  BY DEF Typed, Edited
<1>2. \A u \in Sockets : socket'[u] = IF u = s THEN x ELSE socket[u]
  BY DEF Typed, Edited
<1>3. Live' = Live \cup {s}
  BY <1>2, RecordsAreSockets DEF Live
<1>4. Live \subseteq Sockets
  BY DEF Live
<1>5. ASSUME NEW o \in Objects
      PROVE  /\ {u \in Live' : socket'[u].certificate = o} = {u \in Live : socket[u].certificate = o}
             /\ {u \in Live' : socket'[u].private_key = o} = {u \in Live : socket[u].private_key = o}
             /\ {u \in Live' : socket'[u].ciphers = o} = {u \in Live : socket[u].ciphers = o}
  <2>1. o # Nil
    BY SocketAssumption
  <2> QED
    BY <1>2, <1>3, <1>4, <2>1 DEF Empty
<1>6. Counted'
  BY <1>5 DEF Counted, objects
<1>7. \A u \in Sockets : u # s => Fd(u)' = Fd(u)
  BY <1>2 DEF Fd
<1> QED
  BY <1>1, <1>2, <1>3, <1>6, <1>7

Alike(k1) ==
    \A c \in Descriptors : /\ Sound(k1[c]) /\ k1[c].owner = kernel[c].owner
                           /\ k1[c].state = "free" <=> kernel[c].state = "free"

\* A socket with a descriptor of its own.
LEMMA NewSocket ==
    ASSUME Core, NEW s \in Sockets, s \notin Live, NEW d \in Descriptors, kernel[d].state = "free",
           NEW x \in SocketRecords, x.sd = d, x.close = TRUE, Empty(x),
           NEW k1 \in [Descriptors -> KernelRecords], Alike(k1),
           NEW k \in KernelRecords, Sound(k), k.owner = s, k.state # "free",
           socket' = Edited(socket, s, x), kernel' = Edited(k1, d, k), UNCHANGED objects,
           IsError(error)'
    PROVE  Core' /\ Usable' = Usable \cup {s} /\ socket'[s] = x
<1> USE SocketAssumption
<1>1. /\ socket' \in [Sockets -> SocketRecords \cup {NoSocket}] /\ socket'[s] = x
      /\ \A u \in Sockets : u # s => socket'[u] = socket[u] /\ Fd(u)' = Fd(u)
      /\ Live' = Live \cup {s} /\ Counted'
  BY SocketAdded DEF Core
<1>2. kernel' \in [Descriptors -> KernelRecords]
  BY DEF Edited
<1>3. \A c \in Descriptors : kernel'[c] = IF c = d THEN k ELSE k1[c]
  BY DEF Edited
<1>4. Typed'
  BY <1>1, <1>2 DEF Core, Typed, objects
<1>5. TakesWhatArrived'
  BY <1>3 DEF TakesWhatArrived, Alike
<1>6. \A u \in Usable : u \in Live /\ u \in Sockets /\ Fd(u) \in Descriptors /\ u # s
  BY LiveSockets DEF Usable, Core
<1>7. Usable' = Usable \cup {s}
  <2>1. \A u \in Live : u # s /\ socket'[u].sd = socket[u].sd
    BY <1>1 DEF Live
  <2> QED
    BY <1>1, <2>1 DEF Usable
<1>8. ASSUME NEW u \in Usable
      PROVE  /\ u # s /\ socket'[u] = socket[u] /\ Of(u)' = k1[Fd(u)]
             /\ k1[Fd(u)].state # "free"
             /\ k1[Fd(u)].owner = IF socket[u].close THEN u ELSE "program"
  <2>1. Of(u).state # "free" /\ Of(u).owner = IF socket[u].close THEN u ELSE "program"
    BY DEF Core, Owned
  <2>2. Fd(u) # d /\ Of(u) = kernel[Fd(u)]
    BY <2>1 DEF Of
  <2>3. Of(u)' = k1[Fd(u)]
    BY <1>1, <1>3, <1>6, <2>2 DEF Of
  <2> QED
    BY <1>1, <1>6, <2>1, <2>2, <2>3 DEF Alike
<1>9. Fd(s)' = d /\ Of(s)' = k
  BY <1>1, <1>3 DEF Fd, Of
<1>10. ASSUME NEW c \in Descriptors, kernel'[c].owner \in Sockets
       PROVE  socket'[kernel'[c].owner].sd = c
  <2>1. CASE c = d
    BY <1>1, <1>3, <2>1
  <2>2. CASE c # d
    <3>1. PICK w \in Sockets : w = kernel[c].owner /\ w = kernel'[c].owner
      BY <1>3, <1>10, <2>2 DEF Alike
    <3>2. Fd(w) = c
      BY <3>1 DEF Core, Owned
    <3>3. w # s
      <4>1. Fd(s) = -2
        BY DeadSockets DEF Core
      <4> QED
        BY <3>2, <4>1
    <3> QED
      BY <1>1, <3>1, <3>2, <3>3 DEF Fd
  <2> QED
    BY <2>1, <2>2
<1>11. Owned'
  <2>1. ASSUME NEW u \in Usable'
        PROVE  Of(u)'.state # "free" /\ Of(u)'.owner = IF socket'[u].close THEN u ELSE "program"
    BY <1>1, <1>7, <1>8, <1>9, <2>1
  <2> QED
    BY <1>10, <2>1 DEF Owned, Fd
<1> QED
  BY <1>1, <1>4, <1>5, <1>7, <1>8, <1>11 DEF Core

\* A socket that has no descriptor any more.
LEMMA GivesBack ==
    ASSUME Core, NEW s \in Live, NEW y \in SocketRecords \cup {NoSocket}, y.sd \in {-1, -2},
           socket' = Edited(socket, s, y), kernel' = AfterClose(socket[s], kernel),
           refs' \in [Objects -> Int], owned' \subseteq Objects, IsError(error)'
    PROVE  /\ Typed' /\ TakesWhatArrived' /\ Owned'
           /\ Live' = IF y = NoSocket THEN Live \ {s} ELSE Live
           /\ socket'[s] = y /\ \A u \in Sockets : u # s => socket'[u] = socket[u]
<1> USE SocketAssumption
<1>1. s \in Sockets /\ socket[s] \in SocketRecords /\ Fd(s) \in {-1} \cup Descriptors
  BY LiveSockets DEF Core
<1>2. socket' \in [Sockets -> SocketRecords \cup {NoSocket}]
  BY DEF Core, Typed, Edited
<1>3. \A u \in Sockets : socket'[u] = IF u = s THEN y ELSE socket[u]
  BY DEF Core, Typed, Edited
<1>4. Live' = IF y = NoSocket THEN Live \ {s} ELSE Live
  BY <1>1, <1>3 DEF Live
<1>5. kernel' = IF socket[s].close /\ Fd(s) >= 0 THEN [kernel EXCEPT ![Fd(s)] = Unused] ELSE kernel
  BY DEF AfterClose, Fd
<1>6. Unused \in KernelRecords /\ Sound(Unused) /\ Unused.owner = Nil /\ Nil \notin Sockets
  BY DEF KernelRecords, States, Sound, Unused
<1>7. kernel \in [Descriptors -> KernelRecords] /\ kernel' \in [Descriptors -> KernelRecords]
  BY <1>5, <1>6 DEF Core, Typed
<1>8. \A c \in Descriptors :
          kernel'[c] = IF c = Fd(s) /\ socket[s].close THEN Unused ELSE kernel[c]
  BY <1>1, <1>5, <1>7
<1>9. Typed'
  BY <1>2, <1>7 DEF Typed
<1>10. TakesWhatArrived'
  BY <1>6, <1>8 DEF Core, TakesWhatArrived
<1>11. \A u \in Usable' : u \in Usable /\ u # s /\ u \in Sockets
  BY <1>3, <1>4 DEF Usable, Live
<1>12. \A u \in Sockets : u # s => Fd(u)' = Fd(u)
  BY <1>3 DEF Fd
<1>13. ASSUME NEW u \in Usable, u # s
       PROVE  /\ Of(u)'.state # "free"
              /\ Of(u)'.owner = IF socket'[u].close THEN u ELSE "program"
  <2>1. u \in Live /\ u \in Sockets /\ Fd(u) \in Descriptors
    BY LiveSockets DEF Usable, Core
  <2>2. Of(u).state # "free" /\ Of(u).owner = IF socket[u].close THEN u ELSE "program"
    BY DEF Core, Owned
  <2>3. ASSUME Fd(u) = Fd(s), socket[s].close PROVE FALSE
    <3>1. s \in Usable
      BY <2>1, <2>3, LiveSockets DEF Core
    <3>2. Of(s).owner = s
      BY <2>3, <3>1 DEF Core, Owned
    <3>3. Of(u).owner = s
      BY <2>3, <3>2 DEF Of
    <3> QED
      BY <1>1, <1>13, <2>2, <3>3
  <2>4. Of(u)' = kernel'[Fd(u)] /\ Of(u) = kernel[Fd(u)]
    BY <1>12, <1>13, <2>1 DEF Of
  <2>5. Of(u)' = Of(u)
    BY <1>8, <2>1, <2>3, <2>4
  <2> QED
    BY <1>3, <1>13, <2>1, <2>2, <2>5
<1>14. ASSUME NEW c \in Descriptors, kernel'[c].owner \in Sockets
       PROVE  socket'[kernel'[c].owner].sd = c
  <2>1. ~ (c = Fd(s) /\ socket[s].close) /\ kernel'[c] = kernel[c]
    BY <1>6, <1>8, <1>14
  <2>2. PICK w \in Sockets : w = kernel[c].owner
    BY <1>14, <2>1
  <2>3. Fd(w) = c
    BY <2>2 DEF Core, Owned
  <2>4. ASSUME w = s PROVE FALSE
    <3>1. s \in Usable /\ Of(s) = kernel[c]
      BY <2>3, <2>4, LiveSockets DEF Core, Of
    <3>2. Of(s).owner = "program"
      BY <2>1, <2>3, <2>4, <3>1 DEF Core, Owned
    <3> QED
      BY <2>2, <3>1, <3>2
  <2> QED
    BY <1>3, <2>1, <2>2, <2>3, <2>4 DEF Fd
<1>15. Owned'
  BY <1>11, <1>13, <1>14 DEF Owned, Fd
<1> QED
  BY <1>1, <1>3, <1>4, <1>9, <1>10, <1>15

LEMMA CloseStep == ASSUME Core, Close PROVE Core' /\ Told'
<1> USE SocketAssumption
<1>1. PICK s \in Live : /\ call = Idle
                        /\ socket' = [socket EXCEPT ![s] = ClosedSocket(@)]
                        /\ kernel' = AfterClose(socket[s], kernel)
                        /\ UNCHANGED <<call, error, objects>>
  BY DEF Close
<1>2. s \in Sockets /\ socket[s] \in SocketRecords /\ Fd(s) \in {-1} \cup Descriptors
  BY LiveSockets DEF Core
<1>3. Told'
  BY <1>1, NoCall
<1>4. PICK sd \in {-1} \cup Descriptors : sd = IF socket[s].close /\ socket[s].sd >= 0 THEN -1 ELSE socket[s].sd
  BY <1>2 DEF Fd
<1>5. PICK y : y = [socket[s] EXCEPT !.ssl = FALSE, !.sd = sd]
  OBVIOUS
<1>6. /\ y \in SocketRecords /\ y.sd = sd /\ y.close = socket[s].close
      /\ y.certificate = socket[s].certificate /\ y.private_key = socket[s].private_key
      /\ y.ciphers = socket[s].ciphers
  BY <1>2, <1>5 DEF SocketRecords
<1>7. socket' = Edited(socket, s, y)
  BY <1>1, <1>4, <1>5 DEF Edited, ClosedSocket
<1>8. IsError(error)'
  BY <1>1, CoreErrors DEF IsError
<1>9. CASE socket[s].close /\ socket[s].sd >= 0
  <2>1. y.sd \in {-1, -2} /\ y # NoSocket
    BY <1>4, <1>6, <1>9, RecordsAreSockets
  <2>2. refs' \in [Objects -> Int] /\ owned' \subseteq Objects
    BY <1>1 DEF objects, Core, Typed
  <2>3. /\ Typed' /\ TakesWhatArrived' /\ Owned' /\ Live' = Live
        /\ socket'[s] = y /\ \A u \in Sockets : u # s => socket'[u] = socket[u]
    BY <1>1, <1>6, <1>7, <1>8, <2>1, <2>2, GivesBack
  <2>4. ObjectsKept
    BY <1>6, <2>3 DEF ObjectsKept, Live
  <2> QED
    BY <1>1, <1>3, <2>3, <2>4, CountedSame DEF Core
<1>10. CASE ~ (socket[s].close /\ socket[s].sd >= 0)
  <2>1. y.sd = socket[s].sd
    BY <1>4, <1>6, <1>10
  <2>2. SocketsKept
    BY <1>6, <1>7, <2>1, SocketEdit DEF Core
  <2>3. UNCHANGED kernel
    BY <1>1, <1>10 DEF AfterClose
  <2> QED
    BY <1>1, <1>3, <1>8, <2>2, <2>3, NothingEdited
<1> QED
  BY <1>9, <1>10

-----------------------------------------------------------------------------
(* The counts of objects *)

LEMMA CardinalityEdit ==
    ASSUME NEW A, NEW B, IsFiniteSet(A), NEW s, B \ {s} = A \ {s}
    PROVE  Cardinality(B) = Cardinality(A) - (IF s \in A THEN 1 ELSE 0) + (IF s \in B THEN 1 ELSE 0)
<1> DEFINE C == A \ {s}
<1>1. IsFiniteSet(C) /\ Cardinality(C) = IF s \in A THEN Cardinality(A) - 1 ELSE Cardinality(A)
  BY FS_RemoveElement
<1>2. Cardinality(A) \in Nat /\ Cardinality(C) \in Nat
  BY <1>1, FS_CardinalityType
<1>3. Cardinality(C \cup {s}) = Cardinality(C) + 1
  BY <1>1, FS_AddElement
<1>4. CASE s \in B
  <2>1. B = C \cup {s}
    BY <1>4
  <2>2. Cardinality(B) = Cardinality(C) + 1
    BY <1>3, <2>1
  <2> HIDE DEF C
  <2> QED
    BY <1>1, <1>2, <1>4, <2>2
<1>5. CASE s \notin B
  <2>1. B = C
    BY <1>5
  <2> HIDE DEF C
  <2> QED
    BY <1>1, <1>2, <1>5, <2>1
<1> QED
  BY <1>4, <1>5

LEMMA ReleasedOne ==
    ASSUME NEW r \in [Objects -> Int], NEW o \in MaybeObject
    PROVE  /\ Released(r, o) \in [Objects -> Int]
           /\ \A p \in Objects : Released(r, o)[p] = r[p] - (IF p = o THEN 1 ELSE 0)
<1>1. CASE o = Nil
  BY <1>1, SocketAssumption DEF Released
<1>2. CASE o \in Objects
  <2>1. Released(r, o) = [r EXCEPT ![o] = @ - 1]
    BY <1>2, SocketAssumption DEF Released
  <2> QED
    BY <1>2, <2>1
<1> QED
  BY <1>1, <1>2 DEF MaybeObject

LEMMA RetainedOne ==
    ASSUME NEW r \in [Objects -> Int], NEW o \in MaybeObject, o = Nil \/ r[o] # 0
    PROVE  /\ Retained(r, o) \in [Objects -> Int]
           /\ \A p \in Objects : Retained(r, o)[p] = r[p] + (IF p = o THEN 1 ELSE 0)
<1>1. CASE o = Nil
  BY <1>1, SocketAssumption DEF Retained
<1>2. CASE o \in Objects
  <2>1. Retained(r, o) = [r EXCEPT ![o] = @ + 1]
    BY <1>2, SocketAssumption DEF Retained
  <2> QED
    BY <1>2, <2>1
<1> QED
  BY <1>1, <1>2 DEF MaybeObject

LEMMA FiniteLive == ASSUME Typed PROVE IsFiniteSet(Live)
BY FS_Subset, SocketAssumption DEF Live

WithCertificate(o) == {s \in Live : socket[s].certificate = o}
WithKey(o) == {s \in Live : socket[s].private_key = o}
WithCiphers(o) == {s \in Live : socket[s].ciphers = o}

LEMMA Holders ==
    ASSUME Typed, NEW o
    PROVE  /\ IsFiniteSet(WithCertificate(o)) /\ Cardinality(WithCertificate(o)) \in Nat
           /\ IsFiniteSet(WithKey(o)) /\ Cardinality(WithKey(o)) \in Nat
           /\ IsFiniteSet(WithCiphers(o)) /\ Cardinality(WithCiphers(o)) \in Nat
<1>1. /\ WithCertificate(o) \in SUBSET Live /\ WithKey(o) \in SUBSET Live
      /\ WithCiphers(o) \in SUBSET Live /\ IsFiniteSet(Live)
  BY FiniteLive DEF WithCertificate, WithKey, WithCiphers
<1>2. /\ IsFiniteSet(WithCertificate(o)) /\ IsFiniteSet(WithKey(o)) /\ IsFiniteSet(WithCiphers(o))
  BY <1>1, FS_Subset
<1> QED
  BY <1>2, FS_CardinalityType

LEMMA Counts ==
    Counted <=> \A o \in Objects :
                    refs[o] = (IF o \in owned THEN 1 ELSE 0) + Cardinality(WithCertificate(o))
                              + Cardinality(WithKey(o)) + Cardinality(WithCiphers(o))
BY DEF Counted, WithCertificate, WithKey, WithCiphers

\* An object that is held has a count.
LEMMA HeldIsCounted ==
    ASSUME Typed, Counted, NEW o \in Objects
    PROVE  /\ refs[o] \in Nat
           /\ o \in owned => refs[o] > 0
           /\ \A s \in Live : o \in {socket[s].certificate, socket[s].private_key, socket[s].ciphers}
                                  => refs[o] > 0
           /\ \A s \in Live : o \in owned /\ socket[s].ciphers = o => refs[o] > 1
<1>1. PICK a \in Nat, b \in Nat, c \in Nat :
          /\ a = Cardinality(WithCertificate(o)) /\ b = Cardinality(WithKey(o))
          /\ c = Cardinality(WithCiphers(o))
  BY Holders
<1>2. PICK h \in {0, 1} : h = IF o \in owned THEN 1 ELSE 0
  OBVIOUS
<1>3. refs[o] = h + a + b + c
  BY <1>1, <1>2, Counts
<1>4. ASSUME NEW s \in Live
      PROVE  /\ socket[s].certificate = o => a > 0
             /\ socket[s].private_key = o => b > 0
             /\ socket[s].ciphers = o => c > 0
  <2>1. ASSUME socket[s].certificate = o PROVE a > 0
    <3>1. WithCertificate(o) # {}
      BY <2>1 DEF WithCertificate
    <3> QED
      BY <1>1, <3>1, Holders, FS_EmptySet
  <2>2. ASSUME socket[s].private_key = o PROVE b > 0
    <3>1. WithKey(o) # {}
      BY <2>2 DEF WithKey
    <3> QED
      BY <1>1, <3>1, Holders, FS_EmptySet
  <2>3. ASSUME socket[s].ciphers = o PROVE c > 0
    <3>1. WithCiphers(o) # {}
      BY <2>3 DEF WithCiphers
    <3> QED
      BY <1>1, <3>1, Holders, FS_EmptySet
  <2> QED
    BY <2>1, <2>2, <2>3
<1> QED
  BY <1>2, <1>3, <1>4

One(b) == IF b THEN 1 ELSE 0

\* How often a socket holds an object.
Held(x, o) == One(x.certificate = o) + One(x.private_key = o) + One(x.ciphers = o)

\* Only the socket s holds something else.
HoldsAnew(s) ==
    /\ Live' \ {s} = Live \ {s} /\ \A u \in Live \ {s} : socket'[u] = socket[u]
    /\ \A o \in Objects :
          refs'[o] = refs[o] - Held(socket[s], o) + (IF s \in Live' THEN Held(socket'[s], o) ELSE 0)

LEMMA Recounted ==
    ASSUME Typed, Counted, NEW s \in Live, HoldsAnew(s), UNCHANGED owned
    PROVE  Counted'
<1> SUFFICES ASSUME NEW o \in Objects
             PROVE  refs'[o] = (IF o \in owned THEN 1 ELSE 0) + Cardinality(WithCertificate(o)')
                               + Cardinality(WithKey(o)') + Cardinality(WithCiphers(o)')
  BY Counts DEF Counted, WithCertificate, WithKey, WithCiphers
<1>1. PICK certificates, keys, ciphers :
          certificates = WithCertificate(o)' /\ keys = WithKey(o)' /\ ciphers = WithCiphers(o)'
  OBVIOUS
<1>2. /\ certificates \ {s} = WithCertificate(o) \ {s}
      /\ keys \ {s} = WithKey(o) \ {s}
      /\ ciphers \ {s} = WithCiphers(o) \ {s}
  BY <1>1 DEF WithCertificate, WithKey, WithCiphers, HoldsAnew
<1>3. /\ s \in certificates <=> s \in Live' /\ socket'[s].certificate = o
      /\ s \in keys <=> s \in Live' /\ socket'[s].private_key = o
      /\ s \in ciphers <=> s \in Live' /\ socket'[s].ciphers = o
      /\ s \in WithCertificate(o) <=> socket[s].certificate = o
      /\ s \in WithKey(o) <=> socket[s].private_key = o
      /\ s \in WithCiphers(o) <=> socket[s].ciphers = o
  BY <1>1 DEF WithCertificate, WithKey, WithCiphers
<1>4. /\ Cardinality(certificates) = Cardinality(WithCertificate(o))
             - (IF s \in WithCertificate(o) THEN 1 ELSE 0) + (IF s \in certificates THEN 1 ELSE 0)
      /\ Cardinality(keys) = Cardinality(WithKey(o))
             - (IF s \in WithKey(o) THEN 1 ELSE 0) + (IF s \in keys THEN 1 ELSE 0)
      /\ Cardinality(ciphers) = Cardinality(WithCiphers(o))
             - (IF s \in WithCiphers(o) THEN 1 ELSE 0) + (IF s \in ciphers THEN 1 ELSE 0)
  BY <1>2, Holders, CardinalityEdit
<1>5. PICK a \in Nat, b \in Nat, c \in Nat, h \in {0, 1} :
          /\ a = Cardinality(WithCertificate(o)) /\ b = Cardinality(WithKey(o))
          /\ c = Cardinality(WithCiphers(o)) /\ h = IF o \in owned THEN 1 ELSE 0
  BY Holders
<1>6. refs[o] = h + a + b + c
  BY <1>5, Counts
<1>7. PICK a0 \in {0, 1}, b0 \in {0, 1}, c0 \in {0, 1}, a1 \in {0, 1}, b1 \in {0, 1}, c1 \in {0, 1} :
          /\ a0 = One(socket[s].certificate = o) /\ b0 = One(socket[s].private_key = o)
          /\ c0 = One(socket[s].ciphers = o)
          /\ a1 = IF s \in Live' THEN One(socket'[s].certificate = o) ELSE 0
          /\ b1 = IF s \in Live' THEN One(socket'[s].private_key = o) ELSE 0
          /\ c1 = IF s \in Live' THEN One(socket'[s].ciphers = o) ELSE 0
  BY DEF One
<1>8. /\ Cardinality(certificates) = a - a0 + a1
      /\ Cardinality(keys) = b - b0 + b1
      /\ Cardinality(ciphers) = c - c0 + c1
  BY <1>3, <1>4, <1>5, <1>7 DEF One
<1>9. refs'[o] = refs[o] - (a0 + b0 + c0) + (IF s \in Live' THEN a1 + b1 + c1 ELSE 0)
  BY <1>7 DEF HoldsAnew, Held
<1>10. s \notin Live' => a1 = 0 /\ b1 = 0 /\ c1 = 0
  BY <1>7
<1>11. refs'[o] = h + (a - a0 + a1) + (b - b0 + b1) + (c - c0 + c1)
  BY <1>6, <1>9, <1>10
<1> QED
  BY <1>1, <1>5, <1>8, <1>11

\* A socket that holds something else.
LEMMA HoldingEdit ==
    ASSUME Core, NEW s \in Live, NEW x \in SocketRecords, x.sd = socket[s].sd, x.close = socket[s].close,
           socket' = Edited(socket, s, x), UNCHANGED <<kernel, error, owned>>, refs' \in [Objects -> Int],
           \A o \in Objects : refs'[o] = refs[o] - Held(socket[s], o) + Held(x, o)
    PROVE  Core'
<1>1. s \in Sockets /\ socket[s] \in SocketRecords /\ x # NoSocket /\ socket[s] # NoSocket
  BY LiveSockets, RecordsAreSockets DEF Core
<1>2. socket' \in [Sockets -> SocketRecords \cup {NoSocket}]
  BY DEF Core, Typed, Edited
<1>3. \A u \in Sockets : socket'[u] = IF u = s THEN x ELSE socket[u]
  BY DEF Core, Typed, Edited
<1>4. Typed'
  BY <1>2 DEF Core, Typed
<1>5. TakesWhatArrived'
  BY DEF Core, TakesWhatArrived
<1>6. Live' = Live
  BY <1>1, <1>3 DEF Live
<1>7. Usable' = Usable /\ \A u \in Sockets : Fd(u)' = Fd(u) /\ Of(u)' = Of(u)
  BY <1>1, <1>3, <1>6 DEF Usable, Live, Fd, Of
<1>8. \A u \in Usable : u \in Sockets /\ socket'[u].close = socket[u].close
  BY <1>1, <1>3 DEF Usable, Live
<1>9. Owned'
  BY <1>7, <1>8 DEF Core, Owned
<1>10. HoldsAnew(s)
  BY <1>1, <1>3, <1>6 DEF HoldsAnew, Live
<1>11. Counted'
  BY <1>10, Recounted DEF Core
<1> QED
  BY <1>4, <1>5, <1>9, <1>11 DEF Core

LEMMA SetCertificateStep == ASSUME Core, SetCertificate PROVE Core' /\ Told'
<1>1. PICK s \in Live, o \in MaybeObject :
          /\ call = Idle /\ o \in owned \cup {Nil, socket[s].certificate}
          /\ refs' = Released(Retained(refs, o), socket[s].certificate)
          /\ socket' = [socket EXCEPT ![s].certificate = o]
          /\ UNCHANGED <<kernel, call, error, owned>>
  BY DEF SetCertificate, MaybeObject
<1>2. socket[s] \in SocketRecords /\ socket[s].certificate \in MaybeObject
  BY LiveSockets, SocketRecordEdits DEF Core
<1>3. PICK old \in MaybeObject : old = socket[s].certificate
  BY <1>2
<1>4. refs \in [Objects -> Int]
  BY DEF Core, Typed
<1>5. o = Nil \/ refs[o] # 0
  <2>1. CASE o \in Objects
    <3>1. refs[o] \in Nat /\ refs[o] > 0
      BY <1>1, <2>1, SocketAssumption, HeldIsCounted DEF Core
    <3> QED
      BY <3>1
  <2> QED
    BY <2>1 DEF MaybeObject
<1>6. PICK retained \in [Objects -> Int] :
          /\ retained = Retained(refs, o)
          /\ \A p \in Objects : retained[p] = refs[p] + (IF p = o THEN 1 ELSE 0)
  BY <1>4, <1>5, RetainedOne
<1>7. /\ refs' \in [Objects -> Int]
      /\ \A p \in Objects : refs'[p] = retained[p] - (IF p = old THEN 1 ELSE 0)
  BY <1>1, <1>3, <1>6, ReleasedOne
<1>8. PICK x : x = [socket[s] EXCEPT !.certificate = o]
  OBVIOUS
<1>9. /\ x \in SocketRecords /\ x.sd = socket[s].sd /\ x.close = socket[s].close /\ x.certificate = o
      /\ x.private_key = socket[s].private_key /\ x.ciphers = socket[s].ciphers
  BY <1>2, <1>8 DEF SocketRecords
<1>10. socket' = Edited(socket, s, x)
  BY <1>1, <1>8 DEF Edited
<1>11. ASSUME NEW p \in Objects PROVE refs'[p] = refs[p] - Held(socket[s], p) + Held(x, p)
  <2>1. PICK k \in Int, c \in Int : k = One(x.private_key = p) /\ c = One(x.ciphers = p)
    BY DEF One
  <2>2. Held(socket[s], p) = One(old = p) + k + c /\ Held(x, p) = One(o = p) + k + c
    BY <1>3, <1>9, <2>1 DEF Held
  <2>3. refs[p] \in Int /\ refs'[p] = refs[p] + One(o = p) - One(old = p)
    BY <1>4, <1>6, <1>7 DEF One
  <2>4. PICK r \in Int, i \in Int, j \in Int : r = refs[p] /\ i = One(o = p) /\ j = One(old = p)
    BY <2>3 DEF One
  <2>5. refs'[p] = r + i - j /\ Held(socket[s], p) = j + k + c /\ Held(x, p) = i + k + c
    BY <2>2, <2>3, <2>4
  <2>6. r + i - j = r - (j + k + c) + (i + k + c)
    BY <2>1, <2>4
  <2> QED
    BY <2>4, <2>5, <2>6
<1>12. Core'
  BY <1>1, <1>7, <1>9, <1>10, <1>11, HoldingEdit
<1> QED
  BY <1>1, <1>12, NoCall

LEMMA SetPrivateKeyStep == ASSUME Core, SetPrivateKey PROVE Core' /\ Told'
<1>1. PICK s \in Live, o \in Objects :
          /\ call = Idle /\ o \in owned \cup {socket[s].private_key}
          /\ refs' = Released(Retained(refs, o), socket[s].private_key)
          /\ socket' = [socket EXCEPT ![s].private_key = o]
          /\ UNCHANGED <<kernel, call, error, owned>>
  BY DEF SetPrivateKey
<1>2. socket[s] \in SocketRecords /\ socket[s].private_key \in MaybeObject
  BY LiveSockets, SocketRecordEdits DEF Core
<1>3. PICK old \in MaybeObject : old = socket[s].private_key
  BY <1>2
<1>4. refs \in [Objects -> Int]
  BY DEF Core, Typed
<1>5. o = Nil \/ refs[o] # 0
  <2>1. refs[o] \in Nat /\ refs[o] > 0
    BY <1>1, HeldIsCounted DEF Core
  <2> QED
    BY <2>1
<1>6. o \in MaybeObject
  BY DEF MaybeObject
<1>7. PICK retained \in [Objects -> Int] :
          /\ retained = Retained(refs, o)
          /\ \A p \in Objects : retained[p] = refs[p] + (IF p = o THEN 1 ELSE 0)
  BY <1>4, <1>5, <1>6, RetainedOne
<1>8. /\ refs' \in [Objects -> Int]
      /\ \A p \in Objects : refs'[p] = retained[p] - (IF p = old THEN 1 ELSE 0)
  BY <1>1, <1>3, <1>7, ReleasedOne
<1>9. PICK x : x = [socket[s] EXCEPT !.private_key = o]
  OBVIOUS
<1>10. /\ x \in SocketRecords /\ x.sd = socket[s].sd /\ x.close = socket[s].close /\ x.private_key = o
      /\ x.certificate = socket[s].certificate /\ x.ciphers = socket[s].ciphers
  BY <1>2, <1>9, <1>6 DEF SocketRecords
<1>11. socket' = Edited(socket, s, x)
  BY <1>1, <1>9 DEF Edited
<1>12. ASSUME NEW p \in Objects PROVE refs'[p] = refs[p] - Held(socket[s], p) + Held(x, p)
  <2>1. PICK k \in Int, c \in Int : k = One(x.certificate = p) /\ c = One(x.ciphers = p)
    BY DEF One
  <2>2. Held(socket[s], p) = k + One(old = p) + c /\ Held(x, p) = k + One(o = p) + c
    BY <1>3, <1>10, <2>1 DEF Held
  <2>3. refs[p] \in Int /\ refs'[p] = refs[p] + One(o = p) - One(old = p)
    BY <1>4, <1>7, <1>8 DEF One
  <2>4. PICK r \in Int, i \in Int, j \in Int : r = refs[p] /\ i = One(o = p) /\ j = One(old = p)
    BY <2>3 DEF One
  <2>5. refs'[p] = r + i - j /\ Held(socket[s], p) = k + j + c /\ Held(x, p) = k + i + c
    BY <2>2, <2>3, <2>4
  <2>6. r + i - j = r - (k + j + c) + (k + i + c)
    BY <2>1, <2>4
  <2> QED
    BY <2>4, <2>5, <2>6
<1>13. Core'
  BY <1>1, <1>8, <1>10, <1>11, <1>12, HoldingEdit
<1> QED
  BY <1>1, <1>13, NoCall

LEMMA SetCiphersStep == ASSUME Core, SetCiphers PROVE Core' /\ Told'
<1>1. PICK s \in Live, o \in owned :
          /\ call = Idle
          /\ refs' = Retained(Released(refs, socket[s].ciphers), o)
          /\ socket' = [socket EXCEPT ![s].ciphers = o]
          /\ UNCHANGED <<kernel, call, error, owned>>
  BY DEF SetCiphers
<1>2. socket[s] \in SocketRecords /\ socket[s].ciphers \in MaybeObject
  BY LiveSockets, SocketRecordEdits DEF Core
<1>3. PICK old \in MaybeObject : old = socket[s].ciphers
  BY <1>2
<1>4. refs \in [Objects -> Int] /\ o \in Objects /\ o \in MaybeObject
  BY DEF Core, Typed, MaybeObject
<1>5. PICK released \in [Objects -> Int] :
          /\ released = Released(refs, old)
          /\ \A p \in Objects : released[p] = refs[p] - (IF p = old THEN 1 ELSE 0)
  BY <1>4, ReleasedOne
<1>6. released[o] # 0
  <2>1. refs[o] \in Nat /\ refs[o] > 0 /\ (old = o => refs[o] > 1)
    BY <1>3, <1>4, HeldIsCounted DEF Core
  <2> QED
    BY <1>4, <1>5, <2>1
<1>7. /\ refs' \in [Objects -> Int]
      /\ \A p \in Objects : refs'[p] = released[p] + (IF p = o THEN 1 ELSE 0)
  BY <1>1, <1>3, <1>4, <1>5, <1>6, RetainedOne
<1>8. PICK x : x = [socket[s] EXCEPT !.ciphers = o]
  OBVIOUS
<1>9. /\ x \in SocketRecords /\ x.sd = socket[s].sd /\ x.close = socket[s].close /\ x.ciphers = o
      /\ x.private_key = socket[s].private_key /\ x.certificate = socket[s].certificate
  BY <1>2, <1>4, <1>8 DEF SocketRecords
<1>10. socket' = Edited(socket, s, x)
  BY <1>1, <1>8 DEF Edited
<1>11. ASSUME NEW p \in Objects PROVE refs'[p] = refs[p] - Held(socket[s], p) + Held(x, p)
  <2>1. PICK a \in Int, k \in Int : a = One(x.certificate = p) /\ k = One(x.private_key = p)
    BY DEF One
  <2>2. Held(socket[s], p) = a + k + One(old = p) /\ Held(x, p) = a + k + One(o = p)
    BY <1>3, <1>9, <2>1 DEF Held
  <2>3. refs[p] \in Int /\ refs'[p] = refs[p] - One(old = p) + One(o = p)
    BY <1>4, <1>5, <1>7 DEF One
  <2>4. PICK r \in Int, i \in Int, j \in Int : r = refs[p] /\ i = One(o = p) /\ j = One(old = p)
    BY <2>3 DEF One
  <2>5. refs'[p] = r - j + i /\ Held(socket[s], p) = a + k + j /\ Held(x, p) = a + k + i
    BY <2>2, <2>3, <2>4
  <2>6. r - j + i = r - (a + k + j) + (a + k + i)
    BY <2>1, <2>4
  <2> QED
    BY <2>4, <2>5, <2>6
<1>12. Core'
  BY <1>1, <1>7, <1>9, <1>10, <1>11, HoldingEdit
<1> QED
  BY <1>1, <1>12, NoCall

LEMMA ForgetStep == ASSUME Core, Forget PROVE Core' /\ Told'
<1>1. PICK o \in Objects : /\ call = Idle /\ o \in owned
                          /\ owned' = owned \ {o} /\ refs' = Released(refs, o)
                          /\ UNCHANGED <<socket, kernel, call, error>>
  BY DEF Forget
<1>2. refs \in [Objects -> Int] /\ o \in MaybeObject
  BY DEF Core, Typed, MaybeObject
<1>3. /\ refs' \in [Objects -> Int]
      /\ \A p \in Objects : refs'[p] = refs[p] - (IF p = o THEN 1 ELSE 0)
  BY <1>1, <1>2, ReleasedOne
<1>4. Typed'
  BY <1>1, <1>3 DEF Core, Typed
<1>5. TakesWhatArrived' /\ Owned'
  BY <1>1 DEF Core, TakesWhatArrived, Owned, Usable, Live, Of, Fd
<1>6. ASSUME NEW p \in Objects
      PROVE  refs'[p] = (IF p \in owned' THEN 1 ELSE 0) + Cardinality(WithCertificate(p)')
                        + Cardinality(WithKey(p)') + Cardinality(WithCiphers(p)')
  <2>1. /\ WithCertificate(p)' = WithCertificate(p) /\ WithKey(p)' = WithKey(p)
        /\ WithCiphers(p)' = WithCiphers(p)
    BY <1>1 DEF WithCertificate, WithKey, WithCiphers, Live
  <2>2. PICK a \in Nat, b \in Nat, c \in Nat :
            /\ a = Cardinality(WithCertificate(p)) /\ b = Cardinality(WithKey(p))
            /\ c = Cardinality(WithCiphers(p))
    BY Holders DEF Core
  <2>3. refs[p] = (IF p \in owned THEN 1 ELSE 0) + a + b + c
    BY <2>2, Counts DEF Core
  <2>4. refs'[p] = (IF p \in owned' THEN 1 ELSE 0) + a + b + c
    BY <1>1, <1>3, <2>2, <2>3
  <2> QED
    BY <2>1, <2>2, <2>4
<1>7. Counted'
  BY <1>6 DEF Counted, WithCertificate, WithKey, WithCiphers
<1> QED
  BY <1>1, <1>4, <1>5, <1>7, NoCall DEF Core

LEMMA DeallocStep == ASSUME Core, Dealloc PROVE Core' /\ Told'
<1>1. PICK s \in Live :
          /\ call = Idle /\ socket' = [socket EXCEPT ![s] = NoSocket]
          /\ kernel' = AfterClose(socket[s], kernel)
          /\ refs' = Released(Released(Released(refs, socket[s].certificate), socket[s].private_key),
                              socket[s].ciphers)
          /\ UNCHANGED <<call, error, owned>>
  BY DEF Dealloc
<1>2. s \in Sockets /\ socket[s] \in SocketRecords
  BY LiveSockets DEF Core
<1>3. PICK a \in MaybeObject, k \in MaybeObject, c \in MaybeObject :
          a = socket[s].certificate /\ k = socket[s].private_key /\ c = socket[s].ciphers
  BY <1>2, SocketRecordEdits
<1>4. refs \in [Objects -> Int]
  BY DEF Core, Typed
<1>5. PICK r1 \in [Objects -> Int] :
          /\ r1 = Released(refs, a)
          /\ \A p \in Objects : r1[p] = refs[p] - (IF p = a THEN 1 ELSE 0)
  BY <1>4, ReleasedOne
<1>6. PICK r2 \in [Objects -> Int] :
          /\ r2 = Released(r1, k)
          /\ \A p \in Objects : r2[p] = r1[p] - (IF p = k THEN 1 ELSE 0)
  BY ReleasedOne
<1>7. /\ refs' \in [Objects -> Int]
      /\ \A p \in Objects : refs'[p] = r2[p] - (IF p = c THEN 1 ELSE 0)
  BY <1>1, <1>3, <1>5, <1>6, ReleasedOne
<1>8. owned' \subseteq Objects /\ IsError(error)'
  BY <1>1, CoreErrors DEF Core, Typed, IsError
<1>9. NoSocket.sd \in {-1, -2} /\ socket' = Edited(socket, s, NoSocket)
  BY <1>1 DEF NoSocket, Edited
<1>10. /\ Typed' /\ TakesWhatArrived' /\ Owned' /\ Live' = Live \ {s}
       /\ \A u \in Sockets : u # s => socket'[u] = socket[u]
  BY <1>1, <1>7, <1>8, <1>9, GivesBack
<1>11. ASSUME NEW p \in Objects
       PROVE  refs'[p] = refs[p] - Held(socket[s], p) + (IF s \in Live' THEN Held(socket'[s], p) ELSE 0)
  <2>1. PICK i \in {0, 1}, j \in {0, 1}, l \in {0, 1}, r \in Int :
            /\ i = (IF p = a THEN 1 ELSE 0) /\ j = (IF p = k THEN 1 ELSE 0)
            /\ l = (IF p = c THEN 1 ELSE 0) /\ r = refs[p]
    BY <1>4
  <2>2. refs'[p] = r - i - j - l
    BY <1>5, <1>6, <1>7, <2>1
  <2>3. Held(socket[s], p) = i + j + l
    BY <1>3, <2>1 DEF Held, One
  <2> QED
    BY <1>10, <2>1, <2>2, <2>3
<1>12. HoldsAnew(s)
  BY <1>10, <1>11 DEF HoldsAnew, Live
<1>13. Counted'
  BY <1>1, <1>12, Recounted DEF Core
<1> QED
  BY <1>1, <1>10, <1>13, NoCall DEF Core

-----------------------------------------------------------------------------
(* Creation *)

LEMMA NewRecord ==
    ASSUME NEW d \in Descriptors, NEW type \in {"tcp", "udp", "none"}, NEW close \in BOOLEAN,
           NEW direction \in Ways, NEW x, x = New(d, type, close, direction)
    PROVE  x \in SocketRecords /\ x.sd = d /\ x.close = close /\ Empty(x)
BY DEF New, SocketRecords, MaybeObject, Empty

OpenIn(s, state) == [Open(s) EXCEPT !.state = state]

LEMMA OpenRecord ==
    ASSUME NEW s \in Sockets, NEW state \in {"new", "connected"}, NEW k, k = OpenIn(s, state)
    PROVE  k \in KernelRecords /\ Sound(k) /\ k.owner = s /\ k.state = state
<1>1. k = [state |-> state, owner |-> s, blocking |-> TRUE, arrived |-> 0, taken |-> 0, held |-> 0,
           eof |-> FALSE, room |-> MaxRoom]
  BY DEF OpenIn, Open, Unused
<1>2. MaxRoom \in 0 .. MaxRoom /\ s \in Sockets \cup {Nil, "program"} /\ state \in States
  BY SocketAssumption DEF States
<1>3. k \in KernelRecords
  BY <1>1, <1>2 DEF KernelRecords
<1>4. /\ k.state = state /\ k.owner = s /\ k.arrived = 0 /\ k.taken = 0 /\ k.held = 0 /\ k.eof = FALSE
      /\ state # "free"
  BY <1>1
<1> QED
  BY <1>3, <1>4 DEF Sound

LEMMA InitWithAddressStep == ASSUME Core, InitWithAddress PROVE Core' /\ Told'
<1> USE SocketAssumption
<1>1. PICK s \in Sockets \ Live, type \in {"tcp", "udp"} :
          /\ call = Idle /\ IsFree
          /\ LET x == New(NextFree, type, TRUE, {})
                 k == [kernel EXCEPT ![NextFree] = Open(s)]
                 fails(errno) == Reports([op |-> "init", s |-> s, timed |-> FALSE, happened |-> {},
                                          at |-> "init", result |-> "none", value |-> 0], errno)
             IN  \/ fails("EMFILE") /\ UNCHANGED <<socket, kernel>>
                 \/ fails("ENOPROTOOPT") /\ kernel' = GiveUp(x, k) /\ UNCHANGED socket
                 \/ /\ socket' = [socket EXCEPT ![s] = x]
                    /\ kernel' = k
                    /\ UNCHANGED <<call, error>>
          /\ UNCHANGED objects
  BY DEF InitWithAddress
<1>2. PICK d \in Descriptors : d = NextFree /\ kernel[d].state = "free"
  BY <1>1, NextFreeIsFree
<1>3. PICK x : x = New(d, type, TRUE, {})
  OBVIOUS
<1>4. x \in SocketRecords /\ x.sd = d /\ x.close = TRUE /\ Empty(x)
  <2>1. x = [sd |-> d, type |-> type, close |-> TRUE, direction |-> {}, ssl |-> FALSE,
             certificate |-> Nil, private_key |-> Nil, ciphers |-> Nil]
    BY <1>3 DEF New
  <2>2. x \in SocketRecords
    BY <2>1 DEF SocketRecords, MaybeObject, Ways
  <2>3. x.sd = d /\ x.close = TRUE /\ x.certificate = Nil /\ x.private_key = Nil /\ x.ciphers = Nil
    BY <2>1
  <2> QED
    BY <2>2, <2>3 DEF Empty
<1>5. PICK k : k = Open(s)
  OBVIOUS
<1>6. k \in KernelRecords /\ Sound(k) /\ k.owner = s /\ k.state = "new"
  <2>1. k = OpenIn(s, "new")
    BY <1>5 DEF Open, Unused, OpenIn
  <2>2. "new" \in {"new", "connected"} /\ s \in Sockets
    OBVIOUS
  <2> QED
    BY <2>1, <2>2, OpenRecord
<1>7. kernel \in [Descriptors -> KernelRecords] /\ TakesWhatArrived
  BY DEF Core, Typed
<1>8. PICK c : c = [op |-> "init", s |-> s, timed |-> FALSE, happened |-> {}, at |-> "init",
                    result |-> "none", value |-> 0]
  OBVIOUS
<1>9. ASSUME NEW errno \in Errnos, Reports(c, errno) PROVE Told' /\ IsError(error)'
  <2>1. PICK f : f = [op |-> "init", s |-> s, timed |-> FALSE, happened |-> {<<"errno", errno>>},
                      at |-> "return", result |-> "false", value |-> 0]
    OBVIOUS
  <2>2. PICK h : h = [op |-> "init", s |-> s, timed |-> FALSE, happened |-> {<<"errno", errno>>},
                      at |-> "init", result |-> "none", value |-> 0]
    OBVIOUS
  <2>3. Happens(c, <<"errno", errno>>) = h
    <3>1. Happens(c, <<"errno", errno>>) = [c EXCEPT !.happened = @ \cup {<<"errno", errno>>}]
      BY DEF Happens
    <3>2. c.happened \cup {<<"errno", errno>>} = {<<"errno", errno>>}
      BY <1>8
    <3> QED
      BY <1>8, <2>2, <3>1, <3>2, Zenon
  <2>4. [h EXCEPT !.at = "return", !.result = "false"] = f
    <3> DEFINE H == [op : {"init"}, s : Sockets, timed : {FALSE}, happened : SUBSET Failures,
                     at : {"init", "return"}, result : {"none", "false"}, value : {0}]
    <3>1. {<<"errno", errno>>} \in SUBSET Failures
      BY ErrnoIsError
    <3>2. h \in H
      BY <2>2, <3>1
    <3>3. h.s = s /\ h.happened = {<<"errno", errno>>}
      BY <2>2
    <3>4. PICK g : g = [h EXCEPT !.at = "return", !.result = "false"]
      OBVIOUS
    <3>5. g \in H /\ g.at = "return" /\ g.result = "false" /\ g.s = s /\ g.happened = {<<"errno", errno>>}
      BY <3>2, <3>3, <3>4
    <3>6. g = f
      BY <2>1, <3>5
    <3> QED
      BY <3>4, <3>6
  <2>5. call' = f /\ error' = SetErrno(errno)
    BY <1>9, <2>3, <2>4 DEF Reports, FailsWith, Fails
  <2>6. {<<"errno", errno>>} \in SUBSET Failures
    BY ErrnoIsError
  <2>7. f \in FailedInits
    BY <2>1, <2>6 DEF FailedInits
  <2>8. IsError(error)' /\ <<error'.domain, error'.code>> = <<"errno", errno>>
    BY <2>5, ErrnoIsError
  <2>9. f.at = "return" /\ f.result = "false" /\ f.happened = {<<"errno", errno>>}
    BY <2>1
  <2> QED
    BY <2>5, <2>7, <2>8, <2>9 DEF Told, CallGoesOn, Accepted, ErrorIsTold
<1>10. CASE Reports(c, "EMFILE") /\ UNCHANGED <<socket, kernel>>
  <2>1. Told' /\ IsError(error)'
    BY <1>9, <1>10 DEF Errnos
  <2> QED
    BY <1>1, <1>10, <2>1, CallOnly
<1>11. CASE /\ Reports(c, "ENOPROTOOPT") /\ UNCHANGED socket
            /\ kernel' = GiveUp(x, [kernel EXCEPT ![d] = Open(s)])
  <2>1. Told' /\ IsError(error)'
    BY <1>9, <1>11 DEF Errnos
  <2>2. kernel' = [[kernel EXCEPT ![d] = k] EXCEPT ![d] = Unused]
    BY <1>4, <1>5, <1>11 DEF GiveUp, AfterClose
  <2>3. kernel' = Edited(kernel, d, Unused)
    BY <1>7, <2>2 DEF Edited
  <2>4. Unused \in KernelRecords /\ Sound(Unused) /\ Unused.owner \notin Sockets
    BY DEF KernelRecords, States, Sound, Unused
  <2>5. \A u \in Live : Fd(u) # d
    BY <1>2, LiveSockets DEF Core, Owned, Of
  <2> QED
    BY <1>1, <1>11, <2>1, <2>3, <2>4, <2>5, StrangerEdit DEF Core
<1>12. CASE /\ socket' = [socket EXCEPT ![s] = x] /\ kernel' = [kernel EXCEPT ![d] = Open(s)]
            /\ UNCHANGED <<call, error>>
  <2>1. socket' = Edited(socket, s, x) /\ kernel' = Edited(kernel, d, k)
    BY <1>5, <1>12 DEF Edited
  <2>2. Alike(kernel)
    BY <1>7 DEF Alike, TakesWhatArrived
  <2>3. IsError(error)'
    BY <1>12, CoreErrors DEF IsError
  <2>4. Core'
    BY <1>1, <1>2, <1>4, <1>6, <1>7, <2>1, <2>2, <2>3, NewSocket
  <2> QED
    BY <1>1, <1>12, <2>4, NoCall
<1> QED
  BY <1>1, <1>2, <1>3, <1>8, <1>10, <1>11, <1>12

LEMMA InitWithDescriptorStep == ASSUME Core, InitWithDescriptor PROVE Core' /\ Told'
<1> USE SocketAssumption
<1>1. PICK s \in Sockets \ Live, d \in Descriptors :
          kernel[d].owner = "program" /\ Now(s, New(d, "none", FALSE, {}))
  BY DEF InitWithDescriptor
<1>2. PICK x : x = New(d, "none", FALSE, {})
  OBVIOUS
<1>3. x \in SocketRecords /\ x.sd = d /\ x.close = FALSE /\ Empty(x)
  BY <1>2, NewRecord DEF Ways
<1>4. /\ call = Idle /\ socket' = Edited(socket, s, x)
      /\ UNCHANGED <<kernel, call, error, objects>>
  BY <1>1, <1>2 DEF Now, Edited
<1>5. kernel[d].state # "free"
  BY <1>1 DEF Core, TakesWhatArrived, Sound
<1>6. /\ socket' \in [Sockets -> SocketRecords \cup {NoSocket}] /\ socket'[s] = x
      /\ \A u \in Sockets : u # s => socket'[u] = socket[u] /\ Fd(u)' = Fd(u)
      /\ Live' = Live \cup {s} /\ Counted'
  BY <1>3, <1>4, SocketAdded DEF Core
<1>7. Typed' /\ TakesWhatArrived'
  BY <1>4, <1>6 DEF Core, Typed, TakesWhatArrived, objects
<1>8. Usable' = Usable \cup {s} /\ \A u \in Usable : u # s /\ u \in Sockets
  <2>1. \A u \in Live : u # s /\ u \in Sockets /\ socket'[u].sd = socket[u].sd
    BY <1>6 DEF Live
  <2> QED
    BY <1>3, <1>6, <2>1 DEF Usable
<1>9. ASSUME NEW u \in Usable'
      PROVE  Of(u)'.state # "free" /\ Of(u)'.owner = IF socket'[u].close THEN u ELSE "program"
  <2>1. CASE u = s
    BY <1>1, <1>3, <1>4, <1>5, <1>6, <2>1 DEF Of, Fd
  <2>2. CASE u # s
    <3>1. u \in Usable /\ u \in Sockets
      BY <1>8, <1>9, <2>2
    <3>2. Of(u)' = Of(u) /\ socket'[u] = socket[u]
      BY <1>4, <1>6, <2>2, <3>1 DEF Of
    <3> QED
      BY <3>1, <3>2 DEF Core, Owned
  <2> QED
    BY <2>1, <2>2
<1>10. ASSUME NEW c \in Descriptors, kernel'[c].owner \in Sockets
       PROVE  socket'[kernel'[c].owner].sd = c
  <2>1. PICK w \in Sockets : w = kernel[c].owner /\ w = kernel'[c].owner
    BY <1>4, <1>10
  <2>2. Fd(w) = c
    BY <2>1 DEF Core, Owned
  <2>3. w # s
    <3>1. Fd(s) = -2
      BY DeadSockets DEF Core
    <3> QED
      BY <2>2, <3>1
  <2> QED
    BY <1>6, <2>1, <2>2, <2>3 DEF Fd
<1>11. Owned'
  BY <1>9, <1>10 DEF Owned, Fd
<1> QED
  BY <1>4, <1>6, <1>7, <1>11, NoCall DEF Core

LEMMA SetDirectionStep == ASSUME Core, SetDirection PROVE Core' /\ Told'
<1>1. PICK s \in Live, w \in Directions : Now(s, [socket[s] EXCEPT !.direction = w])
  BY DEF SetDirection
<1>2. PICK x : x = [socket[s] EXCEPT !.direction = w]
  OBVIOUS
<1>3. /\ call = Idle /\ socket' = Edited(socket, s, x)
      /\ UNCHANGED <<kernel, call, error, objects>>
  BY <1>1, <1>2 DEF Now, Edited
<1>4. socket[s] \in SocketRecords
  BY LiveSockets DEF Core
<1>5. /\ x \in SocketRecords /\ x.sd = socket[s].sd /\ x.close = socket[s].close
      /\ x.certificate = socket[s].certificate /\ x.private_key = socket[s].private_key
      /\ x.ciphers = socket[s].ciphers
  BY <1>2, <1>4 DEF SocketRecords, Ways
<1>6. SocketsKept
  BY <1>3, <1>5, SocketEdit DEF Core
<1>7. IsError(error)'
  BY <1>3, CoreErrors DEF IsError
<1> QED
  BY <1>3, <1>6, <1>7, NothingEdited, NoCall

\* The descriptor of an open socket takes another mode or state.
LEMMA StateEdit ==
    ASSUME Core, NEW s \in Usable, NEW state \in States, state # "free", NEW b \in BOOLEAN,
           NEW k, k = [Of(s) EXCEPT !.state = state, !.blocking = b],
           state = Of(s).state \/ (Of(s).state = "new" /\ ~ Of(s).eof),
           kernel' = Edited(kernel, Fd(s), k), SocketsKept, UNCHANGED objects
    PROVE  /\ Of(s)'.state = state /\ Of(s)'.blocking = b /\ Of(s)'.taken = Of(s).taken
           /\ Usable' = Usable /\ (IsError(error)' => Core')
<1>1. s \in Live /\ Fd(s) \in Descriptors /\ Of(s) \in KernelRecords /\ Of(s) = kernel[Fd(s)]
  BY LiveSockets DEF Usable, Core, Of
<1>2. Sound(Of(s)) /\ Of(s).state # "free"
  BY <1>1 DEF Core, TakesWhatArrived, Owned
<1>3. k \in KernelRecords
  BY <1>1 DEF KernelRecords
<1>4. /\ k.state = state /\ k.owner = Of(s).owner /\ k.arrived = Of(s).arrived /\ k.blocking = b
      /\ k.taken = Of(s).taken /\ k.held = Of(s).held /\ k.eof = Of(s).eof
  BY <1>1 DEF KernelRecords
<1>5. Sound(k)
  BY <1>2, <1>4 DEF Sound
<1> QED
  BY <1>3, <1>4, <1>5, StepKeepsCore

LEMMA SetBlockingStep == ASSUME Core, SetBlocking PROVE Core' /\ Told'
<1>1. PICK s \in Usable, b \in BOOLEAN :
          /\ call = Idle /\ kernel' = [kernel EXCEPT ![Fd(s)].blocking = b]
          /\ UNCHANGED <<socket, call, error, objects>>
  BY DEF SetBlocking
<1>2. s \in Live /\ Fd(s) \in Descriptors /\ Of(s) \in KernelRecords /\ Of(s) = kernel[Fd(s)]
  BY LiveSockets DEF Usable, Core, Of
<1>3. PICK state : state = Of(s).state
  OBVIOUS
<1>4. state \in States /\ state # "free"
  BY <1>2, <1>3, KernelRecordEdits DEF Core, Owned
<1>5. PICK k : k = [Of(s) EXCEPT !.state = state, !.blocking = b]
  OBVIOUS
<1>6. k = [Of(s) EXCEPT !.blocking = b]
  BY <1>2, <1>3, <1>5 DEF KernelRecords
<1>7. kernel' = Edited(kernel, Fd(s), k)
  BY <1>1, <1>2, <1>6 DEF Edited
<1>8. SocketsKept
  BY <1>1, SocketsSame DEF Core
<1>9. IsError(error)'
  BY <1>1, CoreErrors DEF IsError
<1>10. Core'
  BY <1>1, <1>3, <1>4, <1>5, <1>7, <1>8, <1>9, StateEdit
<1> QED
  BY <1>1, <1>10, NoCall

-----------------------------------------------------------------------------
(* Calls that begin *)

LEMMA Begins ==
    ASSUME Core, NEW c, Begin(c), c.s \in Usable, Progress(c, socket[c.s], Of(c.s)), c.at # "return"
    PROVE  Core' /\ Told'
<1>1. call' = c /\ UNCHANGED <<socket, kernel, error, objects>>
  BY DEF Begin
<1>2. IsError(error)'
  BY <1>1, CoreErrors DEF IsError
<1>3. Core' /\ Usable' = Usable /\ Of(c.s)' = Of(c.s)
  BY <1>1, <1>2, CallOnly
<1>4. Goes(c) /\ socket'[c.s] = socket[c.s]
  BY <1>1 DEF Goes
<1> QED
  BY <1>3, <1>4, CallGoes

LEMMA WaitMultipleStep == ASSUME Core, WaitMultiple PROVE Core' /\ Told'
<1>1. PICK op \in Multiple, timeout \in Timeouts :
          /\ op # "wait_multiple" => timeout = 0
          /\ \E s \in Among(op) : Begin(Call(op, s, timeout, "wait_multiple"))
  BY DEF WaitMultiple, Multiple
<1>2. PICK s \in Among(op) : Begin(Call(op, s, timeout, "wait_multiple"))
  BY <1>1
<1>3. s \in Usable
  <2>1. CASE op = "wait_multiple"
    BY <1>2, <2>1 DEF Among
  <2>2. CASE op = "accept_multiple"
    BY <1>2, <2>2 DEF Among
  <2>3. CASE op = "recvfrom_multiple"
    BY <1>2, <2>3 DEF Among
  <2> QED
    BY <2>1, <2>2, <2>3 DEF Multiple
<1>4. PICK c : c = Call(op, s, timeout, "wait_multiple")
  OBVIOUS
<1>5. /\ op \in Operations /\ timeout \in Nat /\ "wait_multiple" \in Places
  BY SocketAssumption DEF Operations, Places
<1>6. /\ Good(c) /\ c.op = op /\ c.s = s /\ c.timeout = timeout /\ c.timed = (timeout > 0)
      /\ c.at = "wait_multiple"
  BY <1>3, <1>4, <1>5, NewCall
<1>7. c.timeout > 0 => c.op = "wait_multiple" /\ c.timed
  <2>1. SUFFICES ASSUME timeout > 0 PROVE c.op = "wait_multiple" /\ c.timed
    BY <1>6
  <2>2. op = "wait_multiple"
    BY <1>1, <2>1
  <2> QED
    BY <1>6, <2>1, <2>2
<1>8. Progress(c, socket[c.s], Of(c.s))
  <2>1. Good(c) /\ c.at = "wait_multiple" /\ c.op \in Multiple
    BY <1>6
  <2> QED
    BY <1>7, <2>1 DEF Progress
<1> QED
  BY <1>2, <1>3, <1>4, <1>6, <1>8, Begins

LEMMA AcceptStep == ASSUME Core, Accept PROVE Core' /\ Told'
<1>1. PICK s \in Usable : Begin(Call("accept", s, 0, "accept"))
  BY DEF Accept
<1>2. PICK c : c = Call("accept", s, 0, "accept")
  OBVIOUS
<1>3. "accept" \in Operations /\ "accept" \in Places /\ 0 \in Nat
  BY DEF Operations, Places
<1>4. Good(c) /\ c.op = "accept" /\ c.s = s /\ c.at = "accept"
  BY <1>2, <1>3, NewCall
<1>5. Progress(c, socket[c.s], Of(c.s))
  BY <1>4 DEF Progress
<1> QED
  BY <1>1, <1>2, <1>4, <1>5, Begins

LEMMA RecvFromStep == ASSUME Core, RecvFrom PROVE Core' /\ Told'
<1>1. PICK s \in Usable : Of(s).state = "listening" /\ Begin(Call("recvfrom", s, 0, "recvfrom"))
  BY DEF RecvFrom
<1>2. PICK c : c = Call("recvfrom", s, 0, "recvfrom")
  OBVIOUS
<1>3. "recvfrom" \in Operations /\ "recvfrom" \in Places /\ 0 \in Nat
  BY DEF Operations, Places
<1>4. Good(c) /\ c.op = "recvfrom" /\ c.s = s /\ c.at = "recvfrom"
  BY <1>2, <1>3, NewCall
<1>5. Progress(c, socket[c.s], Of(c.s))
  BY <1>1, <1>4 DEF Progress
<1> QED
  BY <1>1, <1>2, <1>4, <1>5, Begins

LEMMA TransferStep ==
    ASSUME Core, NEW op \in {"read", "write"}, Transfer(op)
    PROVE  Core' /\ Told'
<1>1. PICK s \in Usable, timeout \in Timeouts, length \in Lengths :
          Begin([Call(op, s, timeout, op) EXCEPT !.length = length])
  BY DEF Transfer
<1>2. PICK b : b = Call(op, s, timeout, op)
  OBVIOUS
<1>3. op \in Operations /\ op \in Places /\ timeout \in Nat /\ length \in Nat
  BY SocketAssumption DEF Operations, Places
<1>4. /\ Good(b) /\ b.op = op /\ b.s = s /\ b.timed = (timeout > 0) /\ b.at = op
      /\ b.from = Of(s).taken /\ b.buffer = <<>> /\ b.value = 0
  BY <1>2, <1>3, NewCall
<1>5. PICK c : c = [b EXCEPT !.length = length]
  OBVIOUS
<1>6. /\ c \in CallRecords /\ c.op = op /\ c.s = s /\ c.at = op /\ c.timed = b.timed
      /\ c.from = Of(s).taken /\ c.buffer = <<>> /\ c.value = 0 /\ c.length = length
      /\ c.happened = b.happened
  BY <1>3, <1>4, <1>5 DEF Good, CallRecords
<1>7. Good(c)
  BY <1>3, <1>4, <1>6 DEF Good
<1>8. s \in Live /\ Of(s) \in KernelRecords
  BY LiveSockets DEF Usable, Core
<1>9. c.from \in Nat /\ c.from + 0 = c.from
  BY <1>6 DEF CallRecords
<1>10. [i \in 1 .. 0 |-> c.from + i] = <<>> /\ [i \in 1 .. 0 |-> i] = <<>>
  OBVIOUS
<1>11. Progress(c, socket[c.s], Of(c.s))
  <2>1. c.value = 0 /\ c.value \in 0 .. c.length /\ Of(c.s).taken = c.from + c.value
    BY <1>3, <1>6, <1>9
  <2>2. c.buffer = [i \in 1 .. c.value |-> c.from + i] /\ c.buffer = [i \in 1 .. c.value |-> i]
    BY <1>6, <1>10
  <2>3. c.at = c.op /\ c.op \in {"read", "write"}
    BY <1>6
  <2> QED
    BY <1>7, <2>1, <2>2, <2>3 DEF Progress
<1>12. Begin(c)
  BY <1>1, <1>2, <1>5
<1> QED
  BY <1>6, <1>11, <1>12, Begins

\* A call that is over when it begins.
LEMMA SendToStep == ASSUME Core, SendTo PROVE Core' /\ Told'
<1>1. PICK s \in Usable :
          /\ \/ Succeeds(Call("sendto", s, 0, "return"), 1)
             \/ Reports(Call("sendto", s, 0, "return"), "ENOBUFS")
          /\ UNCHANGED <<socket, kernel, objects>>
  BY DEF SendTo
<1>2. PICK c : c = Call("sendto", s, 0, "return")
  OBVIOUS
<1>3. "sendto" \in Operations /\ "return" \in Places /\ 0 \in Nat
  BY DEF Operations, Places
<1>4. Good(c) /\ c.op = "sendto" /\ c.s = s
  BY <1>2, <1>3, NewCall
<1>5. Usable' = Usable /\ (IsError(error)' => Core')
  BY <1>1, CallOnly
<1>6. CASE Succeeds(c, 1)
  <2>1. Done(Succeeded(c, 1), socket'[c.s], Of(c.s)')
    BY <1>4, SucceededCall DEF Done
  <2>2. Told' /\ error' = error
    BY <1>4, <1>5, <1>6, <2>1, CallSucceeds
  <2> QED
    BY <1>5, <2>2, CoreErrors DEF IsError
<1>7. CASE Reports(c, "ENOBUFS")
  BY <1>4, <1>5, <1>7, CallReports DEF Errnos
<1> QED
  BY <1>1, <1>2, <1>6, <1>7

-----------------------------------------------------------------------------
(* Listening, connecting and the handshake *)

InState(k, state, b) == [k EXCEPT !.state = state, !.blocking = b]
AsState(f, d, state) == [f EXCEPT ![d].state = state]

LEMMA NewEnds ==
    ASSUME Core, NEW s \in Usable
    PROVE  Of(s).state = "new" => ~ Of(s).eof
<1>1. Fd(s) \in Descriptors /\ Of(s) = kernel[Fd(s)]
  BY LiveSockets DEF Usable, Core, Of
<1> QED
  BY <1>1 DEF Core, TakesWhatArrived, Sound

LEMMA ListenStep == ASSUME Core, Listen PROVE Core' /\ Told'
<1>1. PICK s \in Usable :
          /\ call = Idle /\ Of(s).state = "new"
          /\ LET c == Call("listen", s, 0, "return") IN
             \/ /\ kernel' = [kernel EXCEPT ![Fd(s)].state = "listening"]
                /\ socket' = [socket EXCEPT ![s].direction = {"read"}]
                /\ Succeeds(c, 0)
             \/ Reports(c, "EADDRINUSE") /\ UNCHANGED <<socket, kernel>>
          /\ UNCHANGED objects
  BY DEF Listen
<1>2. PICK c : c = Call("listen", s, 0, "return")
  OBVIOUS
<1>3. "listen" \in Operations /\ "return" \in Places /\ 0 \in Nat
  BY DEF Operations, Places
<1>4. Good(c) /\ c.op = "listen" /\ c.s = s
  BY <1>2, <1>3, NewCall
<1>5. CASE /\ kernel' = [kernel EXCEPT ![Fd(s)].state = "listening"]
           /\ socket' = [socket EXCEPT ![s].direction = {"read"}]
           /\ Succeeds(c, 0)
  <2>1. s \in Live /\ Fd(s) \in Descriptors /\ Of(s) \in KernelRecords /\ Of(s) = kernel[Fd(s)]
    BY LiveSockets DEF Usable, Core, Of
  <2>2. PICK b \in BOOLEAN : b = Of(s).blocking
    BY <2>1, KernelRecordEdits
  <2>3. PICK state \in States : state = "listening"
    BY DEF States
  <2>4. PICK k : k = [Of(s) EXCEPT !.state = state, !.blocking = b]
    OBVIOUS
  <2>5. k = [Of(s) EXCEPT !.state = "listening"]
    BY <2>1, <2>2, <2>3, <2>4 DEF KernelRecords
  <2>6. kernel' = Edited(kernel, Fd(s), k)
    BY <1>5, <2>1, <2>5 DEF Edited
  <2>7. SocketsKept
    <3>1. {"read"} \in Ways
      BY DEF Ways
    <3> QED
      BY <1>5, <2>1, <3>1, DirectionEdit DEF Core
  <2>8. ~ Of(s).eof
    BY <1>1, NewEnds
  <2>9. Usable' = Usable /\ (IsError(error)' => Core')
    BY <1>1, <2>3, <2>4, <2>6, <2>7, <2>8, StateEdit
  <2>10. Done(Succeeded(c, 0), socket'[c.s], Of(c.s)')
    BY <1>4, SucceededCall DEF Done
  <2>11. Told' /\ error' = error
    BY <1>4, <1>5, <2>9, <2>10, CallSucceeds
  <2> QED
    BY <2>9, <2>11, CoreErrors DEF IsError
<1>6. CASE Reports(c, "EADDRINUSE") /\ UNCHANGED <<socket, kernel>>
  <2>1. Usable' = Usable /\ (IsError(error)' => Core')
    BY <1>1, <1>6, CallOnly
  <2> QED
    BY <1>4, <1>6, <2>1, CallReports DEF Errnos
<1> QED
  BY <1>1, <1>2, <1>5, <1>6

\* The mode that a call with a time-out sets.
CallMode(c) == IF c.timed THEN FALSE ELSE c.mode

LEMMA ModeEdits ==
    ASSUME Core, NEW s \in Usable, NEW c \in CallRecords, c.s = s, c.mode = Of(s).blocking,
           NEW state \in States, NEW d, d = Fd(s)
    PROVE  /\ NonBlocking(kernel, c)[d].blocking = CallMode(c)
           /\ NonBlocking(kernel, c) = Edited(kernel, d, InState(Of(s), Of(s).state, CallMode(c)))
           /\ AsState(NonBlocking(kernel, c), d, state) = Edited(kernel, d, InState(Of(s), state, CallMode(c)))
           /\ Restored(AsState(NonBlocking(kernel, c), d, state), c)
                  = Edited(kernel, d, InState(Of(s), state, c.mode))
<1>1. /\ s \in Live /\ d \in Descriptors /\ Of(s) \in KernelRecords /\ Of(s) = kernel[d]
      /\ kernel \in [Descriptors -> KernelRecords]
  BY LiveSockets DEF Usable, Core, Of, Typed
<1>2. c.mode \in BOOLEAN /\ c.timed \in BOOLEAN /\ CallMode(c) \in BOOLEAN
  BY DEF CallRecords, CallMode
<1>3. PICK k \in KernelRecords : k = kernel[d]
  BY <1>1
<1>4. PICK f : f = NonBlocking(kernel, c)
  OBVIOUS
<1>5. PICK k1 : k1 = InState(k, k.state, CallMode(c))
  OBVIOUS
<1>6. k1 = [k EXCEPT !.blocking = IF c.timed THEN FALSE ELSE @]
  BY <1>1, <1>3, <1>5 DEF KernelRecords, InState, CallMode
<1>7. k1 \in KernelRecords /\ k1.blocking = CallMode(c)
  BY <1>2, <1>3, <1>5 DEF KernelRecords, InState
<1>8. f = Edited(kernel, d, k1)
  BY <1>1, <1>3, <1>4, <1>6 DEF NonBlocking, Edited
<1>9. f[d] = k1 /\ f \in [Descriptors -> KernelRecords]
  BY <1>1, <1>7, <1>8 DEF Edited
<1>10. PICK k2 : k2 = InState(k, state, CallMode(c))
  OBVIOUS
<1>11. k2 = [k1 EXCEPT !.state = state]
  BY <1>2, <1>3, <1>5, <1>7, <1>10 DEF KernelRecords, InState
<1>12. k2 \in KernelRecords
  BY <1>2, <1>3, <1>10 DEF KernelRecords, InState
<1>13. PICK g : g = AsState(f, d, state)
  OBVIOUS
<1>14. g = Edited(f, d, k2)
  BY <1>1, <1>9, <1>11, <1>13 DEF AsState, Edited
<1>15. g = Edited(kernel, d, k2)
  BY <1>1, <1>8, <1>14 DEF Edited
<1>16. g[d] = k2 /\ g \in [Descriptors -> KernelRecords]
  BY <1>1, <1>12, <1>15 DEF Edited
<1>17. PICK k3 : k3 = InState(k, state, c.mode)
  OBVIOUS
<1>18. k3 = [k2 EXCEPT !.blocking = IF c.timed /\ c.mode THEN TRUE ELSE @]
  BY <1>2, <1>3, <1>10, <1>12, <1>17 DEF KernelRecords, InState, CallMode
<1>19. Restored(g, c) = Edited(g, d, k3)
  BY <1>1, <1>16, <1>18 DEF Restored, Edited
<1>20. Restored(g, c) = Edited(kernel, d, k3)
  BY <1>1, <1>15, <1>19 DEF Edited
<1> QED
  BY <1>1, <1>3, <1>4, <1>5, <1>7, <1>8, <1>9, <1>10, <1>13, <1>15, <1>17, <1>20

LEMMA InStateEdit ==
    ASSUME Core, NEW s \in Usable, NEW state \in States, state # "free", NEW b \in BOOLEAN,
           state = Of(s).state \/ Of(s).state = "new",
           kernel' = Edited(kernel, Fd(s), InState(Of(s), state, b)), SocketsKept, UNCHANGED objects
    PROVE  /\ Of(s)'.state = state /\ Of(s)'.blocking = b
           /\ Usable' = Usable /\ (IsError(error)' => Core')
<1>1. PICK k : k = [Of(s) EXCEPT !.state = state, !.blocking = b]
  OBVIOUS
<1>2. kernel' = Edited(kernel, Fd(s), k)
  BY <1>1 DEF InState
<1>3. state = Of(s).state \/ (Of(s).state = "new" /\ ~ Of(s).eof)
  BY NewEnds
<1> QED
  BY <1>1, <1>2, <1>3, StateEdit

LEMMA ConnectStep == ASSUME Core, Connect PROVE Core' /\ Told'
<1>1. PICK s \in Usable, timeout \in Timeouts :
          /\ call = Idle /\ Of(s).state = "new"
          /\ LET c == Call("connect", s, timeout, "connecting")
                 k == NonBlocking(kernel, c)
                 becomes(state) == [k EXCEPT ![Fd(s)].state = state]
             IN  \/ kernel' = Restored(becomes("connected"), c) /\ Connected(c)
                 \/ kernel' = becomes("refused") /\ Reports(c, "ECONNREFUSED") /\ UNCHANGED socket
                 \/ /\ ~k[Fd(s)].blocking
                    /\ kernel' = becomes("connecting")
                    /\ IF c.timed THEN Goes(c) ELSE Reports(c, "EINPROGRESS")
                    /\ UNCHANGED socket
          /\ UNCHANGED objects
  BY DEF Connect
<1>2. PICK c : c = Call("connect", s, timeout, "connecting")
  OBVIOUS
<1>3. PICK d : d = Fd(s)
  OBVIOUS
<1>4. "connect" \in Operations /\ "connecting" \in Places /\ timeout \in Nat
  BY SocketAssumption DEF Operations, Places
<1>5. Good(c) /\ c.op = "connect" /\ c.s = s /\ c.at = "connecting" /\ c.mode = Of(s).blocking
  BY <1>2, <1>4, NewCall
<1>6. c \in CallRecords /\ c.mode \in BOOLEAN /\ c.timed \in BOOLEAN /\ CallMode(c) \in BOOLEAN
  BY <1>5 DEF Good, CallRecords, CallMode
<1>7. \/ kernel' = Restored(AsState(NonBlocking(kernel, c), d, "connected"), c) /\ Connected(c)
      \/ /\ kernel' = AsState(NonBlocking(kernel, c), d, "refused")
         /\ Reports(c, "ECONNREFUSED") /\ UNCHANGED socket
      \/ /\ ~NonBlocking(kernel, c)[d].blocking
         /\ kernel' = AsState(NonBlocking(kernel, c), d, "connecting")
         /\ IF c.timed THEN Goes(c) ELSE Reports(c, "EINPROGRESS")
         /\ UNCHANGED socket
  BY <1>1, <1>2, <1>3 DEF AsState
<1>8. {"connected", "refused", "connecting"} \subseteq States \ {"free"}
  BY DEF States
<1>9. CASE kernel' = Restored(AsState(NonBlocking(kernel, c), d, "connected"), c) /\ Connected(c)
  <2>1. kernel' = Edited(kernel, d, InState(Of(s), "connected", c.mode))
    BY <1>3, <1>5, <1>6, <1>8, <1>9, ModeEdits
  <2>2. socket' = [socket EXCEPT ![s].direction = {"read"}] /\ Succeeds(c, 0)
    BY <1>5, <1>9 DEF Connected
  <2>3. {"read"} \in Ways /\ s \in Live
    BY DEF Ways, Usable
  <2>4. SocketsKept
    BY <2>2, <2>3, DirectionEdit DEF Core
  <2>5. /\ Of(s)'.state = "connected" /\ Of(s)'.blocking = c.mode
        /\ Usable' = Usable /\ (IsError(error)' => Core')
    BY <1>1, <1>3, <1>6, <1>8, <2>1, <2>4, InStateEdit
  <2>6. Done(Succeeded(c, 0), socket'[s], Of(s)')
    BY <1>5, <2>5, ConnectedDone
  <2>7. Told' /\ error' = error
    BY <1>5, <2>2, <2>5, <2>6, CallSucceeds
  <2> QED
    BY <2>5, <2>7, CoreErrors DEF IsError
<1>10. CASE UNCHANGED socket /\ kernel' = AsState(NonBlocking(kernel, c), d, "refused")
            /\ Reports(c, "ECONNREFUSED")
  <2>1. kernel' = Edited(kernel, d, InState(Of(s), "refused", CallMode(c)))
    BY <1>3, <1>5, <1>6, <1>8, <1>10, ModeEdits
  <2>2. SocketsKept
    BY <1>10, SocketsSame DEF Core
  <2>3. Usable' = Usable /\ (IsError(error)' => Core')
    BY <1>1, <1>3, <1>6, <1>8, <2>1, <2>2, InStateEdit
  <2> QED
    BY <1>5, <1>10, <2>3, CallReports DEF Errnos
<1>11. CASE /\ ~NonBlocking(kernel, c)[d].blocking
            /\ kernel' = AsState(NonBlocking(kernel, c), d, "connecting")
            /\ IF c.timed THEN Goes(c) ELSE Reports(c, "EINPROGRESS")
            /\ UNCHANGED socket
  <2>1. kernel' = Edited(kernel, d, InState(Of(s), "connecting", CallMode(c)))
    BY <1>3, <1>5, <1>6, <1>8, <1>11, ModeEdits
  <2>2. SocketsKept
    BY <1>11, SocketsSame DEF Core
  <2>3. /\ Of(s)'.state = "connecting" /\ Of(s)'.blocking = CallMode(c)
        /\ Usable' = Usable /\ (IsError(error)' => Core')
    BY <1>1, <1>3, <1>6, <1>8, <2>1, <2>2, InStateEdit
  <2>4. CASE c.timed
    <3>1. Goes(c)
      BY <1>11, <2>4
    <3>2. ~ Of(s)'.blocking
      BY <2>3, <2>4 DEF CallMode
    <3>3. Progress(c, socket'[c.s], Of(c.s)')
      <4>1. Of(c.s)'.state = "connecting" /\ ~ Of(c.s)'.blocking
        BY <1>5, <2>3, <3>2
      <4> QED
        BY <1>5, <2>4, <4>1 DEF Progress
    <3>4. Told' /\ error' = error
      BY <1>5, <2>3, <3>1, <3>3, CallGoes
    <3> QED
      BY <2>3, <3>4, CoreErrors DEF IsError
  <2>5. CASE ~ c.timed
    BY <1>5, <1>11, <2>3, <2>5, CallReports DEF Errnos
  <2> QED
    BY <2>4, <2>5
<1> QED
  BY <1>7, <1>9, <1>10, <1>11

LEMMA SetupIsTold ==
    /\ IsError(SetOpenSSLError(<<"setup">>, "none")) /\ <<"openssl", "setup">> \in Failures
    /\ SetOpenSSLError(<<"setup">>, "none").domain = "openssl"
    /\ SetOpenSSLError(<<"setup">>, "none").code = "setup"
<1>1. PICK e : e = SetOpenSSLError(<<"setup">>, "none")
  OBVIOUS
<1>2. e = SetErrorWithString("openssl", "setup", <<"openssl", "setup">>)
  BY <1>1 DEF SetOpenSSLError
<1>3. e = [domain |-> "openssl", code |-> "setup", string |-> <<"openssl", "setup">>]
  BY <1>2 DEF SetErrorWithString, SetError
<1> QED
  BY <1>1, <1>3 DEF IsError, Domains, Failures

LEMMA BeginTlsStep ==
    ASSUME Core, NEW op \in {"connect_tls", "accept_tls"}, BeginTls(op)
    PROVE  Core' /\ Told'
<1>1. PICK s \in Usable, timeout \in Timeouts :
          /\ call = Idle /\ Of(s).state = "connected"
          /\ LET c == Call(op, s, timeout, "handshake") IN
             \/ /\ Fails(Happens(c, <<"openssl", "setup">>), SetOpenSSLError(<<"setup">>, "none"))
                /\ \E made \in BOOLEAN : socket' = [socket EXCEPT ![s].ssl = made]
                /\ UNCHANGED kernel
             \/ /\ Goes(c)
                /\ kernel' = NonBlocking(kernel, c)
                /\ socket' = [socket EXCEPT ![s].ssl = TRUE]
          /\ UNCHANGED objects
  BY DEF BeginTls
<1>2. PICK c : c = Call(op, s, timeout, "handshake")
  OBVIOUS
<1>3. op \in Operations /\ "handshake" \in Places /\ timeout \in Nat
  BY SocketAssumption DEF Operations, Places
<1>4. Good(c) /\ c.op = op /\ c.s = s /\ c.at = "handshake" /\ c.mode = Of(s).blocking
  BY <1>2, <1>3, NewCall
<1>5. c \in CallRecords /\ c.mode \in BOOLEAN /\ c.timed \in BOOLEAN /\ CallMode(c) \in BOOLEAN
  BY <1>4 DEF Good, CallRecords, CallMode
<1>6. s \in Live
  BY DEF Usable
<1>7. CASE /\ Fails(Happens(c, <<"openssl", "setup">>), SetOpenSSLError(<<"setup">>, "none"))
           /\ \E made \in BOOLEAN : socket' = [socket EXCEPT ![s].ssl = made]
           /\ UNCHANGED kernel
  <2>1. SocketsKept
    BY <1>6, <1>7, SslEdit DEF Core
  <2>2. /\ Good(Happens(c, <<"openssl", "setup">>)) /\ Happens(c, <<"openssl", "setup">>).s = c.s
        /\ <<"openssl", "setup">> \in Happens(c, <<"openssl", "setup">>).happened
    BY <1>4, SetupIsTold, HappensToCall
  <2>3. KernelKept /\ TakesWhatArrived'
    BY <1>7, KernelSame DEF Core
  <2>4. Usable' = Usable
    BY <2>1, KeptSockets DEF Core
  <2>5. Told' /\ error' = SetOpenSSLError(<<"setup">>, "none")
    BY <1>4, <1>7, <2>2, <2>4, SetupIsTold, CallFails
  <2>6. IsError(error)'
    BY <2>5, SetupIsTold
  <2> QED
    BY <1>1, <2>1, <2>3, <2>5, <2>6, CoreKept
<1>8. CASE /\ Goes(c)
           /\ kernel' = NonBlocking(kernel, c)
           /\ socket' = [socket EXCEPT ![s].ssl = TRUE]
  <2>1. SocketsKept
    <3>1. PICK b \in BOOLEAN : b = TRUE
      OBVIOUS
    <3>2. socket' = [socket EXCEPT ![s].ssl = b]
      BY <1>8, <3>1
    <3> QED
      BY <1>6, <3>2, SslEdit DEF Core
  <2>2. PICK d : d = Fd(s)
    OBVIOUS
  <2>3. PICK state \in States : state = "connected" /\ state = Of(s).state /\ state # "free"
    BY <1>1 DEF States
  <2>4. NonBlocking(kernel, c) = Edited(kernel, d, InState(Of(s), Of(s).state, CallMode(c)))
    BY <1>4, <1>5, <2>2, ModeEdits DEF States
  <2>5. kernel' = Edited(kernel, Fd(s), InState(Of(s), state, CallMode(c)))
    BY <1>8, <2>2, <2>3, <2>4
  <2>6. /\ Of(s)'.state = state /\ Of(s)'.blocking = CallMode(c)
        /\ Usable' = Usable /\ (IsError(error)' => Core')
    BY <1>1, <1>5, <2>1, <2>3, <2>5, InStateEdit
  <2>7. Progress(c, socket'[c.s], Of(c.s)')
    <3>1. /\ Of(c.s)'.state = "connected"
          /\ Of(c.s)'.blocking = IF c.timed THEN FALSE ELSE c.mode
      BY <1>4, <2>3, <2>6 DEF CallMode
    <3> QED
      BY <1>4, <3>1 DEF Progress
  <2>8. Told' /\ error' = error
    BY <1>4, <1>8, <2>6, <2>7, CallGoes
  <2> QED
    BY <2>6, <2>8, CoreErrors DEF IsError
<1> QED
  BY <1>1, <1>2, <1>7, <1>8

-----------------------------------------------------------------------------
(* Accepting *)

LEMMA TakenOne ==
    ASSUME Core, NEW s \in Usable, Waiting(Of(s)) # 0, NEW k1,
           k1 = [kernel EXCEPT ![Fd(s)].taken = @ + 1]
    PROVE  k1 \in [Descriptors -> KernelRecords] /\ Alike(k1)
<1>1. PICK d \in Descriptors : d = Fd(s) /\ Of(s) = kernel[d]
  BY LiveSockets DEF Usable, Core, Of
<1>2. /\ kernel \in [Descriptors -> KernelRecords]
      /\ \A c \in Descriptors : kernel[c] \in KernelRecords /\ Sound(kernel[c])
  BY DEF Core, Typed, TakesWhatArrived
<1>3. PICK k : k = [kernel[d] EXCEPT !.taken = @ + 1]
  OBVIOUS
<1>4. kernel[d].taken \in Nat /\ kernel[d].arrived \in Nat /\ kernel[d].held \in Nat
  BY <1>2 DEF KernelRecords
<1>5. k \in KernelRecords
  BY <1>2, <1>3, <1>4, KernelRecordEdits
<1>6. /\ k.arrived = kernel[d].arrived /\ k.taken = kernel[d].taken + 1 /\ k.held = kernel[d].held
      /\ k.eof = kernel[d].eof
      /\ k.state = kernel[d].state /\ k.owner = kernel[d].owner
  BY <1>2, <1>3 DEF KernelRecords
<1>7. Sound(k)
  BY <1>1, <1>2, <1>4, <1>6 DEF Sound, Waiting
<1>8. k1 = Edited(kernel, d, k)
  BY <1>1, <1>3 DEF Edited
<1>9. k1 \in [Descriptors -> KernelRecords] /\ \A c \in Descriptors : k1[c] = IF c = d THEN k ELSE kernel[c]
  BY <1>2, <1>5, <1>8 DEF Edited
<1> QED
  BY <1>2, <1>6, <1>7, <1>9 DEF Alike

LEMMA AcceptsStep == ASSUME Core, Told, Accepts PROVE Core' /\ Told'
<1>1. call # Idle /\ call.at = "accept" /\ UNCHANGED objects
  BY DEF Accepts
<1>2. "accept" \in Places /\ "accept" # "return"
  BY DEF Places
<1>3. /\ call.s \in Usable /\ Fd(call.s) \in Descriptors
      /\ Progress(call, socket[call.s], Of(call.s)) /\ Good(call)
      /\ Of(call.s) \in KernelRecords
  BY <1>1, <1>2, CallInPlace
<1>4. call.op \in {"accept", "accept_multiple"}
  BY <1>1, <1>3 DEF Progress
<1>5. ASSUME NEW errno \in Errnos, Reports(call, errno), UNCHANGED <<socket, kernel>>
      PROVE  Core' /\ Told'
  BY <1>1, <1>3, <1>5, StepReports
<1>6. CASE (\E o \in Blocked(Of(call.s)) : Reports(call, o.errno)) /\ UNCHANGED <<socket, kernel>>
  <2>1. PICK o \in Blocked(Of(call.s)) : Reports(call, o.errno)
    BY <1>6
  <2>2. o.errno \in Errnos
    BY <2>1 DEF Blocked, NotGot, Errnos
  <2> QED
    BY <1>5, <1>6, <2>1, <2>2
<1>7. CASE Reports(call, "EMFILE") /\ UNCHANGED <<socket, kernel>>
  BY <1>5, <1>7 DEF Errnos
<1>8. ASSUME Waiting(Of(call.s)) # 0, IsFree, NEW s \in Sockets \ Live,
             socket' = [socket EXCEPT ![s] = New(NextFree, "tcp", TRUE, {"read"})],
             kernel' = [kernel EXCEPT ![Fd(call.s)].taken = @ + 1,
                                      ![NextFree] = [Open(s) EXCEPT !.state = "connected"]],
             Succeeds(call, s)
      PROVE  Core' /\ Told'
  <2>1. PICK d \in Descriptors : d = NextFree /\ kernel[d].state = "free"
    BY <1>8, NextFreeIsFree
  <2>2. PICK x : x = New(d, "tcp", TRUE, {"read"})
    OBVIOUS
  <2>3. x \in SocketRecords /\ x.sd = d /\ x.close = TRUE /\ Empty(x)
    <3>1. x = [sd |-> d, type |-> "tcp", close |-> TRUE, direction |-> {"read"}, ssl |-> FALSE,
               certificate |-> Nil, private_key |-> Nil, ciphers |-> Nil]
      BY <2>2 DEF New
    <3>2. x \in SocketRecords
      BY <3>1 DEF SocketRecords, MaybeObject, Ways
    <3>3. x.sd = d /\ x.close = TRUE /\ x.certificate = Nil /\ x.private_key = Nil /\ x.ciphers = Nil
      BY <3>1
    <3> QED
      BY <3>2, <3>3 DEF Empty
  <2>4. PICK k : k = [Open(s) EXCEPT !.state = "connected"]
    OBVIOUS
  <2>5. k \in KernelRecords /\ Sound(k) /\ k.owner = s /\ k.state # "free"
    <3>1. PICK state \in {"new", "connected"} : state = "connected"
      OBVIOUS
    <3>2. k = OpenIn(s, state)
      BY <2>4, <3>1 DEF OpenIn
    <3> QED
      BY <3>1, <3>2, OpenRecord
  <2>6. PICK k1 : k1 = [kernel EXCEPT ![Fd(call.s)].taken = @ + 1]
    OBVIOUS
  <2>7. k1 \in [Descriptors -> KernelRecords] /\ Alike(k1)
    BY <1>3, <1>8, <2>6, TakenOne
  <2>8. socket' = Edited(socket, s, x)
    BY <1>8, <2>1, <2>2 DEF Edited
  <2>9. kernel' = Edited(k1, d, k)
    BY <1>8, <2>1, <2>4, <2>6 DEF Edited
  <2>10. error' = error /\ IsError(error)'
    BY <1>8, CoreErrors DEF Succeeds, IsError
  <2>11. s \in Sockets /\ s \notin Live /\ UNCHANGED objects
    BY <1>1
  <2>12. Core' /\ Usable' = Usable \cup {s} /\ socket'[s] = x
    BY <2>1, <2>3, <2>5, <2>7, <2>8, <2>9, <2>10, <2>11, NewSocket
  <2>13. call.s \in Usable' /\ s \in Usable' /\ socket'[s].close
    BY <1>3, <2>3, <2>12
  <2>14. Told'
    <3>1. PICK c : c = call
      OBVIOUS
    <3>2. Succeeds(c, s) /\ Good(c) /\ c.s \in Usable'
      BY <1>3, <1>8, <2>13, <3>1
    <3>3. Done(Succeeded(c, s), socket'[c.s], Of(c.s)')
      <4>1. c.op \in {"accept", "accept_multiple"} /\ s \in Nat \cup Sockets
        BY <1>4, <3>1
      <4>2. Succeeded(c, s).op = c.op
        BY <3>2, <4>1, SucceededCall
      <4> QED
        BY <4>1, <4>2 DEF Done
    <3> QED
      BY <2>13, <3>2, <3>3, CallSucceeds
  <2> QED
    BY <2>12, <2>14
<1> QED
  BY <1>5, <1>6, <1>7, <1>8 DEF Accepts

-----------------------------------------------------------------------------
(* The invariant *)

LEMMA WorldStep == ASSUME Core, Told, World PROVE Core' /\ Told'
<1>1. UNCHANGED <<socket, call, error, objects>>
  BY DEF World
<1>2. Core' /\ (call = Idle \/ Waited)
  BY WorldWaits DEF Core
<1>3. CASE call = Idle
  BY <1>1, <1>2, <1>3, NoCall
<1>4. CASE call # Idle
  <2>1. Usable' = Usable /\ \A s \in Usable : Later(Of(s), Of(s)')
    BY <1>2, <1>4 DEF Waited
  <2>2. CASE call \in FailedInits
    BY <1>1, <1>2, <2>2 DEF Told, CallGoesOn, Accepted, ErrorIsTold, FailedInits
  <2>3. CASE call.s \in Usable /\ Progress(call, socket[call.s], Of(call.s))
    <3>1. PICK c : c = call
      OBVIOUS
    <3>2. c.s \in Usable /\ Progress(c, socket[c.s], Of(c.s)) /\ Later(Of(c.s), Of(c.s)')
      BY <2>1, <2>3, <3>1
    <3>3. Progress(c, socket[c.s], Of(c.s)')
      BY <3>2, ProgressStays
    <3>4. CallGoesOn'
      BY <1>1, <2>1, <3>1, <3>2, <3>3 DEF CallGoesOn
    <3>5. Usable' = Usable
      BY <2>1
    <3> QED
      BY <1>1, <1>2, <3>4, <3>5 DEF Told, Accepted, ErrorIsTold
  <2> QED
    BY <1>2, <1>4, <2>2, <2>3 DEF Told, CallGoesOn
<1> QED
  BY <1>3, <1>4

LEMMA InitIsSound == Init => IInv
<1> USE SocketAssumption
<1> SUFFICES ASSUME Init PROVE IInv
  OBVIOUS
<1>1. /\ socket = [s \in Sockets |-> NoSocket] /\ kernel = [d \in Descriptors |-> Unused]
      /\ call = Idle /\ error = EnterThread /\ refs = [o \in Objects |-> 1] /\ owned = Objects
  BY DEF Init
<1>2. Unused \in KernelRecords /\ Sound(Unused) /\ Unused.owner = Nil
  BY DEF KernelRecords, States, Sound, Unused
<1>3. IsError(error)
  BY <1>1 DEF EnterThread, IsError, Domains
<1>4. Typed /\ TakesWhatArrived
  BY <1>1, <1>2, <1>3 DEF Typed, TakesWhatArrived
<1>5. Live = {} /\ Usable = {}
  BY <1>1 DEF Live, Usable
<1>6. Owned
  BY <1>1, <1>2, <1>5 DEF Owned
<1>7. Counted
  <2> SUFFICES ASSUME NEW o \in Objects
               PROVE  refs[o] = (IF o \in owned THEN 1 ELSE 0) + Cardinality(WithCertificate(o))
                                + Cardinality(WithKey(o)) + Cardinality(WithCiphers(o))
    BY Counts
  <2>1. WithCertificate(o) = {} /\ WithKey(o) = {} /\ WithCiphers(o) = {}
    BY <1>5 DEF WithCertificate, WithKey, WithCiphers
  <2>2. refs[o] = 1 /\ o \in owned
    BY <1>1
  <2>3. Cardinality({}) = 0
    BY FS_EmptySet
  <2> QED
    BY <2>1, <2>2, <2>3
<1> QED
  BY <1>1, <1>4, <1>6, <1>7 DEF IInv, Core, Told, CallGoesOn, Accepted, ErrorIsTold

LEMMA CallsStep == ASSUME Core, Calls PROVE Core' /\ Told'
<1>1. CASE Close
  BY <1>1, CloseStep
<1>2. CASE Dealloc
  BY <1>2, DeallocStep
<1>3. CASE InitWithAddress
  BY <1>3, InitWithAddressStep
<1>4. CASE InitWithDescriptor
  BY <1>4, InitWithDescriptorStep
<1>5. CASE SetDirection
  BY <1>5, SetDirectionStep
<1>6. CASE SetBlocking
  BY <1>6, SetBlockingStep
<1>7. CASE SetCertificate
  BY <1>7, SetCertificateStep
<1>8. CASE SetPrivateKey
  BY <1>8, SetPrivateKeyStep
<1>9. CASE SetCiphers
  BY <1>9, SetCiphersStep
<1>10. CASE Forget
  BY <1>10, ForgetStep
<1>11. CASE WaitMultiple
  BY <1>11, WaitMultipleStep
<1>12. CASE Listen
  BY <1>12, ListenStep
<1>13. CASE Accept
  BY <1>13, AcceptStep
<1>14. CASE Connect
  BY <1>14, ConnectStep
<1>15. CASE ConnectTls
  BY <1>15, BeginTlsStep DEF ConnectTls
<1>16. CASE AcceptTls
  BY <1>16, BeginTlsStep DEF AcceptTls
<1>17. CASE SendTo
  BY <1>17, SendToStep
<1>18. CASE RecvFrom
  BY <1>18, RecvFromStep
<1>19. CASE ReadBytes
  BY <1>19, TransferStep DEF ReadBytes
<1>20. CASE WriteBytes
  BY <1>20, TransferStep DEF WriteBytes
<1> QED
  BY <1>1, <1>2, <1>3, <1>4, <1>5, <1>6, <1>7, <1>8, <1>9, <1>10, <1>11, <1>12, <1>13, <1>14,
     <1>15, <1>16, <1>17, <1>18, <1>19, <1>20 DEF Calls

LEMMA StepsStep == ASSUME Core, Told, Steps PROVE Core' /\ Told'
<1>1. CASE Selects
  BY <1>1, SelectsStep
<1>2. CASE Accepts
  BY <1>2, AcceptsStep
<1>3. CASE Connecting
  BY <1>3, ConnectingStep
<1>4. CASE Handshake
  BY <1>4, HandshakeStep
<1>5. CASE Shaking
  BY <1>5, ShakingStep
<1>6. CASE Receives
  BY <1>6, ReceivesStep
<1>7. CASE Reads
  BY <1>7, ReadsStep
<1>8. CASE ReadsTls
  BY <1>8, ReadsTlsStep
<1>9. CASE Writes
  BY <1>9, WritesStep
<1>10. CASE WritesTls
  BY <1>10, WritesTlsStep
<1>11. CASE Return
  BY <1>11, Returns
<1>12. CASE Reading
  BY <1>12, ReadingStep
<1>13. CASE Writing
  BY <1>13, WritingStep
<1> QED
  BY <1>1, <1>2, <1>3, <1>4, <1>5, <1>6, <1>7, <1>8, <1>9, <1>10, <1>11, <1>12, <1>13 DEF Steps

LEMMA StaysSound == IInv /\ [Next]_vars => IInv'
<1> SUFFICES ASSUME Core, Told, [Next]_vars PROVE Core' /\ Told'
  BY DEF IInv
<1>1. CASE Next
  BY <1>1, WorldStep, InterruptedStep, CallsStep, StepsStep DEF Next
<1>2. CASE UNCHANGED vars
  <2>1. UNCHANGED <<socket, kernel, call, error, objects>>
    BY <1>2 DEF vars, objects
  <2>2. IsError(error)'
    BY <2>1, CoreErrors DEF IsError
  <2>3. Core' /\ Usable' = Usable /\ \A s \in Usable : Of(s)' = Of(s)
    BY <2>1, <2>2, CallOnly
  <2>4. CASE call = Idle
    BY <2>1, <2>3, <2>4, NoCall
  <2>5. CASE call \in FailedInits
    BY <2>1, <2>3, <2>5 DEF Told, CallGoesOn, Accepted, ErrorIsTold
  <2>6. CASE call.s \in Usable /\ Progress(call, socket[call.s], Of(call.s))
    <3>1. PICK c : c = call
      OBVIOUS
    <3>2. c.s \in Usable /\ Progress(c, socket[c.s], Of(c.s)) /\ Of(c.s)' = Of(c.s)
      BY <2>3, <2>6, <3>1
    <3>3. CallGoesOn'
      BY <2>1, <2>3, <3>1, <3>2 DEF CallGoesOn
    <3> QED
      BY <2>1, <2>3, <3>3 DEF Told, Accepted, ErrorIsTold
  <2> QED
    BY <2>3, <2>4, <2>5, <2>6 DEF Told, CallGoesOn
<1> QED
  BY <1>1, <1>2

-----------------------------------------------------------------------------
(* What the invariant is for *)

\* Descriptors and objects have the owners they should.
LEMMA OwningFollows == IInv => OwnsWhatItHolds
<1> USE SocketAssumption
<1> SUFFICES ASSUME Core, Told PROVE OwnsWhatItHolds
  BY DEF IInv
<1>1. ASSUME NEW s \in Live
      PROVE  socket[s].sd \in {-1} \cup Descriptors /\ socket[s].direction \in Directions \cup {{}, {"read"}}
  BY LiveSockets DEF Core, SocketRecords, Ways
<1>2. ASSUME NEW d \in Descriptors
      PROVE  Waiting(kernel[d]) >= 0 /\ kernel[d].room \in 0 .. MaxRoom
  <2>1. kernel[d] \in KernelRecords /\ Sound(kernel[d])
    BY DEF Core, Typed, TakesWhatArrived
  <2>2. /\ kernel[d].taken \in Nat /\ kernel[d].held \in Nat /\ kernel[d].arrived \in Nat
        /\ kernel[d].room \in 0 .. MaxRoom /\ kernel[d].taken + kernel[d].held <= kernel[d].arrived
    BY <2>1, KernelRecordEdits DEF Sound
  <2> QED
    BY <2>2 DEF Waiting
<1>3. call = Idle \/ call.op = "init" \/ (call.s \in Usable /\ Len(call.buffer) <= call.length)
  BY DEF Told, CallGoesOn, FailedInits, Progress, Good
<1>4. IsError(error)
  BY CoreErrors
<1>5. TypeOK
  BY <1>1, <1>2, <1>3, <1>4 DEF TypeOK
<1> QED
  BY <1>5 DEF OwnsWhatItHolds, Core, Owned, Counted

\* What a call that returns says of itself.
LEMMA TruthFollows == IInv => ResultsAreTrue
<1> SUFFICES ASSUME Core, Told, call # Idle, call.at = "return"
             PROVE  /\ call.result = "false" => <<error.domain, error.code>> \in call.happened
                    /\ call.result = "nothing" => call.op = "wait_multiple" /\ call.timed
                    /\ call.result \notin {"false", "nothing"} =>
                          /\ Done(call, socket[call.s], Of(call.s))
                          /\ call.op = "accept" => Of(call.value).owner = call.value
  BY DEF IInv, ResultsAreTrue, Done
<1>1. CASE call.result = "false"
  BY <1>1 DEF Told, ErrorIsTold
<1>2. CASE call.result = "nothing"
  <2>1. call \notin FailedInits
    BY <1>2 DEF FailedInits
  <2> QED
    BY <1>2, <2>1 DEF Told, CallGoesOn, Progress
<1>3. CASE call.result \notin {"false", "nothing"}
  <2>1. call \notin FailedInits
    BY <1>3 DEF FailedInits
  <2>2. call.result = "true" /\ Done(call, socket[call.s], Of(call.s))
    BY <1>3, <2>1 DEF Told, CallGoesOn, Progress
  <2>3. call.op = "accept" => Of(call.value).owner = call.value
    BY <2>2 DEF Told, Accepted, Core, Owned
  <2> QED
    BY <1>3, <2>2, <2>3
<1> QED
  BY <1>1, <1>2, <1>3

\* The invariant of Socket.
THEOREM CallsAreSound == Spec => []IInv
BY InitIsSound, StaysSound, PTL DEF Spec

\* Each descriptor is that of one live socket, or the program's own, and is given back once, and
\* certificates, keys and ciphers are held as often as they are set, whatever calls are made,
\* fail, or are interrupted.
THEOREM SocketsAlwaysOwn == Spec => []OwnsWhatItHolds
BY CallsAreSound, OwningFollows, PTL

\* What a call returns is true: the error of one that fails is a failure it met, and one that
\* succeeds has connected, read or written what it says, however its system calls were split,
\* interrupted or refused.
THEOREM ResultsAreAlwaysTrue == Spec => []ResultsAreTrue
BY CallsAreSound, TruthFollows, PTL
=============================================================================
