------------------------------- MODULE Socket -------------------------------
(***************************************************************************)
(* net/wi-socket.c: sockets of one thread, against a kernel and peers that *)
(* do what they like between any two system calls.                         *)
(*                                                                         *)
(* `kernel' is the table of descriptors: for each its state, its mode, the *)
(* bytes that have arrived (numbered 1, 2, ...) and been taken, those of   *)
(* an incomplete record that OpenSSL holds, or the                         *)
(* connections or datagrams that wait, whether the peer has ended, and the *)
(* room for what is written.  `call' is the call in progress: it goes      *)
(* from its first system call to "return" in one step for each wait, and   *)
(* may be held up inside a read or a write of a socket in blocking mode.   *)
(* Time-outs are numbers of half seconds, 0 for none.                      *)
(***************************************************************************)
EXTENDS Error

CONSTANTS Sockets, Descriptors,
          Objects,        \* certificates, keys and ciphers of TLS
          Nil,            \* NULL
          Timeouts,       \* time-outs that are passed
          Slice,          \* the 1.0 s a connect or a handshake waits at a time
          MaxBytes,       \* bound: what arrives on a connection
          MaxBacklog,     \* bound: connections and datagrams that arrive at a socket
          MaxRoom,        \* the room of a kernel's buffer
          Lengths,        \* lengths of what is read and written
          Directions      \* sets of directions that are set

ASSUME SocketAssumption ==
    /\ Nil \notin Sockets \cup Objects \cup {"program"} /\ "program" \notin Sockets
    /\ IsFiniteSet(Sockets) /\ MaxRoom \in Nat
    /\ Descriptors \subseteq Nat
    /\ Slice \in Nat \ {0} /\ Timeouts \cup Lengths \subseteq Nat /\ 0 \notin Lengths

VARIABLES socket, kernel, call,
          refs,      \* the retain counts of Objects
          owned      \* those the program holds a reference to

vars == <<socket, kernel, call, error, refs, owned>>

objects == <<refs, owned>>

NoSocket == [sd |-> -2]        \* not created, or deallocated

Unused == [state |-> "free", owner |-> Nil, blocking |-> TRUE, arrived |-> 0, taken |-> 0,
           held |-> 0, eof |-> FALSE, room |-> 0]

Open(owner) == [Unused EXCEPT !.state = "new", !.owner = owner, !.room = MaxRoom]

Idle == [op |-> "none"]

Live == {s \in Sockets : socket[s] # NoSocket}
Usable == {s \in Live : socket[s].sd >= 0}
Fd(s) == socket[s].sd
Of(s) == kernel[Fd(s)]

Init ==
    /\ socket = [s \in Sockets |-> NoSocket]
    /\ kernel = [d \in Descriptors |-> Unused]
    /\ call = Idle
    /\ error = EnterThread
    /\ refs = [o \in Objects |-> 1] /\ owned = Objects

-----------------------------------------------------------------------------
(* What the peers and the rest of the program do *)

\* Bound: there is one connection at a time.
Single == \A d \in Descriptors : kernel[d].state \in {"free", "new", "listening"}

Knock == \E d \in Descriptors :
    /\ kernel[d].state \in {"listening", "connected"} /\ ~kernel[d].eof
    /\ kernel[d].arrived < IF kernel[d].state = "listening" THEN MaxBacklog ELSE MaxBytes
    /\ kernel' = [kernel EXCEPT ![d].arrived = @ + 1]

PeerAnswers == \E d \in Descriptors, answer \in {"connected", "refused"} :
    /\ kernel[d].state = "connecting"
    /\ kernel' = [kernel EXCEPT ![d].state = answer]

PeerEnds == \E d \in Descriptors :
    /\ kernel[d].state = "connected" /\ ~kernel[d].eof
    /\ kernel' = [kernel EXCEPT ![d].eof = TRUE]

PeerReads == \E d \in Descriptors :
    /\ kernel[d].state = "connected" /\ kernel[d].room < MaxRoom
    /\ kernel' = [kernel EXCEPT ![d].room = @ + 1]

\* The least descriptor that is free.
NextFree == CHOOSE d \in Descriptors :
    kernel[d].state = "free" /\ \A c \in Descriptors : kernel[c].state = "free" => d <= c

IsFree == \E d \in Descriptors : kernel[d].state = "free"

\* The program's own descriptors.
Opens ==
    /\ IsFree /\ Single
    /\ kernel' = [kernel EXCEPT ![NextFree] = [Open("program") EXCEPT !.state = "connected"]]

Closes == \E d \in Descriptors :
    /\ kernel[d].owner = "program" /\ call = Idle
    /\ \A s \in Live : Fd(s) # d
    /\ kernel' = [kernel EXCEPT ![d] = Unused]

World ==
    /\ Knock \/ PeerAnswers \/ PeerEnds \/ PeerReads \/ Opens \/ Closes
    /\ UNCHANGED <<socket, call, error, objects>>

-----------------------------------------------------------------------------
(* System calls, each a set of outcomes *)

\* What has arrived and nobody has taken or holds.
Waiting(k) == k.arrived - (k.taken + k.held)

Readable(k) == Waiting(k) > 0 \/ k.eof \/ k.state = "refused"
Writable(k) == k.state \in {"connected", "refused", "new"} /\ (k.room > 0 \/ k.eof)

\* wi_socket_wait_descriptor: select, which a signal may interrupt.  Without a time-out it
\* waits for as long as it takes.
IsReady(k, direction) ==
    \/ "read" \in direction /\ Readable(k)
    \/ "write" \in direction /\ Writable(k)

Wait(k, timeout, direction) ==
    {"error"} \cup (IF IsReady(k, direction) THEN {"ready"}
                    ELSE IF timeout > 0 THEN {"timeout"} ELSE {})

Lesser(m, n) == IF m < n THEN m ELSE n

Got(n) == [n |-> n, errno |-> "none"]
NotGot(errno) == [n |-> -1, errno |-> errno]

Blocked(k) == {NotGot(IF k.blocking THEN "EINTR" ELSE "EAGAIN")}

\* At most `length' bytes, 0 at the end of the stream.
Read(k, length) ==
    IF Waiting(k) > 0 THEN {Got(i) : i \in 1 .. Lesser(Waiting(k), length)}
    ELSE IF k.eof THEN {Got(0)} ELSE Blocked(k)

\* In a socket that does not block.
Write(k, length) ==
    IF k.eof THEN {NotGot("EPIPE")}
    ELSE IF k.room > 0 THEN {Got(i) : i \in 1 .. Lesser(k.room, length)}
    ELSE {NotGot("EAGAIN")}

\* How a call of OpenSSL fails, and what the caller should be told.
SslFailures ==
    {[code |-> "syscall", result |-> 0, queue |-> <<>>, means |-> <<"libwired", "eof">>],
     [code |-> "syscall", result |-> -1, queue |-> <<>>, means |-> <<"errno", "ECONNRESET">>],
     [code |-> "ssl", result |-> -1, queue |-> <<"alert">>, means |-> <<"openssl", "alert">>],
     [code |-> "zero_return", result |-> 0, queue |-> <<>>, means |-> <<"ssl", "zero_return">>]}

Wants == {[code |-> w, result |-> -1, queue |-> <<>>, means |-> <<"ssl", w>>] :
              w \in {"want_read", "want_write"}}

TellSsl(f) == SetSSLError(f.code, f.result, f.queue, "ECONNRESET")

-----------------------------------------------------------------------------
(* Calls.  `happened' are the failures the system has reported to a call. *)

Call(op, s, timeout, at) ==
    [op |-> op, s |-> s, timeout |-> timeout, timed |-> timeout > 0, at |-> at,
     mode |-> Of(s).blocking, from |-> Of(s).taken, length |-> 0, buffer |-> <<>>,
     moved |-> FALSE, direction |-> {}, result |-> "none", value |-> 0,
     happened |-> IF timeout > 0 THEN {<<"errno", "ETIMEDOUT">>} ELSE {}]

Happens(c, what) == [c EXCEPT !.happened = @ \cup {what}]

Begin(c) == call = Idle /\ call' = c /\ UNCHANGED <<socket, kernel, error, objects>>

Goes(c) == call' = c /\ UNCHANGED error

\* The call returns what says that all went well, or that it failed, having set the error.
Succeeds(c, value) ==
    call' = [c EXCEPT !.at = "return", !.result = "true", !.value = value] /\ UNCHANGED error

Fails(c, e) == call' = [c EXCEPT !.at = "return", !.result = "false"] /\ error' = e

FailsWith(c, errno) == Fails(c, SetErrno(errno))
Reports(c, errno) == FailsWith(Happens(c, <<"errno", errno>>), errno)

\* A call of OpenSSL has failed in one of these ways.
SslFails(failures) ==
    /\ \E o \in failures : Fails(Happens(call, o.means), TellSsl(o))
    /\ UNCHANGED kernel

\* A call without waits that changes the socket only.
Now(s, new) ==
    /\ call = Idle
    /\ socket' = [socket EXCEPT ![s] = new]
    /\ UNCHANGED <<kernel, call, error, objects>>

\* What the error was does not matter to later calls: here it is none when one begins.
Return ==
    /\ call # Idle /\ call.at = "return"
    /\ call' = Idle
    /\ error' = EnterThread
    /\ UNCHANGED <<socket, kernel, objects>>

-----------------------------------------------------------------------------
(* Creation and end *)

New(d, type, close, direction) ==
    [sd |-> d, type |-> type, close |-> close, direction |-> direction, ssl |-> FALSE,
     certificate |-> Nil, private_key |-> Nil, ciphers |-> Nil]

\* Release of an instance that is not NULL, and the other way round for one that is gone.
Released(r, o) == IF o = Nil THEN r ELSE [r EXCEPT ![o] = @ - 1]
Retained(r, o) == IF o = Nil THEN r ELSE [r EXCEPT ![o] = IF @ = 0 THEN -1 ELSE @ + 1]

\* wi_socket_close gives a descriptor back that the socket owns.
AfterClose(x, k) ==
    IF x.close /\ x.sd >= 0 THEN [k EXCEPT ![x.sd] = Unused] ELSE k

ClosedSocket(x) == [x EXCEPT !.ssl = FALSE, !.sd = IF x.close /\ @ >= 0 THEN -1 ELSE @]

Close == \E s \in Live :
    /\ call = Idle
    /\ socket' = [socket EXCEPT ![s] = ClosedSocket(@)]
    /\ kernel' = AfterClose(socket[s], kernel)
    /\ UNCHANGED <<call, error, objects>>

Dealloc == \E s \in Live :
    /\ call = Idle
    /\ socket' = [socket EXCEPT ![s] = NoSocket]
    /\ kernel' = AfterClose(socket[s], kernel)
    /\ refs' = Released(Released(Released(refs, socket[s].certificate), socket[s].private_key),
                        socket[s].ciphers)
    /\ UNCHANGED <<call, error, owned>>

\* A bug: the descriptor is forgotten when an option cannot be set.
DropOnFailure(x, k) == k

\* An instance that is released before it is returned is deallocated.
GiveUp(x, k) == AfterClose(x, k)

\* socket() fails, or an option cannot be set, and the instance is released; or it is a
\* socket.
InitWithAddress == \E s \in Sockets \ Live, type \in {"tcp", "udp"} :
    /\ call = Idle /\ IsFree
    /\ LET x == New(NextFree, type, TRUE, {})
           k == [kernel EXCEPT ![NextFree] = Open(s)]
           fails(errno) == Reports([op |-> "init", s |-> s, timed |-> FALSE, happened |-> {},
                                    at |-> "init", result |-> "none", value |-> 0], errno)
       IN  \/ fails("EMFILE") /\ UNCHANGED <<socket, kernel>>
           \/ fails("ENOPROTOOPT") /\ kernel' = GiveUp(x, k) /\ UNCHANGED socket
           \/ /\ socket' = [socket EXCEPT ![s] = x]
              /\ kernel' = k
              /\ UNCHANGED <<call, error>>
    /\ UNCHANGED objects

\* The descriptor stays the program's: `close' is false, and the type is none.
InitWithDescriptor == \E s \in Sockets \ Live, d \in Descriptors :
    /\ kernel[d].owner = "program"
    /\ Now(s, New(d, "none", FALSE, {}))

SetDirection == \E s \in Live, d \in Directions : Now(s, [socket[s] EXCEPT !.direction = d])

SetBlocking == \E s \in Usable, b \in BOOLEAN :
    /\ call = Idle
    /\ kernel' = [kernel EXCEPT ![Fd(s)].blocking = b]
    /\ UNCHANGED <<socket, call, error, objects>>

\* Retained before the old one is released, so that setting the same again is harmless.
SetCertificate == \E s \in Live, o \in Objects \cup {Nil} :
    /\ call = Idle
    /\ o \in owned \cup {Nil, socket[s].certificate}
    /\ refs' = Released(Retained(refs, o), socket[s].certificate)
    /\ socket' = [socket EXCEPT ![s].certificate = o]
    /\ UNCHANGED <<kernel, call, error, owned>>

SetPrivateKey == \E s \in Live, o \in Objects :
    /\ call = Idle /\ o \in owned \cup {socket[s].private_key}
    /\ refs' = Released(Retained(refs, o), socket[s].private_key)
    /\ socket' = [socket EXCEPT ![s].private_key = o]
    /\ UNCHANGED <<kernel, call, error, owned>>

\* Released before it is retained: a program that sets the ciphers again has to hold them.
SetCiphers == \E s \in Live, o \in owned :
    /\ call = Idle
    /\ refs' = Retained(Released(refs, socket[s].ciphers), o)
    /\ socket' = [socket EXCEPT ![s].ciphers = o]
    /\ UNCHANGED <<kernel, call, error, owned>>

\* The program gives up its own reference to an object.
Forget == \E o \in Objects :
    /\ call = Idle /\ o \in owned
    /\ owned' = owned \ {o} /\ refs' = Released(refs, o)
    /\ UNCHANGED <<socket, kernel, call, error>>

-----------------------------------------------------------------------------
(* Waiting, listening and accepting *)

\* Over all sockets that are open, or those that can serve.  A time-out is no error.
Among(op) ==
    CASE op = "wait_multiple" -> {s \in Usable : socket[s].direction # {}}
      [] op = "accept_multiple" -> {s \in Usable : Of(s).state = "listening" /\ socket[s].type = "tcp"}
      [] op = "recvfrom_multiple" -> {s \in Usable : Of(s).state = "listening" /\ socket[s].type = "udp"}

WaitMultiple == \E op \in {"wait_multiple", "accept_multiple", "recvfrom_multiple"},
                   timeout \in Timeouts :
    /\ Among(op) # {} /\ (op # "wait_multiple" => timeout = 0)
    /\ \E s \in Among(op) : Begin(Call(op, s, timeout, "wait_multiple"))

Selects ==
    /\ call # Idle /\ call.at = "wait_multiple"
    /\ LET ready == {s \in Among(call.op) : IsReady(Of(s), socket[s].direction)} IN
       \/ \E s \in ready :
              CASE call.op = "wait_multiple" -> Succeeds([call EXCEPT !.s = s], 0)
                [] call.op = "accept_multiple" -> Goes([call EXCEPT !.s = s, !.at = "accept"])
                [] OTHER -> Goes([call EXCEPT !.s = s, !.at = "recvfrom"])
       \/ /\ ready = {} /\ call.timeout > 0
          /\ Goes([call EXCEPT !.at = "return", !.result = "nothing"])
       \/ Reports(call, "EINTR")
    /\ UNCHANGED <<socket, kernel, objects>>

\* With port 0 the address is replaced by one of the port the kernel has chosen.
Listen == \E s \in Usable :
    /\ call = Idle /\ Of(s).state = "new"
    /\ LET c == Call("listen", s, 0, "return") IN
       \/ /\ kernel' = [kernel EXCEPT ![Fd(s)].state = "listening"]
          /\ socket' = [socket EXCEPT ![s].direction = {"read"}]
          /\ Succeeds(c, 0)
       \/ Reports(c, "EADDRINUSE") /\ UNCHANGED <<socket, kernel>>
    /\ UNCHANGED objects

\* wi_socket_accept does not look at its time-out: it waits as the listener's mode says.
Accept == \E s \in Usable :
    /\ Of(s).state = "listening" /\ socket[s].type = "tcp"
    /\ Begin(Call("accept", s, 0, "accept"))

\* The socket of the connection is in blocking mode, whatever the listener is.
Accepts ==
    /\ call # Idle /\ call.at = "accept"
    /\ IF Waiting(Of(call.s)) = 0
       THEN /\ \E o \in Blocked(Of(call.s)) : Reports(call, o.errno)
            /\ UNCHANGED <<socket, kernel>>
       ELSE \/ Reports(call, "EMFILE") /\ UNCHANGED <<socket, kernel>>
            \/ \E s \in Sockets \ Live :
                  /\ IsFree /\ Single
                  /\ socket' = [socket EXCEPT ![s] = New(NextFree, "tcp", TRUE, {"read"})]
                  /\ kernel' = [kernel EXCEPT
                         ![Fd(call.s)].taken = @ + 1,
                         ![NextFree] = [Open(s) EXCEPT !.state = "connected"]]
                  /\ Succeeds(call, s)
    /\ UNCHANGED objects

-----------------------------------------------------------------------------
(* Connecting *)

\* The mode a timed call sets, and sets back when it has succeeded.
NonBlocking(k, c) == [k EXCEPT ![Fd(c.s)].blocking = IF c.timed THEN FALSE ELSE @]

\* A bug: the mode is left as it is.
NotRestored(k, c) == k

Restored(k, c) == [k EXCEPT ![Fd(c.s)].blocking = IF c.timed /\ c.mode THEN TRUE ELSE @]

Connected(c) ==
    socket' = [socket EXCEPT ![c.s].direction = {"read"}] /\ Succeeds(c, 0)

Connect == \E s \in Usable, timeout \in Timeouts :
    /\ call = Idle /\ Single /\ Of(s).state = "new" /\ socket[s].type = "tcp"
    /\ LET c == Call("connect", s, timeout, "connecting")
           k == NonBlocking(kernel, c)
           becomes(state) == [k EXCEPT ![Fd(s)].state = state]
       IN  \/ kernel' = Restored(becomes("connected"), c) /\ Connected(c)
           \/ kernel' = becomes("refused") /\ Reports(c, "ECONNREFUSED") /\ UNCHANGED socket
           \/ /\ ~k[Fd(s)].blocking
              /\ kernel' = becomes("connecting")
              /\ IF c.timed THEN Goes(c) ELSE Reports(c, "EINPROGRESS")
              /\ UNCHANGED socket
    /\ UNCHANGED objects

\* A bug: the time that a wait has taken is not counted.
AllTime(c) == c.timeout

TimeLeft(c) == c.timeout - Slice

\* A connection made in the last slice comes too late.
Connecting ==
    /\ call # Idle /\ call.at = "connecting"
    /\ \E state \in Wait(Of(call.s), Slice, {"read", "write"}) :
           LET left == TimeLeft(call) IN
           IF state = "timeout" /\ left >= 0
           THEN Goes([call EXCEPT !.timeout = left]) /\ UNCHANGED <<socket, kernel>>
           ELSE IF state = "error"
           THEN Reports(call, "EINTR") /\ UNCHANGED <<socket, kernel>>
           ELSE IF left <= 0
           THEN FailsWith(call, "ETIMEDOUT") /\ UNCHANGED <<socket, kernel>>
           ELSE IF Of(call.s).state = "refused"
           THEN Reports(call, "ECONNREFUSED") /\ UNCHANGED <<socket, kernel>>
           ELSE kernel' = Restored(kernel, call) /\ Connected(call)
    /\ UNCHANGED objects

-----------------------------------------------------------------------------
(* TLS, for sockets that own their descriptor *)

\* The context is set up, and with it what the socket has been given; then the handshake
\* starts.  What has been made by then stays when a step fails.
BeginTls(op) == \E s \in Usable, timeout \in Timeouts :
    /\ call = Idle /\ Of(s).state = "connected" /\ ~socket[s].ssl /\ socket[s].close
    /\ LET c == Call(op, s, timeout, "handshake") IN
       \/ /\ Fails(Happens(c, <<"openssl", "setup">>),
                   SetOpenSSLError(<<"setup">>, "none"))
          /\ \E made \in BOOLEAN : socket' = [socket EXCEPT ![s].ssl = made]
          /\ UNCHANGED kernel
       \/ /\ Goes(c)
          /\ kernel' = NonBlocking(kernel, c)
          /\ socket' = [socket EXCEPT ![s].ssl = TRUE]
    /\ UNCHANGED objects

ConnectTls == BeginTls("connect_tls")

\* The certificate and the key of the server may be refused as well.
AcceptTls == BeginTls("accept_tls")

Directed(o) == IF o.code = "want_read" THEN {"read"} ELSE {"write"}

\* SSL_connect or SSL_accept for the first time.
Handshake ==
    /\ call # Idle /\ call.at = "handshake"
    /\ \/ kernel' = Restored(kernel, call) /\ Succeeds(call, 0)
       \/ /\ \E o \in SslFailures \cup (IF Of(call.s).blocking THEN {} ELSE Wants) :
                 IF o \in Wants /\ call.timed
                 THEN Goes([call EXCEPT !.at = "shaking", !.direction = Directed(o)])
                 ELSE Fails(Happens(call, o.means), TellSsl(o))
          /\ UNCHANGED kernel
    /\ UNCHANGED <<socket, objects>>

\* And again each time the socket is ready.  Every round takes a slice of the time, and a
\* handshake that ends in the last one is too late.
Shaking ==
    /\ call # Idle /\ call.at = "shaking"
    /\ LET left == TimeLeft(call) IN
       \/ Reports(call, "EINTR") /\ UNCHANGED kernel
       \/ /\ IF left < 0 THEN FailsWith(call, "ETIMEDOUT") ELSE Goes([call EXCEPT !.timeout = left])
          /\ UNCHANGED kernel
       \/ IF call.timeout <= 0 THEN FailsWith(call, "ETIMEDOUT") /\ UNCHANGED kernel
          ELSE kernel' = Restored(kernel, call) /\ Succeeds(call, 0)
       \/ /\ \E o \in SslFailures \cup Wants :
                 IF left < 0 THEN FailsWith(call, "ETIMEDOUT")
                 ELSE IF o \in Wants
                 THEN Goes([call EXCEPT !.timeout = left, !.direction = Directed(o)])
                 ELSE Fails(Happens(call, o.means), TellSsl(o))
          /\ UNCHANGED kernel
    /\ UNCHANGED <<socket, objects>>

-----------------------------------------------------------------------------
(* Datagrams *)

SendTo == \E s \in Usable :
    /\ call = Idle /\ socket[s].type = "udp"
    /\ \/ Succeeds(Call("sendto", s, 0, "return"), 1)
       \/ Reports(Call("sendto", s, 0, "return"), "ENOBUFS")
    /\ UNCHANGED <<socket, kernel, objects>>

RecvFrom == \E s \in Usable :
    /\ socket[s].type = "udp" /\ Of(s).state = "listening"
    /\ Begin(Call("recvfrom", s, 0, "recvfrom"))

\* A datagram is taken whole.
Receives ==
    /\ call # Idle /\ call.at = "recvfrom"
    /\ \E o \in Read(Of(call.s), 1) :
           IF o.n < 0 THEN Reports(call, o.errno) /\ UNCHANGED kernel
           ELSE /\ Succeeds(call, o.n)
                /\ kernel' = [kernel EXCEPT ![Fd(call.s)].taken = @ + 1]
    /\ UNCHANGED <<socket, objects>>

-----------------------------------------------------------------------------
(* Streams *)

\* `part' at buffer + offset
Put(buffer, offset, part) == SubSeq(buffer, 1, offset) \o part

Transfer(op) == \E s \in Usable, timeout \in Timeouts, length \in Lengths :
    /\ Of(s).state = "connected"
    /\ Begin([Call(op, s, timeout, op) EXCEPT !.length = length])

ReadBytes == Transfer("read")
WriteBytes == Transfer("write")

\* The wait before each part, which fails or lets the call go on.
Waits(direction) ==
    IF call.timed THEN Wait(Of(call.s), call.timeout, direction) ELSE {"ready"}

NotReady(direction) ==
    /\ \E state \in Waits(direction) \ {"ready"} :
           IF state = "timeout" THEN FailsWith(call, "ETIMEDOUT") ELSE Reports(call, "EINTR")
    /\ UNCHANGED kernel

\* A bug: room for all of the buffer, at each place in it.
LeftFromStart(c) == c.length

\* What is still to be read or written.
Left(c) == c.length - c.value

\* The stream from the byte after the last one taken on.
Bytes(k, n) == [i \in 1 .. n |-> k.taken + i]

\* _wi_socket_read_bytes, until the buffer is full.  What has been read when it fails is lost.
Reads ==
    /\ call # Idle /\ call.at = "read" /\ ~socket[call.s].ssl
    /\ \/ NotReady({"read"})
       \/ /\ "ready" \in Waits({"read"})
          /\ \E o \in Read(Of(call.s), Left(call)) :
                LET filled == [call EXCEPT
                        !.buffer = Put(@, call.value, Bytes(Of(call.s), o.n)),
                        !.value = @ + o.n]
                IN  CASE o.n < 0 -> Reports(call, o.errno) /\ UNCHANGED kernel
                      [] o.n = 0 -> /\ Fails(Happens(call, <<"libwired", "eof">>),
                                             SetLibwiredError("eof"))
                                    /\ UNCHANGED kernel
                      [] OTHER -> /\ kernel' = [kernel EXCEPT ![Fd(call.s)].taken = @ + o.n]
                                  /\ IF filled.value = call.length
                                     THEN Succeeds(filled, filled.value) ELSE Goes(filled)
    /\ UNCHANGED <<socket, objects>>

\* SSL_read takes what has arrived of a record.  When that is all of it, some of it is
\* returned, and what is left of it can be read at once (SSL_pending); when it is not, the
\* call goes on where it was.
SslRead ==
    /\ Readable(Of(call.s))
    /\ \/ /\ Waiting(Of(call.s)) > 0
          /\ \E n \in 1 .. Lesser(Of(call.s).arrived - Of(call.s).taken, call.length) :
                /\ kernel' = [kernel EXCEPT ![Fd(call.s)].taken = @ + n, ![Fd(call.s)].held = 0]
                /\ Succeeds([call EXCEPT !.buffer = Bytes(Of(call.s), n)], n)
       \/ /\ Waiting(Of(call.s)) > 0
          /\ kernel' = [kernel EXCEPT ![Fd(call.s)].held = @ + Waiting(Of(call.s))]
          /\ Goes(call)
       \/ SslFails(SslFailures)

\* Without blocking, WANT_READ makes it wait and read again, however often.
ReadsTls ==
    /\ call # Idle /\ call.at = "read" /\ socket[call.s].ssl
    /\ \/ NotReady({"read"})
       \/ /\ "ready" \in Waits({"read"})
          /\ IF Of(call.s).blocking THEN Goes([call EXCEPT !.at = "reading"]) /\ UNCHANGED kernel
             ELSE SslRead \/ SslFails({o \in Wants : o.code = "want_write"})
    /\ UNCHANGED <<socket, objects>>

\* With SSL_MODE_AUTO_RETRY a blocking socket is read until a record is complete.
Reading ==
    /\ call # Idle /\ call.at = "reading"
    /\ SslRead
    /\ UNCHANGED <<socket, objects>>

\* The positions of the client's buffer that are handed over.
From(offset, n) == [i \in 1 .. n |-> offset + i]

\* n bytes more are in the kernel's buffer; the call returns when these were the last.
Sends(n) ==
    LET sent == [call EXCEPT !.buffer = @ \o From(call.value, n), !.value = @ + n, !.moved = TRUE] IN
    /\ kernel' = [kernel EXCEPT ![Fd(call.s)].room = @ - n]
    /\ IF sent.value = call.length THEN Succeeds(sent, sent.value) ELSE Goes(sent)

\* The call is inside write or SSL_write, which in blocking mode returns when all is written.
EntersWrite == Goes([call EXCEPT !.at = "writing", !.moved = FALSE]) /\ UNCHANGED kernel

Writes ==
    /\ call # Idle /\ call.at = "write" /\ ~socket[call.s].ssl
    /\ \/ NotReady({"write"})
       \/ /\ "ready" \in Waits({"write"})
          /\ IF Of(call.s).blocking THEN EntersWrite
             ELSE \E o \in Write(Of(call.s), Left(call)) :
                    IF o.n < 0 THEN Reports(call, o.errno) /\ UNCHANGED kernel ELSE Sends(o.n)
    /\ UNCHANGED <<socket, objects>>

SslWrite ==
    /\ Writable(Of(call.s))
    /\ \/ \E n \in 1 .. Lesser(Of(call.s).room, Left(call)) : ~Of(call.s).eof /\ Sends(n)
       \/ SslFails(SslFailures)

\* Without blocking, WANT_WRITE makes it wait and write on, however often.
WritesTls ==
    /\ call # Idle /\ call.at = "write" /\ socket[call.s].ssl
    /\ \/ NotReady({"write"})
       \/ /\ "ready" \in Waits({"write"})
          /\ IF Of(call.s).blocking THEN EntersWrite
             ELSE SslWrite \/ SslFails({o \in Wants : o.code = "want_read"})
    /\ UNCHANGED <<socket, objects>>

\* When the peer ends, write tells of the bytes it has moved, if any, and fails when it is
\* called for the rest.
Writing ==
    /\ call # Idle /\ call.at = "writing"
    /\ IF socket[call.s].ssl THEN SslWrite
       ELSE IF Of(call.s).eof
       THEN /\ IF call.moved THEN Goes([call EXCEPT !.at = "write"]) ELSE Reports(call, "EPIPE")
            /\ UNCHANGED kernel
       ELSE \E n \in 1 .. Lesser(Of(call.s).room, Left(call)) : Sends(n)
    /\ UNCHANGED <<socket, objects>>

\* The call is held up in a read or a write of a blocking socket, whatever its time-out.
HeldUp ==
    /\ call # Idle
    /\ \/ call.at = "reading" /\ ~Readable(Of(call.s))
       \/ call.at = "writing" /\ ~Writable(Of(call.s))

\* A signal ends that: OpenSSL asks to be called again, and write tells what it has moved.
Interrupted ==
    /\ HeldUp
    /\ IF call.at = "reading" THEN Goes([call EXCEPT !.at = "read"])
       ELSE IF call.moved \/ socket[call.s].ssl THEN Goes([call EXCEPT !.at = "write"])
       ELSE Reports(call, "EINTR")
    /\ UNCHANGED <<socket, kernel, objects>>

-----------------------------------------------------------------------------

Calls ==
    \/ Close \/ Dealloc \/ InitWithAddress \/ InitWithDescriptor \/ SetDirection
    \/ SetBlocking \/ SetCertificate \/ SetPrivateKey \/ SetCiphers \/ Forget
    \/ WaitMultiple \/ Listen \/ Accept \/ Connect \/ ConnectTls \/ AcceptTls
    \/ SendTo \/ RecvFrom \/ ReadBytes \/ WriteBytes

Steps ==
    \/ Selects \/ Accepts \/ Connecting \/ Handshake \/ Shaking \/ Receives
    \/ Reads \/ ReadsTls \/ Reading \/ Writes \/ WritesTls \/ Writing \/ Return

Next == World \/ Interrupted \/ Calls \/ Steps

\* A step of a call that has begun is taken: select returns when the time is up.  Nothing
\* makes a peer read or send, or a signal come.
Spec == Init /\ [][Next]_vars /\ WF_vars(Steps)

-----------------------------------------------------------------------------

TypeOK ==
    /\ \A s \in Live : /\ socket[s].sd \in {-1} \cup Descriptors
                       /\ socket[s].direction \in Directions \cup {{}, {"read"}}
    /\ \A d \in Descriptors : Waiting(kernel[d]) >= 0 /\ kernel[d].room \in 0 .. MaxRoom
    /\ \/ call = Idle \/ call.op = "init"
       \/ call.s \in Usable /\ Len(call.buffer) <= call.length
    /\ IsError(error)

\* Each descriptor is that of one live socket, or the program's own, and is given back once:
\* a socket never closes what belongs to another, and none is left open behind a socket
\* that failed to start or is gone.  Certificates, keys and ciphers are held as often as
\* they are set.  A call's buffer never holds more than it was asked for (TypeOK).
OwnsWhatItHolds ==
    /\ TypeOK
    /\ \A s \in Usable : /\ Of(s).state # "free"
                         /\ Of(s).owner = IF socket[s].close THEN s ELSE "program"
    /\ \A d \in Descriptors : kernel[d].owner \in Sockets => Fd(kernel[d].owner) = d
    /\ \A o \in Objects :
           refs[o] = (IF o \in owned THEN 1 ELSE 0)
                     + Cardinality({s \in Live : socket[s].certificate = o})
                     + Cardinality({s \in Live : socket[s].private_key = o})
                     + Cardinality({s \in Live : socket[s].ciphers = o})

\* What a call returns is true.  If it fails, the error is one of the failures it met, and
\* if it only ran out of time waiting among sockets, none is told.  If it succeeds, it has
\* connected the socket and left it in the mode it was in; has filled the buffer with the
\* next bytes of the stream, without a gap, an overlap or a byte lost; or has written the
\* buffer from its first byte to its last.
ResultsAreTrue == call # Idle /\ call.at = "return" =>
    /\ call.result = "false" => <<error.domain, error.code>> \in call.happened
    /\ call.result = "nothing" => call.op = "wait_multiple" /\ call.timed
    /\ call.result \notin {"false", "nothing"} =>
          CASE call.op \in {"connect", "connect_tls", "accept_tls"} ->
                 Of(call.s).state = "connected" /\ Of(call.s).blocking = call.mode
            [] call.op = "read" ->
                 /\ call.buffer = [i \in 1 .. call.value |-> call.from + i]
                 /\ Of(call.s).taken = call.from + call.value
                 /\ IF socket[call.s].ssl THEN call.value \in 1 .. call.length ELSE call.value = call.length
            [] call.op = "write" ->
                 call.buffer = [i \in 1 .. call.length |-> i] /\ call.value = call.length
            [] call.op = "wait_multiple" -> IsReady(Of(call.s), socket[call.s].direction)
            [] call.op = "accept" -> Of(call.value).owner = call.value
            [] OTHER -> TRUE

\* A call with a time-out returns, or is held up for ever in a read or a write of a socket
\* in blocking mode, behind a select that said it was ready: by a peer that does not read,
\* or one that never sends the rest of a record.  Nothing else keeps one, neither parts
\* that come one by one nor handshakes and records that go back to the wait.
\* wi_socket_accept does not look at its time-out and is not meant here; of records without
\* data there are as many as MaxBytes allows.
TimedCallsReturn == call # Idle /\ call.timed ~> (call = Idle \/ []HeldUp)

=============================================================================
