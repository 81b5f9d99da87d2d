-------------------------------- MODULE Memory --------------------------------
(***************************************************************************)
(* base/wi-runtime.c, base/wi-pool.c and the thread lifecycle of           *)
(* thread/wi-thread.c: retain counts, deallocation, the stack of           *)
(* autorelease pools of each thread, and what a thread owns from           *)
(* wi_thread_create_thread to its exit.                                    *)
(*                                                                         *)
(* Client code is a set of pointer variables per thread (`own') that own   *)
(* what they point to, as the README's MEMORY MANAGEMENT asks; collections *)
(* retain their members.  A release that ends in a deallocation, and the   *)
(* drain of a pool, take many steps; `work[t]' is thread t's call stack of *)
(* them, the running one last.                                             *)
(***************************************************************************)
EXTENDS Integers, FiniteSets, SequencesExt

CONSTANTS Threads, Main,  \* the threads; the one that starts
          Slots,          \* the owning pointer variables each thread has
          Instances,      \* the instances ever created
          Nil,            \* a NULL pointer
          MayHold,        \* the pairs <<c, x>> where collection c may hold x: no cycles
          Enumerator,     \* Enumerator[x]: the instance x's dealloc autoreleases
          Careful,        \* whether callers keep the rules of DiesInPeace
          BlockSize,      \* _WI_POOL_ARRAY_SIZE
          Modulus,        \* 2^16: the range of retain_count
          MaxReferences,  \* bound: references to one instance that callers make
          MaxPools        \* MaxPools[t], a bound: the pools of thread t

Noisy == DOMAIN Enumerator      \* the instances whose dealloc autoreleases
Helpers == Range(Enumerator)    \* the instances only a dealloc creates

ASSUME MemoryAssumption ==
    /\ IsFiniteSet(Threads) /\ IsFiniteSet(Slots) /\ IsFiniteSet(Instances)
    /\ Main \in Threads
    /\ Nil \notin Instances
    /\ MayHold \subseteq Instances \X Instances
    /\ Noisy \subseteq Instances /\ Helpers \subseteq Instances \ Noisy
    /\ \A x, y \in Noisy : Enumerator[x] = Enumerator[y] => x = y
    /\ Careful \in BOOLEAN
    /\ BlockSize \in Nat \ {0}
    /\ Modulus \in Nat /\ MaxReferences \in Nat \ {0}
    /\ MaxReferences + Cardinality(Noisy) < Modulus
    /\ MaxPools \in [Threads -> Nat]

VARIABLES
    magic,     \* of each instance: "none" before its creation, "valid", "released"
    count,     \* its retain_count
    contents,  \* the instances it retains: a collection's members
    own,       \* own[t][v]: what variable v of thread t points to and owns
    pools,     \* the pool stack of each thread, a pool being a chain of blocks
    thread,    \* "none", "creating", "running", "exiting" or "exited"
    argument,  \* the reference wi_thread_create_thread takes for the thread
    work,      \* the unfinished calls of each thread
    aborted,   \* a WI_ASSERT has failed
    wild       \* freed memory has been used

clients == <<own, thread, argument>>
vars == <<magic, count, contents, clients, pools, work, aborted, wild>>

\* wi_thread_initialize enters the main thread.
Init ==
    /\ magic = [x \in Instances |-> "none"]
    /\ count = [x \in Instances |-> 0]
    /\ contents = [x \in Instances |-> {}]
    /\ own = [t \in Threads |-> [v \in Slots |-> Nil]]
    /\ pools = [t \in Threads |-> <<>>]
    /\ thread = [t \in Threads |-> IF t = Main THEN "running" ELSE "none"]
    /\ argument = [t \in Threads |-> Nil]
    /\ work = [t \in Threads |-> <<>>]
    /\ aborted = FALSE /\ wild = FALSE

-----------------------------------------------------------------------------
(* References *)

\* The places in t's pools that hold x: pool, block, index.
Pooled(t, x) ==
    UNION {UNION {{<<k, b, i>> : i \in {j \in DOMAIN pools[t][k][b].instances :
                                           pools[t][k][b].instances[j] = x}}
                  : b \in DOMAIN pools[t][k]} : k \in DOMAIN pools[t]}

\* How often x is referenced by owning variables, collections, threads' arguments
\* and pools.
References(x) ==
      Cardinality({p \in Threads \X Slots : own[p[1]][p[2]] = x})
    + Cardinality({c \in Instances : x \in contents[c]})
    + Cardinality({t \in Threads : argument[t] = x})
    + Cardinality(UNION {{<<t, p>> : p \in Pooled(t, x)} : t \in Threads})

\* The instances that keep alive what thread t may use: those it owns, its
\* argument, those in its pools, and the members of those it owns.
Owned(t) == (Range(own[t]) \cup {argument[t]}) \ {Nil}
Visible(t) == Owned(t) \cup (UNION {contents[c] : c \in Owned(t)})
                       \cup {x \in Instances : Pooled(t, x) # {}}

-----------------------------------------------------------------------------
(* wi_retain, wi_release and wi_autorelease *)

Call(kind, x, k, b, i, n) ==
    [kind |-> kind, of |-> x, pool |-> k, block |-> b, at |-> i, length |-> n]

Dealloc(x) == Call("dealloc", x, 0, 0, 0, 0)

\* The calls that are left when the running one returns.
Outer(t) == Front(work[t])
Running(t) == Last(work[t])

Runs(t, kind) == ~aborted /\ ~wild /\ work[t] # <<>> /\ Running(t).kind = kind

\* Thread t runs client code.
Ready(t) == ~aborted /\ ~wild /\ thread[t] = "running" /\ work[t] = <<>>

\* wi_retain: the magic is checked, the count goes up under the lock.
Retain(x) ==
    IF magic[x] = "valid"
    THEN count' = [count EXCEPT ![x] = (@ + 1) % Modulus] /\ UNCHANGED aborted
    ELSE aborted' = TRUE /\ UNCHANGED count

\* wi_release: the count goes down under the lock, and the thread that takes it
\* to zero calls dealloc, on top of the calls it is in.
Release(t, x, calls) ==
    IF magic[x] = "valid"
    THEN /\ count' = [count EXCEPT ![x] = (@ - 1) % Modulus]
         /\ work' = [work EXCEPT ![t] = IF count[x] = 1 THEN Append(calls, Dealloc(x)) ELSE calls]
         /\ UNCHANGED aborted
    ELSE aborted' = TRUE /\ work' = [work EXCEPT ![t] = calls] /\ UNCHANGED count

Block(instances) == [freed |-> FALSE, instances |-> instances]
Put(block, instances) == [block EXCEPT !.instances = instances]

\* A bug: a full block takes one instance more.
OverflowBlock(t, x) ==
    LET k == Len(pools[t])
        chain == pools[t][k]
        head == Len(chain)
    IN  /\ pools' = [pools EXCEPT ![t][k] =
               IF head = 0 \/ Len(chain[head].instances) > BlockSize
               THEN Append(chain, Block(<<x>>))
               ELSE [chain EXCEPT ![head].instances = Append(@, x)]]
        /\ UNCHANGED <<aborted, wild>>

\* A bug: a new head block does not point to the one before it.
ForgetNext(t, x) ==
    LET k == Len(pools[t])
        chain == pools[t][k]
        head == Len(chain)
    IN  /\ pools' = [pools EXCEPT ![t][k] =
               IF head = 0 \/ Len(chain[head].instances) >= BlockSize
               THEN <<Block(<<x>>)>>
               ELSE [chain EXCEPT ![head].instances = Append(@, x)]]
        /\ UNCHANGED <<aborted, wild>>

\* _wi_autorelease: x goes to the head block, the last of the chain, of the top
\* pool, or to a new head block if there is none or it is full.  pool->array
\* still is the head block when a drain has freed it.  Without a pool an
\* assertion fails; after wi_thread_exit_thread the thread instance that has the
\* pool stack is gone.
Autorelease(t, x) ==
    IF thread[t] = "exited" THEN wild' = TRUE /\ UNCHANGED <<pools, aborted>>
    ELSE IF pools[t] = <<>> THEN aborted' = TRUE /\ UNCHANGED <<pools, wild>>
    ELSE
    LET k == Len(pools[t])
        chain == pools[t][k]
        head == Len(chain)
    IN  IF head > 0 /\ chain[head].freed THEN wild' = TRUE /\ UNCHANGED <<pools, aborted>>
        ELSE /\ pools' = [pools EXCEPT ![t][k] =
                   IF head = 0 \/ Len(chain[head].instances) >= BlockSize
                   THEN Append(chain, Block(<<x>>))
                   ELSE [chain EXCEPT ![head] = Put(@, Append(@.instances, x))]]
             /\ UNCHANGED <<aborted, wild>>

-----------------------------------------------------------------------------
(* Client code: a thread retains what it may use and releases what it owns *)

\* Whether callers may leave x's deallocation to a pool, a collection or the end
\* of a thread: not if its dealloc needs the current pool.
DiesInPeace(x) == Careful => x \notin Noisy

Create(t, v, x) ==
    /\ Ready(t) /\ own[t][v] = Nil
    /\ magic[x] = "none" /\ x \notin Helpers
    /\ magic' = [magic EXCEPT ![x] = "valid"]
    /\ count' = [count EXCEPT ![x] = 1]
    /\ own' = [own EXCEPT ![t][v] = x]
    /\ UNCHANGED <<contents, pools, thread, argument, work, aborted, wild>>

RetainOne(t, v, x) ==
    /\ Ready(t) /\ own[t][v] = Nil
    /\ x \in Visible(t) /\ References(x) < MaxReferences
    /\ Retain(x)
    /\ own' = [own EXCEPT ![t][v] = x]
    /\ UNCHANGED <<magic, contents, pools, thread, argument, work, wild>>

ReleaseOne(t, v) ==
    /\ Ready(t) /\ own[t][v] # Nil
    /\ own[t][v] \in Noisy => pools[t] # <<>>
    /\ own' = [own EXCEPT ![t][v] = Nil]
    /\ Release(t, own[t][v], <<>>)
    /\ UNCHANGED <<magic, contents, pools, thread, argument, wild>>

AutoreleaseOne(t, v) ==
    /\ Ready(t) /\ own[t][v] # Nil
    /\ DiesInPeace(own[t][v]) /\ pools[t] # <<>>
    /\ own' = [own EXCEPT ![t][v] = Nil]
    /\ Autorelease(t, own[t][v])
    /\ UNCHANGED <<magic, count, contents, thread, argument, work>>

\* Collections have no lock: a thread changes those nobody else references.
Alone(t, c) == c \in Range(own[t]) /\ References(c) = 1

\* A bug: the collection does not retain its member.
InsertBorrowed(t, c, x) ==
    /\ Ready(t) /\ Alone(t, c)
    /\ <<c, x>> \in MayHold /\ x \in Visible(t) \ contents[c] /\ DiesInPeace(x)
    /\ contents' = [contents EXCEPT ![c] = @ \cup {x}]
    /\ UNCHANGED <<magic, count, clients, pools, work, aborted, wild>>

InsertMember(t, c, x) ==
    /\ Ready(t) /\ Alone(t, c)
    /\ <<c, x>> \in MayHold /\ x \in Visible(t) \ contents[c] /\ DiesInPeace(x)
    /\ References(x) < MaxReferences
    /\ Retain(x)
    /\ contents' = [contents EXCEPT ![c] = @ \cup {x}]
    /\ UNCHANGED <<magic, clients, pools, work, wild>>

RemoveMember(t, c, x) ==
    /\ Ready(t) /\ Alone(t, c)
    /\ x \in contents[c]
    /\ contents' = [contents EXCEPT ![c] = @ \ {x}]
    /\ Release(t, x, <<>>)
    /\ UNCHANGED <<magic, clients, pools, wild>>

Client(t) ==
    \/ \E v \in Slots, x \in Instances : Create(t, v, x) \/ RetainOne(t, v, x)
    \/ \E v \in Slots : ReleaseOne(t, v) \/ AutoreleaseOne(t, v)
    \/ \E c, x \in Instances : InsertMember(t, c, x) \/ RemoveMember(t, c, x)

-----------------------------------------------------------------------------
(* The class's dealloc function, and wi_free *)

\* A dealloc that enumerates one of its collections: the enumerator retains the
\* collection and is autoreleased.
DeallocEnumerate(t) ==
    /\ Runs(t, "dealloc")
    /\ LET x == Running(t).of
           e == Enumerator[x]
       IN
       /\ x \in Noisy /\ Running(t).at = 0
       /\ magic' = [magic EXCEPT ![e] = "valid"]
       /\ \E c \in contents[x] :
             /\ contents' = [contents EXCEPT ![e] = {c}]
             /\ count' = [count EXCEPT ![e] = 1, ![c] = (@ + 1) % Modulus]
       /\ Autorelease(t, e)
       /\ work' = [work EXCEPT ![t] = Append(Outer(t), Call("dealloc", x, 0, 0, 1, 0))]
    /\ UNCHANGED clients

DeallocMember(t) ==
    /\ Runs(t, "dealloc")
    /\ LET x == Running(t).of IN
       /\ x \in Noisy => Running(t).at = 1
       /\ \E y \in contents[x] :
             /\ contents' = [contents EXCEPT ![x] = @ \ {y}]
             /\ Release(t, y, work[t])
    /\ UNCHANGED <<magic, clients, pools, wild>>

Free(t) ==
    /\ Runs(t, "dealloc")
    /\ LET x == Running(t).of IN
       /\ contents[x] = {}
       /\ magic' = [magic EXCEPT ![x] = "released"]
    /\ work' = [work EXCEPT ![t] = Outer(t)]
    /\ UNCHANGED <<count, contents, clients, pools, aborted, wild>>

-----------------------------------------------------------------------------
(* Pools *)

\* wi_pool_alloc, wi_pool_init
PoolInit(t) ==
    /\ Ready(t) /\ Len(pools[t]) < MaxPools[t]
    /\ pools' = [pools EXCEPT ![t] = Append(@, <<>>)]
    /\ UNCHANGED <<magic, count, contents, clients, work, aborted, wild>>

\* The length of block b of pool k, as _wi_pool_drain_pool reads it when it comes
\* to the block.
LengthOf(t, k, b) == IF b = 0 THEN 0 ELSE Len(pools[t][k][b].instances)

StartDrain(t, kind, k) ==
    LET b == Len(pools[t][k])
    IN  work' = [work EXCEPT ![t] = <<Call(kind, Nil, k, b, 1, LengthOf(t, k, b))>>]

\* wi_pool_drain, of any pool on the stack
PoolDrain(t) ==
    /\ Ready(t)
    /\ \E k \in DOMAIN pools[t] : StartDrain(t, "drain", k)
    /\ UNCHANGED <<magic, count, contents, clients, pools, aborted, wild>>

\* wi_release of the pool that is the top of the stack: _wi_pool_dealloc.
PoolRelease(t) ==
    /\ Ready(t) /\ pools[t] # <<>>
    /\ StartDrain(t, "dispose", Len(pools[t]))
    /\ UNCHANGED <<magic, count, contents, clients, pools, aborted, wild>>

Draining(t) == Runs(t, "drain") \/ Runs(t, "dispose")

\* The next instance of the block is released; Nil stands for the pointer that
\* stays behind, which is not read again.
DrainOne(t) ==
    LET f == Running(t) IN
    /\ Draining(t) /\ f.at <= f.length
    /\ pools' = [pools EXCEPT ![t][f.pool][f.block] = Put(@, [@.instances EXCEPT ![f.at] = Nil])]
    /\ Release(t, pools[t][f.pool][f.block].instances[f.at],
               Append(Outer(t), [f EXCEPT !.at = @ + 1]))
    /\ UNCHANGED <<magic, contents, clients, wild>>

\* A bug: the drain does not go on to the next block.
StayOnBlock(t) ==
    LET f == Running(t) IN
    /\ Draining(t) /\ f.at > f.length /\ f.block > 0
    /\ pools' = [pools EXCEPT ![t][f.pool][f.block] = [freed |-> TRUE, instances |-> <<>>]]
    /\ work' = [work EXCEPT ![t] = Append(Outer(t), Call(f.kind, Nil, f.pool, f.block, 1, 0))]
    /\ UNCHANGED <<magic, count, contents, clients, aborted, wild>>

\* The block is freed, with whatever has been added to it since, and the drain
\* goes on to the next.
DrainBlock(t) ==
    LET f == Running(t)
        next == f.block - 1
    IN
    /\ Draining(t) /\ f.at > f.length /\ f.block > 0
    /\ pools' = [pools EXCEPT ![t][f.pool][f.block] = [freed |-> TRUE, instances |-> <<>>]]
    /\ work' = [work EXCEPT ![t] =
                   Append(Outer(t), Call(f.kind, Nil, f.pool, next, 1,
                                         LengthOf(t, f.pool, next)))]
    /\ UNCHANGED <<magic, count, contents, clients, aborted, wild>>

\* A bug: pool->array keeps pointing to the freed block.
KeepArray(t) ==
    LET f == Running(t) IN
    /\ Draining(t) /\ f.block = 0
    /\ pools' = IF f.kind = "drain" THEN pools ELSE [pools EXCEPT ![t] = Front(@)]
    /\ work' = [work EXCEPT ![t] = Outer(t)]
    /\ UNCHANGED <<magic, count, contents, clients, aborted, wild>>

\* pool->array = NULL; a pool that is released leaves the stack too, which is an
\* assertion failure unless it is the top.
DrainEnd(t) ==
    LET f == Running(t) IN
    /\ Draining(t) /\ f.block = 0
    /\ IF f.kind = "drain"
       THEN pools' = [pools EXCEPT ![t][f.pool] = <<>>] /\ UNCHANGED aborted
       ELSE IF f.pool = Len(pools[t])
       THEN pools' = [pools EXCEPT ![t] = Front(@)] /\ UNCHANGED aborted
       ELSE aborted' = TRUE /\ UNCHANGED pools
    /\ work' = [work EXCEPT ![t] = Outer(t)]
    /\ UNCHANGED <<magic, count, contents, clients, wild>>

-----------------------------------------------------------------------------
(* Threads *)

\* wi_thread_create_thread takes a reference for the thread to be, ...
Spawn(t) ==
    /\ Ready(t)
    /\ \E u \in Threads, x \in Visible(t) :
          /\ thread[u] = "none" /\ DiesInPeace(x) /\ References(x) < MaxReferences
          /\ Retain(x)
          /\ argument' = [argument EXCEPT ![u] = x]
          /\ thread' = [thread EXCEPT ![u] = "creating"]
          /\ work' = [work EXCEPT ![t] = <<Call("create", x, 0, 0, 0, 0)>>]
    /\ UNCHANGED <<magic, contents, own, pools, wild>>

Creates(t, u) == Runs(t, "create") /\ thread[u] = "creating" /\ argument[u] = Running(t).of

\* ... starts it, ...
Created(t, u) ==
    /\ Creates(t, u)
    /\ thread' = [thread EXCEPT ![u] = "running"]
    /\ work' = [work EXCEPT ![t] = <<>>]
    /\ UNCHANGED <<magic, count, contents, own, argument, pools, aborted, wild>>

\* A bug: the argument is not released when pthread_create fails.
KeepArgument(t, u) ==
    /\ Creates(t, u)
    /\ thread' = [thread EXCEPT ![u] = "none"]
    /\ argument' = [argument EXCEPT ![u] = Nil]
    /\ work' = [work EXCEPT ![t] = <<>>]
    /\ UNCHANGED <<magic, count, contents, own, pools, aborted, wild>>

\* ... or, when pthread_create fails, gives the reference up.
CreateFails(t, u) ==
    /\ Creates(t, u)
    /\ thread' = [thread EXCEPT ![u] = "none"]
    /\ argument' = [argument EXCEPT ![u] = Nil]
    /\ Release(t, argument[u], <<>>)
    /\ UNCHANGED <<magic, contents, own, pools, wild>>

\* The thread's function returns, having released its pools and what it owned,
\* and wi_thread_exit_thread frees the thread instance and its dictionary, ...
ExitThread(t) ==
    /\ Ready(t) /\ t # Main
    /\ pools[t] = <<>> /\ Range(own[t]) = {Nil}
    /\ thread' = [thread EXCEPT ![t] = "exiting"]
    /\ UNCHANGED <<magic, count, contents, own, argument, pools, work, aborted, wild>>

\* ... and the trampoline releases the argument after that.
ReleaseArgument(t) ==
    /\ thread[t] = "exiting" /\ ~aborted /\ ~wild
    /\ thread' = [thread EXCEPT ![t] = "exited"]
    /\ argument' = [argument EXCEPT ![t] = Nil]
    /\ Release(t, argument[t], <<>>)
    /\ UNCHANGED <<magic, contents, own, pools, wild>>

\* The steps a thread takes once a call has begun.
Step(t) ==
    \/ DeallocEnumerate(t) \/ DeallocMember(t) \/ Free(t)
    \/ DrainOne(t) \/ DrainBlock(t) \/ DrainEnd(t)
    \/ \E u \in Threads : Created(t, u) \/ CreateFails(t, u)
    \/ ReleaseArgument(t)

Next ==
    \E t \in Threads :
        \/ Client(t)
        \/ PoolInit(t) \/ PoolDrain(t) \/ PoolRelease(t)
        \/ Spawn(t) \/ ExitThread(t)
        \/ Step(t)

Spec == Init /\ [][Next]_vars

\* A call that has begun goes on: the functions modelled never wait.
FairSpec == Spec /\ \A t \in Threads : WF_vars(Step(t))

-----------------------------------------------------------------------------
(* Properties *)

\* Every variable keeps its type.
TypeOK ==
    /\ magic \in [Instances -> {"none", "valid", "released"}]
    /\ count \in [Instances -> 0 .. Modulus - 1]
    /\ contents \in [Instances -> SUBSET Instances]
    /\ own \in [Threads -> [Slots -> Instances \cup {Nil}]]
    /\ thread \in [Threads -> {"none", "creating", "running", "exiting", "exited"}]
    /\ argument \in [Threads -> Instances \cup {Nil}]
    /\ \A t \in Threads : \A k \in DOMAIN pools[t] : \A b \in DOMAIN pools[t][k] :
          LET block == pools[t][k][b] IN
          /\ block.freed \in BOOLEAN
          /\ Len(block.instances) <= BlockSize
          /\ \A i \in DOMAIN block.instances : block.instances[i] \in Instances \cup {Nil}
    /\ \A t \in Threads : \A d \in DOMAIN work[t] :
          /\ work[t][d].kind \in {"dealloc", "drain", "dispose", "create"}
          /\ work[t][d].of \in Instances \cup {Nil}
    /\ {aborted, wild} \subseteq BOOLEAN

\* The deallocs of x that are running.
Deallocs(x) ==
    UNION {{<<t, d>> : d \in {e \in DOMAIN work[t] : work[t][e] \in
                                {Call("dealloc", x, 0, 0, i, 0) : i \in {0, 1}}}} : t \in Threads}

\* The retain count of an instance is the number of references that owners,
\* collections, pools and threads have to it: a drain, a deallocation or a thread
\* that failed to start has given up each of its references once.  What is referenced
\* is there, and whatever dies is deallocated by one thread only, once nobody refers
\* to it.
CountsReferences ==
    \A x \in Instances :
        /\ count[x] = References(x)
        /\ References(x) > 0 => magic[x] = "valid" /\ Deallocs(x) = {}
        /\ Cardinality(Deallocs(x)) <= 1

\* An instance that is there is referenced or is being deallocated: the release
\* that a pool owes to an instance is made when the pool is drained.
NothingLeaks ==
    \A x \in Instances : magic[x] = "valid" => References(x) > 0 \/ Deallocs(x) # {}

\* No assertion of wi_retain, wi_release, a drain or the pool stack fails, and no
\* freed block or thread is written to, in a program that keeps the rules.
NoAbort == ~aborted /\ ~wild

\* Every release, drain and thread creation returns, however deep the
\* deallocations it sets off are nested.
CallsReturn == \A t \in Threads : work[t] # <<>> ~> work[t] = <<>>

=============================================================================
