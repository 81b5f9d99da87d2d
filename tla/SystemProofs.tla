------------------------------ MODULE SystemProofs ------------------------------
(***************************************************************************)
(* Proofs about three services that threads of the program share, about    *)
(* the files, pipes and tasks of one thread, and about hosts and their     *)
(* addresses.                                                              *)
(*                                                                         *)
(* FilesystemEvents, for any instances and paths: what an instance         *)
(* believes to be watched is watched, and the events thread works on an    *)
(* instance that is whole.                                                 *)
(*                                                                         *)
(* Log, for any threads, limits, files and ends of the process: the file   *)
(* has the latest lines, within a bound that is moved by the lines it      *)
(* began with and by each failure to cut it, until it is cut.              *)
(*                                                                         *)
(* Files, for any table of descriptors and any sizes of buffers, pipes and *)
(* calls: each descriptor has one owner, and reads and writes are whole.   *)
(*                                                                         *)
(* Host, for any hosts, addresses and lists the system gives: a host has   *)
(* exactly its addresses, and they are compared by what they denote.       *)
(*                                                                         *)
(* Address, for any sizes, addresses and patterns: an address matches a    *)
(* pattern exactly if the pattern denotes it.                              *)
(*                                                                         *)
(* Uuid, for any threads, times in a tick, clock sequences and             *)
(* adjustments: as long as the clock went back less often than there are   *)
(* clock sequences, no two UUIDs made from the time are the same, however  *)
(* the calls interleave, unless one of the two found what another call had *)
(* set, or used the last adjustment.                                       *)
(***************************************************************************)
EXTENDS FilesystemEvents, Log, Files, Uuid, Host, Lists, FiniteSetTheorems

-----------------------------------------------------------------------------
(* Filesystem events: the invariant *)

Fields == {"is", "callbacks", "fds", "paths", "kernel", "queue", "next"}

\* The dictionaries of an instance, and the watches of its descriptor.
Agrees(n) ==
    /\ DOMAIN n = Fields /\ n.is \in {"live", "freed"} /\ n.next \in Nat
    /\ DOMAIN n.fds = n.callbacks
    /\ \A p \in n.callbacks : n.fds[p] \in DOMAIN n.paths /\ n.paths[n.fds[p]] = p
    /\ \A wd \in DOMAIN n.paths : wd \in Nat /\ wd < n.next
    /\ \A wd \in DOMAIN n.kernel : n.kernel[wd] \in n.callbacks /\ n.fds[n.kernel[wd]] = wd
    /\ n.kernel = [wd \in DOMAIN n.kernel |-> n.kernel[wd]]

InstancesAgree ==
    /\ DOMAIN instances = Instances
    /\ \A i \in Instances : instances[i] = Dead \/ Agrees(instances[i])

\* Every instance that is not dead has one place on the list.
ListIsRight ==
    /\ list \in Seq(Instances)
    /\ \A k \in 1 .. Len(list) : instances[list[k]] # Dead
    /\ \A k, l \in 1 .. Len(list) : list[k] = list[l] => k = l
    /\ \A i \in Instances : instances[i] # Dead => \E k \in 1 .. Len(list) : list[k] = i

ThreadIsRight ==
    /\ DOMAIN thread = {"at", "index", "buffer"}
    /\ thread.at \in {"rest", "each", "select", "dispatch", "callback"}
    /\ thread.index \in Nat \ {0}
    /\ holder \in {"none", "thread"} /\ (holder = "thread") = (thread.at # "rest")
    /\ thread.at \in {"select", "dispatch", "callback"} => thread.index <= Len(list)
    /\ thread.at \in {"dispatch", "callback"} => Live(list[thread.index])

EventsAreRight == InstancesAgree /\ ListIsRight /\ ThreadIsRight

-----------------------------------------------------------------------------
(* What an operation makes of one instance *)

LEMMA DeadIsDead ==
    ASSUME NEW n, Agrees(n)
    PROVE  n # Dead
<1>1. "next" \in DOMAIN n /\ DOMAIN Dead = {"is"}
  BY DEF Agrees, Dead, Fields
<1> QED
  BY <1>1

\* The kernel's queue is nothing that the instance knows of.
Same(m, n) ==
    /\ DOMAIN m = DOMAIN n /\ m.is = n.is /\ m.callbacks = n.callbacks /\ m.fds = n.fds
    /\ m.paths = n.paths /\ m.next = n.next

LEMMA QueueKeeps ==
    ASSUME NEW n, Agrees(n), NEW wd, NEW kind
    PROVE  Agrees(Queue(n, wd, kind)) /\ Same(Queue(n, wd, kind), n)
           /\ Queue(n, wd, kind).kernel = n.kernel
<1> DEFINE e == [wd |-> wd, kind |-> kind]
           m == [n EXCEPT !.queue = Append(@, e)]
<1>1. Same(m, n) /\ m.kernel = n.kernel
  BY Zenon DEF Agrees, Fields, Same
<1>2. Queue(n, wd, kind) \in {n, m}
  BY Zenon DEF Queue
<1> HIDE DEF m
<1>3. Agrees(m)
  BY <1>1 DEF Agrees, Same
<1> QED
  BY <1>1, <1>2, <1>3 DEF Same

LEMMA FewerWatches ==
    ASSUME NEW n, Agrees(n), NEW gone, NEW m, Same(m, n),
           m.kernel = [w \in DOMAIN n.kernel \ gone |-> n.kernel[w]]
    PROVE  Agrees(m) /\ DOMAIN m.kernel = DOMAIN n.kernel \ gone
BY DEF Agrees, Same

LEMMA UnwatchKeeps ==
    ASSUME NEW n, Agrees(n), NEW wd
    PROVE  /\ Agrees(Unwatch(n, wd)) /\ wd \notin DOMAIN Unwatch(n, wd).kernel
           /\ Same(Unwatch(n, wd), n)
<1> DEFINE m == [n EXCEPT !.kernel = [w \in DOMAIN @ \ {wd} |-> @[w]]]
<1>1. CASE wd \notin DOMAIN n.kernel
  <2>1. Unwatch(n, wd) = n
    BY <1>1 DEF Unwatch
  <2> QED
    BY <1>1, <2>1 DEF Same
<1>2. CASE wd \in DOMAIN n.kernel
  <2>1. Same(m, n) /\ m.kernel = [w \in DOMAIN n.kernel \ {wd} |-> n.kernel[w]]
    BY Zenon DEF Agrees, Fields, Same
  <2>2. Unwatch(n, wd) = Queue(m, wd, "ignored")
    BY <1>2, Zenon DEF Unwatch
  <2> HIDE DEF m
  <2>3. Agrees(m) /\ wd \notin DOMAIN m.kernel
    BY <2>1, FewerWatches
  <2> QED
    BY <2>1, <2>2, <2>3, QueueKeeps DEF Same
<1> QED
  BY <1>1, <1>2

LEMMA UnwatchAllKeeps ==
    ASSUME NEW n, Agrees(n), NEW wds
    PROVE  /\ Agrees(UnwatchAll(n, wds)) /\ Same(UnwatchAll(n, wds), n)
           /\ DOMAIN UnwatchAll(n, wds).kernel = DOMAIN n.kernel \ wds
<1> DEFINE gone == DOMAIN n.kernel \cap wds
           told == [k \in 1 .. Min({Cardinality(gone), MaxEvents - Len(n.queue)}) |->
                       [wd |-> SetToSortSeq(gone, <)[k], kind |-> "ignored"]]
           kernel == [w \in DOMAIN n.kernel \ gone |-> n.kernel[w]]
           queue == n.queue \o told
           m == [n EXCEPT !.kernel = kernel, !.queue = queue]
<1>1. UnwatchAll(n, wds) = m
  BY Zenon DEF UnwatchAll
<1> HIDE DEF queue
<1>2. Same(m, n) /\ m.kernel = kernel
  BY Zenon DEF Agrees, Fields, Same
<1> HIDE DEF m
<1>3. Agrees(m) /\ DOMAIN m.kernel = DOMAIN n.kernel \ gone
  BY <1>2, FewerWatches
<1> QED
  BY <1>1, <1>2, <1>3

LEMMA ForgetKeeps ==
    ASSUME NEW n, Agrees(n), NEW p \in n.callbacks
    PROVE  Agrees(Forget(n, p)) /\ Forget(n, p).is = n.is
<1> DEFINE u == Unwatch(n, n.fds[p])
           callbacks == u.callbacks \ {p}
           fds == [q \in DOMAIN u.fds \ {p} |-> u.fds[q]]
           m == [u EXCEPT !.callbacks = callbacks, !.fds = fds]
<1>1. Agrees(u) /\ n.fds[p] \notin DOMAIN u.kernel /\ Same(u, n)
  BY UnwatchKeeps
<1>2. Forget(n, p) = m
  BY Zenon DEF Forget
<1> HIDE DEF u
<1>3. /\ DOMAIN m = Fields /\ m.is = u.is /\ m.callbacks = callbacks /\ m.fds = fds
      /\ m.paths = u.paths /\ m.kernel = u.kernel /\ m.next = u.next
  BY <1>1, Zenon DEF Agrees, Fields
<1> HIDE DEF m
<1>4. Agrees(m)
  BY <1>1, <1>3 DEF Agrees, Same
<1> QED
  BY <1>1, <1>2, <1>3, <1>4 DEF Same

LEMMA ForgetAllKeeps ==
    ASSUME NEW n, Agrees(n)
    PROVE  Agrees(ForgetAll(n)) /\ ForgetAll(n).is = n.is
<1> DEFINE u == UnwatchAll(n, Range(n.fds))
           m == [u EXCEPT !.callbacks = {}, !.fds = <<>>, !.paths = <<>>]
<1>1. Agrees(u) /\ DOMAIN u.kernel = DOMAIN n.kernel \ Range(n.fds) /\ Same(u, n)
  BY UnwatchAllKeeps
<1>2. DOMAIN u.kernel = {}
  BY <1>1 DEF Agrees, Range
<1>3. ForgetAll(n) = m
  BY Zenon DEF ForgetAll
<1> HIDE DEF u
<1>4. /\ DOMAIN m = Fields /\ m.is = u.is /\ m.callbacks = {} /\ m.fds = <<>>
      /\ m.paths = <<>> /\ m.kernel = u.kernel /\ m.next = u.next
  BY <1>1, Zenon DEF Agrees, Fields
<1> HIDE DEF m
<1>5. Agrees(m)
  BY <1>1, <1>2, <1>4 DEF Agrees, Same
<1> QED
  BY <1>1, <1>3, <1>4, <1>5 DEF Same

LEMMA FreedKeeps ==
    ASSUME NEW n, Agrees(n)
    PROVE  Agrees([ForgetAll(n) EXCEPT !.is = "freed"])
<1> DEFINE u == ForgetAll(n)
           m == [u EXCEPT !.is = "freed"]
<1>1. Agrees(u)
  BY ForgetAllKeeps
<1> HIDE DEF u
<1>2. /\ DOMAIN m = Fields /\ m.is = "freed" /\ m.callbacks = u.callbacks /\ m.fds = u.fds
      /\ m.paths = u.paths /\ m.kernel = u.kernel /\ m.next = u.next
  BY <1>1, Zenon DEF Agrees, Fields
<1> HIDE DEF m
<1>3. Agrees(m)
  BY <1>1, <1>2 DEF Agrees
<1> QED
  BY <1>3 DEF m, u

LEMMA AddKeeps ==
    ASSUME NEW n, Agrees(n), NEW p, p \notin n.callbacks
    PROVE  Agrees(Added(n, p, n.next)) /\ Added(n, p, n.next).is = n.is
<1> DEFINE wd == n.next
           fds == Assigned(n.fds, p, wd)
           paths == Assigned(n.paths, wd, p)
           kernel == Assigned(n.kernel, wd, p)
           m == Added(n, p, wd)
<1>1. /\ DOMAIN fds = DOMAIN n.fds \cup {p} /\ fds[p] = wd
      /\ \A q \in DOMAIN n.fds : q # p => fds[q] = n.fds[q]
  BY DEF Assigned
<1>2. /\ DOMAIN paths = DOMAIN n.paths \cup {wd} /\ paths[wd] = p
      /\ \A q \in DOMAIN n.paths : q # wd => paths[q] = n.paths[q]
  BY DEF Assigned
<1>3. /\ DOMAIN kernel = DOMAIN n.kernel \cup {wd} /\ kernel[wd] = p
      /\ \A q \in DOMAIN n.kernel : q # wd => kernel[q] = n.kernel[q]
      /\ kernel = [w \in DOMAIN kernel |-> kernel[w]]
  BY DEF Assigned
<1>4. /\ DOMAIN m = Fields /\ m.is = n.is /\ m.next = wd + 1 /\ m.fds = fds /\ m.paths = paths
      /\ m.kernel = kernel /\ m.callbacks = n.callbacks \cup {p}
  BY Zenon DEF Agrees, Fields, Added
<1> HIDE DEF fds, paths, kernel, m
<1>5. \A q \in n.callbacks : n.fds[q] # wd /\ q # p
  BY DEF Agrees
<1>6. \A w \in DOMAIN n.kernel : w # wd
  BY <1>5 DEF Agrees
<1>7. Agrees(m)
  BY <1>1, <1>2, <1>3, <1>4, <1>5, <1>6 DEF Agrees
<1> QED
  BY <1>4, <1>7 DEF m

-----------------------------------------------------------------------------
(* The inductive invariant *)

\* One instance changes, and stays what it is for the thread that works on it.
LEMMA OneInstance ==
    ASSUME EventsAreRight, NEW i \in Instances, instances[i] # Dead, NEW m, Agrees(m),
           instances' = [instances EXCEPT ![i] = m], UNCHANGED <<list, holder, thread>>,
           m.is = instances[i].is \/ i \notin Worked
    PROVE  EventsAreRight'
<1> USE DEF EventsAreRight
<1>1. m # Dead /\ DOMAIN instances' = Instances /\ instances'[i] = m
      /\ \A j \in Instances : j # i => instances'[j] = instances[j]
  BY DeadIsDead DEF InstancesAgree
<1>2. InstancesAgree'
  BY <1>1 DEF InstancesAgree
<1>3. ListIsRight'
  BY <1>1 DEF ListIsRight
<1>4. ThreadIsRight'
  <2>1. ASSUME thread.at \in {"dispatch", "callback"} PROVE Live(list[thread.index])'
    <3>1. list[thread.index] \in Instances /\ Live(list[thread.index])
      BY <2>1 DEF ThreadIsRight, ListIsRight
    <3>2. i \in Worked => i = list[thread.index]
      BY DEF Worked
    <3>3. list[thread.index] \in Worked
      BY <2>1 DEF Worked
    <3> QED
      BY <1>1, <3>1, <3>2, <3>3 DEF Live
  <2> QED
    BY <2>1 DEF ThreadIsRight
<1> QED
  BY <1>2, <1>3, <1>4

LEMMA LiveIs ==
    ASSUME EventsAreRight, NEW i \in Instances, Live(i)
    PROVE  instances[i] # Dead /\ Agrees(instances[i])
<1>1. Dead.is = "dead"
  BY DEF Dead
<1> QED
  BY <1>1 DEF EventsAreRight, InstancesAgree, Live

\* The thread is somewhere else.
LEMMA ThreadGoes ==
    ASSUME EventsAreRight, UNCHANGED list, NEW at \in {"rest", "each", "select", "dispatch", "callback"},
           DOMAIN thread' = {"at", "index", "buffer"}, thread'.at = at,
           thread'.index \in Nat \ {0}, holder' = IF at = "rest" THEN "none" ELSE "thread",
           at \in {"select", "dispatch", "callback"} => thread'.index <= Len(list),
           at \in {"dispatch", "callback"} => Live(list[thread.index])',
           InstancesAgree', \A i \in Instances : instances[i] = Dead <=> instances'[i] = Dead
    PROVE  EventsAreRight'
<1>1. ListIsRight'
  BY DEF EventsAreRight, ListIsRight
<1>2. ThreadIsRight'
  BY DEF ThreadIsRight
<1> QED
  BY <1>1, <1>2 DEF EventsAreRight

LEMMA HappensKeeps == ASSUME EventsAreRight, Happens PROVE EventsAreRight'
<1>0. \E i \in Instances : \E wd :
          /\ Live(i) /\ instances' = [instances EXCEPT ![i] = Queue(instances[i], wd, "created")]
          /\ UNCHANGED <<list, holder, thread>>
  BY DEF Happens
<1>. PICK i \in Instances : \E wd :
          /\ Live(i) /\ instances' = [instances EXCEPT ![i] = Queue(instances[i], wd, "created")]
          /\ UNCHANGED <<list, holder, thread>>
  BY <1>0
<1>1. PICK wd :
          /\ Live(i) /\ instances' = [instances EXCEPT ![i] = Queue(instances[i], wd, "created")]
          /\ UNCHANGED <<list, holder, thread>>
  OBVIOUS
<1>2. instances[i] # Dead /\ Agrees(instances[i])
  BY <1>1, LiveIs
<1>3. Agrees(Queue(instances[i], wd, "created")) /\ Queue(instances[i], wd, "created").is = instances[i].is
  BY <1>2, QueueKeeps DEF Same
<1> HIDE DEF Queue
<1> QED
  BY <1>1, <1>2, <1>3, OneInstance

LEMMA VanishesKeeps == ASSUME EventsAreRight, Vanishes PROVE EventsAreRight'
<1>1. PICK p \in present :
          instances' = [i \in Instances |->
              IF ~Live(i) THEN instances[i]
              ELSE UnwatchAll(instances[i],
                              {w \in DOMAIN instances[i].kernel : instances[i].kernel[w] = p})]
  BY DEF Vanishes
<1>2. UNCHANGED <<list, holder, thread>>
  BY DEF Vanishes
<1>3. ASSUME NEW i \in Instances
      PROVE  /\ instances'[i] = Dead <=> instances[i] = Dead
             /\ instances'[i] = Dead \/ Agrees(instances'[i])
             /\ instances'[i].is = instances[i].is
  <2>1. CASE ~Live(i)
    <3>1. instances'[i] = instances[i]
      BY <1>1, <2>1
    <3> QED
      BY <3>1 DEF EventsAreRight, InstancesAgree
  <2>2. CASE Live(i)
    <3> DEFINE wds == {w \in DOMAIN instances[i].kernel : instances[i].kernel[w] = p}
    <3>1. instances'[i] = UnwatchAll(instances[i], wds)
      BY <1>1, <2>2
    <3> HIDE DEF wds
    <3>2. instances[i] # Dead /\ Agrees(instances[i])
      BY <2>2, LiveIs
    <3>3. Agrees(instances'[i]) /\ instances'[i].is = instances[i].is
      BY <3>1, <3>2, UnwatchAllKeeps DEF Same
    <3> QED
      BY <3>2, <3>3, DeadIsDead
  <2> QED
    BY <2>1, <2>2
<1>4. InstancesAgree'
  BY <1>1, <1>3 DEF InstancesAgree
<1>5. ListIsRight'
  BY <1>2, <1>3 DEF EventsAreRight, ListIsRight
<1>6. ThreadIsRight'
  <2>1. ASSUME thread.at \in {"dispatch", "callback"} PROVE Live(list[thread.index])'
    <3>1. list[thread.index] \in Instances /\ Live(list[thread.index])
      BY <2>1 DEF EventsAreRight, ThreadIsRight, ListIsRight
    <3> QED
      BY <1>2, <1>3, <3>1 DEF Live
  <2> QED
    BY <1>2, <2>1 DEF EventsAreRight, ThreadIsRight
<1> QED
  BY <1>4, <1>5, <1>6 DEF EventsAreRight

LEMMA InitEventsKeeps == ASSUME EventsAreRight, InitEvents PROVE EventsAreRight'
<1> DEFINE new == [is |-> "live", callbacks |-> {}, fds |-> <<>>, paths |-> <<>>, kernel |-> <<>>,
                   queue |-> <<>>, next |-> 1]
<1>1. PICK i \in Instances :
          /\ instances[i] = Dead /\ holder = "none" /\ instances' = [instances EXCEPT ![i] = new]
          /\ list' = Append(list, i) /\ UNCHANGED <<holder, thread>>
  BY DEF InitEvents
<1>2. Agrees(new)
  BY DEF Agrees, Fields
<1> HIDE DEF new
<1>3. new # Dead
  BY <1>2, DeadIsDead
<1>4. InstancesAgree'
  BY <1>1, <1>2 DEF EventsAreRight, InstancesAgree
<1>5. ListIsRight'
  <2>1. /\ list' \in Seq(Instances) /\ Len(list') = Len(list) + 1 /\ Len(list) \in Nat
        /\ list'[Len(list) + 1] = i /\ \A k \in 1 .. Len(list) : list'[k] = list[k]
    BY <1>1 DEF EventsAreRight, ListIsRight
  <2>2. \A j \in Instances : instances'[j] = IF j = i THEN new ELSE instances[j]
    BY <1>1 DEF EventsAreRight, InstancesAgree
  <2>3. \A k \in 1 .. Len(list) : list[k] \in Instances /\ list[k] # i
    BY <1>1 DEF EventsAreRight, ListIsRight
  <2>4. \A k \in 1 .. Len(list') : k = Len(list) + 1 \/ k \in 1 .. Len(list)
    BY <2>1
  <2>5. \A k \in 1 .. Len(list') : instances'[list'[k]] # Dead
    BY <1>3, <2>1, <2>2, <2>3, <2>4 DEF EventsAreRight, ListIsRight
  <2>6. \A k, l \in 1 .. Len(list') : list'[k] = list'[l] => k = l
    BY <2>1, <2>3, <2>4 DEF EventsAreRight, ListIsRight
  <2>7. ASSUME NEW j \in Instances, instances'[j] # Dead
        PROVE  \E k \in 1 .. Len(list') : list'[k] = j
    <3>1. CASE j = i
      <4>1. Len(list) + 1 \in 1 .. Len(list')
        BY <2>1
      <4> QED
        BY <2>1, <3>1, <4>1
    <3>2. CASE j # i
      <4>1. PICK k \in 1 .. Len(list) : list[k] = j
        BY <2>2, <2>7, <3>2 DEF EventsAreRight, ListIsRight
      <4>2. k \in 1 .. Len(list') /\ list'[k] = j
        BY <2>1, <4>1
      <4> QED
        BY <4>2
    <3> QED
      BY <3>1, <3>2
  <2> QED
    BY <2>1, <2>5, <2>6, <2>7 DEF ListIsRight
<1>6. ThreadIsRight'
  BY <1>1 DEF EventsAreRight, ThreadIsRight
<1> QED
  BY <1>4, <1>5, <1>6 DEF EventsAreRight

LEMMA ProgramKeeps ==
    ASSUME EventsAreRight, AddPathWithCallback \/ RemovePath \/ RemoveAllPaths \/ StartDealloc
    PROVE  EventsAreRight'
<1>1. CASE AddPathWithCallback
  <2>1. PICK i \in Instances, p \in Paths :
            /\ Live(i) /\ p \notin instances[i].callbacks
            /\ instances' = [instances EXCEPT ![i] = Added(instances[i], p, instances[i].next)]
            /\ UNCHANGED <<list, holder, thread>>
    BY <1>1 DEF AddPathWithCallback, Caller
  <2>2. instances[i] # Dead /\ Agrees(instances[i])
    BY <2>1, LiveIs
  <2>3. LET m == Added(instances[i], p, instances[i].next) IN Agrees(m) /\ m.is = instances[i].is
    BY <2>1, <2>2, AddKeeps
  <2> QED
    BY <2>1, <2>2, <2>3, OneInstance
<1>2. CASE RemovePath
  <2>1. PICK i \in Instances, p \in Paths :
            /\ Live(i) /\ p \in instances[i].callbacks
            /\ instances' = [instances EXCEPT ![i] = Forget(instances[i], p)]
            /\ UNCHANGED <<list, holder, thread>>
    BY <1>2 DEF RemovePath, Caller
  <2>2. instances[i] # Dead /\ Agrees(instances[i])
    BY <2>1, LiveIs
  <2>3. LET m == Forget(instances[i], p) IN Agrees(m) /\ m.is = instances[i].is
    BY <2>1, <2>2, ForgetKeeps
  <2> QED
    BY <2>1, <2>2, <2>3, OneInstance
<1>3. CASE RemoveAllPaths
  <2>1. PICK i \in Instances :
            /\ Live(i) /\ instances' = [instances EXCEPT ![i] = ForgetAll(instances[i])]
            /\ UNCHANGED <<list, holder, thread>>
    BY <1>3 DEF RemoveAllPaths, Caller
  <2>2. instances[i] # Dead /\ Agrees(instances[i])
    BY <2>1, LiveIs
  <2>3. LET m == ForgetAll(instances[i]) IN Agrees(m) /\ m.is = instances[i].is
    BY <2>1, <2>2, ForgetAllKeeps
  <2> QED
    BY <2>1, <2>2, <2>3, OneInstance
<1>4. CASE StartDealloc
  <2>1. PICK i \in Instances :
            /\ Live(i) /\ i \notin Worked
            /\ instances' = [instances EXCEPT ![i] = [ForgetAll(instances[i]) EXCEPT !.is = "freed"]]
            /\ UNCHANGED <<list, holder, thread>>
    BY <1>4, Zenon DEF StartDealloc
  <2>2. instances[i] # Dead /\ Agrees(instances[i])
    BY <2>1, LiveIs
  <2> DEFINE m == [ForgetAll(instances[i]) EXCEPT !.is = "freed"]
  <2>3. Agrees(m)
    BY <2>2, FreedKeeps
  <2>4. instances' = [instances EXCEPT ![i] = m]
    BY <2>1, Zenon
  <2> HIDE DEF m
  <2> QED
    BY <2>1, <2>2, <2>3, <2>4, OneInstance
<1> QED
  BY <1>1, <1>2, <1>3, <1>4

LEMMA FinishDeallocKeeps == ASSUME EventsAreRight, FinishDealloc PROVE EventsAreRight'
<1>1. PICK i \in Instances :
          /\ instances[i].is = "freed" /\ holder = "none" /\ list' = RemoveFirst(list, i)
          /\ instances' = [instances EXCEPT ![i] = Dead] /\ UNCHANGED <<holder, thread>>
  BY DEF FinishDealloc
<1>2. instances[i] # Dead /\ \A j \in Instances : instances'[j] = IF j = i THEN Dead ELSE instances[j]
  <2>1. Dead.is = "dead"
    BY DEF Dead
  <2> QED
    BY <1>1, <2>1 DEF EventsAreRight, InstancesAgree
<1>3. InstancesAgree'
  BY <1>1, <1>2 DEF EventsAreRight, InstancesAgree
<1>4. ListIsRight'
  <2>1. PICK k \in 1 .. Len(list) : list[k] = i
    BY <1>2 DEF EventsAreRight, ListIsRight
  <2>2. \A j \in 1 .. Len(list) : list[j] = i => j = k
    BY <2>1 DEF EventsAreRight, ListIsRight
  <2>3. list \in Seq(Instances) /\ Len(list) \in Nat
    BY DEF EventsAreRight, ListIsRight
  <2>4. /\ list' \in Seq(Instances) /\ Len(list') = Len(list) - 1
        /\ \A j \in 1 .. Len(list) - 1 : list'[j] = IF j < k THEN list[j] ELSE list[j + 1]
    BY <1>1, <2>1, <2>2, <2>3, RemoveFirstRemoves
  <2> DEFINE from(j) == IF j < k THEN j ELSE j + 1
  <2>5. \A j \in 1 .. Len(list') : from(j) \in 1 .. Len(list) /\ from(j) # k /\ list'[j] = list[from(j)]
    BY <2>1, <2>3, <2>4
  <2>6. \A j, l \in 1 .. Len(list') : from(j) = from(l) => j = l
    BY <2>1, <2>3, <2>4
  <2> HIDE DEF from
  <2>7. \A j \in 1 .. Len(list') : list'[j] \in Instances /\ list'[j] # i
    BY <2>2, <2>3, <2>5
  <2>8. \A j \in 1 .. Len(list') : instances'[list'[j]] # Dead
    BY <1>2, <2>5, <2>7 DEF EventsAreRight, ListIsRight
  <2>9. \A j, l \in 1 .. Len(list') : list'[j] = list'[l] => j = l
    BY <2>5, <2>6 DEF EventsAreRight, ListIsRight
  <2>10. ASSUME NEW j \in Instances, instances'[j] # Dead
         PROVE  \E l \in 1 .. Len(list') : list'[l] = j
    <3>1. PICK l \in 1 .. Len(list) : list[l] = j
      BY <1>2, <2>10 DEF EventsAreRight, ListIsRight
    <3>2. l # k
      BY <1>2, <2>1, <2>10, <3>1
    <3>3. CASE l < k
      <4>1. l \in 1 .. Len(list') /\ list'[l] = j
        BY <2>1, <2>3, <2>4, <3>1, <3>3
      <4> QED
        BY <4>1
    <3>4. CASE l > k
      <4>1. l - 1 \in 1 .. Len(list') /\ ~ (l - 1 < k) /\ (l - 1) + 1 = l
        BY <2>1, <2>3, <2>4, <3>4
      <4>2. list'[l - 1] = j
        BY <2>4, <3>1, <4>1
      <4> QED
        BY <4>1, <4>2
    <3> QED
      BY <3>2, <3>3, <3>4
  <2> QED
    BY <2>4, <2>8, <2>9, <2>10 DEF ListIsRight
<1>5. ThreadIsRight'
  BY <1>1 DEF EventsAreRight, ThreadIsRight
<1> QED
  BY <1>3, <1>4, <1>5 DEF EventsAreRight

LEMMA ThreadKeeps ==
    ASSUME EventsAreRight, TakeList \/ EachInstance \/ Dispatch \/ CallbackReturns
    PROVE  EventsAreRight'
<1> USE DEF EventsAreRight
<1>1. InstancesAgree' /\ UNCHANGED <<instances, list>>
  BY DEF InstancesAgree, TakeList, EachInstance, Dispatch, CallbackReturns
<1>2. /\ DOMAIN thread = {"at", "index", "buffer"} /\ thread.index \in Nat \ {0}
      /\ thread.at \in {"dispatch", "callback"} =>
             Live(list[thread.index]) /\ thread.index <= Len(list) /\ holder = "thread"
      /\ Len(list) \in Nat
  BY DEF ThreadIsRight, ListIsRight
<1>3. CASE TakeList
  <2>1. /\ DOMAIN thread' = {"at", "index", "buffer"} /\ thread'.at = "each" /\ thread'.index = 1
        /\ holder' = "thread"
    BY <1>3, Zenon DEF TakeList, Rest
  <2> QED
    BY <1>1, <2>1, ThreadGoes
<1>4. CASE EachInstance /\ thread.index > Len(list)
  <2>1. thread' = Rest /\ holder' = "none"
    BY <1>4, Zenon DEF EachInstance
  <2>2. DOMAIN Rest = {"at", "index", "buffer"} /\ Rest.at = "rest" /\ Rest.index = 1
    BY DEF Rest
  <2> QED
    BY <1>1, <2>1, <2>2, ThreadGoes
<1>5. CASE EachInstance /\ ~ (thread.index > Len(list))
  <2>1. /\ DOMAIN thread' = {"at", "index", "buffer"} /\ thread'.at = "select"
        /\ thread'.index = thread.index /\ holder' = holder /\ thread.at = "each"
    BY <1>2, <1>5, Zenon DEF EachInstance
  <2>2. thread'.index <= Len(list) /\ holder' = "thread"
    BY <1>2, <1>5, <2>1 DEF ThreadIsRight
  <2> QED
    BY <1>1, <1>2, <2>1, <2>2, ThreadGoes
<1>6. CASE Dispatch
  <2>1. holder' = "thread" /\ thread.index <= Len(list) /\ Live(list[thread.index])
    BY <1>2, <1>6 DEF Dispatch
  <2>2. \/ thread' = [thread EXCEPT !.at = "each", !.index = @ + 1]
        \/ thread' = [thread EXCEPT !.at = "callback", !.buffer = Tail(@)]
        \/ thread' = [thread EXCEPT !.buffer = Tail(@)] /\ thread.at = "dispatch"
    BY <1>6, Zenon DEF Dispatch
  <2>3. CASE thread' = [thread EXCEPT !.at = "each", !.index = @ + 1]
    <3>1. /\ DOMAIN thread' = {"at", "index", "buffer"} /\ thread'.at = "each"
          /\ thread'.index = thread.index + 1
      BY <1>2, <2>3, Zenon
    <3> QED
      BY <1>1, <1>2, <2>1, <3>1, ThreadGoes
  <2>4. CASE \/ thread' = [thread EXCEPT !.at = "callback", !.buffer = Tail(@)]
             \/ thread' = [thread EXCEPT !.buffer = Tail(@)] /\ thread.at = "dispatch"
    <3>1. /\ DOMAIN thread' = {"at", "index", "buffer"} /\ thread'.at \in {"dispatch", "callback"}
          /\ thread'.index = thread.index
      BY <1>2, <2>4, Zenon
    <3>2. Live(list[thread.index])'
      BY <1>1, <2>1, <3>1 DEF Live
    <3> QED
      BY <1>1, <1>2, <2>1, <3>1, <3>2, ThreadGoes
  <2> QED
    BY <2>2, <2>3, <2>4
<1>7. CASE CallbackReturns
  <2>1. /\ DOMAIN thread' = {"at", "index", "buffer"} /\ thread'.at = "dispatch"
        /\ thread'.index = thread.index /\ holder' = holder /\ thread.at = "callback"
    BY <1>2, <1>7, Zenon DEF CallbackReturns
  <2>2. Live(list[thread.index])'
    BY <1>1, <1>2, <2>1 DEF Live
  <2> QED
    BY <1>1, <1>2, <2>1, <2>2, ThreadGoes
<1> QED
  BY <1>3, <1>4, <1>5, <1>6, <1>7

LEMMA SelectKeeps == ASSUME EventsAreRight, SelectEvents PROVE EventsAreRight'
<1> DEFINE i == list[thread.index]
<1>1. /\ DOMAIN thread = {"at", "index", "buffer"} /\ thread.index \in Nat \ {0}
      /\ thread.at = "select" /\ thread.index <= Len(list) /\ holder = "thread"
      /\ UNCHANGED <<list, holder>> /\ i \in Instances
  BY DEF SelectEvents, EventsAreRight, ThreadIsRight, ListIsRight
<1> DEFINE n == IF Live(i) THEN Min({Room, Len(instances[i].queue)}) ELSE 0
           queue == SubSeq(instances[i].queue, n + 1, Len(instances[i].queue))
           buffer == SubSeq(instances[i].queue, 1, n)
           m == [instances[i] EXCEPT !.queue = queue]
<1>2. \/ /\ n > 0 /\ thread' = [thread EXCEPT !.at = "dispatch", !.buffer = buffer]
         /\ instances' = [instances EXCEPT ![i] = m]
      \/ /\ UNCHANGED instances
         /\ thread' = [thread EXCEPT !.at = "each", !.index = @ + 1]
  BY Zenon DEF SelectEvents
<1>3. n > 0 => Live(i)
  OBVIOUS
<1> HIDE DEF i, n, queue, buffer
<1>4. CASE /\ n > 0 /\ thread' = [thread EXCEPT !.at = "dispatch", !.buffer = buffer]
           /\ instances' = [instances EXCEPT ![i] = m]
  <2>1. Live(i) /\ instances[i] # Dead /\ Agrees(instances[i])
    BY <1>1, <1>3, <1>4, LiveIs
  <2>2. Same(m, instances[i]) /\ m.kernel = instances[i].kernel
    BY <2>1, Zenon DEF Agrees, Fields, Same
  <2> HIDE DEF m
  <2>3. Agrees(m)
    BY <2>1, <2>2 DEF Agrees, Same
  <2>4. m # Dead /\ m.is = "live"
    BY <2>1, <2>2, <2>3, DeadIsDead DEF Same, Live
  <2>5. /\ DOMAIN thread' = {"at", "index", "buffer"} /\ thread'.at = "dispatch"
        /\ thread'.index = thread.index
    BY <1>1, <1>4, Zenon
  <2>6. \A j \in Instances : instances'[j] = IF j = i THEN m ELSE instances[j]
    BY <1>4 DEF EventsAreRight, InstancesAgree
  <2>7. InstancesAgree'
    BY <1>4, <2>3, <2>6 DEF EventsAreRight, InstancesAgree
  <2>8. Live(list[thread.index])'
    BY <1>1, <2>4, <2>5, <2>6 DEF Live, i
  <2> QED
    BY <1>1, <2>1, <2>4, <2>5, <2>6, <2>7, <2>8, ThreadGoes
<1>5. CASE /\ UNCHANGED instances
           /\ thread' = [thread EXCEPT !.at = "each", !.index = @ + 1]
  <2>1. /\ DOMAIN thread' = {"at", "index", "buffer"} /\ thread'.at = "each"
        /\ thread'.index = thread.index + 1
    BY <1>1, <1>5, Zenon
  <2>2. InstancesAgree'
    BY <1>5 DEF EventsAreRight, InstancesAgree
  <2> QED
    BY <1>1, <1>5, <2>1, <2>2, ThreadGoes
<1> QED
  BY <1>2, <1>4, <1>5

-----------------------------------------------------------------------------

LEMMA EventsStartRight == EventsInit => EventsAreRight
<1> SUFFICES ASSUME EventsInit PROVE EventsAreRight
  OBVIOUS
<1>1. InstancesAgree /\ ListIsRight
  BY DEF EventsInit, InstancesAgree, ListIsRight
<1>2. ThreadIsRight
  BY DEF EventsInit, ThreadIsRight, Rest
<1> QED
  BY <1>1, <1>2 DEF EventsAreRight

LEMMA EventsStepsKeep == EventsAreRight /\ [EventsNext]_eventsVars => EventsAreRight'
<1> SUFFICES ASSUME EventsAreRight, [EventsNext]_eventsVars PROVE EventsAreRight'
  OBVIOUS
<1>1. CASE Appears \/ UNCHANGED eventsVars
  <2>1. UNCHANGED <<instances, list, holder, thread>>
    BY <1>1 DEF Appears, eventsVars
  <2> QED
    BY <2>1 DEF EventsAreRight, InstancesAgree, ListIsRight, ThreadIsRight, Live
<1> QED
  BY <1>1, HappensKeeps, VanishesKeeps, InitEventsKeeps, ProgramKeeps, FinishDeallocKeeps,
     ThreadKeeps, SelectKeeps DEF EventsNext

LEMMA InvariantAgrees == EventsAreRight => WatchesAgree
<1> SUFFICES ASSUME EventsAreRight PROVE WatchesAgree
  OBVIOUS
<1>1. ASSUME NEW i \in Instances, Live(i)
      PROVE  LET n == instances[i] IN
             /\ DOMAIN n.fds = n.callbacks
             /\ \A p \in n.callbacks : n.paths[n.fds[p]] = p
             /\ \A wd \in DOMAIN n.kernel : n.kernel[wd] \in n.callbacks /\ n.fds[n.kernel[wd]] = wd
             /\ n.kernel = [wd \in {n.fds[p] : p \in n.callbacks} \cap DOMAIN n.kernel |-> n.paths[wd]]
  <2> DEFINE n == instances[i]
             both == {n.fds[p] : p \in n.callbacks} \cap DOMAIN n.kernel
  <2>1. Agrees(n)
    BY <1>1, LiveIs
  <2> HIDE DEF n
  <2>2. both = DOMAIN n.kernel /\ \A wd \in DOMAIN n.kernel : n.kernel[wd] = n.paths[wd]
    BY <2>1 DEF Agrees
  <2> HIDE DEF both
  <2>3. n.kernel = [wd \in both |-> n.paths[wd]]
    BY <2>1, <2>2 DEF Agrees
  <2> QED
    BY <2>1, <2>3 DEF Agrees, n, both
<1>2. ASSUME NEW i \in Instances
      PROVE  Cardinality({k \in DOMAIN list : list[k] = i}) = IF instances[i] = Dead THEN 0 ELSE 1
  <2>1. DOMAIN list = 1 .. Len(list)
    BY DEF EventsAreRight, ListIsRight
  <2>2. CASE instances[i] = Dead
    <3>1. {k \in DOMAIN list : list[k] = i} = {}
      BY <2>1, <2>2 DEF EventsAreRight, ListIsRight
    <3> QED
      BY <2>2, <3>1, FS_EmptySet
  <2>3. CASE instances[i] # Dead
    <3>1. PICK k \in DOMAIN list : list[k] = i
      BY <2>1, <2>3 DEF EventsAreRight, ListIsRight
    <3>2. {j \in DOMAIN list : list[j] = i} = {k}
      BY <2>1, <3>1 DEF EventsAreRight, ListIsRight
    <3> QED
      BY <2>3, <3>2, FS_Singleton
  <2> QED
    BY <2>2, <2>3
<1> QED
  BY <1>1, <1>2 DEF EventsAreRight, ThreadIsRight, WatchesAgree

\* What an instance believes to be watched is what the kernel watches, each instance that is
\* whole is on the list once, and the thread has its place on it: WatchesAgree for any number
\* of instances, paths, watches and events (wi_filesystem_events_*).
THEOREM WatchesAlwaysAgree == EventsSpec => []WatchesAgree
<1>1. EventsSpec => []EventsAreRight
  BY EventsStartRight, EventsStepsKeep, PTL DEF EventsSpec
<1> QED
  BY <1>1, InvariantAgrees, PTL

-----------------------------------------------------------------------------
(* Log: the invariant *)

Points == {"vlog", "lock", "print", "truncate", "call", "callback"}

LogTypeOK ==
    /\ limit \in Nat /\ lines \in Nat /\ spare \in Nat
    /\ path \in Seq(Nat) /\ written \in Seq(Nat)
    /\ owner \in Threads \cup {"none"}
    /\ stack \in [Threads -> Seq(Points)]

\* Only what a callback logs is on top of something: the callback.
OnlyCallbacksWait ==
    \A t \in Threads : \A k \in 2 .. Len(stack[t]) : stack[t][k] = "callback"

LockIsHeld == \A t \in Threads : (owner = t) = (At(t, "print") \/ At(t, "truncate"))

\* The file is the end of what was written.
EndOf(s, t) ==
    Len(s) <= Len(t) /\ \A i \in 1 .. Len(s) : s[i] = t[Len(t) - Len(s) + i]

Slack == IF Threshold - limit > 1 THEN Threshold - limit ELSE 1
Counted == IF lines < Threshold THEN lines ELSE Threshold
Cutting == \E t \in Threads : At(t, "truncate")

\* The counted lines are as many as the file's, but for those that are not in the count.
FileIsBounded ==
    limit > 0 =>
        /\ ~Cutting => Len(path) <= Counted + spare
        /\ Cutting => Len(path) <= Threshold + 1 + spare

LogIsRight ==
    /\ LogTypeOK /\ OnlyCallbacksWait /\ LockIsHeld
    /\ EndOf(path, written)
    /\ Len(path) >= limit \/ Len(path) = Len(written)
    /\ FileIsBounded

-----------------------------------------------------------------------------
(* Operators *)

LEMMA EndIsSuffix ==
    ASSUME NEW s \in Seq(Nat), NEW t \in Seq(Nat), EndOf(s, t)
    PROVE  IsSuffix(s, t)
<1>1. Len(s) \in Nat /\ Len(t) \in Nat /\ Len(s) <= Len(t)
  BY DEF EndOf
<1>2. /\ Len(Reverse(s)) = Len(s) /\ Len(Reverse(t)) = Len(t)
      /\ \A i \in 1 .. Len(s) : Reverse(s)[i] = s[(Len(s) - i) + 1]
      /\ \A i \in 1 .. Len(t) : Reverse(t)[i] = t[(Len(t) - i) + 1]
  BY DEF Reverse
<1>3. ASSUME NEW i \in 1 .. Len(s) PROVE Reverse(s)[i] = Reverse(t)[i]
  <2>1. i \in 1 .. Len(t) /\ (Len(s) - i) + 1 \in 1 .. Len(s)
        /\ Len(t) - Len(s) + ((Len(s) - i) + 1) = (Len(t) - i) + 1
    BY <1>1
  <2>2. s[(Len(s) - i) + 1] = t[(Len(t) - i) + 1]
    BY <2>1 DEF EndOf
  <2> QED
    BY <1>2, <2>1, <2>2
<1>4. Reverse(s) \in Seq(Nat) /\ Reverse(t) \in Seq(Nat)
  <2>1. \A i \in 1 .. Len(s) : s[(Len(s) - i) + 1] \in Nat
    BY <1>1
  <2>2. \A i \in 1 .. Len(t) : t[(Len(t) - i) + 1] \in Nat
    BY <1>1
  <2> QED
    BY <1>1, <2>1, <2>2 DEF Reverse
<1> HIDE DEF Reverse
<1>5. SubSeq(Reverse(s), 1, Len(s)) = SubSeq(Reverse(t), 1, Len(s))
  <2> DEFINE r == Reverse(s)
             q == Reverse(t)
             n == Len(s)
             u == SubSeq(r, 1, n)
             v == SubSeq(q, 1, n)
  <2> HIDE DEF r, q, n
  <2>1. /\ n \in Nat /\ r \in Seq(Nat) /\ Len(r) = n /\ \A i \in 1 .. n : r[i] = q[i]
    BY <1>1, <1>2, <1>3, <1>4 DEF n, r, q
  <2>2. n \in Nat /\ \A i \in 1 .. n : r[i] = q[i] /\ r[i] \in Nat
    BY <2>1, ElementOfSeq
  <2>3. /\ u \in Seq(Nat) /\ Len(u) = n /\ \A i \in 1 .. n : u[i] = r[i]
        /\ v \in Seq(Nat) /\ Len(v) = n /\ \A i \in 1 .. n : v[i] = q[i]
    BY <2>2, SubSeqProperties
  <2> HIDE DEF u, v
  <2>4. u = v
    BY <2>2, <2>3, SeqEqual
  <2> QED
    BY <2>4 DEF u, v, r, q, n
<1> QED
  BY <1>1, <1>2, <1>5 DEF IsSuffix, IsPrefix

\* A line is added to both.
LEMMA AppendToEnd ==
    ASSUME NEW s \in Seq(Nat), NEW t \in Seq(Nat), EndOf(s, t), NEW m \in Nat
    PROVE  EndOf(Append(s, m), Append(t, m))
<1>1. Len(s) \in Nat /\ Len(t) \in Nat /\ Len(s) <= Len(t)
  BY DEF EndOf
<1> DEFINE longer == Append(s, m)
           all == Append(t, m)
<1>2. /\ Len(longer) = Len(s) + 1 /\ Len(all) = Len(t) + 1
      /\ longer[Len(s) + 1] = m /\ all[Len(t) + 1] = m
      /\ \A i \in 1 .. Len(s) : longer[i] = s[i]
      /\ \A i \in 1 .. Len(t) : all[i] = t[i]
  OBVIOUS
<1> HIDE DEF longer, all
<1>3. ASSUME NEW i \in 1 .. Len(s) + 1
      PROVE  longer[i] = all[Len(t) - Len(s) + i]
  <2>1. CASE i = Len(s) + 1
    BY <1>1, <1>2, <2>1
  <2>2. CASE i \in 1 .. Len(s)
    <3>1. Len(t) - Len(s) + i \in 1 .. Len(t) /\ s[i] = t[Len(t) - Len(s) + i]
      BY <1>1, <2>2, SMTT(30) DEF EndOf
    <3> QED
      BY <1>2, <2>2, <3>1
  <2> QED
    BY <1>1, <2>1, <2>2
<1>4. Len(all) - Len(longer) = Len(t) - Len(s) /\ Len(longer) <= Len(all)
  BY <1>1, <1>2
<1>5. EndOf(longer, all)
  BY <1>2, <1>3, <1>4 DEF EndOf
<1> QED
  BY <1>5 DEF longer, all

LEMMA LastLinesIs ==
    ASSUME NEW s \in Seq(Nat), limit \in Nat
    PROVE  /\ LastLines(s) \in Seq(Nat)
           /\ Len(LastLines(s)) = IF Len(s) < limit THEN Len(s) ELSE limit
           /\ EndOf(LastLines(s), s)
<1> DEFINE m == IF 1 >= Len(s) - limit + 1 THEN 1 ELSE Len(s) - limit + 1
<1>1. Len(s) \in Nat /\ LastLines(s) = SubSeq(s, m, Len(s)) /\ m \in Nat /\ m >= 1
  <2>1. Len(s) \in Nat /\ Len(s) - limit + 1 \in Int
    OBVIOUS
  <2>2. Max({1, Len(s) - limit + 1}) = m
    BY <2>1, MaxOfTwo
  <2>3. m \in Nat /\ m >= 1
    BY <2>1
  <2> QED
    BY <2>1, <2>2, <2>3 DEF LastLines
<1>2. Len(s) - m + 1 = IF Len(s) < limit THEN Len(s) ELSE limit
  <2>1. CASE Len(s) < limit
    BY <1>1, <2>1
  <2>2. CASE ~ (Len(s) < limit)
    BY <1>1, <2>2
  <2> QED
    BY <2>1, <2>2
<1> HIDE DEF m
<1>3. m - 1 <= Len(s)
  BY <1>1, <1>2
<1>4. /\ LastLines(s) \in Seq(Nat) /\ Len(LastLines(s)) = Len(s) - m + 1
      /\ \A i \in 1 .. Len(s) - m + 1 : LastLines(s)[i] = s[m + i - 1]
  BY <1>1, <1>3, SubSeqProperties
<1>5. \A i \in 1 .. Len(s) - m + 1 : Len(s) - (Len(s) - m + 1) + i = m + i - 1
  BY <1>1
<1> QED
  BY <1>1, <1>2, <1>3, <1>4, <1>5 DEF EndOf

LEMMA PrefixesAre ==
    ASSUME NEW s \in Seq(Nat), NEW r \in Prefixes(s)
    PROVE  r \in Seq(Nat) /\ Len(r) \in Nat /\ Len(r) <= Len(s)
<1>1. PICK l \in 0 .. Len(s) : r = SubSeq(s, 1, l)
  BY DEF Prefixes
<1>2. Len(s) \in Nat /\ l \in Nat /\ l <= Len(s)
  BY <1>1
<1>3. SubSeq(s, 1, l) \in Seq(Nat) /\ Len(SubSeq(s, 1, l)) = l
  BY <1>2
<1> QED
  BY <1>1, <1>2, <1>3

LEMMA EndOfEnd ==
    ASSUME NEW r \in Seq(Nat), NEW s \in Seq(Nat), NEW t \in Seq(Nat), EndOf(r, s), EndOf(s, t)
    PROVE  EndOf(r, t)
<1>1. Len(r) \in Nat /\ Len(s) \in Nat /\ Len(t) \in Nat /\ Len(r) <= Len(s) /\ Len(s) <= Len(t)
  BY DEF EndOf
<1>2. ASSUME NEW i \in 1 .. Len(r) PROVE r[i] = t[Len(t) - Len(r) + i]
  <2>1. Len(s) - Len(r) + i \in 1 .. Len(s)
        /\ Len(t) - Len(s) + (Len(s) - Len(r) + i) = Len(t) - Len(r) + i
    BY <1>1
  <2>2. r[i] = s[Len(s) - Len(r) + i]
    BY DEF EndOf
  <2>3. s[Len(s) - Len(r) + i] = t[Len(t) - Len(s) + (Len(s) - Len(r) + i)]
    BY <2>1 DEF EndOf
  <2> QED
    BY <2>1, <2>2, <2>3
<1> QED
  BY <1>1, <1>2 DEF EndOf

LEMMA QuotientIs ==
    ASSUME NEW x \in Nat, NEW n \in Nat \ {0}, NEW m \in Nat, x >= m * n
    PROVE  x \div n \in Nat /\ x \div n >= m
<1> DEFINE q == x \div n
<1>1. q \in Nat /\ x < n * q + n
  OBVIOUS
<1> HIDE DEF q
<1>2. ASSUME q < m PROVE FALSE
  <2>1. (q + 1) * n <= m * n
    BY <1>1, <1>2
  <2>2. (q + 1) * n = n * q + n
    BY <1>1
  <2> QED
    BY <1>1, <2>1, <2>2
<1> QED
  BY <1>1, <1>2 DEF q

LEMMA PartsAre ==
    ASSUME NEW n \in Nat
    PROVE  /\ (n * (Part + 1)) \div Part \in Nat
           /\ (n * (Part + 1)) \div Part >= n
<1> DEFINE all == n * (Part + 1)
<1>1. Part \in Nat /\ Part > 0 /\ all \in Nat /\ all >= n * Part
  BY LogAssumption
<1> HIDE DEF all
<1>2. all \div Part \in Nat /\ all \div Part >= n
  BY <1>1, QuotientIs
<1> QED
  BY <1>2 DEF all

\* The threshold is not below the limit, and Slack is what a cut that fails leaves.
LEMMA ThresholdIs ==
    ASSUME limit \in Nat
    PROVE  /\ Threshold \in Nat /\ Threshold >= limit
           /\ Slack \in Nat \ {0} /\ Slack >= Threshold - limit
           /\ Max({1, Threshold - limit}) = Slack
<1>1. Threshold \in Nat /\ Threshold >= limit
  BY PartsAre DEF Threshold
<1>2. Max({1, Threshold - limit}) = IF 1 >= Threshold - limit THEN 1 ELSE Threshold - limit
  BY <1>1, MaxOfTwo
<1> QED
  BY <1>1, <1>2 DEF Slack

-----------------------------------------------------------------------------
(* What a step makes of the calls of a thread: of the others it makes nothing. *)

Stacked(t) ==
    /\ stack' \in [Threads -> Seq(Points)]
    /\ OnlyCallbacksWait'
    /\ \A u \in Threads \ {t} : \A p \in Points : At(u, p)' <=> At(u, p)

LEMMA FirstIsPoint ==
    ASSUME LogTypeOK, NEW t \in Threads, NEW p \in Points, At(t, p)
    PROVE  /\ stack[t] \in Seq(Points) /\ Len(stack[t]) \in Nat /\ Len(stack[t]) >= 1
           /\ stack[t][1] \in Points /\ stack[t][1] = p
<1> DEFINE s == stack[t]
<1>1. s \in Seq(Points) /\ s # <<>> /\ s[1] = p
  BY DEF LogTypeOK, At
<1> HIDE DEF s
<1>2. Len(s) \in Nat /\ Len(s) >= 1
  BY <1>1
<1>3. s[1] \in Points
  BY <1>1, <1>2, ElementOfSeq
<1> QED
  BY <1>1, <1>2, <1>3 DEF s

LEMMA Going ==
    ASSUME LogTypeOK, OnlyCallbacksWait, NEW t \in Threads, NEW p \in Points, At(t, p),
           NEW at \in Points, Goto(t, at)
    PROVE  Stacked(t) /\ \A q \in Points : At(t, q)' <=> q = at
<1> DEFINE s == stack[t]
           e == at
           r == <<e>> \o Tail(s)
<1>1. s \in Seq(Points) /\ Len(s) \in Nat /\ Len(s) >= 1 /\ s[1] \in Points
  BY FirstIsPoint
<1>2. e \in Points /\ e = at
  OBVIOUS
<1>3. stack' = [stack EXCEPT ![t] = r]
  BY Zenon DEF Goto
<1> HIDE DEF s, e
<1>4. /\ r \in Seq(Points) /\ Len(r) = Len(s) /\ r[1] = e
      /\ \A k \in 2 .. Len(s) : r[k] = s[k]
  BY <1>1, <1>2
<1> HIDE DEF r
<1>5. /\ stack' \in [Threads -> Seq(Points)] /\ stack'[t] = r
      /\ \A u \in Threads \ {t} : stack'[u] = stack[u]
  BY <1>3, <1>4 DEF LogTypeOK
<1>6. OnlyCallbacksWait'
  BY <1>4, <1>5 DEF OnlyCallbacksWait, s
<1>7. r # <<>> /\ r[1] = at
  BY <1>1, <1>2, <1>4
<1>8. \A q \in Points : At(t, q)' <=> q = at
  BY <1>5, <1>7 DEF At
<1>9. \A u \in Threads \ {t} : \A q \in Points : At(u, q)' <=> At(u, q)
  BY <1>5 DEF At
<1> QED
  BY <1>5, <1>6, <1>8, <1>9 DEF Stacked

LEMMA Popping ==
    ASSUME LogTypeOK, OnlyCallbacksWait, NEW t \in Threads, NEW p \in Points, At(t, p),
           stack' = [stack EXCEPT ![t] = Tail(@)]
    PROVE  Stacked(t) /\ \A q \in Points : At(t, q)' => q = "callback"
<1> DEFINE s == stack[t]
           r == Tail(s)
<1>1. s \in Seq(Points) /\ Len(s) \in Nat /\ Len(s) >= 1
  BY FirstIsPoint
<1>2. r \in Seq(Points) /\ Len(r) = Len(s) - 1 /\ \A k \in 1 .. Len(s) - 1 : r[k] = s[k + 1]
  BY <1>1
<1>3. \A k \in 1 .. Len(s) - 1 : s[k + 1] = "callback"
  <2>1. \A k \in 1 .. Len(s) - 1 : k + 1 \in 2 .. Len(s)
    BY <1>1
  <2> QED
    BY <2>1 DEF OnlyCallbacksWait
<1>4. /\ stack' \in [Threads -> Seq(Points)] /\ stack'[t] = r
      /\ \A u \in Threads \ {t} : stack'[u] = stack[u]
  BY <1>2 DEF LogTypeOK
<1> HIDE DEF s, r
<1>5. \A k \in 1 .. Len(r) : r[k] = "callback"
  BY <1>2, <1>3
<1>6. OnlyCallbacksWait'
  BY <1>1, <1>2, <1>4, <1>5 DEF OnlyCallbacksWait
<1>7. r # <<>> => r[1] = "callback"
  BY <1>1, <1>2, <1>5
<1>8. \A q \in Points : At(t, q)' => q = "callback"
  BY <1>4, <1>7 DEF At
<1>9. \A u \in Threads \ {t} : \A q \in Points : At(u, q)' <=> At(u, q)
  BY <1>4 DEF At
<1> QED
  BY <1>4, <1>6, <1>8, <1>9 DEF Stacked

LEMMA Pushing ==
    ASSUME LogTypeOK, OnlyCallbacksWait, NEW t \in Threads, stack[t] = <<>> \/ At(t, "callback"),
           NEW e \in Points, stack' = [stack EXCEPT ![t] = <<e>> \o @]
    PROVE  Stacked(t) /\ \A q \in Points : At(t, q)' <=> q = e
<1> DEFINE s == stack[t]
           r == <<e>> \o s
<1>1. s \in Seq(Points) /\ Len(s) \in Nat
  BY DEF LogTypeOK
<1>2. /\ r \in Seq(Points) /\ Len(r) = Len(s) + 1 /\ r[1] = e
      /\ \A k \in 2 .. Len(s) + 1 : r[k] = s[k - 1]
  BY <1>1
<1>3. \A k \in 1 .. Len(s) : s[k] = "callback"
  BY <1>1 DEF OnlyCallbacksWait, At
<1>4. /\ stack' \in [Threads -> Seq(Points)] /\ stack'[t] = r
      /\ \A u \in Threads \ {t} : stack'[u] = stack[u]
  BY <1>2 DEF LogTypeOK
<1> HIDE DEF s, r
<1>5. \A k \in 2 .. Len(r) : r[k] = "callback"
  <2>1. \A k \in 2 .. Len(r) : k - 1 \in 1 .. Len(s) /\ k \in 2 .. Len(s) + 1
    BY <1>1, <1>2
  <2> QED
    BY <1>2, <1>3, <2>1
<1>6. OnlyCallbacksWait'
  BY <1>4, <1>5 DEF OnlyCallbacksWait
<1>7. r # <<>> /\ r[1] = e
  BY <1>1, <1>2
<1>8. \A q \in Points : At(t, q)' <=> q = e
  BY <1>4, <1>7 DEF At
<1>9. \A u \in Threads \ {t} : \A q \in Points : At(u, q)' <=> At(u, q)
  BY <1>4 DEF At
<1> QED
  BY <1>4, <1>6, <1>8, <1>9 DEF Stacked

-----------------------------------------------------------------------------
(* The inductive invariant *)

LEMMA BoundStays ==
    ASSUME FileIsBounded, UNCHANGED <<limit, path, lines, spare>>, Cutting' <=> Cutting
    PROVE  FileIsBounded'
<1>1. Threshold' = Threshold /\ Slack' = Slack /\ Counted' = Counted
  BY DEF Threshold, Slack, Counted
<1>2. /\ (limit' > 0) = (limit > 0)
      /\ (Len(path') <= Counted' + spare') = (Len(path) <= Counted + spare)
      /\ (Len(path') <= Threshold' + 1 + spare')
            = (Len(path) <= Threshold + 1 + spare)
  BY <1>1, Zenon
<1>3. CASE Cutting
  BY <1>2, <1>3, Zenon DEF FileIsBounded
<1>4. CASE ~Cutting
  BY <1>2, <1>4, Zenon DEF FileIsBounded
<1> QED
  BY <1>3, <1>4

\* A step that leaves the file alone, and the lock where it was.
LEMMA FileStays ==
    ASSUME LogIsRight, NEW t \in Threads, Stacked(t),
           UNCHANGED <<limit, path, lines, owner, written, spare>>,
           At(t, "truncate")' <=> At(t, "truncate"), At(t, "print")' <=> At(t, "print")
    PROVE  LogIsRight'
<1>1. \A u \in Threads : /\ At(u, "truncate")' <=> At(u, "truncate")
                         /\ At(u, "print")' <=> At(u, "print")
  BY DEF Stacked, Points
<1>2. LogTypeOK' /\ OnlyCallbacksWait'
  BY DEF LogIsRight, LogTypeOK, Stacked
<1>3. LockIsHeld'
  BY <1>1 DEF LogIsRight, LockIsHeld
<1>4. Cutting' <=> Cutting
  BY <1>1 DEF Cutting
<1>5. FileIsBounded'
  BY <1>4, BoundStays DEF LogIsRight
<1>6. EndOf(path, written)' /\ (Len(path) >= limit \/ Len(path) = Len(written))'
  BY DEF LogIsRight, EndOf
<1> QED
  BY <1>2, <1>3, <1>5, <1>6 DEF LogIsRight

LEMMA AtOne ==
    ASSUME LogTypeOK, NEW t \in Threads, NEW p \in Points, At(t, p)
    PROVE  \A q \in Points : At(t, q) <=> q = p
BY DEF At

LEMMA ChangeKeeps == ASSUME LogIsRight, ChangeLoggers PROVE LogIsRight'
<1>1. UNCHANGED <<limit, path, lines, owner, stack, written, spare>>
  BY DEF ChangeLoggers, LogIsRight, LogTypeOK
<1>2. \A t \in Threads : \A p : At(t, p)' <=> At(t, p)
  BY <1>1 DEF At
<1>3. LogTypeOK' /\ OnlyCallbacksWait' /\ LockIsHeld'
  BY <1>1, <1>2 DEF LogIsRight, LogTypeOK, OnlyCallbacksWait, LockIsHeld
<1>4. Cutting' <=> Cutting
  BY <1>2 DEF Cutting
<1>5. FileIsBounded'
  BY <1>1, <1>4, BoundStays DEF LogIsRight
<1>6. EndOf(path, written)' /\ (Len(path) >= limit \/ Len(path) = Len(written))'
  BY <1>1 DEF LogIsRight, EndOf
<1> QED
  BY <1>3, <1>5, <1>6 DEF LogIsRight

\* The lines that the file begins with are not in the count.
LEMMA BeginsRight ==
    ASSUME NEW first \in Seq(Nat), BeginsWith(first), lines' \in Nat, limit' \in Nat, ~Cutting'
    PROVE  /\ path' \in Seq(Nat) /\ written' \in Seq(Nat) /\ spare' \in Nat
           /\ EndOf(path, written)' /\ (Len(path) >= limit \/ Len(path) = Len(written))'
           /\ FileIsBounded'
<1>1. path' = first /\ written' = first /\ spare' = Len(first) /\ Len(first) \in Nat
  BY DEF BeginsWith
<1>2. EndOf(path, written)'
  BY <1>1 DEF EndOf
<1>3. Threshold' \in Nat
  BY PartsAre DEF Threshold
<1>4. Counted' \in Nat
  BY <1>3 DEF Counted
<1>5. FileIsBounded'
  BY <1>1, <1>4 DEF FileIsBounded
<1> QED
  BY <1>1, <1>2, <1>5

LEMMA LoggerKeeps == ASSUME LogIsRight, AddFileLogger PROVE LogIsRight'
<1>1. UNCHANGED <<lines, owner, stack>> /\ limit' \in Nat /\ Quiet
  BY LogAssumption DEF AddFileLogger
<1>2. \A t \in Threads : \A p : ~At(t, p) /\ ~At(t, p)'
  BY <1>1 DEF At, Quiet
<1>3. OnlyCallbacksWait' /\ LockIsHeld' /\ ~Cutting'
  BY <1>1, <1>2 DEF LogIsRight, OnlyCallbacksWait, LockIsHeld, Cutting
<1>4. PICK first : first \in Seq(Nat) /\ BeginsWith(first)
  <2>1. path \in Seq(Nat)
    BY DEF LogIsRight, LogTypeOK
  <2>2. \A n \in OldLines : [i \in 1 .. n |-> 0] \in Seq(Nat)
    BY LogAssumption
  <2> QED
    BY <2>1, <2>2, Zenon DEF AddFileLogger
<1>5. lines' \in Nat
  BY <1>1 DEF LogIsRight, LogTypeOK
<1> HIDE DEF FileIsBounded, EndOf
<1>6. LogTypeOK'
  BY <1>1, <1>3, <1>4, <1>5, BeginsRight DEF LogIsRight, LogTypeOK
<1> QED
  BY <1>1, <1>3, <1>4, <1>5, <1>6, BeginsRight DEF LogIsRight

LEMMA RestartKeeps == ASSUME LogIsRight, Restart PROVE LogIsRight'
<1>1. /\ limit' = 0 /\ lines' = 0 /\ owner' = "none" /\ stack' = [t \in Threads |-> <<>>]
  BY DEF Restart
<1>2. \A t \in Threads : \A p : ~At(t, p)'
  BY <1>1 DEF At
<1>3. OnlyCallbacksWait' /\ LockIsHeld' /\ ~Cutting'
  BY <1>1, <1>2, LogAssumption DEF OnlyCallbacksWait, LockIsHeld, Cutting
<1>4. PICK first : first \in Seq(Nat) /\ BeginsWith(first)
  <2>1. path \in Seq(Nat) /\ limit \in Nat
    BY DEF LogIsRight, LogTypeOK
  <2>2. Prefixes(LastLines(path)) \subseteq Seq(Nat)
    BY <2>1, LastLinesIs, PrefixesAre
  <2> QED
    BY <2>1, <2>2, Zenon DEF Restart
<1>5. LogTypeOK'
  BY <1>1, <1>3, <1>4, BeginsRight DEF LogTypeOK
<1> QED
  BY <1>1, <1>3, <1>4, <1>5, BeginsRight DEF LogIsRight

LEMMA MessageKeeps == ASSUME LogIsRight, NEW t \in Threads, Message(t) PROVE LogIsRight'
<1>1. /\ stack[t] = <<>> \/ At(t, "callback")
      /\ stack' = [stack EXCEPT ![t] = <<"vlog">> \o @] \/ stack' = stack
      /\ UNCHANGED <<limit, path, lines, owner, written, spare>>
  BY DEF Message
<1>2. "vlog" \in Points
  BY DEF Points
<1>3. ~At(t, "print") /\ ~At(t, "truncate")
  BY <1>1 DEF At
<1>4. CASE stack' = [stack EXCEPT ![t] = <<"vlog">> \o @]
  <2>1. Stacked(t) /\ \A q \in Points : At(t, q)' <=> q = "vlog"
    BY <1>1, <1>2, <1>4, Pushing DEF LogIsRight
  <2> QED
    BY <1>1, <1>2, <1>3, <2>1, FileStays DEF Points
<1>5. CASE stack' = stack
  <2>1. \A u \in Threads : \A p : At(u, p)' <=> At(u, p)
    BY <1>5 DEF At
  <2>2. Stacked(t)
    BY <1>5, <2>1 DEF LogIsRight, LogTypeOK, OnlyCallbacksWait, Stacked
  <2> QED
    BY <1>1, <1>2, <2>1, <2>2, FileStays
<1> QED
  BY <1>1, <1>4, <1>5

LEMMA CallsKeep ==
    ASSUME LogIsRight, NEW t \in Threads, Vlog(t) \/ CallBack(t) \/ CallBackReturns(t)
    PROVE  LogIsRight'
<1>1. PICK p \in {"vlog", "call", "callback"} : At(t, p)
  BY DEF Vlog, CallBack, CallBackReturns
<1>2. ~At(t, "print") /\ ~At(t, "truncate")
  BY <1>1 DEF At
<1>3. UNCHANGED <<limit, path, lines, owner, written, spare>>
  BY DEF Vlog, CallBack, CallBackReturns
<1>4. \/ stack' = [stack EXCEPT ![t] = Tail(@)]
      \/ \E at \in {"lock", "call", "callback"} : Goto(t, at)
  BY DEF Vlog, CallBack, CallBackReturns, Leave
<1>5. CASE stack' = [stack EXCEPT ![t] = Tail(@)]
  <2>1. Stacked(t) /\ \A q \in Points : At(t, q)' => q = "callback"
    BY <1>1, <1>5, Popping DEF LogIsRight, Points
  <2> QED
    BY <1>2, <1>3, <2>1, FileStays DEF Points
<1>6. CASE \E at \in {"lock", "call", "callback"} : Goto(t, at)
  <2>1. PICK at \in {"lock", "call", "callback"} : Goto(t, at)
    BY <1>6
  <2>2. Stacked(t) /\ \A q \in Points : At(t, q)' <=> q = at
    BY <1>1, <2>1, Going DEF LogIsRight, Points
  <2> QED
    BY <1>2, <1>3, <2>2, FileStays DEF Points
<1> QED
  BY <1>4, <1>5, <1>6

\* The thread that has the lock is the only one that prints or cuts the file.
LEMMA LockGoes ==
    ASSUME LogIsRight, NEW t \in Threads, Stacked(t), owner \in {t, "none"},
           owner' = IF At(t, "print")' \/ At(t, "truncate")' THEN t ELSE "none"
    PROVE  LockIsHeld' /\ (Cutting' <=> At(t, "truncate")')
<1>1. \A u \in Threads \ {t} : ~At(u, "print") /\ ~At(u, "truncate")
  BY LogAssumption DEF LogIsRight, LockIsHeld
<1>2. \A u \in Threads \ {t} : ~At(u, "print")' /\ ~At(u, "truncate")'
  BY <1>1 DEF Stacked, Points
<1> QED
  BY <1>2, LogAssumption DEF LockIsHeld, Cutting

LEMMA LockKeeps == ASSUME LogIsRight, NEW t \in Threads, LockFile(t) PROVE LogIsRight'
<1>1. /\ At(t, "lock") /\ owner = "none" /\ owner' = t /\ Goto(t, "print")
      /\ UNCHANGED <<limit, path, lines, written, spare>>
  BY DEF LockFile
<1>2. Stacked(t) /\ \A q \in Points : At(t, q)' <=> q = "print"
  BY <1>1, Going DEF LogIsRight, Points
<1>3. LockIsHeld' /\ (Cutting' <=> At(t, "truncate")')
  BY <1>1, <1>2, LockGoes DEF Points
<1>4. LogTypeOK' /\ OnlyCallbacksWait'
  BY <1>1, <1>2 DEF LogIsRight, LogTypeOK, Stacked
<1>5. ~Cutting' /\ ~Cutting
  BY <1>1, <1>2, <1>3, LogAssumption DEF LogIsRight, LockIsHeld, Cutting, Points
<1>6. Threshold' = Threshold /\ Slack' = Slack /\ Counted' = Counted
  BY <1>1 DEF Threshold, Slack, Counted
<1> QED
  BY <1>1, <1>3, <1>4, <1>5, <1>6 DEF LogIsRight, EndOf, FileIsBounded

LEMMA WriteKeeps == ASSUME LogIsRight, NEW t \in Threads, WriteLine(t) PROVE LogIsRight'
<1> DEFINE m == IF written = <<>> THEN 1 ELSE written[Len(written)] + 1
<1>1. At(t, "print") /\ UNCHANGED <<limit, spare>> /\ owner = t /\ ~Cutting
  BY LogAssumption DEF WriteLine, LogIsRight, LockIsHeld, Cutting, At
<1>2. m \in Nat
  <2> DEFINE w == written
  <2>1. w \in Seq(Nat)
    BY DEF LogIsRight, LogTypeOK
  <2> HIDE DEF w
  <2>2. w # <<>> => Len(w) \in 1 .. Len(w)
    BY <2>1
  <2>3. w # <<>> => w[Len(w)] \in Nat
    BY <2>1, <2>2, ElementOfSeq
  <2> QED
    BY <2>3 DEF w
<1>3. /\ limit \in Nat /\ lines \in Nat /\ spare \in Nat /\ path \in Seq(Nat) /\ written \in Seq(Nat)
      /\ Len(path) \in Nat /\ Len(written) \in Nat
  BY DEF LogIsRight, LogTypeOK
<1>4. Threshold' = Threshold /\ Slack' = Slack /\ Threshold \in Nat /\ Slack \in Nat \ {0}
      /\ Threshold >= limit
  BY <1>1, <1>3, ThresholdIs DEF Threshold, Slack
<1>5. limit > 0 => Threshold > 0
  BY <1>3, <1>4
<1>6. limit > 0 => Len(path) <= Counted + spare
  BY <1>1 DEF LogIsRight, FileIsBounded
<1> HIDE DEF m
\* With or without the line, the file is the end of what was printed, and as long as it must be.
<1>7. /\ path' \in Seq(Nat) /\ written' \in Seq(Nat) /\ EndOf(path', written')
      /\ Len(path') \in Nat /\ Len(path') <= Len(path) + 1
      /\ Len(path') >= limit' \/ Len(path') = Len(written')
  <2>1. /\ Len(path) >= limit \/ Len(path) = Len(written)
        /\ EndOf(path, written)
    BY DEF LogIsRight
  <2>2. CASE path' = Append(path, m) /\ written' = Append(written, m)
    <3>1. /\ path' \in Seq(Nat) /\ written' \in Seq(Nat) /\ Len(path') = Len(path) + 1
          /\ Len(written') = Len(written) + 1 /\ EndOf(path', written')
      BY <1>2, <1>3, <2>1, <2>2, AppendToEnd
    <3> QED
      BY <1>1, <1>3, <2>1, <3>1
  <2>3. CASE UNCHANGED <<path, written>>
    BY <1>1, <1>3, <2>1, <2>3 DEF EndOf
  <2> QED
    BY <2>2, <2>3 DEF WriteLine, m
<1>8. CASE /\ lines > 0 /\ limit > 0 /\ lines >= Threshold
           /\ Goto(t, "truncate") /\ UNCHANGED <<owner, lines>>
  <2>1. Stacked(t) /\ \A q \in Points : At(t, q)' <=> q = "truncate"
    BY <1>1, <1>8, Going DEF LogIsRight, Points
  <2>2. LockIsHeld' /\ Cutting'
    BY <1>1, <1>8, <2>1, LockGoes DEF Points
  <2>3. FileIsBounded'
    <3>1. Counted \in Nat /\ Counted <= Threshold
      BY <1>3, <1>4 DEF Counted
    <3>2. Len(path') <= Threshold + 1 + spare' \/ ~(limit > 0)
      BY <1>1, <1>3, <1>4, <1>6, <1>7, <3>1
    <3> QED
      BY <1>1, <1>4, <2>2, <3>2 DEF FileIsBounded
  <2>4. LogTypeOK' /\ OnlyCallbacksWait'
    BY <1>1, <1>3, <1>7, <1>8, <2>1 DEF LogIsRight, LogTypeOK, Stacked
  <2> QED
    BY <1>7, <2>2, <2>3, <2>4 DEF LogIsRight
<1>9. CASE /\ ~(lines > 0 /\ limit > 0 /\ lines >= Threshold)
           /\ Goto(t, "call") /\ lines' = lines + 1 /\ owner' = "none"
  <2>1. Stacked(t) /\ \A q \in Points : At(t, q)' <=> q = "call"
    BY <1>1, <1>9, Going DEF LogIsRight, Points
  <2>2. LockIsHeld' /\ ~Cutting'
    BY <1>1, <1>9, <2>1, LockGoes DEF Points
  <2>3. limit > 0 => Counted' = Counted + 1
    BY <1>3, <1>4, <1>5, <1>9 DEF Counted
  <2>4. FileIsBounded'
    <3>1. Counted \in Nat
      BY <1>3, <1>4 DEF Counted
    <3> QED
      BY <1>1, <1>3, <1>4, <1>6, <1>7, <2>2, <2>3, <3>1 DEF FileIsBounded
  <2>5. LogTypeOK' /\ OnlyCallbacksWait'
    BY <1>1, <1>3, <1>7, <1>9, <2>1 DEF LogIsRight, LogTypeOK, Stacked
  <2> QED
    BY <1>7, <2>2, <2>4, <2>5 DEF LogIsRight
<1>10. CASE Goto(t, "call") /\ owner' = "none" /\ UNCHANGED <<path, lines, written>>
  <2>1. Stacked(t) /\ \A q \in Points : At(t, q)' <=> q = "call"
    BY <1>1, <1>10, Going DEF LogIsRight, Points
  <2>2. LockIsHeld' /\ ~Cutting'
    BY <1>1, <1>10, <2>1, LockGoes DEF Points
  <2>3. LogTypeOK' /\ OnlyCallbacksWait'
    BY <1>1, <1>3, <1>10, <2>1 DEF LogIsRight, LogTypeOK, Stacked
  <2>4. FileIsBounded'
    BY <1>1, <1>10, <2>2, BoundStays DEF LogIsRight
  <2> QED
    BY <1>1, <1>10, <1>7, <2>2, <2>3, <2>4 DEF LogIsRight
<1> QED
  BY <1>8, <1>9, <1>10 DEF WriteLine

LEMMA TruncateKeeps == ASSUME LogIsRight, NEW t \in Threads, TruncateFile(t) PROVE LogIsRight'
<1>1. /\ At(t, "truncate") /\ Goto(t, "call") /\ owner' = "none" /\ lines' = limit + 1
      /\ UNCHANGED limit /\ owner = t /\ Cutting
  BY DEF TruncateFile, LogIsRight, LockIsHeld, Cutting
<1>2. Stacked(t) /\ \A q \in Points : At(t, q)' <=> q = "call"
  BY <1>1, Going DEF LogIsRight, Points
<1>3. LockIsHeld' /\ ~Cutting'
  BY <1>1, <1>2, LockGoes DEF Points
<1>4. /\ limit \in Nat /\ spare \in Nat /\ path \in Seq(Nat) /\ written \in Seq(Nat)
      /\ Len(path) \in Nat /\ Len(written) \in Nat
  BY DEF LogIsRight, LogTypeOK
<1>5. /\ Threshold' = Threshold /\ Threshold \in Nat /\ Slack \in Nat \ {0}
      /\ Threshold >= limit /\ Slack >= Threshold - limit /\ Max({1, Threshold - limit}) = Slack
  BY <1>1, <1>4, ThresholdIs DEF Threshold
<1>6. limit > 0 => Len(path) <= Threshold + 1 + spare
  BY <1>1 DEF LogIsRight, FileIsBounded
<1>7. Counted' = IF limit + 1 < Threshold THEN limit + 1 ELSE Threshold
  BY <1>1, <1>5 DEF Counted
<1>8. /\ LastLines(path) \in Seq(Nat) /\ EndOf(LastLines(path), path) /\ Len(LastLines(path)) \in Nat
      /\ Len(LastLines(path)) = IF Len(path) < limit THEN Len(path) ELSE limit
  BY <1>4, LastLinesIs
<1>9. CASE path' = LastLines(path) /\ spare' = 0 /\ UNCHANGED written
  <2>1. EndOf(path', written')
    BY <1>4, <1>8, <1>9, EndOfEnd DEF LogIsRight
  <2>2. Len(path') >= limit' \/ Len(path') = Len(written')
    BY <1>1, <1>4, <1>8, <1>9 DEF LogIsRight
  <2>3. LogTypeOK' /\ OnlyCallbacksWait'
    BY <1>1, <1>2, <1>4, <1>8, <1>9 DEF LogIsRight, LogTypeOK, Stacked
  <2>4. FileIsBounded'
    BY <1>1, <1>3, <1>4, <1>5, <1>7, <1>8, <1>9 DEF FileIsBounded
  <2> QED
    BY <1>3, <2>1, <2>2, <2>3, <2>4 DEF LogIsRight
<1>10. CASE spare' = spare + Slack /\ UNCHANGED <<path, written>>
  <2>1. LogTypeOK' /\ OnlyCallbacksWait'
    BY <1>1, <1>2, <1>4, <1>5, <1>10 DEF LogIsRight, LogTypeOK, Stacked
  <2>2. FileIsBounded'
    BY <1>1, <1>3, <1>4, <1>5, <1>6, <1>7, <1>10 DEF FileIsBounded
  <2> QED
    BY <1>1, <1>3, <1>10, <2>1, <2>2 DEF LogIsRight, EndOf
<1>11. CASE path' \in Prefixes(LastLines(path)) /\ written' = path' /\ spare' = 0
  <2>1. path' \in Seq(Nat) /\ Len(path') \in Nat /\ Len(path') <= Len(LastLines(path))
    BY <1>8, <1>11, PrefixesAre
  <2>2. EndOf(path', written')
    BY <1>11, <2>1 DEF EndOf
  <2>3. LogTypeOK' /\ OnlyCallbacksWait'
    BY <1>1, <1>2, <1>4, <1>11, <2>1 DEF LogIsRight, LogTypeOK, Stacked
  <2>4. FileIsBounded'
    BY <1>1, <1>3, <1>4, <1>5, <1>7, <1>8, <1>11, <2>1 DEF FileIsBounded
  <2> QED
    BY <1>3, <1>11, <2>2, <2>3, <2>4 DEF LogIsRight
<1> QED
  BY <1>5, <1>9, <1>10, <1>11 DEF TruncateFile

-----------------------------------------------------------------------------

LEMMA LogStartsRight == LogInit => LogIsRight
<1> SUFFICES ASSUME LogInit PROVE LogIsRight
  OBVIOUS
<1>1. LogTypeOK /\ OnlyCallbacksWait
  BY LogAssumption DEF LogInit, LogTypeOK, OnlyCallbacksWait
<1>2. \A t \in Threads : \A p : ~At(t, p)
  BY DEF LogInit, At
<1>3. LockIsHeld /\ ~Cutting
  BY <1>2, LogAssumption DEF LogInit, LockIsHeld, Cutting
<1>4. EndOf(path, written) /\ Len(path) = Len(written)
  BY DEF LogInit, EndOf
<1>5. FileIsBounded
  <2>1. Threshold \in Nat /\ Slack \in Nat /\ limit \in Nat /\ lines = 0 /\ spare = 0 /\ Len(path) = 0
    BY <1>1, ThresholdIs DEF LogInit, LogTypeOK
  <2> QED
    BY <1>3, <2>1 DEF FileIsBounded, Counted
<1> QED
  BY <1>1, <1>3, <1>4, <1>5 DEF LogIsRight

LEMMA LogStepsKeep == LogIsRight /\ [LogNext]_logVars => LogIsRight'
<1> SUFFICES ASSUME LogIsRight, [LogNext]_logVars PROVE LogIsRight'
  OBVIOUS
<1>1. CASE UNCHANGED logVars
  BY <1>1 DEF logVars, LogIsRight, LogTypeOK, OnlyCallbacksWait, LockIsHeld, EndOf, FileIsBounded, At,
              Cutting, Counted, Threshold, Slack
<1> QED
  BY <1>1, LoggerKeeps, ChangeKeeps, RestartKeeps, MessageKeeps, CallsKeep, LockKeeps, WriteKeeps,
     TruncateKeeps DEF LogNext

LEMMA InvariantKeepsLatest == LogIsRight => LogKeepsLatest
<1> SUFFICES ASSUME LogIsRight PROVE LogKeepsLatest
  OBVIOUS
<1>1. /\ limit \in Nat /\ lines \in Nat /\ spare \in Nat /\ path \in Seq(Nat) /\ written \in Seq(Nat)
      /\ Len(path) \in Nat /\ Len(written) \in Nat
  BY DEF LogIsRight, LogTypeOK
<1>2. IsSuffix(path, written)
  BY <1>1, EndIsSuffix DEF LogIsRight
<1>3. Len(path) >= Min({limit, Len(written)})
  <2>1. Min({limit, Len(written)}) = IF limit <= Len(written) THEN limit ELSE Len(written)
    BY <1>1, MinOfTwo
  <2> QED
    BY <1>1, <2>1 DEF LogIsRight
<1>4. owner = "none" /\ limit > 0 =>
          Len(path) <= Threshold + spare
  <2>1. owner = "none" => ~Cutting
    BY LogAssumption DEF LogIsRight, LockIsHeld, Cutting
  <2>2. Threshold \in Nat
    BY <1>1, ThresholdIs
  <2>3. Counted <= Threshold /\ Counted \in Nat
    BY <1>1, <2>2 DEF Counted
  <2> QED
    BY <1>1, <2>1, <2>2, <2>3 DEF LogIsRight, FileIsBounded
<1> QED
  BY <1>2, <1>3, <1>4 DEF LogKeepsLatest, LogIsRight, LockIsHeld

\* However many threads log, to whatever files and however often the process ends and starts
\* again: the file has the latest lines, at least as many as the limit, and not more than the
\* threshold but for the lines that the count does not know, those it began with and what a
\* failure to cut it leaves, until it is cut (_wi_log_vlog and _wi_log_truncate_file).
THEOREM LogAlwaysKeepsLatest == LogSpec => []LogKeepsLatest
<1>1. LogSpec => []LogIsRight
  BY LogStartsRight, LogStepsKeep, PTL DEF LogSpec
<1> QED
  BY <1>1, InvariantKeepsLatest, PTL

-----------------------------------------------------------------------------
(* Files: the invariant *)

FilesSpec == FilesInit /\ [][FilesNext]_filesVars

Bytes == Seq(Nat)

Entries == [to : {"disk", "temporary", "reading", "writing"}, at : Nat, append : BOOLEAN]
Anything == {Closed, StandardInput} \cup Entries

FileRecords == [fd : Numbers \cup {NoNumber}, of : {"disk", "temporary"}, offset : Nat,
                mode : {"reading", "writing", "updating"}]
PipeRecords == [rd : Numbers \cup {NoNumber}, wd : Numbers \cup {NoNumber}]
TaskRecords == [in : {"none", "pipe"}, out : {"none", "pipe", "file"}, running : BOOLEAN,
                launched : BOOLEAN, status : {"none", "exited", "error"}, freed : BOOLEAN]
TransferRecords ==
    [op : {"read", "read_bytes", "write"}, of : {"file", "pipe"}, left : Int, want : Int, data : Bytes,
     part : Bytes, at : {"call", "return"}, size : Nat, start : Nat, moved : Bytes,
     result : {"none", "data", "NULL", "error"}]

FilesTypeOK ==
    /\ table \in [Numbers -> Anything]
    /\ contents \in [disk : Bytes, temporary : Bytes, pipe : Bytes]
    /\ file \in {NoFile} \cup FileRecords /\ pipe \in {NoPipe} \cup PipeRecords
    /\ task \in {NoTask} \cup TaskRecords
    /\ child \in [is : {"none", "running", "zombie", "gone"}, in : Anything, out : Anything, wrote : Nat]
    /\ transfer \in {Idle} \cup TransferRecords
    /\ calls \in Nat /\ failures \in Nat

\* A task keeps what it is given.
TaskHas == HasTask =>
    /\ task.out = "file" => HasFile
    /\ "pipe" \in {task.in, task.out} => HasPipe
    /\ task.in = "pipe" => task.out # "pipe"

OffsetsAgree ==
    HasFile /\ file.fd # NoNumber /\ table[file.fd] # Closed /\ ~table[file.fd].append =>
        table[file.fd].at = file.offset

\* What a call works on is there.
TransferHas == transfer.op # "none" =>
    /\ transfer.of = "file" => HasFile /\ file.fd # NoNumber
    /\ transfer.of = "pipe" => HasPipe /\ pipe.rd # NoNumber /\ pipe.wd # NoNumber
    /\ transfer.of = "file" /\ transfer.at = "return" /\ transfer.result = "data" => table[file.fd] # Closed

\* What is to be read, and how much of it has been.
ReadingCounts == transfer.op \in {"read", "read_bytes"} =>
    LET t == transfer IN
    /\ t.want \in Nat \cup {-1}
    /\ t.want = -1 => t.op = "read"
    /\ t.at = "call" =>
           /\ t.moved = t.data \o t.part
           /\ Len(t.part) < t.size \/ (t.size = 0 /\ t.part = <<>>)
           /\ t.op = "read_bytes" => t.data = <<>> /\ t.size = t.want
           /\ t.op = "read" /\ t.want = -1 => t.left = -1 /\ t.size = BufferSize
           /\ t.op = "read" /\ t.want # -1 =>
                  t.left = t.want - Len(t.data) /\ t.size <= t.left /\ (t.size = 0 => t.want = 0)
    /\ t.at = "return" /\ t.result = "data" => t.data = t.moved /\ (t.want # -1 => Len(t.moved) <= t.want)

\* What has been read is what the file has from the start on.
ReadIsThere == transfer.op \in {"read", "read_bytes"} /\ transfer.of = "file" =>
    LET t == transfer
        bytes == contents[file.of]
    IN  table[file.fd] # Closed /\ ~table[file.fd].append =>
        /\ table[file.fd].at = t.start + Len(t.moved)
        /\ \A i \in 1 .. Len(t.moved) : t.start + i <= Len(bytes) /\ t.moved[i] = bytes[t.start + i]
        /\ t.at = "return" /\ t.result = "data" =>
               (t.want # -1 /\ Len(t.moved) = t.want) \/ t.start + Len(t.moved) >= Len(bytes)

EndIsEnd == transfer.op \in {"read", "read_bytes"} /\ transfer.of = "pipe" /\ transfer.at = "return" =>
    LET t == transfer IN
    t.result = "data" /\ (t.want = -1 \/ Len(t.moved) < t.want) => ~Held("writing")

\* What has been written is in the file, before the offset.
WrittenIsThere == transfer.op = "write" =>
    LET t == transfer
        d == Number(t)
    IN  /\ Len(t.moved) <= Len(t.data)
        /\ \A i \in 1 .. Len(t.moved) : t.moved[i] = t.data[i]
        /\ t.at = "return" /\ t.result = "data" => Len(t.moved) = Len(t.data)
        /\ t.of = "file" /\ table[d] # Closed /\ Len(t.moved) > 0 =>
               LET bytes == contents[file.of]
                   at == table[d].at
               IN  /\ Len(t.moved) <= at /\ at <= Len(bytes)
                   /\ table[d].append => at = Len(bytes)
                   /\ \A i \in 1 .. Len(t.moved) : bytes[at - Len(t.moved) + i] = t.moved[i]

FilesAreRight ==
    /\ FilesTypeOK /\ DescriptorsAreOwned /\ TaskHas /\ OffsetsAgree /\ TransferHas
    /\ ReadingCounts /\ ReadIsThere /\ EndIsEnd /\ WrittenIsThere

-----------------------------------------------------------------------------
(* What there is *)

LEMMA LeastOfTwo ==
    ASSUME NEW a \in Int, NEW b \in Int
    PROVE  Least({a, b}) = IF a <= b THEN a ELSE b
<1>1. Least({a, b}) = Min({a, b})
  BY Zenon DEF Least, Min
<1> QED
  BY <1>1, MinOfTwo

LEMMA LeastIsThere ==
    ASSUME NEW S \in SUBSET Numbers, S # {}
    PROVE  Least(S) \in S
<1>1. Least(S) = Min(S)
  BY Zenon DEF Least, Min
<1>2. S \in SUBSET Nat
  BY FilesAssumption
<1> QED
  BY <1>1, <1>2, LeastNumber

LEMMA EntryKinds ==
    ASSUME NEW e \in Anything
    PROVE  /\ e.to \in {"nothing", "terminal", "disk", "temporary", "reading", "writing"}
           /\ e = Closed <=> e.to = "nothing"
           /\ e = StandardInput <=> e.to = "terminal"
           /\ e \notin {Closed, StandardInput} => e \in Entries
<1>1. CASE e \in Entries
  <2>1. e.to \in {"disk", "temporary", "reading", "writing"}
    BY <1>1 DEF Entries
  <2>2. Closed.to = "nothing" /\ StandardInput.to = "terminal"
    BY DEF Closed, StandardInput
  <2> QED
    BY <1>1, <2>1, <2>2
<1>2. CASE e \in {Closed, StandardInput}
  <2>1. Closed.to = "nothing" /\ StandardInput.to = "terminal"
    BY DEF Closed, StandardInput
  <2> QED
    BY <1>2, <2>1
<1> QED
  BY <1>1, <1>2 DEF Anything

LEMMA NothingIsNoObject ==
    /\ NoFile \notin FileRecords /\ NoPipe \notin PipeRecords /\ NoTask \notin TaskRecords
    /\ Idle.op = "none" /\ \A t \in TransferRecords : t.op # "none" /\ t # Idle
<1>1. NoFile \notin FileRecords
  <2>1. DOMAIN NoFile = {"file"} /\ \A f \in FileRecords : "fd" \in DOMAIN f
    BY DEF NoFile, FileRecords
  <2> QED
    BY <2>1
<1>2. NoPipe \notin PipeRecords
  <2>1. DOMAIN NoPipe = {"pipe"} /\ \A f \in PipeRecords : "rd" \in DOMAIN f
    BY DEF NoPipe, PipeRecords
  <2> QED
    BY <2>1
<1>3. NoTask \notin TaskRecords
  <2>1. DOMAIN NoTask = {"task"} /\ \A f \in TaskRecords : "in" \in DOMAIN f
    BY DEF NoTask, TaskRecords
  <2> QED
    BY <2>1
<1>4. Idle.op = "none"
  BY DEF Idle
<1>5. \A t \in TransferRecords : t.op # "none"
  BY DEF TransferRecords
<1> QED
  BY <1>1, <1>2, <1>3, <1>4, <1>5

LEMMA ObjectTypes ==
    ASSUME FilesTypeOK
    PROVE  /\ HasFile => file \in FileRecords
           /\ HasPipe => pipe \in PipeRecords
           /\ HasTask => task \in TaskRecords
           /\ transfer.op # "none" => transfer \in TransferRecords
           /\ \A n \in Numbers : table[n] \in Anything
           /\ NoNumber \notin Numbers
<1>1. NoNumber \notin Numbers
  BY FilesAssumption DEF NoNumber
<1> QED
  BY <1>1, NothingIsNoObject DEF FilesTypeOK, HasFile, HasPipe, HasTask

\* A call that is not: nothing is said of it.
LEMMA NoTransfer ==
    ASSUME transfer'.op = "none"
    PROVE  TransferHas' /\ ReadingCounts' /\ ReadIsThere' /\ EndIsEnd' /\ WrittenIsThere'
BY DEF TransferHas, ReadingCounts, ReadIsThere, EndIsEnd, WrittenIsThere

\* Part of what is read or written.
LEMMA PartOf ==
    ASSUME NEW s \in Bytes, NEW m \in Nat \ {0}, NEW n \in Int, n <= Len(s)
    PROVE  /\ SubSeq(s, m, n) \in Bytes
           /\ Len(SubSeq(s, m, n)) = IF m <= n THEN n - m + 1 ELSE 0
           /\ \A i \in 1 .. Len(SubSeq(s, m, n)) : SubSeq(s, m, n)[i] = s[m + i - 1]
<1>1. s \in Seq(Nat) /\ \A i \in m .. n : s[i] \in Nat
  BY DEF Bytes
<1> QED
  BY <1>1, SubSeqProperties DEF Bytes

LEMMA FrontOf ==
    ASSUME NEW s \in Bytes, NEW n \in Nat, n <= Len(s)
    PROVE  /\ SubSeq(s, 1, n) \in Bytes /\ Len(SubSeq(s, 1, n)) = n
           /\ \A i \in 1 .. n : SubSeq(s, 1, n)[i] = s[i]
<1>1. PICK f \in Bytes : /\ f = SubSeq(s, 1, n) /\ Len(f) = IF 1 <= n THEN n - 1 + 1 ELSE 0
                         /\ \A i \in 1 .. Len(f) : f[i] = s[1 + i - 1]
  <2>1. 1 \in Nat \ {0} /\ n \in Int
    OBVIOUS
  <2>2. /\ SubSeq(s, 1, n) \in Bytes /\ Len(SubSeq(s, 1, n)) = IF 1 <= n THEN n - 1 + 1 ELSE 0
        /\ \A i \in 1 .. Len(SubSeq(s, 1, n)) : SubSeq(s, 1, n)[i] = s[1 + i - 1]
    BY <2>1, PartOf
  <2> QED
    BY <2>2
<1>2. Len(f) = n
  BY <1>1
<1>3. \A i \in 1 .. n : f[i] = s[i]
  <2>1. \A i \in 1 .. n : 1 + i - 1 = i
    OBVIOUS
  <2> QED
    BY <1>1, <1>2, <2>1
<1> QED
  BY <1>1, <1>2, <1>3

LEMMA RestOf ==
    ASSUME NEW s \in Bytes, NEW m \in Nat
    PROVE  /\ SubSeq(s, m + 1, Len(s)) \in Bytes
           /\ Len(SubSeq(s, m + 1, Len(s))) = IF m < Len(s) THEN Len(s) - m ELSE 0
           /\ \A i \in 1 .. Len(SubSeq(s, m + 1, Len(s))) : SubSeq(s, m + 1, Len(s))[i] = s[m + i]
<1>1. PICK l \in Nat : l = Len(s)
  BY DEF Bytes
<1>2. PICK f \in Bytes : /\ f = SubSeq(s, m + 1, l) /\ Len(f) = IF m + 1 <= l THEN l - (m + 1) + 1 ELSE 0
                         /\ \A i \in 1 .. Len(f) : f[i] = s[m + 1 + i - 1]
  <2>1. m + 1 \in Nat \ {0} /\ l \in Int /\ l <= Len(s)
    BY <1>1
  <2>2. /\ SubSeq(s, m + 1, l) \in Bytes /\ Len(SubSeq(s, m + 1, l)) = IF m + 1 <= l THEN l - (m + 1) + 1 ELSE 0
        /\ \A i \in 1 .. Len(SubSeq(s, m + 1, l)) : SubSeq(s, m + 1, l)[i] = s[m + 1 + i - 1]
    BY <2>1, PartOf
  <2> QED
    BY <2>2
<1>3. Len(f) = IF m < l THEN l - m ELSE 0
  BY <1>2
<1>4. \A i \in 1 .. Len(f) : f[i] = s[m + i]
  <2>1. \A i \in Nat : m + 1 + i - 1 = m + i
    OBVIOUS
  <2>2. Len(f) \in Nat
    BY DEF Bytes
  <2> QED
    BY <1>2, <2>1, <2>2
<1> QED
  BY <1>1, <1>2, <1>3, <1>4

LEMMA JoinedBytes ==
    ASSUME NEW s \in Bytes, NEW t \in Bytes
    PROVE  /\ s \o t \in Bytes /\ Len(s \o t) = Len(s) + Len(t)
           /\ \A i \in 1 .. Len(s) : (s \o t)[i] = s[i]
           /\ \A i \in 1 .. Len(t) : (s \o t)[Len(s) + i] = t[i]
<1>1. PICK k \in Nat, l \in Nat : k = Len(s) /\ l = Len(t)
  BY DEF Bytes
<1>2. PICK u : u = s \o t
  OBVIOUS
<1>3. u \in Seq(Nat) /\ Len(u) = k + l /\ \A i \in 1 .. k + l : u[i] = IF i <= k THEN s[i] ELSE t[i - k]
  BY <1>1, <1>2, ConcatProperties DEF Bytes
<1>4. \A i \in 1 .. k : u[i] = s[i]
  BY <1>3
<1>5. ASSUME NEW i \in 1 .. l PROVE u[k + i] = t[i]
  <2>1. k + i \in 1 .. k + l /\ ~(k + i <= k) /\ k + i - k = i
    OBVIOUS
  <2> QED
    BY <1>3, <2>1
<1> QED
  BY <1>1, <1>2, <1>3, <1>4, <1>5 DEF Bytes

LEMMA JoinedThrice ==
    ASSUME NEW s \in Bytes, NEW t \in Bytes, NEW u \in Bytes
    PROVE  (s \o t) \o u = s \o (t \o u)
BY ConcatAssociative, SMTT(30) DEF Bytes

-----------------------------------------------------------------------------
(* Calls that make and close nothing *)

LEMMA ObjectsStay ==
    ASSUME FilesAreRight, UNCHANGED <<table, file, pipe, task>>
    PROVE  DescriptorsAreOwned' /\ TaskHas' /\ OffsetsAgree'
BY DEF FilesAreRight, DescriptorsAreOwned, Kept, TaskHas, OffsetsAgree, HasFile, HasPipe, HasTask

\* The same is open at each number, for the same objects.
LEMMA OwnersStay ==
    ASSUME FilesTypeOK, FilesTypeOK', DescriptorsAreOwned, UNCHANGED pipe, HasFile <=> HasFile',
           HasFile => file'.fd = file.fd /\ file'.of = file.of,
           \A n \in Numbers : table'[n].to = table[n].to,
           HasTask /\ task.launched =>
               HasTask' /\ task'.launched /\ task'.in = task.in /\ task'.out = task.out
    PROVE  DescriptorsAreOwned'
<1>1. \A n \in Numbers : table[n] \in Anything /\ table'[n] \in Anything
  BY DEF FilesTypeOK
<1>2. \A n \in Numbers : /\ table'[n] = Closed <=> table[n] = Closed
                         /\ table'[n] = StandardInput <=> table[n] = StandardInput
  BY <1>1, EntryKinds
<1>3. /\ HasFile /\ file.fd # NoNumber => file.fd \in Numbers
      /\ HasPipe /\ pipe.rd # NoNumber => pipe.rd \in Numbers
      /\ HasPipe /\ pipe.wd # NoNumber => pipe.wd \in Numbers
  BY ObjectTypes DEF FileRecords, PipeRecords
<1>4. HasPipe <=> HasPipe'
  BY DEF HasPipe
<1>5. \A n \in Numbers : table'[n] \notin {Closed, StandardInput} => Kept(table[n].to, n)'
  BY <1>2, <1>4 DEF DescriptorsAreOwned, Kept
<1>6. \A n \in (IF HasFile' THEN {file'.fd} ELSE {}) \ {NoNumber} :
          table'[n].to = file'.of \/ (HasTask' /\ task'.launched /\ task'.out = "file" /\ table'[n] = Closed)
  BY <1>2, <1>3 DEF DescriptorsAreOwned
<1>7. HasPipe' /\ pipe'.rd # NoNumber =>
           \/ table'[pipe'.rd].to = "reading"
           \/ HasTask' /\ task'.launched /\ task'.in = "pipe" /\ table'[pipe'.rd] = Closed
  BY <1>2, <1>3, <1>4 DEF DescriptorsAreOwned
<1>8. HasPipe' /\ pipe'.wd # NoNumber =>
           \/ table'[pipe'.wd].to = "writing"
           \/ HasTask' /\ task'.launched /\ task'.out = "pipe" /\ table'[pipe'.wd] = Closed
  BY <1>2, <1>3, <1>4 DEF DescriptorsAreOwned
<1> QED
  BY <1>5, <1>6, <1>7, <1>8 DEF DescriptorsAreOwned

LEMMA DoneStep == ASSUME FilesAreRight, Done PROVE FilesAreRight'
<1>1. transfer' = Idle /\ UNCHANGED <<table, contents, file, pipe, task, child, calls, failures>>
  BY DEF Done
<1>2. FilesTypeOK'
  BY <1>1 DEF FilesAreRight, FilesTypeOK
<1>3. transfer'.op = "none"
  BY <1>1, NothingIsNoObject
<1> QED
  BY <1>1, <1>2, <1>3, ObjectsStay, NoTransfer DEF FilesAreRight

LEMMA InitTaskStep == ASSUME FilesAreRight, InitTask PROVE FilesAreRight'
<1>1. PICK in \in {"none", "pipe"}, out \in {"none", "pipe", "file"} :
          /\ transfer.op = "none" /\ ~HasTask
          /\ "pipe" \in {in, out} => OpenPipe
          /\ "file" = out => OpenFile
          /\ in = "none" \/ out # in
          /\ task' = [in |-> in, out |-> out, running |-> FALSE, launched |-> FALSE, status |-> "none",
                      freed |-> FALSE]
          /\ UNCHANGED <<table, contents, file, pipe, child, transfer, calls, failures>>
  BY DEF InitTask
<1>2. task' \in TaskRecords /\ task'.in = in /\ task'.out = out
  BY <1>1 DEF TaskRecords
<1>3. FilesTypeOK'
  BY <1>1, <1>2 DEF FilesAreRight, FilesTypeOK
<1>4. DescriptorsAreOwned'
  BY <1>1, <1>3, OwnersStay DEF FilesAreRight, HasFile
<1>5. TaskHas'
  BY <1>1, <1>2 DEF TaskHas, OpenPipe, OpenFile, HasFile, HasPipe
<1>6. OffsetsAgree'
  BY <1>1 DEF FilesAreRight, OffsetsAgree, HasFile
<1> QED
  BY <1>1, <1>3, <1>4, <1>5, <1>6, NoTransfer DEF FilesAreRight

LEMMA TaskEdits ==
    ASSUME FilesAreRight, transfer.op = "none", HasTask, UNCHANGED <<table, contents, file, pipe, transfer>>,
           FilesTypeOK', task' \in TaskRecords, task'.in = task.in, task'.out = task.out,
           task'.launched = task.launched
    PROVE  FilesAreRight'
<1>1. HasTask'
  BY NothingIsNoObject DEF HasTask
<1>2. DescriptorsAreOwned'
  BY <1>1, OwnersStay DEF FilesAreRight, HasFile
<1>3. TaskHas'
  BY DEF FilesAreRight, TaskHas, HasFile, HasPipe
<1>4. OffsetsAgree'
  BY DEF FilesAreRight, OffsetsAgree, HasFile
<1> QED
  BY <1>2, <1>3, <1>4, NoTransfer DEF FilesAreRight

LEMMA WaitUntilExitStep == ASSUME FilesAreRight, WaitUntilExit PROVE FilesAreRight'
<1>1. /\ transfer.op = "none" /\ HasTask
      /\ \/ /\ child' = [child EXCEPT !.is = "gone"]
            /\ task' = [task EXCEPT !.running = FALSE, !.status = "exited"]
         \/ task' = [task EXCEPT !.status = "error"] /\ UNCHANGED child
      /\ UNCHANGED <<table, contents, file, pipe, transfer, calls, failures>>
  BY DEF WaitUntilExit
<1>2. task \in TaskRecords
  BY <1>1, ObjectTypes DEF FilesAreRight
<1>3. task' \in TaskRecords /\ task'.in = task.in /\ task'.out = task.out /\ task'.launched = task.launched
  BY <1>1, <1>2 DEF TaskRecords
<1>4. FilesTypeOK'
  BY <1>1, <1>3 DEF FilesAreRight, FilesTypeOK
<1> QED
  BY <1>1, <1>3, <1>4, TaskEdits

LEMMA DeallocTaskStep == ASSUME FilesAreRight, DeallocTask PROVE FilesAreRight'
<1>1. /\ transfer.op = "none" /\ HasTask
      /\ child' = [child EXCEPT !.is = "gone"] \/ UNCHANGED child
      /\ task' = [task EXCEPT !.freed = TRUE]
      /\ UNCHANGED <<table, contents, file, pipe, transfer, calls, failures>>
  BY DEF DeallocTask
<1>2. task \in TaskRecords
  BY <1>1, ObjectTypes DEF FilesAreRight
<1>3. task' \in TaskRecords /\ task'.in = task.in /\ task'.out = task.out /\ task'.launched = task.launched
  BY <1>1, <1>2 DEF TaskRecords
<1>4. FilesTypeOK'
  BY <1>1, <1>3 DEF FilesAreRight, FilesTypeOK
<1> QED
  BY <1>1, <1>3, <1>4, TaskEdits

\* The file that is open at its number, for all but a task.
LEMMA OpenFileIs ==
    ASSUME FilesAreRight, OpenFile
    PROVE  /\ file \in FileRecords /\ file.fd \in Numbers /\ file.of \in {"disk", "temporary"}
           /\ table[file.fd] \in Anything
           /\ table[file.fd] # Closed => table[file.fd].to = file.of /\ table[file.fd] \in Entries
           /\ contents[file.of] \in Bytes
<1>1. file \in FileRecords /\ file.fd \in Numbers /\ table[file.fd] \in Anything
  BY ObjectTypes DEF FilesAreRight, OpenFile, FileRecords
<1>2. file.of \in {"disk", "temporary"}
  BY <1>1 DEF FileRecords
<1>3. table[file.fd].to = file.of \/ table[file.fd] = Closed
  BY <1>1 DEF FilesAreRight, DescriptorsAreOwned, OpenFile
<1>4. table[file.fd] # Closed => table[file.fd] \in Entries
  BY <1>1, <1>2, <1>3, EntryKinds
<1>5. contents[file.of] \in Bytes
  BY <1>2 DEF FilesAreRight, FilesTypeOK
<1> QED
  BY <1>1, <1>2, <1>3, <1>4, <1>5

LEMMA TruncateStep == ASSUME FilesAreRight, Truncate PROVE FilesAreRight'
<1>1. PICK length \in {0, 1} :
          /\ transfer.op = "none" /\ calls' = calls + 1 /\ OpenFile
          /\ length <= Len(contents[file.of])
          /\ contents' = [contents EXCEPT ![file.of] = SubSeq(contents[file.of], 1, length)]
          /\ UNCHANGED <<table, file, pipe, task, child, transfer, failures>>
  BY ObjectTypes DEF Truncate, Calls, OpenFile, FilesAreRight
<1>2. PICK bytes \in Bytes : bytes = SubSeq(contents[file.of], 1, length)
  <2>1. contents[file.of] \in Bytes
    BY <1>1, OpenFileIs
  <2>2. length \in Int /\ length <= Len(contents[file.of]) /\ 1 \in Nat \ {0}
    BY <1>1
  <2>3. SubSeq(contents[file.of], 1, length) \in Bytes
    BY <2>1, <2>2, PartOf
  <2> QED
    BY <2>3
<1>3. FilesTypeOK'
  <2>1. file.of \in {"disk", "temporary"} /\ contents' = [contents EXCEPT ![file.of] = bytes]
    BY <1>1, <1>2, OpenFileIs
  <2>2. contents' \in [disk : Bytes, temporary : Bytes, pipe : Bytes]
    BY <2>1 DEF FilesAreRight, FilesTypeOK
  <2> QED
    BY <1>1, <2>2 DEF FilesAreRight, FilesTypeOK
<1> QED
  BY <1>1, <1>3, ObjectsStay, NoTransfer DEF FilesAreRight

\* The offset of the file and of what is open at its number move together.
LEMMA OffsetsMove ==
    ASSUME FilesAreRight, OpenFile, table[file.fd] # Closed, NEW at \in Nat, NEW offset \in Nat,
           table' = [table EXCEPT ![file.fd].at = at], file' = [file EXCEPT !.offset = offset],
           UNCHANGED <<pipe, task>>
    PROVE  /\ table' \in [Numbers -> Anything] /\ file' \in FileRecords
           /\ file'.fd = file.fd /\ file'.of = file.of /\ file'.offset = offset /\ file'.mode = file.mode
           /\ \A n \in Numbers : table'[n].to = table[n].to
           /\ table'[file.fd].at = at /\ table'[file.fd].append = table[file.fd].append
           /\ table'[file.fd] \in Entries
<1>1. /\ file \in FileRecords /\ file.fd \in Numbers /\ table[file.fd] \in Entries
      /\ table \in [Numbers -> Anything]
  BY OpenFileIs DEF FilesAreRight, FilesTypeOK
<1>2. PICK e \in Entries : e = [table[file.fd] EXCEPT !.at = at]
  BY <1>1 DEF Entries
<1>3. e.to = table[file.fd].to /\ e.at = at /\ e.append = table[file.fd].append
  BY <1>1, <1>2 DEF Entries
<1>4. table' = [table EXCEPT ![file.fd] = e]
  BY <1>1, <1>2
<1>5. /\ file' \in FileRecords
      /\ file'.fd = file.fd /\ file'.of = file.of /\ file'.offset = offset /\ file'.mode = file.mode
  BY <1>1 DEF FileRecords
<1> QED
  BY <1>1, <1>3, <1>4, <1>5 DEF Anything

LEMMA SeekStep == ASSUME FilesAreRight, Seek PROVE FilesAreRight'
<1>1. PICK offset \in {0, 1, IF HasFile THEN Len(contents[file.of]) ELSE 0} :
          /\ transfer.op = "none" /\ calls' = calls + 1 /\ OpenFile
          /\ IF table[file.fd] = Closed THEN UNCHANGED <<table, file>>
             ELSE /\ table' = [table EXCEPT ![file.fd].at = offset]
                  /\ file' = [file EXCEPT !.offset = offset]
          /\ UNCHANGED <<contents, pipe, task, child, transfer, failures>>
  BY DEF Seek, Calls, OpenFile
<1>2. offset \in Nat
  <2>1. Len(contents[file.of]) \in Nat /\ HasFile
    BY <1>1, OpenFileIs DEF Bytes, OpenFile
  <2> QED
    BY <2>1
<1>3. CASE table[file.fd] = Closed
  <2>1. FilesTypeOK'
    BY <1>1, <1>3 DEF FilesAreRight, FilesTypeOK
  <2> QED
    BY <1>1, <1>3, <2>1, ObjectsStay, NoTransfer DEF FilesAreRight
<1>4. CASE table[file.fd] # Closed
  <2>1. /\ table' \in [Numbers -> Anything] /\ file' \in FileRecords
        /\ file'.fd = file.fd /\ file'.of = file.of /\ file'.offset = offset
        /\ \A n \in Numbers : table'[n].to = table[n].to
        /\ table'[file.fd].at = offset
    BY <1>1, <1>2, <1>4, OffsetsMove
  <2>2. HasFile /\ HasFile'
    BY <1>1, <2>1, NothingIsNoObject DEF HasFile, OpenFile
  <2>3. FilesTypeOK'
    BY <1>1, <2>1 DEF FilesAreRight, FilesTypeOK
  <2>4. DescriptorsAreOwned'
    BY <1>1, <2>1, <2>2, <2>3, OwnersStay DEF FilesAreRight, HasTask
  <2>5. TaskHas'
    BY <1>1, <2>2 DEF FilesAreRight, TaskHas, HasTask, HasPipe
  <2>6. OffsetsAgree'
    BY <2>1 DEF OffsetsAgree
  <2> QED
    BY <1>1, <2>3, <2>4, <2>5, <2>6, NoTransfer DEF FilesAreRight
<1> QED
  BY <1>3, <1>4

-----------------------------------------------------------------------------
(* Calls that open and close *)

LEMMA FreeNumbers ==
    ASSUME FilesAreRight
    PROVE  /\ Free(table) \subseteq Numbers /\ \A n \in Free(table) : table[n] = Closed
           /\ Free(table) # {} => Least(Free(table)) \in Free(table)
           /\ Cardinality(Free(table)) >= 2 =>
                  /\ Free(table) # {}
                  /\ Least(Free(table) \ {Least(Free(table))}) \in Free(table) \ {Least(Free(table))}
<1>1. Free(table) \subseteq Numbers /\ \A n \in Free(table) : table[n] = Closed
  BY DEF Free
<1>2. PICK free \in SUBSET Numbers : free = Free(table)
  BY <1>1
<1>3. free # {} => Least(free) \in free
  BY LeastIsThere
<1>4. ASSUME Cardinality(free) >= 2
      PROVE  free # {} /\ Least(free \ {Least(free)}) \in free \ {Least(free)}
  <2>1. Cardinality({}) = 0 /\ Cardinality({Least(free)}) = 1 /\ IsFiniteSet({Least(free)})
    BY FS_EmptySet, FS_Singleton
  <2>2. free \ {Least(free)} # {}
    <3>1. ASSUME free \subseteq {Least(free)} PROVE FALSE
      <4>1. Cardinality(free) <= 1 /\ Cardinality(free) \in Nat
        BY <2>1, <3>1, FS_Subset, FS_CardinalityType
      <4> QED
        BY <1>4, <4>1
    <3> QED
      BY <3>1
  <2>3. free \ {Least(free)} \in SUBSET Numbers
    OBVIOUS
  <2>4. Least(free \ {Least(free)}) \in free \ {Least(free)}
    BY <2>2, <2>3, LeastIsThere
  <2> QED
    BY <2>2, <2>4
<1> QED
  BY <1>1, <1>2, <1>3, <1>4

\* Rule of the program: what it has numbers of is open.
LEMMA NoneIsStale ==
    ASSUME FilesAreRight, Stale = {}
    PROVE  /\ HasFile /\ file.fd # NoNumber => file.fd \in Numbers /\ table[file.fd] # Closed
           /\ HasPipe /\ pipe.rd # NoNumber => pipe.rd \in Numbers /\ table[pipe.rd] # Closed
           /\ HasPipe /\ pipe.wd # NoNumber => pipe.wd \in Numbers /\ table[pipe.wd] # Closed
BY ObjectTypes DEF FilesAreRight, Stale, FileRecords, PipeRecords

LEMMA FileOpens ==
    ASSUME FilesAreRight, transfer.op = "none", ~HasFile, Stale = {}, Free(table) # {},
           NEW fd, fd = Least(Free(table)), NEW to \in {"disk", "temporary"}, NEW append \in BOOLEAN,
           NEW mode \in {"reading", "writing", "updating"},
           table' = [table EXCEPT ![fd] = Opened(to, 0, append)],
           file' = [fd |-> fd, of |-> to, offset |-> 0, mode |-> mode],
           contents' \in [disk : Bytes, temporary : Bytes, pipe : Bytes],
           UNCHANGED <<pipe, task, child, transfer>>, calls' \in Nat, failures' \in Nat
    PROVE  FilesAreRight'
<1>1. fd \in Numbers /\ table[fd] = Closed
  BY FreeNumbers
<1>2. table \in [Numbers -> Anything] /\ fd # NoNumber
  BY <1>1, ObjectTypes DEF FilesAreRight, FilesTypeOK
<1>3. PICK e \in Entries : e = Opened(to, 0, append) /\ e.to = to /\ e.at = 0
  <2>1. Opened(to, 0, append) \in Entries /\ Opened(to, 0, append).to = to /\ Opened(to, 0, append).at = 0
    BY DEF Opened, Entries
  <2> QED
    BY <2>1
<1>4. /\ table' \in [Numbers -> Anything] /\ table'[fd] = e
      /\ \A n \in Numbers : n # fd => table'[n] = table[n]
  BY <1>1, <1>2, <1>3 DEF Anything
<1>5. file' \in FileRecords /\ file'.fd = fd /\ file'.of = to /\ file'.offset = 0 /\ HasFile'
  <2>1. file' \in FileRecords /\ file'.fd = fd /\ file'.of = to /\ file'.offset = 0
    BY <1>1 DEF FileRecords
  <2> QED
    BY <2>1, NothingIsNoObject DEF HasFile
<1>6. FilesTypeOK'
  BY <1>4, <1>5 DEF FilesAreRight, FilesTypeOK
<1>7. /\ HasPipe /\ pipe.rd # NoNumber => pipe.rd \in Numbers /\ pipe.rd # fd /\ table'[pipe.rd] = table[pipe.rd]
      /\ HasPipe /\ pipe.wd # NoNumber => pipe.wd \in Numbers /\ pipe.wd # fd /\ table'[pipe.wd] = table[pipe.wd]
  BY <1>1, <1>4, NoneIsStale
<1>8. DescriptorsAreOwned'
  <2>1. ASSUME NEW n \in Numbers, table'[n] \notin {Closed, StandardInput} PROVE Kept(table[n].to, n)' \/ n = fd
    BY <1>4, <2>1 DEF FilesAreRight, DescriptorsAreOwned, Kept, HasPipe
  <2>2. ASSUME NEW n \in Numbers, table'[n] \notin {Closed, StandardInput} PROVE Kept(table[n].to, n)'
    BY <1>3, <1>4, <1>5, <2>1, <2>2 DEF Kept
  <2>3. HasPipe' /\ pipe'.rd # NoNumber =>
           \/ table'[pipe'.rd].to = "reading"
           \/ HasTask' /\ task'.launched /\ task'.in = "pipe" /\ table'[pipe'.rd] = Closed
    BY <1>7 DEF FilesAreRight, DescriptorsAreOwned, HasPipe, HasTask
  <2>4. HasPipe' /\ pipe'.wd # NoNumber =>
           \/ table'[pipe'.wd].to = "writing"
           \/ HasTask' /\ task'.launched /\ task'.out = "pipe" /\ table'[pipe'.wd] = Closed
    BY <1>7 DEF FilesAreRight, DescriptorsAreOwned, HasPipe, HasTask
  <2> QED
    BY <1>3, <1>4, <1>5, <2>2, <2>3, <2>4 DEF DescriptorsAreOwned
<1>9. TaskHas'
  BY <1>5 DEF FilesAreRight, TaskHas, HasTask, HasPipe
<1>10. OffsetsAgree'
  BY <1>3, <1>4, <1>5 DEF OffsetsAgree
<1> QED
  BY <1>6, <1>8, <1>9, <1>10, NoTransfer DEF FilesAreRight

LEMMA InitWithPathStep == ASSUME FilesAreRight, InitWithPath PROVE FilesAreRight'
<1>1. PICK mode \in {"reading", "writing", "updating"} :
          /\ transfer.op = "none" /\ calls' = calls + 1 /\ Stale = {} /\ ~HasFile
          /\ \/ /\ Free(table) # {}
                /\ table' = [table EXCEPT ![Least(Free(table))] = Opened("disk", 0, mode = "updating")]
                /\ file' = [fd |-> Least(Free(table)), of |-> "disk", offset |-> 0, mode |-> mode]
                /\ contents' = IF mode = "writing" THEN [contents EXCEPT !.disk = <<>>] ELSE contents
                /\ UNCHANGED failures
             \/ failures' = failures + 1 /\ UNCHANGED <<table, contents, file>>
          /\ UNCHANGED <<pipe, task, child, transfer>>
  BY Zenon DEF InitWithPath, Opens, Calls, Fails
<1>2. calls' \in Nat /\ contents \in [disk : Bytes, temporary : Bytes, pipe : Bytes] /\ failures \in Nat
  BY <1>1 DEF FilesAreRight, FilesTypeOK
<1>3. CASE failures' = failures + 1 /\ UNCHANGED <<table, contents, file>>
  <2>1. FilesTypeOK'
    BY <1>1, <1>2, <1>3 DEF FilesAreRight, FilesTypeOK
  <2> QED
    BY <1>1, <1>3, <2>1, ObjectsStay, NoTransfer DEF FilesAreRight
<1>4. CASE /\ Free(table) # {}
           /\ table' = [table EXCEPT ![Least(Free(table))] = Opened("disk", 0, mode = "updating")]
           /\ file' = [fd |-> Least(Free(table)), of |-> "disk", offset |-> 0, mode |-> mode]
           /\ contents' = IF mode = "writing" THEN [contents EXCEPT !.disk = <<>>] ELSE contents
           /\ UNCHANGED failures
  <2>1. PICK append \in BOOLEAN : append = (mode = "updating")
    OBVIOUS
  <2>2. <<>> \in Bytes
    BY DEF Bytes
  <2>3. contents' \in [disk : Bytes, temporary : Bytes, pipe : Bytes]
    BY <1>2, <1>4, <2>2
  <2>4. table' = [table EXCEPT ![Least(Free(table))] = Opened("disk", 0, append)]
    BY <1>4, <2>1, Zenon
  <2> QED
    BY <1>1, <1>2, <1>4, <2>3, <2>4, FileOpens
<1> QED
  BY <1>1, <1>3, <1>4

\* No object has the number of the standard input.
LEMMA InputShuts ==
    ASSUME FilesAreRight, transfer.op = "none", table[0] = StandardInput, table' = Shut(table, 0),
           UNCHANGED <<contents, file, pipe, task, child, transfer>>, calls' \in Nat, failures' \in Nat
    PROVE  FilesAreRight'
<1>1. /\ 0 \in Numbers /\ table \in [Numbers -> Anything]
      /\ StandardInput.to = "terminal" /\ StandardInput # Closed
  BY FilesAssumption, EntryKinds DEF FilesAreRight, FilesTypeOK, Closed, StandardInput
<1>2. /\ table' \in [Numbers -> Anything] /\ table'[0] = Closed
      /\ \A n \in Numbers : n # 0 => table'[n] = table[n]
  BY <1>1 DEF Shut, Anything
<1>3. FilesTypeOK'
  BY <1>2 DEF FilesAreRight, FilesTypeOK
<1>4. /\ HasFile /\ file.fd # NoNumber => file.fd \in Numbers /\ file.fd # 0
      /\ HasPipe /\ pipe.rd # NoNumber => pipe.rd \in Numbers /\ pipe.rd # 0
      /\ HasPipe /\ pipe.wd # NoNumber => pipe.wd \in Numbers /\ pipe.wd # 0
  BY <1>1, ObjectTypes DEF FilesAreRight, DescriptorsAreOwned, FileRecords, PipeRecords
<1>5. DescriptorsAreOwned'
  <2>1. ASSUME NEW n \in Numbers, table'[n] \notin {Closed, StandardInput} PROVE Kept(table[n].to, n)'
    BY <1>2, <2>1 DEF FilesAreRight, DescriptorsAreOwned, Kept, HasPipe, HasFile
  <2> QED
    BY <1>2, <1>4, <2>1 DEF FilesAreRight, DescriptorsAreOwned, HasPipe, HasFile, HasTask
<1>6. TaskHas'
  BY DEF FilesAreRight, TaskHas, HasTask, HasPipe, HasFile
<1>7. OffsetsAgree'
  BY <1>2, <1>4 DEF FilesAreRight, OffsetsAgree, HasFile
<1> QED
  BY <1>3, <1>5, <1>6, <1>7, NoTransfer DEF FilesAreRight

LEMMA InitTemporaryFileStep == ASSUME FilesAreRight, InitTemporaryFile PROVE FilesAreRight'
<1>1. /\ transfer.op = "none" /\ calls' = calls + 1 /\ Stale = {} /\ ~HasFile
      /\ \/ /\ Free(table) # {}
            /\ table' = [table EXCEPT ![Least(Free(table))] = Opened("temporary", 0, FALSE)]
            /\ file' = [fd |-> Least(Free(table)), of |-> "temporary", offset |-> 0, mode |-> "updating"]
            /\ contents' = [contents EXCEPT !.temporary = <<>>]
            /\ UNCHANGED failures
         \/ /\ failures' = failures + 1 /\ table[0] = StandardInput /\ table' = Shut(table, 0)
            /\ UNCHANGED <<file, contents>>
      /\ UNCHANGED <<pipe, task, child, transfer>>
  BY Zenon DEF InitTemporaryFile, Opens, Calls, Fails
<1>2. calls' \in Nat /\ contents \in [disk : Bytes, temporary : Bytes, pipe : Bytes] /\ failures \in Nat
  BY <1>1 DEF FilesAreRight, FilesTypeOK
<1>3. CASE /\ failures' = failures + 1 /\ table[0] = StandardInput /\ table' = Shut(table, 0)
           /\ UNCHANGED <<file, contents>>
  BY <1>1, <1>2, <1>3, InputShuts
<1>4. CASE /\ Free(table) # {}
           /\ table' = [table EXCEPT ![Least(Free(table))] = Opened("temporary", 0, FALSE)]
           /\ file' = [fd |-> Least(Free(table)), of |-> "temporary", offset |-> 0, mode |-> "updating"]
           /\ contents' = [contents EXCEPT !.temporary = <<>>]
           /\ UNCHANGED failures
  <2>1. <<>> \in Bytes
    BY DEF Bytes
  <2>2. contents' \in [disk : Bytes, temporary : Bytes, pipe : Bytes]
    BY <1>2, <1>4, <2>1
  <2> QED
    BY <1>1, <1>2, <1>4, <2>2, FileOpens
<1> QED
  BY <1>1, <1>3, <1>4

LEMMA InitPipeStep == ASSUME FilesAreRight, InitPipe PROVE FilesAreRight'
<1> DEFINE rd == Least(Free(table))
           wd == Least(Free(table) \ {rd})
<1>1. /\ transfer.op = "none" /\ calls' = calls + 1 /\ Stale = {} /\ ~HasPipe
      /\ \/ /\ Cardinality(Free(table)) >= 2
            /\ table' = [table EXCEPT ![rd] = Opened("reading", 0, FALSE), ![wd] = Opened("writing", 0, FALSE)]
            /\ pipe' = [rd |-> rd, wd |-> wd]
            /\ contents' = [contents EXCEPT !.pipe = <<>>]
            /\ UNCHANGED failures
         \/ /\ failures' = failures + 1 /\ table[0] = StandardInput /\ table' = Shut(table, 0)
            /\ UNCHANGED <<pipe, contents>>
      /\ UNCHANGED <<file, task, child, transfer>>
  BY Zenon DEF InitPipe, Opens, Calls, Fails
<1>2. calls' \in Nat /\ contents \in [disk : Bytes, temporary : Bytes, pipe : Bytes] /\ failures \in Nat
  BY <1>1 DEF FilesAreRight, FilesTypeOK
<1>3. CASE /\ failures' = failures + 1 /\ table[0] = StandardInput /\ table' = Shut(table, 0)
           /\ UNCHANGED <<pipe, contents>>
  BY <1>1, <1>2, <1>3, InputShuts
<1>4. CASE /\ Cardinality(Free(table)) >= 2
           /\ table' = [table EXCEPT ![rd] = Opened("reading", 0, FALSE), ![wd] = Opened("writing", 0, FALSE)]
           /\ pipe' = [rd |-> rd, wd |-> wd]
           /\ contents' = [contents EXCEPT !.pipe = <<>>]
           /\ UNCHANGED failures
  <2>1. rd \in Numbers /\ wd \in Numbers /\ rd # wd /\ table[rd] = Closed /\ table[wd] = Closed
    BY <1>4, FreeNumbers
  <2> HIDE DEF rd, wd
  <2>2. PICK e \in Entries, f \in Entries :
            /\ e = Opened("reading", 0, FALSE) /\ e.to = "reading"
            /\ f = Opened("writing", 0, FALSE) /\ f.to = "writing"
    <3>1. /\ Opened("reading", 0, FALSE) \in Entries /\ Opened("reading", 0, FALSE).to = "reading"
          /\ Opened("writing", 0, FALSE) \in Entries /\ Opened("writing", 0, FALSE).to = "writing"
      BY DEF Opened, Entries
    <3> QED
      BY <3>1
  <2>3. /\ table' \in [Numbers -> Anything] /\ table'[rd] = e /\ table'[wd] = f
        /\ \A n \in Numbers : n # rd /\ n # wd => table'[n] = table[n]
    <3>1. table \in [Numbers -> Anything] /\ table' = [table EXCEPT ![rd] = e, ![wd] = f]
      BY <1>4, <2>2 DEF FilesAreRight, FilesTypeOK
    <3> QED
      BY <2>1, <3>1 DEF Anything
  <2>4. pipe' \in PipeRecords /\ pipe'.rd = rd /\ pipe'.wd = wd /\ HasPipe'
    <3>1. pipe' \in PipeRecords /\ pipe'.rd = rd /\ pipe'.wd = wd
      BY <1>4, <2>1 DEF PipeRecords
    <3> QED
      BY <3>1, NothingIsNoObject DEF HasPipe
  <2>5. FilesTypeOK'
    <3>1. <<>> \in Bytes
      BY DEF Bytes
    <3>2. contents' \in [disk : Bytes, temporary : Bytes, pipe : Bytes]
      BY <1>2, <1>4, <3>1
    <3> QED
      BY <1>1, <1>2, <1>4, <2>3, <2>4, <3>2 DEF FilesAreRight, FilesTypeOK
  <2>6. HasFile /\ file.fd # NoNumber =>
            file.fd \in Numbers /\ file.fd # rd /\ file.fd # wd /\ table'[file.fd] = table[file.fd]
    BY <1>1, <2>1, <2>3, NoneIsStale
  <2>7. e \notin {Closed, StandardInput} /\ f \notin {Closed, StandardInput} /\ NoNumber \notin Numbers
    BY <2>2, EntryKinds, ObjectTypes DEF Anything, FilesAreRight
  <2>8. DescriptorsAreOwned'
    <3>1. ASSUME NEW n \in Numbers, table'[n] \notin {Closed, StandardInput} PROVE Kept(table[n].to, n)' \/ n \in {rd, wd}
      BY <1>1, <2>3, <3>1 DEF FilesAreRight, DescriptorsAreOwned, Kept, HasFile
    <3>2. ASSUME NEW n \in Numbers, table'[n] \notin {Closed, StandardInput} PROVE Kept(table[n].to, n)'
      BY <2>2, <2>3, <2>4, <3>1, <3>2 DEF Kept
    <3>3. \A n \in (IF HasFile' THEN {file'.fd} ELSE {}) \ {NoNumber} :
              table'[n].to = file'.of \/ (HasTask' /\ task'.launched /\ task'.out = "file" /\ table'[n] = Closed)
      BY <1>1, <2>6 DEF FilesAreRight, DescriptorsAreOwned, HasFile, HasTask
    <3> QED
      BY <2>2, <2>3, <2>4, <3>2, <3>3 DEF DescriptorsAreOwned
  <2>9. TaskHas'
    BY <1>1, <2>4 DEF FilesAreRight, TaskHas, HasTask, HasFile
  <2>10. OffsetsAgree'
    BY <1>1, <2>6 DEF FilesAreRight, OffsetsAgree, HasFile
  <2> QED
    BY <1>1, <2>5, <2>8, <2>9, <2>10, NoTransfer DEF FilesAreRight
<1> QED
  BY <1>1, <1>3, <1>4

LEMMA ShutOne ==
    ASSUME NEW t \in [Numbers -> Anything], NEW n
    PROVE  /\ Shut(t, n) \in [Numbers -> Anything]
           /\ \A m \in Numbers : Shut(t, n)[m] = IF m = n THEN Closed ELSE t[m]
BY DEF Shut, Anything

LEMMA CloseStep == ASSUME FilesAreRight, Close PROVE FilesAreRight'
<1>1. /\ transfer.op = "none" /\ UNCHANGED <<contents, task, child, transfer, calls, failures>>
      /\ table \in [Numbers -> Anything] /\ Closed \in Anything
  BY DEF Close, FilesAreRight, FilesTypeOK, Anything
<1>2. CASE /\ HasFile /\ table' = Shut(table, file.fd) /\ UNCHANGED pipe
           /\ file' \in {CloseFile(file)} \cup (IF HasTask /\ "file" \in {task.in, task.out} THEN {} ELSE {NoFile})
  <2>1. file \in FileRecords
    BY <1>2, ObjectTypes DEF FilesAreRight
  <2>2. /\ table' \in [Numbers -> Anything]
        /\ \A m \in Numbers : table'[m] = IF m = file.fd THEN Closed ELSE table[m]
    BY <1>1, <1>2, ShutOne
  <2>3. CloseFile(file) \in FileRecords /\ CloseFile(file).fd = NoNumber
    BY <2>1 DEF CloseFile, FileRecords
  <2>4. FilesTypeOK'
    BY <1>1, <1>2, <2>2, <2>3 DEF FilesAreRight, FilesTypeOK
  <2>5. HasFile' => file'.fd = NoNumber
    BY <1>2, <2>3 DEF HasFile
  <2>6. \A m \in Numbers : m = file.fd => table[m].to = file.of \/ table[m] = Closed
    BY <1>1, <1>2, ObjectTypes DEF FilesAreRight, DescriptorsAreOwned
  <2>7. file.of \in {"disk", "temporary"}
    BY <2>1 DEF FileRecords
  <2>8. /\ HasPipe /\ pipe.rd # NoNumber => pipe.rd \in Numbers
        /\ HasPipe /\ pipe.wd # NoNumber => pipe.wd \in Numbers
    BY ObjectTypes DEF FilesAreRight, PipeRecords
  <2>9. DescriptorsAreOwned'
    <3>1. ASSUME NEW n \in Numbers, table'[n] \notin {Closed, StandardInput} PROVE Kept(table[n].to, n)'
      BY <1>2, <2>2, <3>1 DEF FilesAreRight, DescriptorsAreOwned, Kept, HasPipe
    <3>2. HasPipe' /\ pipe'.rd # NoNumber =>
             \/ table'[pipe'.rd].to = "reading"
             \/ HasTask' /\ task'.launched /\ task'.in = "pipe" /\ table'[pipe'.rd] = Closed
      BY <1>1, <1>2, <2>2, <2>6, <2>7, <2>8 DEF FilesAreRight, DescriptorsAreOwned, HasPipe, HasTask
    <3>3. HasPipe' /\ pipe'.wd # NoNumber =>
             \/ table'[pipe'.wd].to = "writing"
             \/ HasTask' /\ task'.launched /\ task'.out = "pipe" /\ table'[pipe'.wd] = Closed
      BY <1>1, <1>2, <2>2, <2>6, <2>7, <2>8 DEF FilesAreRight, DescriptorsAreOwned, HasPipe, HasTask
    <3> QED
      BY <2>2, <2>5, <3>1, <3>2, <3>3 DEF DescriptorsAreOwned
  <2>10. TaskHas'
    <3>1. HasTask /\ task.out = "file" => HasFile'
      BY <1>2, <2>3, NothingIsNoObject DEF HasFile
    <3> QED
      BY <1>1, <1>2, <3>1 DEF FilesAreRight, TaskHas, HasTask, HasPipe
  <2>11. OffsetsAgree'
    BY <2>5 DEF OffsetsAgree
  <2> QED
    BY <1>1, <2>4, <2>9, <2>10, <2>11, NoTransfer DEF FilesAreRight
<1>3. CASE /\ HasPipe /\ table' = Shut(Shut(table, pipe.rd), pipe.wd) /\ UNCHANGED file
           /\ pipe' \in {ClosePipe(pipe)} \cup (IF HasTask /\ "pipe" \in {task.in, task.out} THEN {} ELSE {NoPipe})
  <2>1. pipe \in PipeRecords
    BY <1>3, ObjectTypes DEF FilesAreRight
  <2>2. /\ table' \in [Numbers -> Anything]
        /\ \A m \in Numbers : table'[m] = IF m = pipe.rd \/ m = pipe.wd THEN Closed ELSE table[m]
    <3>1. PICK t \in [Numbers -> Anything] :
              t = Shut(table, pipe.rd) /\ \A m \in Numbers : t[m] = IF m = pipe.rd THEN Closed ELSE table[m]
      BY <1>1, ShutOne
    <3>2. table' = Shut(t, pipe.wd)
      BY <1>3, <3>1
    <3> QED
      BY <3>1, <3>2, ShutOne
  <2>3. ClosePipe(pipe) \in PipeRecords /\ ClosePipe(pipe).rd = NoNumber /\ ClosePipe(pipe).wd = NoNumber
    BY <2>1 DEF ClosePipe, PipeRecords
  <2>4. FilesTypeOK'
    BY <1>1, <1>3, <2>2, <2>3 DEF FilesAreRight, FilesTypeOK
  <2>5. HasPipe' => pipe'.rd = NoNumber /\ pipe'.wd = NoNumber
    BY <1>3, <2>3 DEF HasPipe
  <2>6. /\ \A m \in Numbers : m = pipe.rd => table[m].to = "reading" \/ table[m] = Closed
        /\ \A m \in Numbers : m = pipe.wd => table[m].to = "writing" \/ table[m] = Closed
    BY <1>1, <1>3, ObjectTypes DEF FilesAreRight, DescriptorsAreOwned
  <2>7. HasFile /\ file.fd # NoNumber => file.fd \in Numbers /\ file.of \in {"disk", "temporary"}
    BY ObjectTypes DEF FilesAreRight, FileRecords
  <2>8. HasFile /\ file.fd # NoNumber => table'[file.fd] = table[file.fd]
    BY <2>2, <2>6, <2>7 DEF FilesAreRight, DescriptorsAreOwned
  <2>9. DescriptorsAreOwned'
    <3>1. ASSUME NEW n \in Numbers, table'[n] \notin {Closed, StandardInput} PROVE Kept(table[n].to, n)'
      BY <1>3, <2>2, <3>1 DEF FilesAreRight, DescriptorsAreOwned, Kept, HasFile
    <3>2. \A n \in (IF HasFile' THEN {file'.fd} ELSE {}) \ {NoNumber} :
              table'[n].to = file'.of \/ (HasTask' /\ task'.launched /\ task'.out = "file" /\ table'[n] = Closed)
      BY <1>1, <1>3, <2>8 DEF FilesAreRight, DescriptorsAreOwned, HasFile, HasTask
    <3> QED
      BY <2>2, <2>5, <3>1, <3>2 DEF DescriptorsAreOwned
  <2>10. TaskHas'
    <3>1. HasTask /\ "pipe" \in {task.in, task.out} => HasPipe'
      BY <1>3, <2>3, NothingIsNoObject DEF HasPipe
    <3> QED
      BY <1>1, <1>3, <3>1 DEF FilesAreRight, TaskHas, HasTask, HasFile
  <2>11. OffsetsAgree'
    BY <1>3, <2>8 DEF FilesAreRight, OffsetsAgree, HasFile
  <2> QED
    BY <1>1, <2>4, <2>9, <2>10, <2>11, NoTransfer DEF FilesAreRight
<1> QED
  BY <1>2, <1>3 DEF Close

LEMMA LaunchStep == ASSUME FilesAreRight, Launch PROVE FilesAreRight'
<1> DEFINE in == InputNumber
           out == OutputNumber
<1>1. /\ transfer.op = "none" /\ HasTask /\ ~task.launched
      /\ UNCHANGED <<contents, file, pipe, transfer, calls>> /\ table \in [Numbers -> Anything]
      /\ task \in TaskRecords
  BY ObjectTypes DEF Launch, FilesAreRight, FilesTypeOK
<1>2. CASE Fails /\ UNCHANGED <<table, child, task>>
  <2>1. FilesTypeOK'
    BY <1>1, <1>2 DEF FilesAreRight, FilesTypeOK, Fails
  <2> QED
    BY <1>1, <1>2, <2>1, ObjectsStay, NoTransfer DEF FilesAreRight
<1>3. CASE /\ child' = [is |-> "running", in |-> IF in = NoNumber THEN Closed ELSE table[in],
                        out |-> IF out = NoNumber THEN Closed ELSE table[out], wrote |-> 0]
           /\ table' = Shut(Shut(table, in), out)
           /\ task' = [task EXCEPT !.running = TRUE, !.launched = TRUE]
           /\ UNCHANGED failures
  <2>1. /\ in \in Numbers \cup {NoNumber} /\ in = IF task.in = "pipe" THEN pipe.rd ELSE NoNumber
        /\ out \in Numbers \cup {NoNumber}
        /\ task.out = "pipe" => out = pipe.wd
        /\ task.out = "file" => out = file.fd
        /\ task.out = "none" => out = NoNumber
        /\ task.in = "pipe" \/ task.out = "pipe" => HasPipe
        /\ task.out = "file" => HasFile
    <3>1. /\ task.in = "pipe" \/ task.out = "pipe" => HasPipe
          /\ task.out = "file" => HasFile
      BY <1>1 DEF FilesAreRight, TaskHas
    <3>2. task.out \in {"none", "pipe", "file"}
      BY <1>1 DEF TaskRecords
    <3> QED
      BY <1>1, <3>1, <3>2, ObjectTypes DEF InputNumber, OutputNumber, FilesAreRight, FileRecords, PipeRecords
  <2>2. /\ HasFile /\ file.fd # NoNumber =>
               file.fd \in Numbers /\ table[file.fd].to = file.of /\ file.of \in {"disk", "temporary"}
        /\ HasPipe /\ pipe.rd # NoNumber => pipe.rd \in Numbers /\ table[pipe.rd].to = "reading"
        /\ HasPipe /\ pipe.wd # NoNumber => pipe.wd \in Numbers /\ table[pipe.wd].to = "writing"
    BY <1>1, ObjectTypes DEF FilesAreRight, DescriptorsAreOwned, FileRecords, PipeRecords
  <2> HIDE DEF in, out
  <2>3. /\ table' \in [Numbers -> Anything]
        /\ \A m \in Numbers : table'[m] = IF m = in \/ m = out THEN Closed ELSE table[m]
    <3>1. PICK t \in [Numbers -> Anything] :
              t = Shut(table, in) /\ \A m \in Numbers : t[m] = IF m = in THEN Closed ELSE table[m]
      BY <1>1, ShutOne
    <3>2. table' = Shut(t, out)
      BY <1>3, <3>1
    <3> QED
      BY <3>1, <3>2, ShutOne
  <2>4. task' \in TaskRecords /\ task'.in = task.in /\ task'.out = task.out /\ task'.launched
    BY <1>1, <1>3 DEF TaskRecords
  <2>5. HasTask'
    BY <2>4, NothingIsNoObject DEF HasTask
  <2>6. FilesTypeOK'
    <3>1. PICK i \in Anything, o \in Anything :
              i = (IF in = NoNumber THEN Closed ELSE table[in]) /\ o = (IF out = NoNumber THEN Closed ELSE table[out])
      BY <1>1, <2>1 DEF Anything
    <3>2. child' = [is |-> "running", in |-> i, out |-> o, wrote |-> 0]
      BY <1>3, <3>1
    <3>3. child' \in [is : {"none", "running", "zombie", "gone"}, in : Anything, out : Anything, wrote : Nat]
      BY <3>2
    <3> QED
      BY <1>1, <1>3, <2>3, <2>4, <3>3 DEF FilesAreRight, FilesTypeOK
  <2>7. DescriptorsAreOwned'
    <3>1. ASSUME NEW n \in Numbers, table'[n] \notin {Closed, StandardInput} PROVE Kept(table[n].to, n)'
      BY <1>1, <2>3, <3>1 DEF FilesAreRight, DescriptorsAreOwned, Kept, HasFile, HasPipe
    <3>2. ASSUME HasFile, file.fd # NoNumber
          PROVE  table'[file.fd].to = file.of \/ (task.out = "file" /\ table'[file.fd] = Closed)
      BY <1>1, <2>1, <2>2, <2>3, <3>2 DEF TaskRecords
    <3>3. ASSUME HasPipe, pipe.rd # NoNumber
          PROVE  table'[pipe.rd].to = "reading" \/ (task.in = "pipe" /\ table'[pipe.rd] = Closed)
      BY <1>1, <2>1, <2>2, <2>3, <3>3 DEF TaskRecords
    <3>4. ASSUME HasPipe, pipe.wd # NoNumber
          PROVE  table'[pipe.wd].to = "writing" \/ (task.out = "pipe" /\ table'[pipe.wd] = Closed)
      BY <1>1, <2>1, <2>2, <2>3, <3>4 DEF TaskRecords
    <3> QED
      BY <1>1, <2>3, <2>4, <2>5, <3>1, <3>2, <3>3, <3>4 DEF DescriptorsAreOwned, HasFile, HasPipe
  <2>8. TaskHas'
    BY <1>1, <2>4 DEF FilesAreRight, TaskHas, HasFile, HasPipe
  <2>9. OffsetsAgree'
    BY <1>1, <2>2, <2>3 DEF FilesAreRight, OffsetsAgree, HasFile
  <2> QED
    BY <1>1, <2>6, <2>7, <2>8, <2>9, NoTransfer DEF FilesAreRight
<1> QED
  BY <1>2, <1>3 DEF Launch, GiveAway

-----------------------------------------------------------------------------
(* The child *)

\* What is known of a call in progress does not depend on what the child does with a pipe.
LEMMA ChildEdits ==
    ASSUME FilesAreRight, UNCHANGED <<table, file, pipe, task, transfer, calls, failures>>,
           contents' \in [disk : Bytes, temporary : Bytes, pipe : Bytes],
           contents'.disk = contents.disk, contents'.temporary = contents.temporary,
           child' \in [is : {"none", "running", "zombie", "gone"}, in : Anything, out : Anything, wrote : Nat],
           child'.in \in {Closed, child.in}, child'.out \in {Closed, child.out}
    PROVE  FilesAreRight'
<1>1. FilesTypeOK'
  BY DEF FilesAreRight, FilesTypeOK
<1>2. TransferHas' /\ ReadingCounts'
  BY DEF FilesAreRight, TransferHas, ReadingCounts, HasFile, HasPipe
<1>3. transfer.op # "none" /\ transfer.of = "file" => contents'[file.of] = contents[file.of]
  BY OpenFileIs DEF FilesAreRight, TransferHas, OpenFile
<1>4. ReadIsThere'
  BY <1>3 DEF FilesAreRight, ReadIsThere
<1>5. WrittenIsThere'
  BY <1>3 DEF FilesAreRight, WrittenIsThere, Number
<1>6. EndIsEnd'
  <2>1. Closed.to # "writing"
    BY DEF Closed
  <2>2. Held("writing")' => Held("writing")
    BY <2>1 DEF Held
  <2> QED
    BY <2>2 DEF FilesAreRight, EndIsEnd
<1> QED
  BY <1>1, <1>2, <1>4, <1>5, <1>6, ObjectsStay DEF FilesAreRight

LEMMA ChildReadsStep == ASSUME FilesAreRight, ChildReads PROVE FilesAreRight'
<1>1. /\ contents.pipe # <<>> /\ contents' = [contents EXCEPT !.pipe = Tail(contents.pipe)]
      /\ UNCHANGED <<table, file, pipe, task, child, transfer, calls, failures>>
      /\ contents \in [disk : Bytes, temporary : Bytes, pipe : Bytes]
  BY DEF ChildReads, FilesAreRight, FilesTypeOK
<1>2. PICK bytes \in Bytes : bytes = Tail(contents.pipe)
  <2>1. contents.pipe \in Bytes
    BY <1>1
  <2> QED
    BY <1>1, <2>1, HeadTailProperties DEF Bytes
<1>3. /\ contents' \in [disk : Bytes, temporary : Bytes, pipe : Bytes]
      /\ contents'.disk = contents.disk /\ contents'.temporary = contents.temporary
  BY <1>1, <1>2
<1>4. child \in [is : {"none", "running", "zombie", "gone"}, in : Anything, out : Anything, wrote : Nat]
  BY DEF FilesAreRight, FilesTypeOK
<1> QED
  BY <1>1, <1>3, <1>4, ChildEdits

LEMMA ChildWritesStep == ASSUME FilesAreRight, ChildWrites PROVE FilesAreRight'
<1>1. /\ child' = [child EXCEPT !.wrote = child.wrote + 1]
      /\ contents' = [contents EXCEPT !.pipe = Append(contents.pipe, child.wrote)]
      /\ UNCHANGED <<table, file, pipe, task, transfer, calls, failures>>
      /\ contents \in [disk : Bytes, temporary : Bytes, pipe : Bytes]
      /\ child \in [is : {"none", "running", "zombie", "gone"}, in : Anything, out : Anything, wrote : Nat]
  BY DEF ChildWrites, FilesAreRight, FilesTypeOK
<1>2. PICK bytes \in Bytes : bytes = Append(contents.pipe, child.wrote)
  <2>1. contents.pipe \in Bytes /\ child.wrote \in Nat
    BY <1>1
  <2> QED
    BY <2>1, AppendProperties DEF Bytes
<1>3. /\ contents' \in [disk : Bytes, temporary : Bytes, pipe : Bytes]
      /\ contents'.disk = contents.disk /\ contents'.temporary = contents.temporary
  BY <1>1, <1>2
<1>4. /\ child' \in [is : {"none", "running", "zombie", "gone"}, in : Anything, out : Anything, wrote : Nat]
      /\ child'.in = child.in /\ child'.out = child.out
  BY <1>1
<1> QED
  BY <1>1, <1>3, <1>4, ChildEdits

LEMMA ChildExitsStep == ASSUME FilesAreRight, ChildExits PROVE FilesAreRight'
<1>1. /\ child' = [child EXCEPT !.is = "zombie", !.in = Closed, !.out = Closed]
      /\ UNCHANGED <<table, contents, file, pipe, task, transfer, calls, failures>>
      /\ contents \in [disk : Bytes, temporary : Bytes, pipe : Bytes]
      /\ child \in [is : {"none", "running", "zombie", "gone"}, in : Anything, out : Anything, wrote : Nat]
      /\ Closed \in Anything
  BY DEF ChildExits, FilesAreRight, FilesTypeOK, Anything
<1>2. /\ child' \in [is : {"none", "running", "zombie", "gone"}, in : Anything, out : Anything, wrote : Nat]
      /\ child'.in = Closed /\ child'.out = Closed
  BY <1>1
<1> QED
  BY <1>1, <1>2, ChildEdits

-----------------------------------------------------------------------------
(* Starting to read and write *)

LEMMA StartReadStep == ASSUME FilesAreRight, StartRead PROVE FilesAreRight'
<1>1. PICK of \in {"file", "pipe"}, op \in {"read", "read_bytes"}, length \in Lengths \cup {-1} :
          /\ calls' = calls + 1 /\ (IF of = "file" THEN OpenFile ELSE OpenPipe)
          /\ length = -1 => op = "read"
          /\ transfer' = Transfer(op, of, length, <<>>)
          /\ UNCHANGED <<table, contents, file, pipe, task, child, failures>>
  BY DEF StartRead, Calls
<1>2. length \in Nat \cup {-1} /\ BufferSize \in Nat \ {0} /\ <<>> \in Bytes
  BY FilesAssumption DEF Bytes
<1>3. PICK size \in Nat :
          size = IF op = "read" /\ length # -1 /\ length < BufferSize THEN length
                 ELSE IF op = "read" THEN BufferSize ELSE length
  BY <1>1, <1>2
<1>4. PICK start \in Nat : start = IF of = "file" THEN file.offset ELSE 0
  <2>1. of = "file" => file.offset \in Nat
    BY <1>1, OpenFileIs DEF FileRecords
  <2> QED
    BY <2>1
<1>5. transfer' = [op |-> op, of |-> of, left |-> length, want |-> length, data |-> <<>>, part |-> <<>>,
                   at |-> "call", size |-> size, start |-> start, moved |-> <<>>, result |-> "none"]
  <2>1. Transfer(op, of, length, <<>>) =
            [op |-> op, of |-> of, left |-> length, want |-> length, data |-> <<>>, part |-> <<>>, at |-> "call",
             size |-> IF op = "read" /\ length # -1 /\ length < BufferSize THEN length
                      ELSE IF op = "read" THEN BufferSize ELSE length,
             start |-> IF of = "file" THEN file.offset ELSE 0, moved |-> <<>>, result |-> "none"]
    BY DEF Transfer
  <2> QED
    BY <1>1, <1>3, <1>4, <2>1
<1>6. transfer' \in TransferRecords
  BY <1>2, <1>5 DEF TransferRecords
<1>7. FilesTypeOK'
  BY <1>1, <1>6 DEF FilesAreRight, FilesTypeOK
<1>8. TransferHas'
  BY <1>1, <1>5 DEF TransferHas, OpenFile, OpenPipe, HasFile, HasPipe
<1>9. ReadingCounts'
  <2>1. <<>> \o <<>> = <<>> /\ Len(<<>>) = 0
    BY <1>2, ConcatEmptySeq DEF Bytes
  <2>2. /\ transfer'.want = length /\ transfer'.left = length /\ transfer'.size = size
        /\ transfer'.data = <<>> /\ transfer'.part = <<>> /\ transfer'.moved = <<>>
        /\ transfer'.op = op /\ transfer'.at = "call"
    BY <1>5
  <2>3. op = "read" /\ length # -1 => length = length - 0 /\ size <= length /\ (size = 0 => length = 0)
    BY <1>2, <1>3
  <2>4. op = "read" /\ length = -1 => size = BufferSize
    BY <1>3
  <2>5. op = "read_bytes" => size = length
    BY <1>3
  <2>6. 0 < size \/ size = 0
    OBVIOUS
  <2> QED
    BY <1>1, <1>2, <2>1, <2>2, <2>3, <2>4, <2>5, <2>6 DEF ReadingCounts
<1>10. ReadIsThere'
  BY <1>1, <1>4, <1>5, OpenFileIs DEF FilesAreRight, ReadIsThere, OffsetsAgree, OpenFile, Entries
<1>11. EndIsEnd' /\ WrittenIsThere'
  BY <1>5 DEF EndIsEnd, WrittenIsThere
<1> QED
  BY <1>1, <1>7, <1>8, <1>9, <1>10, <1>11, ObjectsStay DEF FilesAreRight

LEMMA StartWriteStep == ASSUME FilesAreRight, StartWrite PROVE FilesAreRight'
<1>1. PICK of \in {"file", "pipe"}, data \in Written :
          /\ calls' = calls + 1 /\ (IF of = "file" THEN OpenFile ELSE OpenPipe)
          /\ transfer' = Transfer("write", of, Len(data), data)
          /\ UNCHANGED <<table, contents, file, pipe, task, child, failures>>
  BY DEF StartWrite, Calls
<1>2. data \in Bytes /\ <<>> \in Bytes
  BY FilesAssumption DEF Bytes
<1>3. PICK size \in Nat : size = Len(data)
  BY <1>2 DEF Bytes
<1>4. PICK start \in Nat : start = IF of = "file" THEN file.offset ELSE 0
  <2>1. of = "file" => file.offset \in Nat
    BY <1>1, OpenFileIs DEF FileRecords
  <2> QED
    BY <2>1
<1>5. transfer' = [op |-> "write", of |-> of, left |-> size, want |-> size, data |-> data, part |-> <<>>,
                   at |-> "call", size |-> size, start |-> start, moved |-> <<>>, result |-> "none"]
  <2>1. Transfer("write", of, size, data) =
            [op |-> "write", of |-> of, left |-> size, want |-> size, data |-> data, part |-> <<>>, at |-> "call",
             size |-> size, start |-> IF of = "file" THEN file.offset ELSE 0, moved |-> <<>>, result |-> "none"]
    BY DEF Transfer
  <2> QED
    BY <1>1, <1>3, <1>4, <2>1
<1>6. transfer' \in TransferRecords
  BY <1>2, <1>5 DEF TransferRecords
<1>7. FilesTypeOK'
  BY <1>1, <1>6 DEF FilesAreRight, FilesTypeOK
<1>8. TransferHas'
  BY <1>1, <1>5 DEF TransferHas, OpenFile, OpenPipe, HasFile, HasPipe
<1>9. ReadingCounts' /\ ReadIsThere' /\ EndIsEnd'
  BY <1>5 DEF ReadingCounts, ReadIsThere, EndIsEnd
<1>10. WrittenIsThere'
  BY <1>3, <1>5 DEF WrittenIsThere
<1> QED
  BY <1>1, <1>7, <1>8, <1>9, <1>10, ObjectsStay DEF FilesAreRight

-----------------------------------------------------------------------------
(* Returning *)

\* Only the call changes.
LEMMA CallGoes ==
    ASSUME FilesAreRight, UNCHANGED <<table, contents, file, pipe, task, child, calls>>, failures' \in Nat,
           transfer \in TransferRecords, transfer' \in TransferRecords, transfer'.op = transfer.op,
           transfer'.of = transfer.of, transfer'.of = "file" /\ transfer'.result = "data" => table[file.fd] # Closed,
           ReadingCounts', ReadIsThere', EndIsEnd', WrittenIsThere'
    PROVE  FilesAreRight'
<1>1. FilesTypeOK'
  BY DEF FilesAreRight, FilesTypeOK
<1>2. TransferHas'
  BY DEF FilesAreRight, TransferHas, HasFile, HasPipe
<1> QED
  BY <1>1, <1>2, ObjectsStay DEF FilesAreRight

LEMMA BreaksStep == ASSUME FilesAreRight, Breaks PROVE FilesAreRight'
<1>1. /\ transfer.op # "none" /\ transfer.at = "call" /\ failures' \in Nat
      /\ transfer' = [transfer EXCEPT !.at = "return", !.result = "error"]
      /\ UNCHANGED <<table, contents, file, pipe, task, child, calls>>
  BY DEF Breaks, Fails, Returns, FilesAreRight, FilesTypeOK
<1>2. transfer \in TransferRecords
  BY <1>1, ObjectTypes DEF FilesAreRight
<1>3. /\ transfer' \in TransferRecords /\ transfer'.at = "return" /\ transfer'.result = "error"
      /\ transfer'.op = transfer.op /\ transfer'.of = transfer.of /\ transfer'.want = transfer.want
      /\ transfer'.start = transfer.start /\ transfer'.moved = transfer.moved /\ transfer'.data = transfer.data
  BY <1>1, <1>2 DEF TransferRecords
<1>4. ReadingCounts' /\ EndIsEnd'
  BY <1>3 DEF FilesAreRight, ReadingCounts, EndIsEnd
<1>5. ReadIsThere'
  BY <1>1, <1>3 DEF FilesAreRight, ReadIsThere
<1>6. WrittenIsThere'
  BY <1>1, <1>3 DEF FilesAreRight, WrittenIsThere, Number
<1> QED
  BY <1>1, <1>2, <1>3, <1>4, <1>5, <1>6, CallGoes

-----------------------------------------------------------------------------
(* Reading *)

\* What a read may move: no more than the innermost function is to read, and what is there.
LEMMA AvailableToRead ==
    ASSUME FilesAreRight, transfer.op \in {"read", "read_bytes"}, transfer.at = "call",
           Number(transfer) \in Numbers, table[Number(transfer)] # Closed
    PROVE  /\ Available(transfer) \in Bytes
           /\ Len(transfer.part) + Len(Available(transfer)) <= transfer.size
           /\ transfer.of = "file" =>
                  /\ \A i \in 1 .. Len(Available(transfer)) :
                         /\ table[file.fd].at + i <= Len(contents[file.of])
                         /\ Available(transfer)[i] = contents[file.of][table[file.fd].at + i]
                  /\ Available(transfer) = <<>> /\ transfer.size > 0 =>
                         table[file.fd].at >= Len(contents[file.of])
<1> DEFINE bytes == IF transfer.of = "pipe" THEN contents.pipe
                    ELSE SubSeq(contents[file.of], table[file.fd].at + 1, Len(contents[file.of]))
<1>1. /\ transfer \in TransferRecords /\ transfer.of \in {"file", "pipe"} /\ transfer.size \in Nat
      /\ transfer.part \in Bytes
  BY ObjectTypes DEF FilesAreRight, TransferRecords
<1>2. Len(transfer.part) \in Nat /\ (Len(transfer.part) < transfer.size \/ (transfer.size = 0 /\ Len(transfer.part) = 0))
  <2>1. Len(transfer.part) \in Nat
    BY <1>1 DEF Bytes
  <2>2. ReadingCounts
    BY DEF FilesAreRight
  <2>3. Len(transfer.part) < transfer.size \/ (transfer.size = 0 /\ transfer.part = <<>>)
    BY <2>2, Zenon DEF ReadingCounts
  <2>4. Len(<<>>) = 0
    OBVIOUS
  <2> QED
    BY <2>1, <2>3, <2>4
<1>3. transfer.of = "file" =>
          /\ contents[file.of] \in Bytes /\ table[file.fd].at \in Nat /\ bytes \in Bytes
          /\ Len(bytes) = IF table[file.fd].at < Len(contents[file.of])
                          THEN Len(contents[file.of]) - table[file.fd].at ELSE 0
          /\ \A i \in 1 .. Len(bytes) : bytes[i] = contents[file.of][table[file.fd].at + i]
  <2> SUFFICES ASSUME transfer.of = "file"
               PROVE  /\ contents[file.of] \in Bytes /\ table[file.fd].at \in Nat /\ bytes \in Bytes
                      /\ Len(bytes) = IF table[file.fd].at < Len(contents[file.of])
                                      THEN Len(contents[file.of]) - table[file.fd].at ELSE 0
                      /\ \A i \in 1 .. Len(bytes) : bytes[i] = contents[file.of][table[file.fd].at + i]
    OBVIOUS
  <2>1. OpenFile /\ Number(transfer) = file.fd
    BY DEF FilesAreRight, TransferHas, OpenFile, Number
  <2>2. PICK all \in Bytes : all = contents[file.of]
    BY <2>1, OpenFileIs
  <2>3. PICK at \in Nat : at = table[file.fd].at
    BY <2>1, OpenFileIs DEF Entries
  <2>4. bytes = SubSeq(all, at + 1, Len(all))
    BY <2>2, <2>3
  <2> HIDE DEF bytes
  <2>5. /\ bytes \in Bytes /\ Len(bytes) = IF at < Len(all) THEN Len(all) - at ELSE 0
        /\ \A i \in 1 .. Len(bytes) : bytes[i] = all[at + i]
    BY <2>4, RestOf
  <2> QED
    BY <2>2, <2>3, <2>5
<1>4. bytes \in Bytes
  <2>1. contents.pipe \in Bytes
    BY DEF FilesAreRight, FilesTypeOK
  <2> QED
    BY <1>1, <1>3, <2>1
<1> HIDE DEF bytes
<1>5. Available(transfer) = SubSeq(bytes, 1, Least({Len(bytes), transfer.size - Len(transfer.part)}))
  BY DEF Available, bytes
<1>6. PICK n \in Int : n = Least({Len(bytes), transfer.size - Len(transfer.part)})
                       /\ n = IF Len(bytes) <= transfer.size - Len(transfer.part)
                              THEN Len(bytes) ELSE transfer.size - Len(transfer.part)
  <2>1. Len(bytes) \in Int /\ transfer.size - Len(transfer.part) \in Int
    BY <1>1, <1>2, <1>4 DEF Bytes
  <2> QED
    BY <2>1, LeastOfTwo
<1>7. Len(bytes) \in Nat
  BY <1>4 DEF Bytes
<1>8. /\ Available(transfer) \in Bytes /\ Len(Available(transfer)) = n
      /\ \A i \in 1 .. n : Available(transfer)[i] = bytes[i]
  <2>1. n <= Len(bytes) /\ n \in Nat
    BY <1>1, <1>2, <1>6, <1>7
  <2>2. /\ SubSeq(bytes, 1, n) \in Bytes /\ Len(SubSeq(bytes, 1, n)) = n
        /\ \A i \in 1 .. n : SubSeq(bytes, 1, n)[i] = bytes[i]
    BY <1>4, <2>1, FrontOf
  <2>3. Available(transfer) = SubSeq(bytes, 1, n)
    BY <1>5, <1>6
  <2> QED
    BY <2>2, <2>3
<1>9. Len(transfer.part) + Len(Available(transfer)) <= transfer.size
  BY <1>1, <1>2, <1>6, <1>7, <1>8
<1>10. ASSUME transfer.of = "file"
       PROVE  /\ \A i \in 1 .. Len(Available(transfer)) :
                     /\ table[file.fd].at + i <= Len(contents[file.of])
                     /\ Available(transfer)[i] = contents[file.of][table[file.fd].at + i]
              /\ Available(transfer) = <<>> /\ transfer.size > 0 =>
                     table[file.fd].at >= Len(contents[file.of])
  <2>1. PICK all \in Bytes, at \in Nat, l \in Nat :
            all = contents[file.of] /\ at = table[file.fd].at /\ l = Len(all)
    BY <1>3, <1>10 DEF Bytes
  <2>2. Len(bytes) = (IF at < l THEN l - at ELSE 0) /\ \A i \in 1 .. Len(bytes) : bytes[i] = all[at + i]
    BY <1>3, <1>10, <2>1
  <2>3. ASSUME NEW i \in 1 .. n PROVE at + i <= l /\ Available(transfer)[i] = all[at + i]
    <3>1. i \in 1 .. Len(bytes) /\ i \in Nat
      BY <1>6, <1>7
    <3> QED
      BY <1>8, <2>2, <3>1
  <2>4. Available(transfer) = <<>> /\ transfer.size > 0 => at >= l
    <3>1. Available(transfer) = <<>> => n = 0
      BY <1>8
    <3>2. PICK size \in Nat, p \in Nat : size = transfer.size /\ p = Len(transfer.part)
      BY <1>1, <1>2
    <3>3. size > 0 /\ n = 0 => Len(bytes) = 0
      BY <1>2, <1>6, <1>7, <3>2
    <3> QED
      BY <2>2, <3>1, <3>2, <3>3
  <2> QED
    BY <1>8, <2>1, <2>3, <2>4
<1> QED
  BY <1>8, <1>9, <1>10

\* The innermost function returns what it has read: the call does, or goes on with what is left.
LEMMA InnerReturns ==
    ASSUME NEW t \in TransferRecords, Inner(t), t.op \in {"read", "read_bytes"}, t.at = "call",
           t.moved = t.data \o t.part, t.want \in Nat \cup {-1}, t.want = -1 => t.op = "read",
           Len(t.part) <= t.size, t.size > 0,
           t.op = "read_bytes" => t.data = <<>> /\ t.size = t.want,
           t.op = "read" /\ t.want = -1 => t.left = -1 /\ t.size = BufferSize,
           t.op = "read" /\ t.want # -1 => t.left = t.want - Len(t.data) /\ t.size <= t.left
    PROVE  /\ transfer' \in TransferRecords /\ transfer'.op = t.op /\ transfer'.of = t.of
           /\ transfer'.want = t.want /\ transfer'.start = t.start /\ transfer'.moved = t.moved
           /\ ReadingCounts'
           /\ transfer'.at = "return" =>
                  t.part = <<>> \/ Len(t.part) < t.size \/ (t.want # -1 /\ Len(t.moved) = t.want)
<1>1. /\ t.data \in Bytes /\ t.part \in Bytes /\ t.moved \in Bytes /\ t.size \in Nat /\ t.left \in Int
      /\ t.op \in {"read", "read_bytes"}
  BY DEF TransferRecords
<1>2. /\ Len(t.data) \in Nat /\ Len(t.part) \in Nat /\ Len(t.moved) = Len(t.data) + Len(t.part)
      /\ (t.data = <<>> => Len(t.data) = 0) /\ t.moved \o <<>> = t.moved
      /\ (t.part # <<>> => Len(t.part) > 0)
  BY <1>1, ConcatProperties, ConcatEmptySeq, EmptySeq DEF Bytes
<1>3. PICK left \in Int : left = IF t.left = -1 THEN -1 ELSE t.left - Len(t.part)
  BY <1>1, <1>2
<1>4. PICK want \in Int, size \in Nat, d \in Nat, p \in Nat, had \in Int :
          want = t.want /\ size = t.size /\ d = Len(t.data) /\ p = Len(t.part) /\ had = t.left
  BY <1>1, <1>2, SMTT(30)
<1>8. /\ p <= size /\ size > 0 /\ Len(t.moved) = d + p /\ (want = -1 \/ want \in Nat)
      /\ left = IF had = -1 THEN -1 ELSE had - p
      /\ t.op = "read_bytes" => d = 0 /\ size = want
      /\ t.op = "read" /\ want = -1 => had = -1
      /\ t.op = "read" /\ want # -1 => had = want - d /\ size <= had
  BY <1>2, <1>3, <1>4
<1>9. /\ want # -1 => d + p <= want
      /\ t.op = "read" /\ want # -1 => left = want - (d + p) /\ left >= 0
      /\ t.op = "read" /\ want = -1 => left = -1
      /\ t.op = "read_bytes" => d + p = p /\ want = size
  BY <1>1, <1>8
<1>5. Inner(t) <=>
      \/ t.op = "read_bytes" /\ Returns([t EXCEPT !.data = t.moved], "data")
      \/ t.op = "read" /\ (t.part = <<>> \/ left = 0) /\ Returns([t EXCEPT !.data = t.moved], "data")
      \/ /\ t.op = "read" /\ t.part # <<>> /\ left # 0
         /\ transfer' = [t EXCEPT !.data = t.moved, !.left = left, !.part = <<>>,
                                  !.size = IF left = -1 THEN BufferSize ELSE Least({left, BufferSize})]
  BY <1>3 DEF Inner
<1>6. CASE /\ t.op = "read_bytes" \/ (t.op = "read" /\ (t.part = <<>> \/ left = 0))
           /\ Returns([t EXCEPT !.data = t.moved], "data")
  <2>1. transfer' = [t EXCEPT !.data = t.moved, !.at = "return", !.result = "data"]
    BY <1>6 DEF Returns, TransferRecords
  <2>2. /\ transfer' \in TransferRecords /\ transfer'.op = t.op /\ transfer'.of = t.of
        /\ transfer'.want = t.want /\ transfer'.start = t.start /\ transfer'.moved = t.moved
        /\ transfer'.data = t.moved /\ transfer'.at = "return"
    BY <1>1, <2>1 DEF TransferRecords
  <2>3. ReadingCounts'
    BY <1>4, <1>8, <1>9, <2>2 DEF ReadingCounts
  <2>4. t.part = <<>> \/ p < size \/ (want # -1 /\ d + p = want)
    BY <1>6, <1>8, <1>9
  <2> QED
    BY <1>4, <1>8, <2>2, <2>3, <2>4
<1>7. CASE /\ t.op = "read" /\ t.part # <<>> /\ left # 0
           /\ transfer' = [t EXCEPT !.data = t.moved, !.left = left, !.part = <<>>,
                                    !.size = IF left = -1 THEN BufferSize ELSE Least({left, BufferSize})]
  <2>1. BufferSize \in Nat \ {0} /\ <<>> \in Bytes
    BY FilesAssumption DEF Bytes
  <2>2. PICK next \in Nat : /\ next = IF left = -1 THEN BufferSize ELSE Least({left, BufferSize})
                            /\ next > 0 /\ (left = -1 => next = BufferSize) /\ (left # -1 => next <= left)
    <3>1. left = -1 \/ left > 0
      BY <1>7, <1>9
    <3>2. Least({left, BufferSize}) = IF left <= BufferSize THEN left ELSE BufferSize
      BY <2>1, LeastOfTwo
    <3> QED
      BY <2>1, <3>1, <3>2
  <2>3. transfer' = [t EXCEPT !.data = t.moved, !.left = left, !.part = <<>>, !.size = next]
    BY <1>7, <2>2
  <2>4. /\ transfer' \in TransferRecords /\ transfer'.op = t.op /\ transfer'.of = t.of
        /\ transfer'.want = t.want /\ transfer'.start = t.start /\ transfer'.moved = t.moved
        /\ transfer'.data = t.moved /\ transfer'.at = "call" /\ transfer'.part = <<>>
        /\ transfer'.left = left /\ transfer'.size = next
    BY <1>1, <2>1, <2>3 DEF TransferRecords
  <2>5. (left = -1 <=> want = -1) /\ Len(<<>>) = 0
    BY <1>7, <1>9
  <2>6. /\ want = -1 => left = -1 /\ next = BufferSize
        /\ want # -1 => left = want - (d + p) /\ next <= left
    BY <1>7, <1>9, <2>2, <2>5
  <2>7. /\ transfer'.want \in Nat \cup {-1} /\ transfer'.moved = transfer'.data \o transfer'.part
        /\ Len(transfer'.part) < transfer'.size
    BY <1>2, <1>4, <1>8, <2>2, <2>4, <2>5
  <2>8. transfer'.want # -1 => /\ transfer'.left = transfer'.want - Len(transfer'.data)
                               /\ transfer'.size <= transfer'.left /\ transfer'.size # 0
    <3>1. transfer'.want = want /\ transfer'.left = left /\ Len(transfer'.data) = d + p /\ transfer'.size = next
      BY <1>4, <1>8, <2>4
    <3>2. next # 0
      BY <2>2
    <3> QED
      BY <2>6, <3>1, <3>2
  <2>9. transfer'.want = -1 => transfer'.left = -1 /\ transfer'.size = BufferSize
    BY <1>4, <2>4, <2>6
  <2>10. ReadingCounts'
    BY <1>7, <2>4, <2>7, <2>8, <2>9 DEF ReadingCounts
  <2> QED
    BY <2>4, <2>10
<1> QED
  BY <1>5, <1>6, <1>7

LEMMA EndsStep == ASSUME FilesAreRight, Ends PROVE FilesAreRight'
<1>1. /\ transfer.op \in {"read", "read_bytes"} /\ transfer.at = "call"
      /\ table[Number(transfer)] # Closed /\ Available(transfer) = <<>>
      /\ IF transfer.size = 0
         THEN Returns(transfer, IF transfer.op = "read" THEN "NULL" ELSE "data")
         ELSE /\ transfer.of = "pipe" => ~Held("writing")
              /\ Inner(transfer)
      /\ UNCHANGED <<table, contents, file, pipe, task, child, calls, failures>>
  BY DEF Ends
<1>2. /\ transfer \in TransferRecords /\ transfer.of \in {"file", "pipe"} /\ transfer.size \in Nat
      /\ transfer.part \in Bytes /\ transfer.data \in Bytes /\ transfer.moved \in Bytes
      /\ failures \in Nat /\ transfer.want \in Int /\ transfer.op # "write"
  BY <1>1, ObjectTypes DEF FilesAreRight, FilesTypeOK, TransferRecords
<1>3. Number(transfer) \in Numbers
  BY <1>1, <1>2, ObjectTypes DEF FilesAreRight, TransferHas, Number, FileRecords, PipeRecords
<1>4. transfer.of = "file" => table[file.fd] # Closed
  BY <1>1 DEF Number
<1>5. ReadingCounts /\ ReadIsThere
  BY DEF FilesAreRight
<1>6. /\ transfer.want \in Nat \cup {-1} /\ (transfer.want = -1 => transfer.op = "read")
      /\ transfer.moved = transfer.data \o transfer.part
      /\ Len(transfer.part) < transfer.size \/ (transfer.size = 0 /\ transfer.part = <<>>)
      /\ transfer.op = "read_bytes" => transfer.data = <<>> /\ transfer.size = transfer.want
      /\ transfer.op = "read" /\ transfer.want = -1 => transfer.left = -1 /\ transfer.size = BufferSize
      /\ transfer.op = "read" /\ transfer.want # -1 =>
             transfer.left = transfer.want - Len(transfer.data) /\ transfer.size <= transfer.left
  BY <1>1, <1>5, Zenon DEF ReadingCounts
<1>7. CASE transfer.size = 0
  <2>1. PICK result \in {"NULL", "data"} :
            /\ result = (IF transfer.op = "read" THEN "NULL" ELSE "data")
            /\ transfer' = [transfer EXCEPT !.at = "return", !.result = result]
    BY <1>1, <1>7 DEF Returns
  <2>2. /\ transfer' \in TransferRecords /\ transfer'.at = "return" /\ transfer'.result = result
        /\ transfer'.op = transfer.op /\ transfer'.of = transfer.of /\ transfer'.want = transfer.want
        /\ transfer'.start = transfer.start /\ transfer'.moved = transfer.moved /\ transfer'.data = transfer.data
    BY <1>2, <2>1 DEF TransferRecords
  <2>3. result = "data" => /\ transfer.op = "read_bytes" /\ transfer.want = 0
                           /\ transfer.data = <<>> /\ transfer.moved = <<>> /\ Len(<<>>) = 0
    <3>1. <<>> \o <<>> = <<>> /\ Len(<<>>) = 0
      BY ConcatEmptySeq, EmptySeq
    <3> QED
      BY <1>1, <1>2, <1>6, <1>7, <2>1, <3>1
  <2>4. ReadingCounts'
    <3>1. /\ transfer'.want \in Nat \cup {-1} /\ (transfer'.want = -1 => transfer'.op = "read")
          /\ transfer'.at # "call"
      BY <1>6, <2>2
    <3>2. transfer'.result = "data" => transfer'.data = transfer'.moved /\ Len(transfer'.moved) <= transfer'.want
      BY <2>2, <2>3
    <3> QED
      BY <3>1, <3>2 DEF ReadingCounts
  <2>5. ReadIsThere'
    BY <1>1, <1>5, <2>2, <2>3 DEF ReadIsThere
  <2>6. EndIsEnd' /\ WrittenIsThere'
    BY <1>1, <2>2, <2>3 DEF EndIsEnd, WrittenIsThere
  <2> QED
    BY <1>1, <1>2, <1>4, <2>2, <2>4, <2>5, <2>6, CallGoes
<1>8. CASE transfer.size # 0
  <2>1. Inner(transfer) /\ transfer.size > 0 /\ Len(transfer.part) <= transfer.size
        /\ (transfer.of = "pipe" => ~Held("writing"))
    <3>1. Len(transfer.part) \in Nat
      BY <1>2 DEF Bytes
    <3> QED
      BY <1>1, <1>2, <1>6, <1>8, <3>1
  <2>2. /\ transfer' \in TransferRecords /\ transfer'.op = transfer.op /\ transfer'.of = transfer.of
        /\ transfer'.want = transfer.want /\ transfer'.start = transfer.start /\ transfer'.moved = transfer.moved
        /\ ReadingCounts'
    BY <1>1, <1>2, <1>6, <2>1, InnerReturns
  <2>3. ASSUME transfer.of = "file"
        PROVE  /\ table[file.fd].at \in Nat /\ transfer.start \in Nat /\ Len(transfer.moved) \in Nat
               /\ table[file.fd].at >= Len(contents[file.of])
    <3>1. OpenFile
      BY <1>1, <2>3, ObjectTypes DEF FilesAreRight, TransferHas, OpenFile
    <3>2. table[file.fd].at \in Nat
      BY <1>4, <2>3, <3>1, OpenFileIs DEF Entries
    <3>3. table[file.fd].at >= Len(contents[file.of])
      BY <1>1, <1>3, <2>1, <2>3, AvailableToRead
    <3>4. transfer.start \in Nat /\ Len(transfer.moved) \in Nat
      BY <1>2 DEF TransferRecords, Bytes
    <3> QED
      BY <3>2, <3>3, <3>4
  <2>4. ReadIsThere'
    <3> SUFFICES ASSUME transfer.of = "file", table[file.fd] # Closed, ~table[file.fd].append
                 PROVE  /\ table[file.fd].at = transfer.start + Len(transfer.moved)
                        /\ \A i \in 1 .. Len(transfer.moved) :
                               /\ transfer.start + i <= Len(contents[file.of])
                               /\ transfer.moved[i] = contents[file.of][transfer.start + i]
                        /\ transfer.start + Len(transfer.moved) >= Len(contents[file.of])
      BY <1>1, <2>2, Zenon DEF ReadIsThere
    <3>1. /\ table[file.fd].at = transfer.start + Len(transfer.moved)
          /\ \A i \in 1 .. Len(transfer.moved) :
                 /\ transfer.start + i <= Len(contents[file.of])
                 /\ transfer.moved[i] = contents[file.of][transfer.start + i]
      BY <1>1, <1>5, Zenon DEF ReadIsThere
    <3> QED
      BY <2>3, <3>1
  <2>5. EndIsEnd'
    <3>1. UNCHANGED Held("writing")
      BY <1>1 DEF Held
    <3> QED
      BY <2>1, <2>2, <3>1 DEF EndIsEnd
  <2>6. WrittenIsThere'
    BY <1>1, <2>2 DEF WrittenIsThere
  <2> QED
    BY <1>1, <1>2, <1>4, <2>2, <2>4, <2>5, <2>6, CallGoes
<1> QED
  BY <1>7, <1>8

-----------------------------------------------------------------------------
(* Moving bytes *)

\* A step of a read or a write, as what it moves.
Moved(n, bytes, t, at) ==
    /\ bytes = SubSeq(Available(transfer), 1, n)
    /\ t = [transfer EXCEPT !.moved = transfer.moved \o bytes,
                            !.part = IF transfer.op = "write" THEN transfer.part
                                     ELSE transfer.part \o bytes]
    /\ at = IF table[Number(t)].append /\ t.op = "write" THEN Len(contents[file.of]) ELSE table[Number(t)].at
    /\ IF t.of = "pipe"
       THEN /\ contents' = [contents EXCEPT !.pipe = IF t.op = "write" THEN contents.pipe \o bytes
                                                     ELSE SubSeq(contents.pipe, n + 1, Len(contents.pipe))]
            /\ UNCHANGED <<table, file>>
       ELSE /\ contents' = IF t.op = "write"
                           THEN [contents EXCEPT ![file.of] = Overwritten(contents[file.of], at, bytes)]
                           ELSE contents
            /\ table' = [table EXCEPT ![Number(t)].at = at + n]
            /\ file' = [file EXCEPT !.offset = file.offset + n]
    /\ IF t.op = "write" /\ Len(t.moved) = Len(t.data) THEN Returns(t, "data")
       ELSE IF t.op # "write" /\ Len(t.part) = t.size THEN Inner(t)
       ELSE transfer' = t

LEMMA MovesIs ==
    ASSUME FilesAreRight, Moves
    PROVE  \E n \in 1 .. Len(Available(transfer)) : \E bytes, t, at : Moved(n, bytes, t, at)
<1> DEFINE b(n) == SubSeq(Available(transfer), 1, n)
           u(n) == [transfer EXCEPT !.moved = transfer.moved \o b(n),
                                    !.part = IF transfer.op = "write" THEN transfer.part
                                             ELSE transfer.part \o b(n)]
           at(n) == IF table[Number(u(n))].append /\ u(n).op = "write" THEN Len(contents[file.of])
                    ELSE table[Number(u(n))].at
<1>1. PICK n \in 1 .. Len(Available(transfer)) :
               /\ IF u(n).of = "pipe"
                  THEN /\ contents' = [contents EXCEPT !.pipe = IF u(n).op = "write" THEN contents.pipe \o b(n)
                                                                ELSE SubSeq(contents.pipe, n + 1, Len(contents.pipe))]
                       /\ UNCHANGED <<table, file>>
                  ELSE /\ contents' = IF u(n).op = "write"
                                      THEN [contents EXCEPT ![file.of] = Overwritten(contents[file.of], at(n), b(n))]
                                      ELSE contents
                       /\ table' = [table EXCEPT ![Number(u(n))].at = at(n) + n]
                       /\ file' = [file EXCEPT !.offset = file.offset + n]
               /\ IF u(n).op = "write" /\ Len(u(n).moved) = Len(u(n).data) THEN Returns(u(n), "data")
                  ELSE IF u(n).op # "write" /\ Len(u(n).part) = u(n).size THEN Inner(u(n))
                  ELSE transfer' = u(n)
  BY Zenon DEF Moves
<1>2. PICK bytes, t, a : bytes = b(n) /\ t = u(n) /\ a = at(n)
  OBVIOUS
<1> HIDE DEF b, u, at
<1>3. Moved(n, bytes, t, a)
  BY <1>1, <1>2, Zenon DEF Moved, b, u, at
<1> QED
  BY <1>3

\* What does not depend on what is moved.
Along(n, bytes, t) ==
    /\ UNCHANGED <<pipe, task, child, calls, failures>>
    /\ transfer \in TransferRecords
    /\ n \in Nat \ {0} /\ bytes \in Bytes /\ Len(bytes) = n
    /\ \A i \in 1 .. n : bytes[i] = Available(transfer)[i]
    /\ t \in TransferRecords /\ t.op = transfer.op /\ t.of = transfer.of /\ t.left = transfer.left
    /\ t.want = transfer.want /\ t.data = transfer.data /\ t.at = "call" /\ t.size = transfer.size
    /\ t.start = transfer.start /\ t.moved = transfer.moved \o bytes
    /\ t.part = IF transfer.op = "write" THEN transfer.part ELSE transfer.part \o bytes
    /\ Number(t) = Number(transfer)
    /\ Len(t.moved) = Len(transfer.moved) + n /\ Len(transfer.moved) \in Nat
    /\ \A i \in 1 .. Len(transfer.moved) : t.moved[i] = transfer.moved[i]
    /\ \A i \in 1 .. n : t.moved[Len(transfer.moved) + i] = bytes[i]

LEMMA MovedIs ==
    ASSUME FilesAreRight, Moves, NEW n \in 1 .. Len(Available(transfer)), NEW bytes, NEW t, NEW at,
           Moved(n, bytes, t, at), Available(transfer) \in Bytes
    PROVE  Along(n, bytes, t)
<1>1. /\ transfer.at = "call" /\ Number(transfer) \in Numbers /\ table[Number(transfer)] # Closed
      /\ UNCHANGED <<pipe, task, child, calls, failures>> /\ transfer.op # "none"
  BY DEF Moves
<1>2. transfer \in TransferRecords
  BY <1>1, ObjectTypes DEF FilesAreRight
<1>3. n \in Nat \ {0} /\ n <= Len(Available(transfer))
  BY DEF Bytes
<1>4. /\ bytes \in Bytes /\ Len(bytes) = n /\ \A i \in 1 .. n : bytes[i] = Available(transfer)[i]
  <2>1. bytes = SubSeq(Available(transfer), 1, n)
    BY DEF Moved
  <2>2. /\ SubSeq(Available(transfer), 1, n) \in Bytes /\ Len(SubSeq(Available(transfer), 1, n)) = n
        /\ \A i \in 1 .. n : SubSeq(Available(transfer), 1, n)[i] = Available(transfer)[i]
    BY <1>3, FrontOf
  <2> QED
    BY <2>1, <2>2
<1>5. transfer.moved \in Bytes /\ transfer.part \in Bytes
  BY <1>2 DEF TransferRecords
<1>6. PICK moved \in Bytes : /\ moved = transfer.moved \o bytes /\ Len(moved) = Len(transfer.moved) + n
                             /\ \A i \in 1 .. Len(transfer.moved) : moved[i] = transfer.moved[i]
                             /\ \A i \in 1 .. n : moved[Len(transfer.moved) + i] = bytes[i]
  <2>1. /\ transfer.moved \o bytes \in Bytes /\ Len(transfer.moved \o bytes) = Len(transfer.moved) + Len(bytes)
        /\ \A i \in 1 .. Len(transfer.moved) : (transfer.moved \o bytes)[i] = transfer.moved[i]
        /\ \A i \in 1 .. Len(bytes) : (transfer.moved \o bytes)[Len(transfer.moved) + i] = bytes[i]
    BY <1>4, <1>5, JoinedBytes
  <2> QED
    BY <1>4, <2>1
<1>7. PICK part \in Bytes : part = IF transfer.op = "write" THEN transfer.part ELSE transfer.part \o bytes
  BY <1>4, <1>5, JoinedBytes
<1>8. t = [transfer EXCEPT !.moved = moved, !.part = part]
  BY <1>6, <1>7, Zenon DEF Moved
<1>9. /\ t \in TransferRecords /\ t.op = transfer.op /\ t.of = transfer.of /\ t.left = transfer.left
      /\ t.want = transfer.want /\ t.data = transfer.data /\ t.at = transfer.at /\ t.size = transfer.size
      /\ t.start = transfer.start /\ t.moved = moved /\ t.part = part
  BY <1>2, <1>8 DEF TransferRecords
<1>10. Number(t) = Number(transfer)
  BY <1>9 DEF Number
<1>11. Len(transfer.moved) \in Nat
  BY <1>5 DEF Bytes
<1> QED
  BY <1>1, <1>2, <1>3, <1>4, <1>6, <1>7, <1>9, <1>10, <1>11 DEF Along

LEMMA ReadsStep ==
    ASSUME FilesAreRight, Moves, transfer.op \in {"read", "read_bytes"}
    PROVE  FilesAreRight'
<1>1. transfer.at = "call" /\ Number(transfer) \in Numbers /\ table[Number(transfer)] # Closed
  BY DEF Moves
<1>2. /\ Available(transfer) \in Bytes
      /\ Len(transfer.part) + Len(Available(transfer)) <= transfer.size
      /\ transfer.of = "file" =>
             \A i \in 1 .. Len(Available(transfer)) :
                 /\ table[file.fd].at + i <= Len(contents[file.of])
                 /\ Available(transfer)[i] = contents[file.of][table[file.fd].at + i]
  BY <1>1, AvailableToRead
<1>3. PICK n \in 1 .. Len(Available(transfer)) : \E bytes, t, at : Moved(n, bytes, t, at)
  BY MovesIs
<1>4. PICK bytes, t, at : Moved(n, bytes, t, at)
  BY <1>3
<1>5. /\ UNCHANGED <<pipe, task, child, calls, failures>>
      /\ transfer \in TransferRecords
      /\ n \in Nat \ {0} /\ bytes \in Bytes /\ Len(bytes) = n
      /\ \A i \in 1 .. n : bytes[i] = Available(transfer)[i]
      /\ t \in TransferRecords /\ t.op = transfer.op /\ t.of = transfer.of /\ t.left = transfer.left
      /\ t.want = transfer.want /\ t.data = transfer.data /\ t.at = "call" /\ t.size = transfer.size
      /\ t.start = transfer.start /\ t.moved = transfer.moved \o bytes
      /\ t.part = transfer.part \o bytes /\ Number(t) = Number(transfer)
      /\ Len(t.moved) = Len(transfer.moved) + n /\ Len(transfer.moved) \in Nat
      /\ \A i \in 1 .. Len(transfer.moved) : t.moved[i] = transfer.moved[i]
      /\ \A i \in 1 .. n : t.moved[Len(transfer.moved) + i] = bytes[i]
  <2>1. Along(n, bytes, t)
    BY <1>2, <1>4, MovedIs
  <2>2. transfer.op # "write"
    OBVIOUS
  <2> QED
    BY <2>1, <2>2 DEF Along
<1>6. ReadingCounts /\ ReadIsThere
  BY DEF FilesAreRight
<1>7. /\ transfer.want \in Nat \cup {-1} /\ (transfer.want = -1 => transfer.op = "read")
      /\ transfer.moved = transfer.data \o transfer.part
      /\ Len(transfer.part) < transfer.size \/ (transfer.size = 0 /\ transfer.part = <<>>)
      /\ transfer.op = "read_bytes" => transfer.data = <<>> /\ transfer.size = transfer.want
      /\ transfer.op = "read" /\ transfer.want = -1 => transfer.left = -1 /\ transfer.size = BufferSize
      /\ transfer.op = "read" /\ transfer.want # -1 =>
             /\ transfer.left = transfer.want - Len(transfer.data) /\ transfer.size <= transfer.left
             /\ transfer.size = 0 => transfer.want = 0
  BY <1>1, <1>6, Zenon DEF ReadingCounts
<1>8. /\ transfer.moved \in Bytes /\ transfer.data \in Bytes /\ transfer.part \in Bytes
      /\ transfer.size \in Nat /\ transfer.of \in {"file", "pipe"} /\ transfer.start \in Nat
  BY <1>5 DEF TransferRecords
<1>9. t.moved = t.data \o t.part
  <2>1. (transfer.data \o transfer.part) \o bytes = transfer.data \o (transfer.part \o bytes)
    BY <1>5, <1>8, JoinedThrice
  <2> QED
    BY <1>5, <1>7, <2>1
<1>10. /\ Len(t.part) = Len(transfer.part) + n /\ Len(t.part) <= t.size /\ t.size > 0
       /\ Len(t.part) \in Nat /\ t.part # <<>> /\ t.size \in Nat
  <2>1. Len(t.part) = Len(transfer.part) + n /\ Len(transfer.part) \in Nat
    <3>1. Len(transfer.part \o bytes) = Len(transfer.part) + Len(bytes)
      BY <1>5, <1>8, JoinedBytes
    <3>2. Len(transfer.part) \in Nat
      BY <1>8 DEF Bytes
    <3> QED
      BY <1>5, <3>1, <3>2
  <2>2. PICK p \in Nat, a \in Nat, size \in Nat :
            p = Len(transfer.part) /\ a = Len(Available(transfer)) /\ size = transfer.size
    BY <1>2, <1>8, <2>1 DEF Bytes
  <2>3. n <= a /\ p + a <= size /\ p + n <= size /\ size > 0 /\ p + n > 0
    BY <1>2, <1>5, <2>2
  <2>4. t.part = <<>> => Len(t.part) = 0
    OBVIOUS
  <2> QED
    BY <1>5, <1>8, <2>1, <2>2, <2>3, <2>4
<1>11. /\ transfer' \in TransferRecords /\ transfer'.op = transfer.op /\ transfer'.of = transfer.of
       /\ transfer'.want = transfer.want /\ transfer'.start = transfer.start /\ transfer'.moved = t.moved
       /\ ReadingCounts'
       /\ transfer'.at = "return" => transfer.want # -1 /\ Len(t.moved) = transfer.want
  <2>1. CASE Len(t.part) = t.size
    <3>1. Inner(t)
      BY <1>4, <1>5, <2>1 DEF Moved
    <3>2. /\ t \in TransferRecords /\ t.op \in {"read", "read_bytes"} /\ t.at = "call"
          /\ t.moved = t.data \o t.part /\ t.want \in Nat \cup {-1} /\ (t.want = -1 => t.op = "read")
          /\ Len(t.part) <= t.size /\ t.size > 0
          /\ t.op = "read_bytes" => t.data = <<>> /\ t.size = t.want
          /\ t.op = "read" /\ t.want = -1 => t.left = -1 /\ t.size = BufferSize
          /\ t.op = "read" /\ t.want # -1 => t.left = t.want - Len(t.data) /\ t.size <= t.left
      BY <1>5, <1>7, <1>9, <1>10
    <3>3. /\ transfer' \in TransferRecords /\ transfer'.op = t.op /\ transfer'.of = t.of
          /\ transfer'.want = t.want /\ transfer'.start = t.start /\ transfer'.moved = t.moved
          /\ ReadingCounts'
          /\ transfer'.at = "return" =>
                 t.part = <<>> \/ Len(t.part) < t.size \/ (t.want # -1 /\ Len(t.moved) = t.want)
      BY <3>1, <3>2, InnerReturns, Zenon
    <3>4. ~(Len(t.part) < t.size)
      BY <1>10, <2>1
    <3> QED
      BY <1>5, <1>10, <3>3, <3>4
  <2>2. CASE Len(t.part) # t.size
    <3>1. transfer' = t
      BY <1>4, <1>5, <2>2 DEF Moved
    <3>2. Len(t.part) < t.size
      BY <1>10, <2>2
    <3>3. t.size # 0
      BY <1>10
    <3>4. ReadingCounts'
      BY <1>5, <1>7, <1>9, <3>1, <3>2, <3>3 DEF ReadingCounts
    <3> QED
      BY <1>5, <3>1, <3>4
  <2> QED
    BY <2>1, <2>2
<1>12. EndIsEnd' /\ WrittenIsThere'
  <2>1. transfer'.at = "return" => ~(transfer'.want = -1 \/ Len(transfer'.moved) < transfer'.want)
    <3>1. Len(t.moved) \in Nat
      BY <1>5
    <3> QED
      BY <1>11, <3>1
  <2> QED
    BY <1>11, <2>1 DEF EndIsEnd, WrittenIsThere
<1>13. CASE transfer.of = "pipe"
  <2>1. /\ contents' = [contents EXCEPT !.pipe = SubSeq(contents.pipe, n + 1, Len(contents.pipe))]
        /\ UNCHANGED <<table, file>>
    BY <1>4, <1>5, <1>13 DEF Moved
  <2>2. contents \in [disk : Bytes, temporary : Bytes, pipe : Bytes]
    BY DEF FilesAreRight, FilesTypeOK
  <2>3. PICK rest \in Bytes : rest = SubSeq(contents.pipe, n + 1, Len(contents.pipe))
    <3>1. contents.pipe \in Bytes /\ n \in Nat
      BY <1>5, <2>2
    <3> QED
      BY <3>1, RestOf
  <2>4. contents' \in [disk : Bytes, temporary : Bytes, pipe : Bytes]
    BY <2>1, <2>2, <2>3
  <2>5. FilesTypeOK'
    BY <1>5, <1>11, <2>1, <2>4 DEF FilesAreRight, FilesTypeOK
  <2>6. TransferHas' /\ ReadIsThere'
    BY <1>5, <1>11, <1>13, <2>1 DEF FilesAreRight, TransferHas, ReadIsThere, HasPipe
  <2> QED
    BY <1>5, <1>11, <1>12, <2>1, <2>5, <2>6, ObjectsStay DEF FilesAreRight
<1>14. CASE transfer.of = "file"
  <2>1. OpenFile /\ Number(transfer) = file.fd
    BY <1>5, <1>14 DEF FilesAreRight, TransferHas, OpenFile, Number, TransferRecords
  <2>2. PICK o \in Nat, a \in Nat, l \in Nat, start \in Nat, all \in Bytes, k \in Nat :
            /\ o = file.offset /\ a = table[file.fd].at /\ l = Len(transfer.moved) /\ start = transfer.start
            /\ all = contents[file.of] /\ k = Len(all)
    <3>1. file.offset \in Nat /\ table[file.fd].at \in Nat /\ contents[file.of] \in Bytes
      BY <1>1, <2>1, OpenFileIs DEF Entries, FileRecords
    <3> QED
      <4>1. \A s \in Bytes : Len(s) \in Nat
        BY DEF Bytes
      <4> QED
        BY <1>8, <3>1, <4>1
  <2>3. /\ contents' = contents /\ table' = [table EXCEPT ![file.fd].at = a + n]
        /\ file' = [file EXCEPT !.offset = o + n]
    <3>1. at = table[file.fd].at
      BY <1>4, <1>5, <2>1 DEF Moved
    <3>2. Number(t) = file.fd /\ at = a /\ file.offset = o /\ t.op # "write" /\ t.of # "pipe"
      BY <1>5, <1>14, <2>1, <2>2, <3>1
    <3> QED
      BY <1>4, <3>2, Zenon DEF Moved
  <2>4. a + n \in Nat /\ o + n \in Nat
    <3>1. n \in Nat /\ a \in Nat /\ o \in Nat
      BY <1>5
    <3> QED
      BY <3>1
  <2>5. /\ table' \in [Numbers -> Anything] /\ file' \in FileRecords
        /\ file'.fd = file.fd /\ file'.of = file.of /\ file'.offset = o + n
        /\ \A m \in Numbers : table'[m].to = table[m].to
        /\ table'[file.fd].at = a + n /\ table'[file.fd].append = table[file.fd].append
        /\ table'[file.fd] \in Entries
    BY <1>1, <1>5, <2>1, <2>3, <2>4, OffsetsMove
  <2>6. HasFile /\ HasFile' /\ table'[file.fd] # Closed
    BY <2>1, <2>5, NothingIsNoObject, EntryKinds DEF HasFile, OpenFile, Entries, Closed
  <2>7. FilesTypeOK'
    BY <1>5, <1>11, <2>3, <2>5 DEF FilesAreRight, FilesTypeOK
  <2>8. DescriptorsAreOwned'
    BY <1>5, <2>5, <2>6, <2>7, OwnersStay DEF FilesAreRight, HasTask
  <2>9. TaskHas'
    BY <1>5, <2>6 DEF FilesAreRight, TaskHas, HasTask, HasPipe
  <2>10. OffsetsAgree'
    <3>1. ~table[file.fd].append => a = o
      BY <1>1, <2>1, <2>2 DEF FilesAreRight, OffsetsAgree, OpenFile
    <3> QED
      BY <2>5, <3>1 DEF OffsetsAgree
  <2>11. TransferHas'
    BY <1>11, <1>14, <2>1, <2>5, <2>6 DEF TransferHas, OpenFile
  <2>12. ReadIsThere'
    <3> SUFFICES ASSUME ~table[file.fd].append
                 PROVE  /\ a + n = start + Len(t.moved)
                        /\ \A i \in 1 .. Len(t.moved) : start + i <= k /\ t.moved[i] = all[start + i]
      BY <1>11, <1>14, <2>2, <2>3, <2>5 DEF ReadIsThere
    <3>1. a = start + l /\ \A i \in 1 .. l : start + i <= k /\ transfer.moved[i] = all[start + i]
      BY <1>1, <1>6, <1>14, <2>1, <2>2, Zenon DEF ReadIsThere
    <3>2. Len(t.moved) = l + n
      BY <1>5, <2>2
    <3>3. ASSUME NEW i \in 1 .. l + n, i \notin 1 .. l
          PROVE  start + i <= k /\ t.moved[i] = all[start + i]
      <4>1. PICK j \in 1 .. n : i = l + j
        <5>1. i - l \in 1 .. n /\ i = l + (i - l)
          BY <1>5, <2>2, <3>3
        <5> QED
          BY <5>1
      <4>2. t.moved[i] = bytes[j] /\ bytes[j] = Available(transfer)[j]
        BY <1>5, <2>2, <4>1
      <4>3. j \in 1 .. Len(Available(transfer)) /\ j \in Nat
        BY <1>2, <1>5
      <4>4. a + j <= k /\ Available(transfer)[j] = all[a + j]
        BY <1>2, <1>14, <2>2, <4>3
      <4>5. a + j = start + i
        BY <3>1, <4>1, <4>3
      <4> QED
        BY <4>2, <4>4, <4>5
    <3>4. ASSUME NEW i \in 1 .. l PROVE start + i <= k /\ t.moved[i] = all[start + i]
      BY <1>5, <2>2, <3>1
    <3>5. a + n = start + (l + n)
      BY <1>5, <3>1
    <3> QED
      BY <3>2, <3>3, <3>4, <3>5
  <2> QED
    BY <1>11, <1>12, <2>7, <2>8, <2>9, <2>10, <2>11, <2>12 DEF FilesAreRight
<1> QED
  BY <1>8, <1>13, <1>14

LEMMA Zeros ==
    ASSUME NEW n \in Int
    PROVE  /\ [i \in 1 .. n |-> 0] \in Bytes
           /\ Len([i \in 1 .. n |-> 0]) = IF n > 0 THEN n ELSE 0
<1>1. PICK k \in Nat : k = IF n > 0 THEN n ELSE 0
  OBVIOUS
<1>2. 1 .. n = 1 .. k
  BY <1>1
<1>3. [i \in 1 .. k |-> 0] \in Seq(Nat) /\ Len([i \in 1 .. k |-> 0]) = k
  OBVIOUS
<1> QED
  BY <1>1, <1>2, <1>3 DEF Bytes

\* The file has what is written where it is written, and what it had before that.
LEMMA OverwrittenIs ==
    ASSUME NEW b \in Bytes, NEW at \in Nat, NEW d \in Bytes
    PROVE  /\ Overwritten(b, at, d) \in Bytes /\ at + Len(d) <= Len(Overwritten(b, at, d))
           /\ at >= Len(b) => Len(Overwritten(b, at, d)) = at + Len(d)
           /\ \A i \in 1 .. Len(d) : Overwritten(b, at, d)[at + i] = d[i]
           /\ \A i \in 1 .. at : i <= Len(b) => Overwritten(b, at, d)[i] = b[i]
<1>1. PICK k \in Nat, l \in Nat : k = Len(b) /\ l = Len(d)
  BY DEF Bytes
<1>2. PICK m \in Nat : m = Least({at, k}) /\ m = IF at <= k THEN at ELSE k
  <2>1. Least({at, k}) = IF at <= k THEN at ELSE k
    BY LeastOfTwo
  <2> QED
    BY <2>1
<1>3. PICK front \in Bytes : /\ front = SubSeq(b, 1, m) /\ Len(front) = m
                             /\ \A i \in 1 .. m : front[i] = b[i]
  <2>1. m <= Len(b)
    BY <1>1, <1>2
  <2>2. /\ SubSeq(b, 1, m) \in Bytes /\ Len(SubSeq(b, 1, m)) = m
        /\ \A i \in 1 .. m : SubSeq(b, 1, m)[i] = b[i]
    BY <2>1, FrontOf
  <2> QED
    BY <2>2
<1>4. PICK gap \in Bytes : gap = [i \in 1 .. at - k |-> 0] /\ Len(gap) = at - m
  <2>1. at - k \in Int
    OBVIOUS
  <2>2. /\ [i \in 1 .. at - k |-> 0] \in Bytes
        /\ Len([i \in 1 .. at - k |-> 0]) = IF at - k > 0 THEN at - k ELSE 0
    BY <2>1, Zeros
  <2>3. (IF at - k > 0 THEN at - k ELSE 0) = at - m
    BY <1>2
  <2> QED
    BY <2>2, <2>3
<1>5. PICK rest \in Bytes : /\ rest = SubSeq(b, at + l + 1, k)
                            /\ Len(rest) = IF at + l < k THEN k - (at + l) ELSE 0
  <2>1. at + l \in Nat
    OBVIOUS
  <2>2. /\ SubSeq(b, (at + l) + 1, Len(b)) \in Bytes
        /\ Len(SubSeq(b, (at + l) + 1, Len(b))) = IF at + l < Len(b) THEN Len(b) - (at + l) ELSE 0
    BY <2>1, RestOf
  <2> QED
    BY <1>1, <2>2
<1>6. PICK u \in Bytes : /\ u = front \o gap /\ Len(u) = at
                         /\ \A i \in 1 .. m : u[i] = b[i]
  <2>1. /\ front \o gap \in Bytes /\ Len(front \o gap) = Len(front) + Len(gap)
        /\ \A i \in 1 .. Len(front) : (front \o gap)[i] = front[i]
    BY JoinedBytes
  <2>2. m + (at - m) = at
    OBVIOUS
  <2> QED
    BY <1>3, <1>4, <2>1, <2>2, ZenonT(40)
<1>7. PICK v \in Bytes : /\ v = u \o d /\ Len(v) = at + l
                         /\ \A i \in 1 .. at : v[i] = u[i]
                         /\ \A i \in 1 .. l : v[at + i] = d[i]
  <2>1. /\ u \o d \in Bytes /\ Len(u \o d) = Len(u) + Len(d)
        /\ \A i \in 1 .. Len(u) : (u \o d)[i] = u[i]
        /\ \A i \in 1 .. Len(d) : (u \o d)[Len(u) + i] = d[i]
    BY JoinedBytes
  <2> QED
    BY <1>1, <1>6, <2>1
<1>8. PICK o \in Bytes : /\ o = v \o rest /\ Len(o) = at + l + Len(rest)
                         /\ \A i \in 1 .. at + l : o[i] = v[i]
  <2>1. /\ v \o rest \in Bytes /\ Len(v \o rest) = Len(v) + Len(rest)
        /\ \A i \in 1 .. Len(v) : (v \o rest)[i] = v[i]
    BY JoinedBytes
  <2> QED
    BY <1>7, <2>1
<1>9. Overwritten(b, at, d) = o
  BY <1>1, <1>2, <1>3, <1>4, <1>5, <1>6, <1>7, <1>8, Zenon DEF Overwritten
<1>10. \A i \in 1 .. l : o[at + i] = d[i]
  <2>1. \A i \in 1 .. l : at + i \in 1 .. at + l
    OBVIOUS
  <2> QED
    BY <1>7, <1>8, <2>1
<1>11. \A i \in 1 .. at : i <= k => o[i] = b[i]
  <2>1. \A i \in 1 .. at : i \in 1 .. at + l /\ (i <= k => i \in 1 .. m)
    BY <1>2
  <2> QED
    BY <1>6, <1>7, <1>8, <2>1
<1>12. at + l <= Len(o) /\ (at >= k => Len(o) = at + l)
  BY <1>5, <1>8
<1> QED
  BY <1>1, <1>9, <1>10, <1>11, <1>12

LEMMA AvailableToWrite ==
    ASSUME FilesAreRight, transfer.op = "write"
    PROVE  /\ Available(transfer) \in Bytes
           /\ Len(transfer.moved) + Len(Available(transfer)) <= Len(transfer.data)
           /\ \A i \in 1 .. Len(Available(transfer)) :
                  Available(transfer)[i] = transfer.data[Len(transfer.moved) + i]
<1>1. transfer \in TransferRecords /\ transfer.of \in {"file", "pipe"} /\ transfer.data \in Bytes /\ transfer.moved \in Bytes
  BY ObjectTypes DEF FilesAreRight, TransferRecords
<1>2. PICK data \in Bytes, m \in Nat, l \in Nat :
          data = transfer.data /\ m = Len(transfer.moved) /\ l = Len(data) /\ m <= l
  <2>1. Len(transfer.moved) \in Nat /\ Len(transfer.data) \in Nat
    BY <1>1 DEF Bytes
  <2>2. Len(transfer.moved) <= Len(transfer.data)
    BY DEF FilesAreRight, WrittenIsThere
  <2> QED
    BY <1>1, <2>1, <2>2
<1>3. CASE transfer.of = "file"
  <2>1. Available(transfer) = SubSeq(data, m + 1, l)
    BY <1>2, <1>3 DEF Available
  <2>2. /\ SubSeq(data, m + 1, Len(data)) \in Bytes
        /\ Len(SubSeq(data, m + 1, Len(data))) = IF m < Len(data) THEN Len(data) - m ELSE 0
        /\ \A i \in 1 .. Len(SubSeq(data, m + 1, Len(data))) : SubSeq(data, m + 1, Len(data))[i] = data[m + i]
    BY RestOf
  <2>3. PICK y \in Int : y = (IF m < l THEN l - m ELSE 0) /\ m + y <= l
    <3>1. CASE m < l
      <4>1. l - m \in Int /\ m + (l - m) <= l
        BY <1>2
      <4> QED
        BY <3>1, <4>1
    <3>2. CASE ~(m < l)
      BY <1>2, <3>2
    <3> QED
      BY <3>1, <3>2
  <2> QED
    BY <1>2, <2>1, <2>2, <2>3
<1>4. CASE transfer.of = "pipe"
  <2>1. l - m \in Int /\ PipeSize - Len(contents.pipe) \in Int
    <3>1. contents.pipe \in Bytes
      BY DEF FilesAreRight, FilesTypeOK
    <3> QED
      BY <3>1, FilesAssumption DEF Bytes
  <2>2. PICK x \in Int : x = Least({l - m, PipeSize - Len(contents.pipe)}) /\ x <= l - m
    <3>1. Least({l - m, PipeSize - Len(contents.pipe)}) =
              IF l - m <= PipeSize - Len(contents.pipe) THEN l - m ELSE PipeSize - Len(contents.pipe)
      BY <2>1, LeastOfTwo
    <3> QED
      BY <2>1, <3>1
  <2>3. Available(transfer) = SubSeq(data, m + 1, m + x)
    BY <1>2, <1>4, <2>2 DEF Available
  <2>4. m + 1 \in Nat \ {0} /\ m + x \in Int /\ m + x <= l
    BY <2>2
  <2>5. PICK part \in Bytes : /\ part = SubSeq(data, m + 1, m + x)
                              /\ Len(part) = IF m + 1 <= m + x THEN (m + x) - (m + 1) + 1 ELSE 0
                              /\ \A i \in 1 .. Len(part) : part[i] = data[m + 1 + i - 1]
    <3>1. /\ SubSeq(data, m + 1, m + x) \in Bytes
          /\ Len(SubSeq(data, m + 1, m + x)) = IF m + 1 <= m + x THEN (m + x) - (m + 1) + 1 ELSE 0
          /\ \A i \in 1 .. Len(SubSeq(data, m + 1, m + x)) : SubSeq(data, m + 1, m + x)[i] = data[m + 1 + i - 1]
      BY <1>2, <2>4, PartOf
    <3> QED
      BY <3>1
  <2>6. m + Len(part) <= l
    <3>1. CASE m + 1 <= m + x
      <4>1. m + ((m + x) - (m + 1) + 1) = m + x
        OBVIOUS
      <4> QED
        BY <2>4, <2>5, <3>1, <4>1
    <3>2. CASE ~(m + 1 <= m + x)
      BY <1>2, <2>5, <3>2
    <3> QED
      BY <3>1, <3>2
  <2>7. \A i \in 1 .. Len(part) : part[i] = data[m + i]
    <3>1. \A i \in Nat : m + 1 + i - 1 = m + i
      OBVIOUS
    <3>2. Len(part) \in Nat
      BY DEF Bytes
    <3> QED
      BY <2>5, <3>1, <3>2
  <2> QED
    BY <1>2, <2>3, <2>5, <2>6, <2>7
<1> QED
  BY <1>1, <1>3, <1>4

LEMMA WritesStep ==
    ASSUME FilesAreRight, Moves, transfer.op = "write"
    PROVE  FilesAreRight'
<1>1. transfer.at = "call" /\ Number(transfer) \in Numbers /\ table[Number(transfer)] # Closed
  BY DEF Moves
<1>2. /\ Available(transfer) \in Bytes
      /\ Len(transfer.moved) + Len(Available(transfer)) <= Len(transfer.data)
      /\ \A i \in 1 .. Len(Available(transfer)) :
             Available(transfer)[i] = transfer.data[Len(transfer.moved) + i]
  BY AvailableToWrite
<1>3. PICK n \in 1 .. Len(Available(transfer)) : \E bytes, t, at : Moved(n, bytes, t, at)
  BY MovesIs
<1>4. PICK bytes, t, at : Moved(n, bytes, t, at)
  BY <1>3
<1>5. /\ UNCHANGED <<pipe, task, child, calls, failures>>
      /\ transfer \in TransferRecords
      /\ n \in Nat \ {0} /\ bytes \in Bytes /\ Len(bytes) = n
      /\ \A i \in 1 .. n : bytes[i] = Available(transfer)[i]
      /\ t \in TransferRecords /\ t.op = "write" /\ t.of = transfer.of
      /\ t.want = transfer.want /\ t.data = transfer.data /\ t.at = "call"
      /\ t.start = transfer.start /\ Number(t) = Number(transfer)
      /\ Len(t.moved) = Len(transfer.moved) + n /\ Len(transfer.moved) \in Nat
      /\ \A i \in 1 .. Len(transfer.moved) : t.moved[i] = transfer.moved[i]
      /\ \A i \in 1 .. n : t.moved[Len(transfer.moved) + i] = bytes[i]
  <2>1. Along(n, bytes, t)
    BY <1>2, <1>4, MovedIs
  <2> QED
    BY <2>1 DEF Along
<1>6. transfer.of \in {"file", "pipe"} /\ transfer.data \in Bytes
  BY <1>5 DEF TransferRecords
<1>7. PICK l \in Nat, size \in Nat : l = Len(transfer.moved) /\ size = Len(transfer.data)
  <2>1. \A s \in Bytes : Len(s) \in Nat
    BY DEF Bytes
  <2> QED
    BY <1>5, <1>6, <2>1
<1>8. l + n <= size /\ n <= Len(Available(transfer))
  <2>1. PICK a \in Nat : a = Len(Available(transfer))
    BY <1>2 DEF Bytes
  <2>2. n <= a /\ l + a <= size
    BY <1>2, <1>7, <2>1
  <2>3. l + n <= size
    BY <1>5, <2>2
  <2> QED
    BY <2>1, <2>2, <2>3
<1>9. \A i \in 1 .. l + n : t.moved[i] = t.data[i]
  <2>1. ASSUME NEW i \in 1 .. l PROVE t.moved[i] = t.data[i]
    <3>1. transfer.moved[i] = transfer.data[i]
      BY <1>7 DEF FilesAreRight, WrittenIsThere
    <3> QED
      BY <1>5, <1>7, <3>1
  <2>2. ASSUME NEW j \in 1 .. n PROVE t.moved[l + j] = t.data[l + j]
    <3>1. j \in 1 .. Len(Available(transfer))
      BY <1>5, <1>8
    <3>2. bytes[j] = Available(transfer)[j] /\ Available(transfer)[j] = transfer.data[l + j]
      BY <1>2, <1>5, <1>7, <3>1
    <3> QED
      BY <1>5, <1>7, <3>2
  <2>3. ASSUME NEW i \in 1 .. l + n, i \notin 1 .. l PROVE t.moved[i] = t.data[i]
    <3>1. i - l \in 1 .. n /\ i = l + (i - l)
      BY <1>5, <2>3
    <3> QED
      BY <2>2, <3>1
  <2> QED
    BY <2>1, <2>3
<1>10. /\ transfer' \in TransferRecords /\ transfer'.op = "write" /\ transfer'.of = transfer.of
       /\ transfer'.moved = t.moved /\ transfer'.data = t.data
       /\ transfer'.at = "return" => l + n = size
  <2>1. CASE Len(t.moved) = Len(t.data)
    <3>1. transfer' = [t EXCEPT !.at = "return", !.result = "data"]
      BY <1>4, <1>5, <2>1 DEF Moved, Returns
    <3>2. /\ transfer' \in TransferRecords /\ transfer'.op = t.op /\ transfer'.of = t.of
          /\ transfer'.moved = t.moved /\ transfer'.data = t.data
      BY <1>5, <3>1 DEF TransferRecords
    <3> QED
      BY <1>5, <1>7, <2>1, <3>2
  <2>2. CASE Len(t.moved) # Len(t.data)
    <3>1. transfer' = t
      BY <1>4, <1>5, <2>2 DEF Moved
    <3> QED
      BY <1>5, <3>1
  <2> QED
    BY <2>1, <2>2
<1>11. ReadingCounts' /\ ReadIsThere' /\ EndIsEnd'
  BY <1>10 DEF ReadingCounts, ReadIsThere, EndIsEnd
<1>12. /\ Len(transfer'.moved) = l + n /\ Len(transfer'.data) = size /\ l + n <= size
       /\ \A i \in 1 .. l + n : transfer'.moved[i] = transfer'.data[i]
  BY <1>5, <1>7, <1>8, <1>9, <1>10
<1>13. CASE transfer.of = "pipe"
  <2>1. contents' = [contents EXCEPT !.pipe = contents.pipe \o bytes] /\ UNCHANGED <<table, file>>
    BY <1>4, <1>5, <1>13 DEF Moved
  <2>2. contents \in [disk : Bytes, temporary : Bytes, pipe : Bytes]
    BY DEF FilesAreRight, FilesTypeOK
  <2>3. PICK all \in Bytes : all = contents.pipe \o bytes
    <3>1. contents.pipe \in Bytes
      BY <2>2
    <3> QED
      BY <1>5, <3>1, JoinedBytes
  <2>4. contents' \in [disk : Bytes, temporary : Bytes, pipe : Bytes]
    BY <2>1, <2>2, <2>3
  <2>5. FilesTypeOK'
    BY <1>5, <1>10, <2>1, <2>4 DEF FilesAreRight, FilesTypeOK
  <2>6. TransferHas'
    BY <1>5, <1>10, <1>13, <2>1 DEF FilesAreRight, TransferHas, HasPipe
  <2>7. WrittenIsThere'
    BY <1>10, <1>12, <1>13 DEF WrittenIsThere
  <2> QED
    BY <1>5, <1>11, <2>1, <2>5, <2>6, <2>7, ObjectsStay DEF FilesAreRight
<1>14. CASE transfer.of = "file"
  <2>1. OpenFile /\ Number(transfer) = file.fd
    BY <1>14 DEF FilesAreRight, TransferHas, OpenFile, Number
  <2>2. PICK o \in Nat, a \in Nat, all \in Bytes, k \in Nat, append \in BOOLEAN :
            /\ o = file.offset /\ a = table[file.fd].at /\ all = contents[file.of] /\ k = Len(all)
            /\ append = table[file.fd].append
    <3>1. /\ file.offset \in Nat /\ table[file.fd].at \in Nat /\ contents[file.of] \in Bytes
          /\ table[file.fd].append \in BOOLEAN
      BY <1>1, <2>1, OpenFileIs DEF Entries, FileRecords
    <3>2. Len(contents[file.of]) \in Nat
      BY <3>1 DEF Bytes
    <3> QED
      BY <3>1, <3>2
  <2>3. PICK p \in Nat : p = at /\ p = IF append THEN k ELSE a
    BY <1>4, <1>5, <2>1, <2>2 DEF Moved
  <2>4. /\ contents' = [contents EXCEPT ![file.of] = Overwritten(all, p, bytes)]
        /\ table' = [table EXCEPT ![file.fd].at = p + n] /\ file' = [file EXCEPT !.offset = o + n]
    <3>1. Number(t) = file.fd /\ at = p /\ file.offset = o /\ t.op = "write" /\ t.of # "pipe"
          /\ all = contents[file.of]
      BY <1>5, <1>14, <2>1, <2>2, <2>3
    <3> QED
      BY <1>4, <3>1, Zenon DEF Moved
  <2>5. PICK after \in Bytes :
            /\ after = Overwritten(all, p, bytes)
            /\ p + n <= Len(after) /\ (p >= k => Len(after) = p + n)
            /\ \A i \in 1 .. n : after[p + i] = bytes[i]
            /\ \A i \in 1 .. p : i <= k => after[i] = all[i]
    <3>1. /\ Overwritten(all, p, bytes) \in Bytes /\ p + Len(bytes) <= Len(Overwritten(all, p, bytes))
          /\ p >= Len(all) => Len(Overwritten(all, p, bytes)) = p + Len(bytes)
          /\ \A i \in 1 .. Len(bytes) : Overwritten(all, p, bytes)[p + i] = bytes[i]
          /\ \A i \in 1 .. p : i <= Len(all) => Overwritten(all, p, bytes)[i] = all[i]
      BY <1>5, OverwrittenIs
    <3> QED
      BY <1>5, <2>2, <3>1
  <2>6. p + n \in Nat /\ o + n \in Nat
    BY <1>5
  <2>7. /\ table' \in [Numbers -> Anything] /\ file' \in FileRecords
        /\ file'.fd = file.fd /\ file'.of = file.of /\ file'.offset = o + n
        /\ \A m \in Numbers : table'[m].to = table[m].to
        /\ table'[file.fd].at = p + n /\ table'[file.fd].append = table[file.fd].append
        /\ table'[file.fd] \in Entries
    BY <1>1, <1>5, <2>1, <2>4, <2>6, OffsetsMove
  <2>8. HasFile /\ HasFile' /\ table'[file.fd] # Closed
    BY <2>1, <2>7, NothingIsNoObject, EntryKinds DEF HasFile, OpenFile, Entries, Closed
  <2>9. contents' \in [disk : Bytes, temporary : Bytes, pipe : Bytes] /\ contents'[file.of] = after
    <3>1. contents' = [contents EXCEPT ![file.of] = after] /\ file.of \in {"disk", "temporary"}
      BY <2>1, <2>4, <2>5, OpenFileIs
    <3>2. contents \in [disk : Bytes, temporary : Bytes, pipe : Bytes]
      BY DEF FilesAreRight, FilesTypeOK
    <3> QED
      BY <3>1, <3>2
  <2>10. FilesTypeOK'
    BY <1>5, <1>10, <2>7, <2>9 DEF FilesAreRight, FilesTypeOK
  <2>11. DescriptorsAreOwned'
    BY <1>5, <2>7, <2>8, <2>10, OwnersStay DEF FilesAreRight, HasTask
  <2>12. TaskHas'
    BY <1>5, <2>8 DEF FilesAreRight, TaskHas, HasTask, HasPipe
  <2>13. OffsetsAgree'
    <3>1. ~append => p = o
      BY <1>1, <2>1, <2>2, <2>3 DEF FilesAreRight, OffsetsAgree, OpenFile
    <3> QED
      BY <2>2, <2>7, <3>1 DEF OffsetsAgree
  <2>14. TransferHas'
    BY <1>10, <1>14, <2>1, <2>7, <2>8 DEF TransferHas, OpenFile
  <2>15. l > 0 => l <= a /\ a <= k /\ p = a /\ \A i \in 1 .. l : all[a - l + i] = transfer.moved[i]
    <3> SUFFICES ASSUME l > 0 PROVE l <= a /\ a <= k /\ p = a /\ \A i \in 1 .. l : all[a - l + i] = transfer.moved[i]
      OBVIOUS
    <3>1. WrittenIsThere
      BY DEF FilesAreRight
    <3>2. /\ l <= a /\ a <= k /\ (append => a = k)
          /\ \A i \in 1 .. l : all[a - l + i] = transfer.moved[i]
      BY <1>1, <1>7, <1>14, <2>1, <2>2, <3>1 DEF WrittenIsThere
    <3> QED
      BY <2>3, <3>2
  <2>16. ASSUME NEW i \in 1 .. l + n PROVE after[p + n - (l + n) + i] = t.moved[i]
    <3>1. CASE i \in 1 .. l
      <4>1. l > 0 /\ p + n - (l + n) + i = a - l + i /\ a - l + i \in 1 .. p /\ a - l + i <= k
        BY <1>5, <2>15, <3>1
      <4>2. PICK x \in Nat : x = a - l + i
        BY <4>1
      <4>3. after[x] = all[x] /\ all[x] = transfer.moved[i]
        BY <2>5, <2>15, <3>1, <4>1, <4>2
      <4>4. t.moved[i] = transfer.moved[i]
        BY <1>5, <1>7, <3>1
      <4> QED
        BY <4>1, <4>2, <4>3, <4>4
    <3>2. CASE i \notin 1 .. l
      <4>1. PICK j \in 1 .. n : i = l + j /\ p + n - (l + n) + i = p + j
        <5>1. i - l \in 1 .. n /\ i = l + (i - l) /\ p + n - (l + n) + i = p + (i - l)
          BY <1>5, <3>2, SMTT(30)
        <5> QED
          BY <5>1
      <4> QED
        BY <1>5, <1>7, <2>5, <4>1, ZenonT(40)
    <3> QED
      BY <3>1, <3>2
  <2>17. l + n <= p + n /\ (append => p + n = Len(after))
    <3>1. l <= p
      BY <2>15
    <3>2. append => p >= k
      BY <2>3
    <3> QED
      BY <1>5, <2>5, <3>1, <3>2
  <2>18. WrittenIsThere'
    <3>1. Number(transfer)' = file.fd
      BY <1>10, <1>14, <2>7 DEF Number
    <3>2. /\ table'[file.fd].at = p + n /\ table'[file.fd].append = append /\ contents'[file'.of] = after
          /\ transfer'.at = "return" => Len(transfer'.moved) = Len(transfer'.data)
      BY <1>10, <1>12, <2>2, <2>7, <2>9
    <3> QED
      BY <1>10, <1>12, <2>5, <2>16, <2>17, <3>1, <3>2 DEF WrittenIsThere
  <2> QED
    BY <1>11, <2>10, <2>11, <2>12, <2>13, <2>14, <2>18 DEF FilesAreRight
<1> QED
  BY <1>6, <1>13, <1>14

-----------------------------------------------------------------------------
(* Files: the theorems *)

LEMMA FilesStartRight == ASSUME FilesInit PROVE FilesAreRight
<1>1. FilesTypeOK
  <2>1. \A n \in Numbers : table[n] \in {Closed, StandardInput}
    BY DEF FilesInit
  <2>2. table \in [Numbers -> Anything]
    BY <2>1 DEF FilesInit, Anything
  <2>3. contents \in [disk : Bytes, temporary : Bytes, pipe : Bytes]
    BY DEF FilesInit, Bytes
  <2>4. child \in [is : {"none", "running", "zombie", "gone"}, in : Anything, out : Anything, wrote : Nat]
    BY DEF FilesInit, NoChild, Anything
  <2>5. /\ file \in {NoFile} /\ pipe \in {NoPipe} /\ task \in {NoTask} /\ transfer \in {Idle}
        /\ calls \in Nat /\ failures \in Nat
    BY DEF FilesInit
  <2> QED
    BY <2>2, <2>3, <2>4, <2>5 DEF FilesTypeOK
<1>2. ~HasFile /\ ~HasPipe /\ ~HasTask /\ transfer.op = "none"
  BY NothingIsNoObject DEF FilesInit, HasFile, HasPipe, HasTask
<1>3. DescriptorsAreOwned
  <2>1. \A n \in Numbers : table[n] \in {Closed, StandardInput}
    BY DEF FilesInit
  <2> QED
    BY <1>2, <2>1 DEF DescriptorsAreOwned
<1>4. TaskHas /\ OffsetsAgree
  BY <1>2 DEF TaskHas, OffsetsAgree
<1>5. TransferHas /\ ReadingCounts /\ ReadIsThere /\ EndIsEnd /\ WrittenIsThere
  BY <1>2 DEF TransferHas, ReadingCounts, ReadIsThere, EndIsEnd, WrittenIsThere
<1> QED
  BY <1>1, <1>3, <1>4, <1>5 DEF FilesAreRight

LEMMA MovesStep == ASSUME FilesAreRight, Moves PROVE FilesAreRight'
<1>1. transfer.op # "none"
  BY DEF Moves
<1>2. transfer.op \in {"read", "read_bytes", "write"}
  BY <1>1, ObjectTypes DEF FilesAreRight, TransferRecords
<1> QED
  BY <1>2, ReadsStep, WritesStep

LEMMA FilesStaysRight == ASSUME FilesAreRight, UNCHANGED filesVars PROVE FilesAreRight'
<1>1. UNCHANGED <<table, contents, file, pipe, task, child, transfer, calls, failures>>
  BY DEF filesVars
<1>2. FilesTypeOK'
  BY <1>1 DEF FilesAreRight, FilesTypeOK
<1>3. DescriptorsAreOwned' /\ TaskHas' /\ OffsetsAgree'
  BY <1>1, ObjectsStay
<1>4. TransferHas' /\ ReadingCounts'
  BY <1>1 DEF FilesAreRight, TransferHas, ReadingCounts, HasFile, HasPipe
<1>5. ReadIsThere' /\ EndIsEnd' /\ WrittenIsThere'
  BY <1>1 DEF FilesAreRight, ReadIsThere, EndIsEnd, Held, WrittenIsThere, Number
<1> QED
  BY <1>2, <1>3, <1>4, <1>5 DEF FilesAreRight

LEMMA FilesStepsKeep == ASSUME FilesAreRight, [FilesNext]_filesVars PROVE FilesAreRight'
<1>1. CASE InitWithPath \/ InitTemporaryFile \/ InitPipe \/ Close \/ Seek \/ Truncate
  BY <1>1, InitWithPathStep, InitTemporaryFileStep, InitPipeStep, CloseStep, SeekStep, TruncateStep
<1>2. CASE StartRead \/ StartWrite \/ Moves \/ Ends \/ Breaks \/ Done
  BY <1>2, StartReadStep, StartWriteStep, MovesStep, EndsStep, BreaksStep, DoneStep
<1>3. CASE InitTask \/ Launch \/ WaitUntilExit \/ DeallocTask
  BY <1>3, InitTaskStep, LaunchStep, WaitUntilExitStep, DeallocTaskStep
<1>4. CASE ChildReads \/ ChildWrites \/ ChildExits
  BY <1>4, ChildReadsStep, ChildWritesStep, ChildExitsStep
<1>5. CASE UNCHANGED filesVars
  BY <1>5, FilesStaysRight
<1> QED
  BY <1>1, <1>2, <1>3, <1>4, <1>5 DEF FilesNext

LEMMA SameBytes ==
    ASSUME NEW s \in Bytes, NEW t \in Bytes, Len(s) = Len(t), \A i \in 1 .. Len(s) : s[i] = t[i]
    PROVE  s = t
BY SeqEqual, Zenon DEF Bytes

\* What has been read from `from' on, up to what is wanted or to the end, is that part of it.
LEMMA ReadIsPart ==
    ASSUME NEW all \in Bytes, NEW from \in Nat, NEW got \in Bytes, NEW want \in Nat \cup {-1},
           \A i \in 1 .. Len(got) : from + i <= Len(all) /\ got[i] = all[from + i],
           want # -1 => Len(got) <= want,
           (want # -1 /\ Len(got) = want) \/ from + Len(got) >= Len(all)
    PROVE  LET rest == SubSeq(all, from + 1, Len(all)) IN
           got = IF want = -1 THEN rest ELSE SubSeq(rest, 1, Least({want, Len(rest)}))
<1>1. PICK k \in Nat, l \in Nat : k = Len(all) /\ l = Len(got)
  BY DEF Bytes
<1>2. PICK rest \in Bytes : /\ rest = SubSeq(all, from + 1, Len(all))
                            /\ Len(rest) = IF from < k THEN k - from ELSE 0
                            /\ \A i \in 1 .. Len(rest) : rest[i] = all[from + i]
  <2>1. /\ SubSeq(all, from + 1, Len(all)) \in Bytes
        /\ Len(SubSeq(all, from + 1, Len(all))) = IF from < Len(all) THEN Len(all) - from ELSE 0
        /\ \A i \in 1 .. Len(SubSeq(all, from + 1, Len(all))) :
               SubSeq(all, from + 1, Len(all))[i] = all[from + i]
    BY RestOf
  <2> QED
    BY <1>1, <2>1
<1>3. PICK r \in Nat : r = Len(rest) /\ r = IF from < k THEN k - from ELSE 0
  <2>1. PICK r \in Nat : r = Len(rest)
    BY DEF Bytes
  <2> QED
    BY <1>2, <2>1
<1>4. l <= r
  <2>1. CASE l = 0
    BY <2>1
  <2>2. CASE l > 0
    <3>1. l \in 1 .. l
      BY <2>2
    <3>2. from + l <= k
      BY <1>1, <3>1
    <3> QED
      BY <1>3, <2>2, <3>2
  <2> QED
    BY <2>1, <2>2
<1>5. \A i \in 1 .. l : got[i] = rest[i]
  BY <1>1, <1>2, <1>3, <1>4
<1>6. CASE want = -1
  <2>1. l = r
    BY <1>1, <1>3, <1>4, <1>6
  <2>2. got = rest
    BY <1>1, <1>3, <1>5, <2>1, SameBytes
  <2> QED
    BY <1>2, <1>6, <2>2
<1>7. CASE want # -1
  <2>1. PICK w \in Nat : w = want
    BY <1>7
  <2>2. Least({want, Len(rest)}) = IF w <= r THEN w ELSE r
    BY <1>3, <2>1, LeastOfTwo
  <2>3. l = IF w <= r THEN w ELSE r
    BY <1>1, <1>3, <1>4, <2>1
  <2>4. Least({want, Len(rest)}) = l
    BY <2>2, <2>3
  <2>5. PICK front \in Bytes : front = SubSeq(rest, 1, l) /\ Len(front) = l /\ \A i \in 1 .. l : front[i] = rest[i]
    <3>1. SubSeq(rest, 1, l) \in Bytes /\ Len(SubSeq(rest, 1, l)) = l
          /\ \A i \in 1 .. l : SubSeq(rest, 1, l)[i] = rest[i]
      BY <1>3, <1>4, FrontOf
    <3> QED
      BY <3>1
  <2>6. got = front
    BY <1>1, <1>5, <2>5, SameBytes
  <2> QED
    BY <1>2, <1>7, <2>4, <2>5, <2>6
<1> QED
  BY <1>6, <1>7

\* What has been written before the offset is that part of the file.
LEMMA WrittenIsPart ==
    ASSUME NEW all \in Bytes, NEW at \in Nat, NEW data \in Bytes,
           Len(data) > 0 => /\ Len(data) <= at /\ at <= Len(all)
                            /\ \A i \in 1 .. Len(data) : all[at - Len(data) + i] = data[i]
    PROVE  SubSeq(all, at - Len(data) + 1, at) = data
<1>1. PICK l \in Nat : l = Len(data)
  BY DEF Bytes
<1>2. CASE l = 0
  <2>1. at < at - l + 1 /\ at - l + 1 \in Int /\ at \in Int
    BY <1>2
  <2>2. SubSeq(all, at - l + 1, at) = <<>>
    BY <2>1, SubSeqEmpty
  <2>3. data = <<>>
    BY <1>1, <1>2, EmptySeq DEF Bytes
  <2> QED
    BY <1>1, <2>2, <2>3
<1>3. CASE l > 0
  <2>1. PICK m \in Nat \ {0} : m = at - l + 1
    <3>1. l <= at
      BY <1>1, <1>3
    <3> QED
      BY <3>1
  <2>2. at \in Int /\ at <= Len(all)
    BY <1>1, <1>3
  <2>3. PICK part \in Bytes : /\ part = SubSeq(all, m, at)
                              /\ Len(part) = IF m <= at THEN at - m + 1 ELSE 0
                              /\ \A i \in 1 .. Len(part) : part[i] = all[m + i - 1]
    <3>1. /\ SubSeq(all, m, at) \in Bytes /\ Len(SubSeq(all, m, at)) = IF m <= at THEN at - m + 1 ELSE 0
          /\ \A i \in 1 .. Len(SubSeq(all, m, at)) : SubSeq(all, m, at)[i] = all[m + i - 1]
      BY <2>2, PartOf
    <3> QED
      BY <3>1
  <2>4. Len(part) = l
    BY <1>3, <2>1, <2>3
  <2>5. ASSUME NEW i \in 1 .. l PROVE part[i] = data[i]
    <3>1. m + i - 1 = at - l + i
      BY <2>1
    <3>2. part[i] = all[m + i - 1] /\ all[at - l + i] = data[i]
      BY <1>1, <1>3, <2>3, <2>4
    <3> QED
      BY <3>1, <3>2
  <2>6. part = data
    BY <1>1, <2>4, <2>5, SameBytes
  <2> QED
    BY <1>1, <2>1, <2>3, <2>6
<1> QED
  BY <1>2, <1>3

LEMMA ReadsAreWhole ==
    ASSUME FilesAreRight, transfer.op \in {"read", "read_bytes"}, transfer.at = "return",
           transfer.result = "data"
    PROVE  /\ transfer.data = transfer.moved
           /\ transfer.of = "file" /\ ~table[file.fd].append =>
                  LET rest == SubSeq(contents[file.of], transfer.start + 1, Len(contents[file.of])) IN
                  transfer.data = IF transfer.want = -1 THEN rest
                                  ELSE SubSeq(rest, 1, Least({transfer.want, Len(rest)}))
           /\ transfer.of = "pipe" /\ (transfer.want = -1 \/ Len(transfer.data) < transfer.want) => ~Held("writing")
<1>1. /\ transfer.data = transfer.moved /\ transfer.want \in Nat \cup {-1}
      /\ transfer.want # -1 => Len(transfer.moved) <= transfer.want
  BY DEF FilesAreRight, ReadingCounts
<1>2. transfer.start \in Nat /\ transfer.moved \in Bytes
  BY ObjectTypes DEF FilesAreRight, TransferRecords
<1>3. ASSUME transfer.of = "file", ~table[file.fd].append
      PROVE  LET rest == SubSeq(contents[file.of], transfer.start + 1, Len(contents[file.of])) IN
             transfer.data = IF transfer.want = -1 THEN rest
                             ELSE SubSeq(rest, 1, Least({transfer.want, Len(rest)}))
  <2>1. OpenFile /\ table[file.fd] # Closed
    BY <1>3 DEF FilesAreRight, TransferHas, OpenFile
  <2>2. contents[file.of] \in Bytes
    BY <2>1, OpenFileIs
  <2>3. /\ \A i \in 1 .. Len(transfer.moved) :
               /\ transfer.start + i <= Len(contents[file.of])
               /\ transfer.moved[i] = contents[file.of][transfer.start + i]
        /\ \/ transfer.want # -1 /\ Len(transfer.moved) = transfer.want
           \/ transfer.start + Len(transfer.moved) >= Len(contents[file.of])
    BY <1>3, <2>1 DEF FilesAreRight, ReadIsThere
  <2> QED
    BY <1>1, <1>2, <2>2, <2>3, ReadIsPart
<1>4. transfer.of = "pipe" /\ (transfer.want = -1 \/ Len(transfer.data) < transfer.want) => ~Held("writing")
  BY <1>1 DEF FilesAreRight, EndIsEnd
<1> QED
  BY <1>1, <1>3, <1>4

LEMMA WritesAreWhole ==
    ASSUME FilesAreRight, transfer.op = "write", transfer.at = "return", transfer.result = "data"
    PROVE  /\ transfer.data = transfer.moved
           /\ transfer.of = "file" =>
                  SubSeq(contents[file.of], table[file.fd].at - Len(transfer.data) + 1, table[file.fd].at)
                  = transfer.data
<1>1. transfer.data \in Bytes /\ transfer.moved \in Bytes
  BY ObjectTypes DEF FilesAreRight, TransferRecords
<1>2. transfer.moved = transfer.data
  <2>1. /\ Len(transfer.moved) = Len(transfer.data)
        /\ \A i \in 1 .. Len(transfer.moved) : transfer.moved[i] = transfer.data[i]
    BY DEF FilesAreRight, WrittenIsThere
  <2> QED
    BY <1>1, <2>1, SameBytes
<1>3. ASSUME transfer.of = "file"
      PROVE  SubSeq(contents[file.of], table[file.fd].at - Len(transfer.data) + 1, table[file.fd].at)
             = transfer.data
  <2>1. OpenFile /\ table[file.fd] # Closed /\ Number(transfer) = file.fd
    BY <1>3 DEF FilesAreRight, TransferHas, OpenFile, Number
  <2>2. contents[file.of] \in Bytes /\ table[file.fd].at \in Nat
    BY <2>1, OpenFileIs DEF Entries
  <2>3. Len(transfer.moved) > 0 =>
            /\ Len(transfer.moved) <= table[file.fd].at /\ table[file.fd].at <= Len(contents[file.of])
            /\ \A i \in 1 .. Len(transfer.moved) :
                   contents[file.of][table[file.fd].at - Len(transfer.moved) + i] = transfer.moved[i]
    BY <1>3, <2>1 DEF FilesAreRight, WrittenIsThere
  <2> QED
    BY <1>1, <1>2, <2>2, <2>3, WrittenIsPart, ZenonT(40)
<1> QED
  BY <1>2, <1>3

LEMMA RightIsWhole == ASSUME FilesAreRight PROVE TransfersAreWhole
<1>1. OpenFile /\ table[file.fd] # Closed /\ ~table[file.fd].append => table[file.fd].at = file.offset
  BY DEF FilesAreRight, OffsetsAgree, OpenFile
<1>2. CASE transfer.op = "none" \/ transfer.at # "return" \/ transfer.result # "data"
  BY <1>1, <1>2 DEF TransfersAreWhole
<1>3. CASE transfer.op # "none" /\ transfer.at = "return" /\ transfer.result = "data"
  <2>1. transfer.op \in {"read", "read_bytes", "write"}
    BY <1>3, ObjectTypes DEF FilesAreRight, TransferRecords
  <2>2. CASE transfer.op \in {"read", "read_bytes"}
    <3>1. transfer.op # "write"
      BY <2>2
    <3> QED
      BY <1>1, <1>3, <2>2, <3>1, ReadsAreWhole DEF TransfersAreWhole
  <2>3. CASE transfer.op = "write"
    BY <1>1, <1>3, <2>3, WritesAreWhole DEF TransfersAreWhole
  <2> QED
    BY <2>1, <2>2, <2>3
<1> QED
  BY <1>2, <1>3

\* No descriptor of wi-file.c and wi-pipe.c is lost or closed through the number of another
\* object: whatever the files, pipes and tasks do, in this process and in the child of
\* wi-task.c, what is open belongs to the one object that opened it, and an object's number
\* is what it opened or was given to the child.
THEOREM DescriptorsAreAlwaysOwned == FilesSpec => []DescriptorsAreOwned
<1>1. FilesInit => FilesAreRight
  BY FilesStartRight
<1>2. FilesAreRight /\ [FilesNext]_filesVars => FilesAreRight'
  BY FilesStepsKeep
<1>3. FilesAreRight => DescriptorsAreOwned
  BY DEF FilesAreRight
<1> QED
  BY <1>1, <1>2, <1>3, PTL DEF FilesSpec

\* However the kernel splits the reads and writes of wi-file.c and wi-pipe.c, a read returns
\* what the file has there, all that was asked for or all up to the end, and what a write
\* says it has written is in the file; and the offset that the object keeps is the kernel's.
THEOREM TransfersAreAlwaysWhole == FilesSpec => []TransfersAreWhole
<1>1. FilesInit => FilesAreRight
  BY FilesStartRight
<1>2. FilesAreRight /\ [FilesNext]_filesVars => FilesAreRight'
  BY FilesStepsKeep
<1>3. FilesAreRight => TransfersAreWhole
  BY RightIsWhole
<1> QED
  BY <1>1, <1>2, <1>3, PTL DEF FilesSpec

-----------------------------------------------------------------------------
(* Uuid *)

Places == {"idle", "reads", "adjusts", "sequences"}

Maker == [at : Places, tv : Nat, reg : Nat, time : Nat, sequence : Nat]
Made == [time : Nat, sequence : Nat, mixed : BOOLEAN, full : BOOLEAN]

UuidTypeOK ==
    /\ ticks \in Nat \ {0} /\ backs \in Nat
    /\ lastRead \in Nat /\ adjustment \in Nat /\ sequence \in Nat
    /\ maker \in [Makers -> Maker]
    /\ made \in Seq(Made)

\* The sequence has not come round: each change of it was a step back of the clock, and one
\* that no call has seen yet is still to be counted.
SequenceCounts == sequence <= backs /\ (ticks < lastRead => sequence < backs)

\* The latest reading of the clock, as the time of a UUID.
Latest == lastRead * PerTick + adjustment
NextTick == lastRead * PerTick + PerTick

\* A reading that is within its tick is not later than the latest one, and before the next.
Past(time, seq) == seq < sequence \/ (seq = sequence /\ time <= Latest /\ time < NextTick)
Before(time, seq) == seq < sequence \/ (seq = sequence /\ time < Latest)

\* A UUID that is what its call has read, and a call that is to make one.
Alone(r) == ~r.mixed /\ ~r.full
Pending(t) ==
    maker[t].at \in {"adjusts", "sequences"} /\ maker[t].time < maker[t].tv * PerTick + PerTick

Differ(r, s) == r.time # s.time \/ r.sequence # s.sequence

ReadingsArePast ==
    /\ \A t \in Makers : Pending(t) => Past(maker[t].time, maker[t].sequence)
    /\ \A i \in DOMAIN made : Alone(made[i]) => Past(made[i].time, made[i].sequence)

ReadingsDiffer ==
    /\ \A t, u \in Makers : t # u /\ Pending(t) /\ Pending(u) => Differ(maker[t], maker[u])
    /\ \A t \in Makers : \A i \in DOMAIN made :
           Pending(t) /\ Alone(made[i]) => Differ(maker[t], made[i])
    /\ \A i, j \in DOMAIN made :
           i # j /\ Alone(made[i]) /\ Alone(made[j]) => Differ(made[i], made[j])

IInv ==
    /\ UuidTypeOK
    /\ backs < Sequences => SequenceCounts /\ ReadingsArePast /\ ReadingsDiffer

-----------------------------------------------------------------------------
(* The times of a UUID *)

LEMMA LaterTick ==
    ASSUME NEW a \in Nat, NEW b \in Nat, a < b
    PROVE  /\ a * PerTick \in Nat /\ b * PerTick \in Nat
           /\ a * PerTick + PerTick <= b * PerTick
<1> DEFINE d == b - a - 1
<1>1. d \in Nat /\ b = a + 1 + d /\ PerTick \in Nat
  BY UuidAssumption
<1> HIDE DEF d
<1>2. d * PerTick \in Nat /\ a * PerTick \in Nat /\ b * PerTick \in Nat
  BY <1>1
<1>3. (a + 1 + d) * PerTick = a * PerTick + PerTick + d * PerTick
  BY <1>1
<1> QED
  BY <1>1, <1>2, <1>3

LEMMA TickTimes ==
    \A a, b \in Nat : a * PerTick + b \in Nat /\ a * PerTick + PerTick \in Nat
<1> SUFFICES ASSUME NEW a \in Nat, NEW b \in Nat
             PROVE  a * PerTick + b \in Nat /\ a * PerTick + PerTick \in Nat
  OBVIOUS
<1>1. PerTick \in Nat /\ a * PerTick \in Nat
  BY UuidAssumption
<1> DEFINE x == a * PerTick
<1>2. x \in Nat
  BY <1>1
<1> HIDE DEF x
<1>3. x + b \in Nat /\ x + PerTick \in Nat
  BY <1>1, <1>2
<1> QED
  BY <1>3 DEF x

LEMMA LatestIsTime ==
    ASSUME UuidTypeOK
    PROVE  Latest \in Nat /\ NextTick \in Nat /\ lastRead * PerTick \in Nat
BY UuidAssumption DEF UuidTypeOK, Latest, NextTick

LEMMA MadeIsTyped ==
    ASSUME UuidTypeOK, NEW i \in DOMAIN made
    PROVE  /\ made[i].time \in Nat /\ made[i].sequence \in Nat
           /\ made[i].mixed \in BOOLEAN /\ made[i].full \in BOOLEAN
<1>1. made[i] \in Made
  BY ElementOfSeq DEF UuidTypeOK
<1> QED
  BY <1>1 DEF Made

LEMMA MakerIsTyped ==
    ASSUME UuidTypeOK, NEW t \in Makers
    PROVE  /\ maker[t].at \in Places /\ maker[t].tv \in Nat /\ maker[t].reg \in Nat
           /\ maker[t].time \in Nat /\ maker[t].sequence \in Nat /\ maker[t] \in Maker
<1>1. maker[t] \in Maker
  BY DEF UuidTypeOK
<1> QED
  BY <1>1 DEF Maker

-----------------------------------------------------------------------------
(* The steps *)

\* What a step that leaves the static variables and the UUIDs alone has to leave of the calls.
LEMMA ReadingsStay ==
    ASSUME ReadingsArePast, ReadingsDiffer,
           UNCHANGED <<lastRead, adjustment, sequence, made>>,
           \A t \in Makers : Pending(t)' =>
               /\ Pending(t) /\ maker'[t].time = maker[t].time /\ maker'[t].sequence = maker[t].sequence
    PROVE  ReadingsArePast' /\ ReadingsDiffer'
<1>1. Latest' = Latest /\ NextTick' = NextTick
  BY DEF Latest, NextTick
<1>2. ReadingsArePast'
  BY <1>1 DEF ReadingsArePast, Alone, Past
<1>3. ReadingsDiffer'
  BY DEF ReadingsDiffer, Alone, Differ
<1> QED
  BY <1>2, <1>3

LEMMA ClockKeeps == ASSUME IInv, Tick \/ TurnBack PROVE IInv'
<1>1. /\ UNCHANGED <<lastRead, adjustment, sequence, maker, made>>
      /\ ticks' \in Nat \ {0} /\ backs' \in Nat /\ backs \in Nat
      /\ \/ backs' = backs /\ ticks' = ticks + 1
         \/ backs' = backs + 1
  BY DEF Tick, TurnBack, IInv, UuidTypeOK
<1>2. UuidTypeOK'
  BY <1>1 DEF IInv, UuidTypeOK
<1>3. ASSUME backs' < Sequences PROVE SequenceCounts' /\ ReadingsArePast' /\ ReadingsDiffer'
  <2>1. backs < Sequences
    BY <1>1, <1>3, UuidAssumption
  <2>2. SequenceCounts'
    BY <1>1, <2>1 DEF IInv, UuidTypeOK, SequenceCounts
  <2>3. \A t \in Makers : Pending(t)' <=> Pending(t)
    BY <1>1 DEF Pending
  <2> QED
    BY <1>1, <2>1, <2>2, <2>3, ReadingsStay DEF IInv
<1> QED
  BY <1>2, <1>3 DEF IInv

\* A call that goes on keeps what it has read.
LEMMA CallGoesOn ==
    ASSUME IInv, NEW t \in Makers, UNCHANGED <<ticks, backs, lastRead, adjustment, sequence, made>>,
           NEW m \in Maker, maker' = [maker EXCEPT ![t] = m],
           m.at \in {"adjusts", "sequences"} =>
               /\ maker[t].at \in {"adjusts", "sequences"}
               /\ m.tv = maker[t].tv /\ m.time = maker[t].time /\ m.sequence = maker[t].sequence
    PROVE  IInv'
<1>1. maker' \in [Makers -> Maker] /\ maker'[t] = m /\ \A u \in Makers \ {t} : maker'[u] = maker[u]
  BY DEF IInv, UuidTypeOK
<1>2. UuidTypeOK'
  BY <1>1 DEF IInv, UuidTypeOK
<1>3. ASSUME NEW u \in Makers, Pending(u)'
      PROVE  /\ Pending(u) /\ maker'[u].time = maker[u].time
             /\ maker'[u].sequence = maker[u].sequence
  <2>1. CASE u = t
    BY <1>1, <1>3, <2>1 DEF Pending
  <2>2. CASE u # t
    BY <1>1, <1>3, <2>2 DEF Pending
  <2> QED
    BY <2>1, <2>2
<1>4. ASSUME backs' < Sequences PROVE SequenceCounts' /\ ReadingsArePast' /\ ReadingsDiffer'
  BY <1>3, <1>4, ReadingsStay DEF IInv, SequenceCounts
<1> QED
  BY <1>2, <1>4 DEF IInv

LEMMA ClockLockKeeps == ASSUME IInv, NEW t \in Makers, LockClock(t) PROVE IInv'
<1> DEFINE m == [maker[t] EXCEPT !.at = "reads"]
<1>1. /\ UNCHANGED <<ticks, backs, lastRead, adjustment, sequence, made>>
      /\ maker' = [maker EXCEPT ![t] = m]
  BY Zenon DEF LockClock
<1>2. m \in Maker /\ m.at = "reads"
  <2>1. maker[t] \in Maker
    BY DEF IInv, UuidTypeOK
  <2> QED
    BY <2>1, Zenon DEF Maker, Places
<1> HIDE DEF m
<1> QED
  BY <1>1, <1>2, CallGoesOn

\* A new reading is later than all that there are.
LEMMA ReadKeeps == ASSUME IInv, NEW t \in Makers, ReadClock(t) PROVE IInv'
<1> DEFINE clock == NextClock(ticks)
           time == ticks * PerTick + clock.adjustment
           m == [at |-> "adjusts", tv |-> ticks, reg |-> 0, time |-> time, sequence |-> clock.sequence]
<1>1. /\ UNCHANGED <<ticks, backs, made>>
      /\ maker' = [maker EXCEPT ![t] = m]
      /\ lastRead' = clock.lastRead /\ adjustment' = clock.adjustment /\ sequence' = clock.sequence
  BY Zenon DEF ReadClock
<1>2. m.at = "adjusts" /\ m.tv = ticks /\ m.reg = 0 /\ m.time = time /\ m.sequence = clock.sequence
  OBVIOUS
<1>3. /\ ticks \in Nat /\ lastRead \in Nat /\ adjustment \in Nat /\ sequence \in Nat
      /\ Sequences \in Nat \ {0} /\ backs \in Nat
  BY UuidAssumption DEF IInv, UuidTypeOK
<1> HIDE DEF clock
<1>4. /\ lastRead' = ticks
      /\ \/ /\ ticks < lastRead /\ sequence' = (sequence + 1) % Sequences /\ adjustment' = 0
         \/ /\ ticks = lastRead /\ sequence' = sequence /\ adjustment' = adjustment + 1
         \/ /\ ticks > lastRead /\ sequence' = sequence /\ adjustment' = 0
  <2>1. CASE ticks < lastRead
    BY <1>1, <1>3, <2>1 DEF NextClock, clock
  <2>2. CASE ticks = lastRead
    BY <1>1, <1>3, <2>2 DEF NextClock, clock
  <2>3. CASE ticks > lastRead
    BY <1>1, <1>3, <2>3 DEF NextClock, clock
  <2> QED
    BY <1>3, <2>1, <2>2, <2>3
<1>5. /\ lastRead' \in Nat /\ adjustment' \in Nat /\ sequence' \in Nat
      /\ time = Latest' /\ time \in Nat
  <2>1. lastRead' \in Nat /\ adjustment' \in Nat /\ sequence' \in Nat
    BY <1>3, <1>4
  <2>2. time = Latest'
    BY <1>1, <1>4 DEF Latest
  <2> QED
    BY <1>1, <1>3, <2>1, <2>2, TickTimes
<1>6. m \in Maker
  BY <1>1, <1>3, <1>5 DEF Maker, Places
<1> HIDE DEF time, m
<1>7. maker' \in [Makers -> Maker] /\ maker'[t] = m /\ \A u \in Makers \ {t} : maker'[u] = maker[u]
  BY <1>1, <1>6 DEF IInv, UuidTypeOK
<1>8. UuidTypeOK'
  BY <1>1, <1>3, <1>5, <1>7 DEF IInv, UuidTypeOK
<1>9. ASSUME backs' < Sequences PROVE SequenceCounts' /\ ReadingsArePast' /\ ReadingsDiffer'
  <2>1. SequenceCounts /\ ReadingsArePast /\ ReadingsDiffer
    BY <1>1, <1>9 DEF IInv
  <2>2. ticks < lastRead => sequence' = sequence + 1
    BY <1>1, <1>3, <1>4, <1>9, <2>1 DEF SequenceCounts
  <2>3. SequenceCounts'
    BY <1>1, <1>3, <1>4, <2>1, <2>2 DEF SequenceCounts
  <2>4. ASSUME NEW x \in Nat, NEW y \in Nat, Past(x, y)
        PROVE  Before(x, y)' /\ Past(x, y)'
    <3>1. /\ Latest \in Nat /\ NextTick \in Nat /\ lastRead * PerTick \in Nat
          /\ Latest' \in Nat /\ NextTick' \in Nat /\ PerTick \in Nat \ {0}
      <4>1. PerTick \in Nat \ {0}
        BY UuidAssumption
      <4>2. Latest' \in Nat /\ NextTick' \in Nat
        BY <1>5, TickTimes, Zenon DEF Latest, NextTick
      <4> QED
        BY <4>1, <4>2, LatestIsTime DEF IInv
    <3>2. CASE ticks < lastRead
      BY <1>3, <1>4, <2>2, <2>4, <3>1, <3>2 DEF Before, Past
    <3>3. CASE ticks = lastRead
      <4>1. Latest' = Latest + 1 /\ NextTick' = NextTick
        BY <1>3, <1>4, <3>1, <3>3 DEF Latest, NextTick
      <4> QED
        BY <1>3, <1>4, <2>4, <3>1, <3>3, <4>1 DEF Before, Past
    <3>4. CASE ticks > lastRead
      <4>1. NextTick <= ticks * PerTick /\ ticks * PerTick \in Nat
        BY <1>3, <3>4, LaterTick DEF NextTick
      <4>2. Latest' = ticks * PerTick /\ NextTick' = ticks * PerTick + PerTick
        BY <1>3, <1>4, <3>4, <4>1 DEF Latest, NextTick
      <4> QED
        BY <1>3, <1>4, <2>4, <3>1, <3>4, <4>1, <4>2 DEF Before, Past
    <3> QED
      BY <1>3, <3>2, <3>3, <3>4
  <2>5. ASSUME NEW x \in Nat, NEW y \in Nat, Past(x, y)
        PROVE  m.time # x \/ m.sequence # y
    BY <1>1, <1>2, <1>5, <2>4, <2>5 DEF Before
  <2>6. ASSUME NEW u \in Makers \ {t}, Pending(u)'
        PROVE  /\ Pending(u) /\ maker'[u] = maker[u] /\ maker[u].time \in Nat /\ maker[u].sequence \in Nat
               /\ Past(maker[u].time, maker[u].sequence)
    <3>1. maker'[u] = maker[u] /\ Pending(u)
      BY <1>7, <2>6 DEF Pending
    <3> QED
      BY <2>1, <3>1, MakerIsTyped DEF IInv, ReadingsArePast
  <2>7. ASSUME NEW i \in DOMAIN made, Alone(made[i])
        PROVE  /\ made[i].time \in Nat /\ made[i].sequence \in Nat
               /\ Past(made[i].time, made[i].sequence)
    BY <2>1, <2>7, MadeIsTyped DEF IInv, ReadingsArePast
  <2>8. ReadingsArePast'
    <3>1. ASSUME NEW u \in Makers, Pending(u)' PROVE Past(maker[u].time, maker[u].sequence)'
      <4>1. CASE u = t
        <5>1. m.time < m.tv * PerTick + PerTick
          BY <1>7, <3>1, <4>1 DEF Pending
        <5>2. m.time < NextTick'
          BY <1>2, <1>4, <5>1 DEF NextTick
        <5>3. m.time = Latest' /\ m.sequence = sequence' /\ Latest' \in Nat
          BY <1>1, <1>2, <1>5
        <5> QED
          BY <1>7, <4>1, <5>2, <5>3 DEF Past
      <4>2. CASE u # t
        <5>1. /\ maker'[u] = maker[u] /\ maker[u].time \in Nat /\ maker[u].sequence \in Nat
              /\ Past(maker[u].time, maker[u].sequence)
          BY <2>6, <3>1, <4>2
        <5> QED
          BY <2>4, <5>1 DEF Past
      <4> QED
        BY <4>1, <4>2
    <3>2. ASSUME NEW i \in DOMAIN made, Alone(made[i]) PROVE Past(made[i].time, made[i].sequence)'
      BY <1>1, <2>4, <2>7, <3>2 DEF Past
    <3> QED
      BY <1>1, <3>1, <3>2 DEF ReadingsArePast, Alone
  <2>9. ReadingsDiffer'
    <3>1. ASSUME NEW u \in Makers \ {t}, Pending(u)' PROVE Differ(m, maker'[u]) /\ Differ(maker'[u], m)
      BY <2>5, <2>6, <3>1 DEF Differ
    <3>2. ASSUME NEW i \in DOMAIN made, Alone(made[i]) PROVE Differ(m, made[i])
      BY <2>5, <2>7, <3>2 DEF Differ
    <3>3. ASSUME NEW u \in Makers, NEW v \in Makers, u # v, Pending(u)', Pending(v)'
          PROVE  Differ(maker'[u], maker'[v])
      <4>1. CASE u = t
        BY <1>7, <3>1, <3>3, <4>1
      <4>2. CASE v = t
        BY <1>7, <3>1, <3>3, <4>2
      <4>3. CASE u # t /\ v # t
        BY <2>1, <2>6, <3>3, <4>3 DEF ReadingsDiffer
      <4> QED
        BY <4>1, <4>2, <4>3
    <3>4. ASSUME NEW u \in Makers, NEW i \in DOMAIN made, Pending(u)', Alone(made[i])
          PROVE  Differ(maker'[u], made[i])
      <4>1. CASE u = t
        BY <1>7, <3>2, <3>4, <4>1
      <4>2. CASE u # t
        BY <2>1, <2>6, <3>4, <4>2 DEF ReadingsDiffer
      <4> QED
        BY <4>1, <4>2
    <3>5. ASSUME NEW i \in DOMAIN made, NEW j \in DOMAIN made, i # j, Alone(made[i]), Alone(made[j])
          PROVE  Differ(made[i], made[j])
      BY <2>1, <3>5 DEF ReadingsDiffer
    <3> QED
      BY <1>1, <3>3, <3>4, <3>5 DEF ReadingsDiffer, Alone, Differ
  <2> QED
    BY <2>3, <2>8, <2>9
<1> QED
  BY <1>8, <1>9 DEF IInv

LEMMA AdjustKeeps == ASSUME IInv, NEW t \in Makers, ReadAdjustment(t) PROVE IInv'
<1> DEFINE r == maker[t].tv * PerTick + adjustment
           m == [maker[t] EXCEPT !.at = "sequences", !.reg = r]
<1>1. /\ UNCHANGED <<ticks, backs, lastRead, adjustment, sequence, made>>
      /\ maker' = [maker EXCEPT ![t] = m] /\ maker[t].at = "adjusts"
  BY Zenon DEF ReadAdjustment
<1>2. r \in Nat
  BY MakerIsTyped, UuidAssumption, SMTT(30) DEF IInv, UuidTypeOK
<1>3. m \in Maker /\ m.tv = maker[t].tv /\ m.time = maker[t].time /\ m.sequence = maker[t].sequence
  <2>1. maker[t] \in Maker
    BY DEF IInv, UuidTypeOK
  <2> HIDE DEF r
  <2> QED
    BY <1>2, <2>1, Zenon DEF Maker, Places
<1> HIDE DEF m, r
<1> QED
  BY <1>1, <1>3, CallGoesOn

\* A UUID that is what its call has read takes the place of that call.
LEMMA MakeKeeps == ASSUME IInv, NEW t \in Makers, ReadSequence(t) PROVE IInv'
<1> DEFINE r == [time |-> maker[t].reg, sequence |-> sequence,
                 mixed |-> maker[t].reg # maker[t].time \/ sequence # maker[t].sequence,
                 full |-> maker[t].time >= maker[t].tv * PerTick + PerTick]
<1>1. /\ UNCHANGED <<ticks, backs, lastRead, adjustment, sequence>>
      /\ maker' = [maker EXCEPT ![t] = AtRest] /\ maker[t].at = "sequences"
      /\ made' = Append(made, r)
  BY DEF ReadSequence
<1>2. /\ r \in Made /\ r.time = maker[t].reg /\ r.sequence = sequence
      /\ r.mixed = (maker[t].reg # maker[t].time \/ sequence # maker[t].sequence)
      /\ r.full = (maker[t].time >= maker[t].tv * PerTick + PerTick)
  BY MakerIsTyped DEF Made, IInv, UuidTypeOK
<1> HIDE DEF r
<1> PICK n \in Nat : n = Len(made)
  BY DEF IInv, UuidTypeOK
<1>3. /\ n \in Nat /\ made' \in Seq(Made) /\ DOMAIN made' = 1 .. n + 1 /\ DOMAIN made = 1 .. n
      /\ made'[n + 1] = r /\ \A i \in 1 .. n : made'[i] = made[i]
  BY <1>1, <1>2 DEF IInv, UuidTypeOK
<1>4. AtRest \in Maker /\ AtRest.at = "idle"
  BY DEF AtRest, Maker, Places
<1>5. maker' \in [Makers -> Maker] /\ maker'[t] = AtRest
      /\ \A u \in Makers \ {t} : maker'[u] = maker[u]
  BY <1>1, <1>4 DEF IInv, UuidTypeOK
<1>6. UuidTypeOK'
  BY <1>1, <1>3, <1>5 DEF IInv, UuidTypeOK
<1>7. Latest' = Latest /\ NextTick' = NextTick
  BY <1>1 DEF Latest, NextTick
<1>8. Alone(r) => Pending(t) /\ r.time = maker[t].time /\ r.sequence = maker[t].sequence
  <2>1. SUFFICES ASSUME Alone(r)
                 PROVE  Pending(t) /\ r.time = maker[t].time /\ r.sequence = maker[t].sequence
    OBVIOUS
  <2>2. /\ maker[t].reg = maker[t].time /\ sequence = maker[t].sequence
        /\ ~(maker[t].time >= maker[t].tv * PerTick + PerTick)
    BY <1>2, <2>1 DEF Alone
  <2>3. maker[t].time \in Nat /\ maker[t].tv * PerTick + PerTick \in Nat
    BY MakerIsTyped, TickTimes DEF IInv
  <2>4. maker[t].time < maker[t].tv * PerTick + PerTick
    BY <2>2, <2>3
  <2> QED
    BY <1>1, <1>2, <2>2, <2>4 DEF Pending
<1>9. \A u \in Makers : Pending(u)' => u # t /\ Pending(u) /\ maker'[u] = maker[u]
  BY <1>4, <1>5 DEF Pending
<1>10. ASSUME backs' < Sequences PROVE SequenceCounts' /\ ReadingsArePast' /\ ReadingsDiffer'
  <2>1. SequenceCounts /\ ReadingsArePast /\ ReadingsDiffer
    BY <1>1, <1>10 DEF IInv
  <2>2. SequenceCounts'
    BY <1>1, <2>1 DEF SequenceCounts
  <2>3. ReadingsArePast'
    <3>1. ASSUME NEW u \in Makers, Pending(u)' PROVE Past(maker[u].time, maker[u].sequence)'
      BY <1>1, <1>7, <1>9, <2>1, <3>1 DEF ReadingsArePast, Past
    <3>2. ASSUME NEW i \in 1 .. n + 1, Alone(made'[i]) PROVE Past(made[i].time, made[i].sequence)'
      <4>1. CASE i \in 1 .. n
        BY <1>1, <1>3, <1>7, <2>1, <3>2, <4>1 DEF ReadingsArePast, Past
      <4>2. CASE i = n + 1
        <5>1. made'[i] = r /\ Past(r.time, r.sequence)
          BY <1>3, <1>8, <2>1, <3>2, <4>2 DEF ReadingsArePast
        <5> QED
          BY <1>1, <1>7, <5>1 DEF Past
      <4> QED
        BY <1>3, <4>1, <4>2
    <3> QED
      BY <1>3, <3>1, <3>2 DEF ReadingsArePast, Alone
  <2>4. ReadingsDiffer'
    <3>1. ASSUME NEW u \in Makers, NEW v \in Makers, u # v, Pending(u)', Pending(v)'
          PROVE  Differ(maker'[u], maker'[v])
      BY <1>9, <2>1, <3>1 DEF ReadingsDiffer
    <3>2. ASSUME NEW u \in Makers, NEW i \in 1 .. n + 1, Pending(u)', Alone(made'[i])
          PROVE  Differ(maker'[u], made'[i])
      <4>1. CASE i \in 1 .. n
        BY <1>3, <1>9, <2>1, <3>2, <4>1 DEF ReadingsDiffer
      <4>2. CASE i = n + 1
        <5>1. made'[i] = r /\ Pending(t) /\ u # t /\ Pending(u) /\ maker'[u] = maker[u]
          BY <1>3, <1>8, <1>9, <3>2, <4>2
        <5>2. Differ(maker[u], maker[t])
          BY <2>1, <5>1 DEF ReadingsDiffer
        <5> QED
          BY <1>3, <1>8, <3>2, <4>2, <5>1, <5>2 DEF Differ
      <4> QED
        BY <1>3, <4>1, <4>2
    <3>3. ASSUME NEW i \in 1 .. n, Alone(made[i]), Alone(r) PROVE Differ(made[i], r) /\ Differ(r, made[i])
      <4>1. Differ(maker[t], made[i])
        BY <1>3, <1>8, <2>1, <3>3 DEF ReadingsDiffer
      <4> QED
        BY <1>8, <3>3, <4>1 DEF Differ
    <3>4. ASSUME NEW i \in 1 .. n + 1, NEW j \in 1 .. n + 1, i # j, Alone(made'[i]), Alone(made'[j])
          PROVE  Differ(made'[i], made'[j])
      <4>1. CASE i \in 1 .. n /\ j \in 1 .. n
        BY <1>3, <2>1, <3>4, <4>1 DEF ReadingsDiffer
      <4>2. CASE i = n + 1 /\ j \in 1 .. n
        BY <1>3, <3>3, <3>4, <4>2
      <4>3. CASE i \in 1 .. n /\ j = n + 1
        BY <1>3, <3>3, <3>4, <4>3
      <4> QED
        BY <3>4, <4>1, <4>2, <4>3
    <3> QED
      BY <1>3, <3>1, <3>2, <3>4 DEF ReadingsDiffer, Alone, Differ
  <2> QED
    BY <2>2, <2>3, <2>4
<1> QED
  BY <1>6, <1>10 DEF IInv

-----------------------------------------------------------------------------

LEMMA StartsRight == UuidInit => IInv
<1> SUFFICES ASSUME UuidInit PROVE IInv
  OBVIOUS
<1>1. AtRest \in Maker /\ AtRest.at = "idle"
  BY DEF AtRest, Maker, Places
<1>2. UuidTypeOK
  BY <1>1 DEF UuidInit, UuidTypeOK
<1>3. DOMAIN made = {} /\ \A t \in Makers : ~Pending(t)
  BY <1>1 DEF UuidInit, Pending
<1> QED
  BY <1>2, <1>3 DEF UuidInit, IInv, SequenceCounts, ReadingsArePast, ReadingsDiffer

LEMMA StepsKeep == IInv /\ [UuidNext]_uuidVars => IInv'
<1> SUFFICES ASSUME IInv, [UuidNext]_uuidVars PROVE IInv'
  OBVIOUS
<1>1. CASE UNCHANGED uuidVars
  BY <1>1 DEF uuidVars, IInv, UuidTypeOK, SequenceCounts, ReadingsArePast, ReadingsDiffer, Alone,
              Past, Pending, Latest, NextTick, Differ
<1> QED
  BY <1>1, ClockKeeps, ClockLockKeeps, ReadKeeps, AdjustKeeps, MakeKeeps DEF UuidNext

LEMMA InvariantDiffers == IInv => (backs < Sequences => UuidsDiffer)
<1> SUFFICES ASSUME IInv, backs < Sequences, NEW i \in DOMAIN made, NEW j \in DOMAIN made, i # j,
                    made[i].time = made[j].time, made[i].sequence = made[j].sequence,
                    ~ \E k \in {i, j} : made[k].mixed \/ made[k].full
             PROVE  FALSE
  BY DEF UuidsDiffer
<1>1. Alone(made[i]) /\ Alone(made[j])
  BY DEF Alone
<1> QED
  BY <1>1 DEF IInv, ReadingsDiffer, Differ

\* As long as the clock went back less often than there are clock sequences, two UUIDs made from
\* the time differ however the calls interleave, unless one of the two found what another call
\* had set after the unlock, or used the last adjustment: these two can be equal
\* (wi-uuid.c, _wi_uuid_get_clock).
THEOREM UuidsAlwaysDiffer == UuidSpec => [](backs < Sequences => UuidsDiffer)
<1>1. UuidSpec => []IInv
  BY StartsRight, StepsKeep, PTL DEF UuidSpec
<1> QED
  BY <1>1, InvariantDiffers, PTL

-----------------------------------------------------------------------------
(* Hosts: the text of an address of IPv6 denotes the address *)

LEMMA LongestRunIs ==
    ASSUME NEW b, Len(b) \in Nat, ZeroRuns(b) # {}
    PROVE  LongestRun(b) \in ZeroRuns(b)
<1> DEFINE R == ZeroRuns(b)
           n == Len(b)
           Short == {n - (q[2] - q[1]) : q \in R}
           l == Min(Short)
           First == {q[1] : q \in {p \in R : n - (p[2] - p[1]) = l}}
           f == Min(First)
<1>1. \A q \in R : q[1] \in 1 .. n /\ q[2] \in 1 .. n /\ q[1] < q[2]
  BY DEF ZeroRuns
<1> HIDE DEF R
<1>2. Short \in SUBSET Nat /\ Short # {}
  BY <1>1 DEF R
<1>3. l \in Short /\ \A m \in Short : l <= m
  <2> HIDE DEF Short
  <2> QED
    BY <1>2, LeastNumber
<1>4. \A q \in R : l <= n - (q[2] - q[1])
  BY <1>3
<1>5. l \in Nat
  BY <1>2, <1>3
<1>6. First \in SUBSET Nat /\ First # {}
  <2> HIDE DEF l
  <2> QED
    BY <1>1, <1>3
<1> HIDE DEF l
<1>7. f \in First /\ \A m \in First : f <= m
  <2> HIDE DEF First
  <2> QED
    BY <1>6, LeastNumber
<1> HIDE DEF f
<1>8. PICK r \in R : n - (r[2] - r[1]) = l /\ r[1] = f
  BY <1>7
<1>9. ASSUME NEW q \in R
      PROVE  \/ q[2] - q[1] < r[2] - r[1]
             \/ q[2] - q[1] = r[2] - r[1] /\ r[1] <= q[1]
  <2>1. l <= n - (q[2] - q[1])
    BY <1>4
  <2>2. n - (q[2] - q[1]) = l => f <= q[1]
    BY <1>7
  <2> QED
    BY <1>1, <1>5, <1>8, <2>1, <2>2, SMTT(30)
<1>10. r \in ZeroRuns(b) /\ IsLongest(b, r)
  BY <1>8, <1>9 DEF IsLongest, R
<1> QED
  BY <1>10 DEF LongestRun

LEMMA FrontIs ==
    ASSUME NEW V, NEW s \in Seq(V), NEW n \in 0 .. Len(s)
    PROVE  /\ SubSeq(s, 1, n) \in Seq(V) /\ Len(SubSeq(s, 1, n)) = n
           /\ \A i \in 1 .. n : SubSeq(s, 1, n)[i] = s[i]
<1>1. Len(s) \in Nat /\ \A i \in 1 .. Len(s) : s[i] \in V
  OBVIOUS
<1>2. n \in Nat /\ \A i \in 1 .. n : s[i] \in V
  BY <1>1
<1>3. /\ SubSeq(s, 1, n) \in Seq(V)
      /\ Len(SubSeq(s, 1, n)) = IF 1 <= n THEN n - 1 + 1 ELSE 0
      /\ \A i \in 1 .. n - 1 + 1 : SubSeq(s, 1, n)[i] = s[1 + i - 1]
  BY <1>2, SubSeqProperties
<1> QED
  BY <1>2, <1>3

LEMMA BackIs ==
    ASSUME NEW V, NEW s \in Seq(V), NEW m \in 0 .. Len(s)
    PROVE  /\ SubSeq(s, m + 1, Len(s)) \in Seq(V) /\ Len(SubSeq(s, m + 1, Len(s))) = Len(s) - m
           /\ \A i \in 1 .. Len(s) - m : SubSeq(s, m + 1, Len(s))[i] = s[m + i]
<1> DEFINE n == Len(s)
<1>1. n \in Nat /\ \A i \in 1 .. n : s[i] \in V
  OBVIOUS
<1>2. m + 1 \in Int /\ n \in Int /\ \A i \in m + 1 .. n : s[i] \in V
  BY <1>1
<1>3. /\ SubSeq(s, m + 1, n) \in Seq(V)
      /\ Len(SubSeq(s, m + 1, n)) = IF m + 1 <= n THEN n - (m + 1) + 1 ELSE 0
      /\ \A i \in 1 .. n - (m + 1) + 1 : SubSeq(s, m + 1, n)[i] = s[m + 1 + i - 1]
  BY <1>2, SubSeqProperties
<1> DEFINE u == SubSeq(s, m + 1, n)
<1>4. u \in Seq(V) /\ Len(u) = n - m
  BY <1>1, <1>3
<1>5. ASSUME NEW i \in 1 .. n - m PROVE u[i] = s[m + i]
  <2>1. i \in 1 .. n - (m + 1) + 1 /\ m + 1 + i - 1 = m + i
    BY <1>1
  <2> HIDE DEF n
  <2> QED
    BY <1>3, <2>1
<1> QED
  BY <1>4, <1>5

\* s is f, then z zeros from x to y, then g.
Splits(V, s, x, y, z, f, g) ==
    /\ 0 \in V /\ s \in Seq(V) /\ f \in Seq(V) /\ g \in Seq(V)
    /\ x \in 1 .. Len(s) /\ y \in 1 .. Len(s) /\ x < y /\ z = y - x + 1
    /\ \A i \in x .. y : s[i] = 0
    /\ Len(f) = x - 1 /\ \A i \in 1 .. x - 1 : f[i] = s[i]
    /\ Len(g) = Len(s) - y /\ \A i \in 1 .. Len(s) - y : g[i] = s[y + i]

WithZeros(f, z, g) == f \o [i \in 1 .. z |-> 0] \o g

LEMMA ZerosBetween ==
    ASSUME NEW V, NEW s, NEW x, NEW y, NEW z, NEW f, NEW g, Splits(V, s, x, y, z, f, g)
    PROVE  WithZeros(f, z, g) = s
<1>0. /\ 0 \in V /\ s \in Seq(V) /\ f \in Seq(V) /\ g \in Seq(V)
      /\ x \in 1 .. Len(s) /\ y \in 1 .. Len(s) /\ x < y /\ z = y - x + 1
      /\ \A i \in x .. y : s[i] = 0
      /\ Len(f) = x - 1 /\ \A i \in 1 .. x - 1 : f[i] = s[i]
      /\ Len(g) = Len(s) - y /\ \A i \in 1 .. Len(s) - y : g[i] = s[y + i]
  BY DEF Splits
<1> DEFINE zeros == [i \in 1 .. z |-> 0]
<1>1. z \in Nat /\ Len(s) \in Nat /\ z = y - x + 1
  BY <1>0
<1>2. zeros \in Seq(V) /\ Len(zeros) = z /\ \A i \in 1 .. z : zeros[i] = 0
  BY <1>0, <1>1
<1> HIDE DEF zeros
<1> DEFINE w == f \o zeros
<1>3. /\ w \in Seq(V) /\ Len(w) = Len(f) + Len(zeros)
      /\ \A i \in 1 .. Len(f) + Len(zeros) :
            w[i] = IF i <= Len(f) THEN f[i] ELSE zeros[i - Len(f)]
  BY <1>0, <1>2, ConcatProperties, ZenonT(40)
<1> HIDE DEF w
<1>4. Len(w) = y /\ \A i \in 1 .. y : w[i] = s[i]
  <2>1. Len(w) = y
    BY <1>0, <1>1, <1>2, <1>3
  <2>2. ASSUME NEW i \in 1 .. y PROVE w[i] = s[i]
    <3>1. i \in 1 .. Len(f) + Len(zeros)
      BY <1>0, <1>1, <1>2, <1>3, <2>1
    <3>2. CASE i < x
      <4>1. i \in 1 .. x - 1 /\ i <= Len(f)
        BY <1>0, <3>2
      <4> QED
        BY <1>0, <1>3, <3>1, <4>1
    <3>3. CASE ~ (i < x)
      <4>1. i - Len(f) \in 1 .. z /\ ~ (i <= Len(f)) /\ i \in x .. y
        BY <1>0, <1>1, <3>3
      <4> QED
        BY <1>0, <1>2, <1>3, <3>1, <4>1
    <3> QED
      BY <1>0, <3>2, <3>3
  <2> QED
    BY <1>0, <2>1, <2>2
<1> DEFINE all == w \o g
<1>5. /\ all \in Seq(V) /\ Len(all) = Len(w) + Len(g)
      /\ \A i \in 1 .. Len(w) + Len(g) : all[i] = IF i <= Len(w) THEN w[i] ELSE g[i - Len(w)]
  <2>1. w \in Seq(V)
    BY <1>0, <1>3
  <2> QED
    BY <1>0, <2>1, ConcatProperties
<1> HIDE DEF all
<1>6. Len(all) = Len(s)
  BY <1>0, <1>1, <1>4, <1>5
<1>7. ASSUME NEW i \in 1 .. Len(s) PROVE all[i] = s[i]
  <2>1. i \in 1 .. Len(w) + Len(g)
    BY <1>0, <1>1, <1>4
  <2>2. CASE i <= y
    BY <1>0, <1>4, <1>5, <2>1, <2>2
  <2>3. CASE i > y
    <3>1. i - y \in 1 .. Len(s) - y /\ y + (i - y) = i /\ ~ (i <= y)
      BY <1>0, <1>1, <2>3
    <3> QED
      BY <1>0, <1>4, <1>5, <2>1, <3>1
  <2> QED
    BY <1>0, <1>1, <2>2, <2>3
<1>8. all = s
  BY <1>0, <1>5, <1>6, <1>7, SeqEqual
<1> QED
  BY <1>8 DEF WithZeros, all, w, zeros

\* What is written where the front or the back of a text is empty
Filled(s) == IF s = <<>> THEN <<Empty>> ELSE s

LEMMA FilledIs ==
    ASSUME NEW V, Empty \in V, NEW s \in Seq(V)
    PROVE  /\ Filled(s) \in Seq(V) /\ Len(Filled(s)) \in Nat \ {0}
           /\ Len(s) = 0 => Len(Filled(s)) = 1 /\ Filled(s)[1] = Empty
           /\ Len(s) # 0 => Filled(s) = s
<1>1. Len(s) \in Nat /\ (Len(s) = 0 <=> s = <<>>)
  OBVIOUS
<1>2. <<Empty>> \in Seq(V) /\ Len(<<Empty>>) = 1 /\ <<Empty>>[1] = Empty
  OBVIOUS
<1>3. CASE s = <<>>
  BY <1>1, <1>2, <1>3 DEF Filled
<1>4. CASE s # <<>>
  BY <1>1, <1>4 DEF Filled
<1> QED
  BY <1>3, <1>4

LEMMA CompressedIsRead ==
    ASSUME AddressAssumption, NEW b \in [1 .. Groups -> GroupValues]
    PROVE  /\ Compressed(b) \in Seq(GroupValues \cup {Empty}) /\ IsIPv6Text(Compressed(b))
           /\ Denoted(Compressed(b)) = b
<1> DEFINE V == GroupValues \cup {Empty}
           gap(text) == {i \in 1 .. Len(text) : text[i] = Empty}
<1>1. /\ Groups \in Nat /\ Empty \notin GroupValues
      /\ b \in Seq(V) /\ Len(b) = Groups /\ \A i \in 1 .. Groups : b[i] \in GroupValues
  BY DEF AddressAssumption
<1>2. CASE ZeroRuns(b) = {}
  <2>1. Compressed(b) = b
    BY <1>2 DEF Compressed
  <2>2. gap(b) = {}
    BY <1>1
  <2>3. IsIPv6Text(b)
    BY <1>1, <2>2 DEF IsIPv6Text
  <2> QED
    BY <1>1, <2>1, <2>2, <2>3 DEF Denoted
<1>3. CASE ZeroRuns(b) # {}
  <2> DEFINE r == LongestRun(b)
             front == SubSeq(b, 1, r[1] - 1)
             back == SubSeq(b, r[2] + 1, Len(b))
             A == Filled(front)
             B == Filled(back)
             text == A \o <<Empty>> \o B
  <2>1. /\ r[1] \in 1 .. Groups /\ r[2] \in 1 .. Groups /\ r[1] < r[2]
        /\ \A i \in r[1] .. r[2] : b[i] = 0
    BY <1>1, <1>3, LongestRunIs DEF ZeroRuns
  <2>2. Compressed(b) = text
    BY <1>3 DEF Compressed, Filled
  <2> HIDE DEF r
  <2>3. /\ front \in Seq(V) /\ Len(front) = r[1] - 1 /\ \A i \in 1 .. r[1] - 1 : front[i] = b[i]
        /\ back \in Seq(V) /\ Len(back) = Groups - r[2]
        /\ \A i \in 1 .. Groups - r[2] : back[i] = b[r[2] + i]
    <3>1. r[1] - 1 \in 0 .. Len(b) /\ r[2] \in 0 .. Len(b)
      BY <1>1, <2>1
    <3>2. b \in Seq(V)
      BY <1>1
    <3> HIDE DEF V
    <3>3. front \in Seq(V) /\ Len(front) = r[1] - 1 /\ \A i \in 1 .. r[1] - 1 : front[i] = b[i]
      BY <3>1, <3>2, FrontIs
    <3>4. /\ back \in Seq(V) /\ Len(back) = Len(b) - r[2]
          /\ \A i \in 1 .. Len(b) - r[2] : back[i] = b[r[2] + i]
      BY <3>1, <3>2, BackIs
    <3> QED
      BY <1>1, <3>3, <3>4
  <2> HIDE DEF front, back
  <2>4. /\ A \in Seq(V) /\ Len(A) \in Nat \ {0} /\ B \in Seq(V) /\ Len(B) \in Nat \ {0}
        /\ Len(front) = 0 => Len(A) = 1 /\ A[1] = Empty
        /\ Len(front) # 0 => A = front
        /\ Len(back) = 0 => Len(B) = 1 /\ B[1] = Empty
        /\ Len(back) # 0 => B = back
    BY <2>3, FilledIs
  <2> HIDE DEF A, B
  <2> DEFINE a == Len(A)
             c == Len(B)
  <2>5. /\ text \in Seq(V) /\ Len(text) = a + 1 + c
        /\ \A i \in 1 .. a : text[i] = A[i]
        /\ text[a + 1] = Empty
        /\ \A i \in 1 .. c : text[a + 1 + i] = B[i]
    BY <2>4
  <2> HIDE DEF text
  <2> DEFINE first == Min(gap(text))
             final == Max(gap(text))
  <2>6. first = (IF Len(front) = 0 THEN 1 ELSE a + 1) /\ \A i \in gap(text) : first <= i
    <3> DEFINE f == IF Len(front) = 0 THEN 1 ELSE a + 1
    <3>0. \A i \in 1 .. r[1] - 1 : front[i] = b[i] /\ b[i] # Empty
      BY <1>1, <2>1, <2>3
    <3>1. \A i \in 1 .. a : Len(front) # 0 => A[i] # Empty
      BY <2>3, <2>4, <3>0
    <3>2. f \in gap(text)
      BY <2>4, <2>5
    <3>3. \A i \in gap(text) : f <= i
      BY <2>4, <2>5, <3>1, SMTT(30)
    <3>4. gap(text) \in SUBSET Nat
      OBVIOUS
    <3> HIDE DEF f
    <3>5. first \in gap(text) /\ \A i \in gap(text) : first <= i
      <4> HIDE DEF gap
      <4> QED
        BY <3>2, <3>4, LeastNumber
    <3>6. first <= f /\ f <= first /\ f \in Nat /\ first \in Nat
      <4> HIDE DEF gap, first
      <4> QED
        BY <3>2, <3>3, <3>4, <3>5
    <3> QED
      BY <3>5, <3>6 DEF f
  <2>7. final = (IF Len(back) = 0 THEN Len(text) ELSE a + 1) /\ \A i \in gap(text) : i <= final
    <3> DEFINE m == IF Len(back) = 0 THEN Len(text) ELSE a + 1
    <3>1. \A i \in 1 .. c : Len(back) # 0 => B[i] # Empty
      <4> SUFFICES ASSUME NEW i \in 1 .. c, Len(back) # 0 PROVE B[i] # Empty
        OBVIOUS
      <4>1. i \in 1 .. Groups - r[2] /\ B[i] = b[r[2] + i]
        BY <2>3, <2>4
      <4>2. r[2] + i \in 1 .. Groups
        BY <1>1, <2>1, <4>1
      <4> QED
        BY <1>1, <4>1, <4>2
    <3>2. Len(text) = a + 1 + c /\ Len(back) = 0 => c = 1
      BY <2>4, <2>5
    <3>3. m \in gap(text)
      BY <2>4, <2>5, <3>2
    <3>4. \A i \in gap(text) : i <= m
      <4> SUFFICES ASSUME NEW i \in gap(text), Len(back) # 0 PROVE i <= a + 1
        BY <2>4, <2>5
      <4> SUFFICES ASSUME i > a + 1 PROVE FALSE
        BY <2>4, <2>5
      <4>1. i - (a + 1) \in 1 .. c /\ a + 1 + (i - (a + 1)) = i
        BY <2>4, <2>5
      <4>2. text[i] = B[i - (a + 1)]
        BY <2>5, <4>1
      <4> QED
        BY <3>1, <4>1, <4>2
    <3>5. gap(text) \in SUBSET Int
      OBVIOUS
    <3> HIDE DEF m, gap
    <3>6. final \in gap(text) /\ \A i \in gap(text) : final >= i
      BY <3>3, <3>4, <3>5 DEF Max
    <3>7. final <= m /\ m <= final /\ m \in Int /\ final \in Int
      BY <3>3, <3>4, <3>5, <3>6
    <3>8. \A i \in gap(text) : i <= final
      BY <3>5, <3>6, <3>7
    <3> HIDE DEF final
    <3> QED
      BY <3>7, <3>8 DEF m
  <2>8. SubSeq(text, 1, first - 1) = front
    <3>1. CASE Len(front) = 0
      <4>1. front = <<>>
        BY <2>3, <3>1
      <4>2. SubSeq(text, 1, 0) = <<>>
        BY SubSeqEmpty
      <4> HIDE DEF first
      <4>3. first - 1 = 0
        BY <2>6, <3>1
      <4> QED
        BY <4>1, <4>2, <4>3
    <3>2. CASE Len(front) # 0
      <4>1. first - 1 = a /\ A = front
        BY <2>4, <2>6, <3>2
      <4> DEFINE part == SubSeq(text, 1, a)
      <4>2. a \in 0 .. Len(text)
        BY <2>4, <2>5
      <4>3. part \in Seq(V) /\ Len(part) = a /\ \A i \in 1 .. a : part[i] = text[i]
        <5> HIDE DEF V, a
        <5> QED
          BY <2>5, <4>2, FrontIs
      <4> HIDE DEF part
      <4>4. Len(part) = Len(A) /\ \A i \in 1 .. Len(part) : part[i] = A[i]
        BY <2>5, <4>2, <4>3
      <4>5. part = A
        BY <2>4, <4>3, <4>4, SeqEqual
      <4> QED
        BY <4>1, <4>5 DEF part
    <3> QED
      BY <3>1, <3>2
  <2>9. SubSeq(text, final + 1, Len(text)) = back
    <3>1. CASE Len(back) = 0
      <4>1. back = <<>> /\ SubSeq(text, Len(text) + 1, Len(text)) = <<>>
        BY <2>3, <2>4, <2>5, <3>1, SubSeqEmpty
      <4> QED
        BY <2>7, <3>1, <4>1
    <3>2. CASE Len(back) # 0
      <4>1. final + 1 = a + 1 + 1 /\ B = back
        BY <2>4, <2>7, <3>2
      <4> DEFINE m == a + 1
                 part == SubSeq(text, m + 1, Len(text))
      <4>2. m \in 0 .. Len(text) /\ Len(text) - m = c
        BY <2>4, <2>5
      <4>3. part \in Seq(V) /\ Len(part) = Len(text) - m /\ \A i \in 1 .. Len(text) - m : part[i] = text[m + i]
        <5> HIDE DEF V, m
        <5> QED
          BY <2>5, <4>2, BackIs
      <4> HIDE DEF part
      <4>4. Len(part) = Len(B) /\ \A i \in 1 .. Len(part) : part[i] = B[i]
        BY <2>5, <4>2, <4>3
      <4>5. part = B
        BY <2>4, <4>3, <4>4, SeqEqual
      <4> QED
        BY <4>1, <4>5 DEF part
    <3> QED
      BY <3>1, <3>2
  <2>10. Denoted(text) = front \o [i \in 1 .. Groups - Len(front) - Len(back) |-> 0] \o back
    <3>1. gap(text) # {}
      BY <2>4, <2>5
    <3> QED
      BY <2>8, <2>9, <3>1 DEF Denoted
  <2>11. front \o [i \in 1 .. Groups - Len(front) - Len(back) |-> 0] \o back = b
    <3> DEFINE k == Groups - Len(front) - Len(back)
               m == r[1]
               n == r[2]
    <3>0. 0 \in V
      BY DEF AddressAssumption
    <3> HIDE DEF V
    <3>1. k = n - m + 1 /\ 0 \in V
      BY <1>1, <2>1, <2>3, <3>0, SMTT(30)
    <3> HIDE DEF k, m, n
    <3>2. Splits(V, b, m, n, k, front, back)
      BY <1>1, <2>1, <2>3, <3>1 DEF Splits, m, n
    <3>3. WithZeros(front, k, back) = b
      BY <3>2, ZerosBetween
    <3> QED
      BY <3>3 DEF k, WithZeros
  <2>12. IsIPv6Text(text)
    <3>1. a \in Nat \ {0} /\ c \in Nat \ {0} /\ Len(text) = a + 1 + c
          /\ (Len(front) = 0 => a = 1) /\ (Len(back) = 0 => c = 1)
      BY <2>4, <2>5
    <3>2. gap(text) # {} /\ gap(text) \in SUBSET Nat
      <4>1. a + 1 \in gap(text)
        BY <2>5, <3>1
      <4>2. \A i \in gap(text) : i \in Nat
        BY <3>1
      <4> HIDE DEF gap
      <4> QED
        BY <4>1, <4>2
    <3>3. \A i \in first .. final : i \in gap(text)
      <4>1. text[1] = A[1] /\ text[a + 1 + 1] = B[1] /\ text[a + 1] = Empty
        BY <2>5, <3>1
      <4>2. (Len(front) = 0 => text[1] = Empty) /\ (Len(back) = 0 => text[a + 1 + 1] = Empty)
        BY <2>4, <4>1
      <4>3. \A i \in first .. final : \/ i = a + 1
                                      \/ (i = 1 /\ Len(front) = 0)
                                      \/ (i = a + 1 + 1 /\ Len(back) = 0)
        <5> SUFFICES ASSUME NEW i \in first .. final
                     PROVE  \/ i = a + 1
                            \/ (i = 1 /\ Len(front) = 0)
                            \/ (i = a + 1 + 1 /\ Len(back) = 0)
          OBVIOUS
        <5>1. /\ first = IF Len(front) = 0 THEN 1 ELSE a + 1
              /\ final = IF Len(back) = 0 THEN Len(text) ELSE a + 1
          BY <2>6, <2>7
        <5> HIDE DEF first, final, a, c
        <5>2. /\ i \in Int /\ first <= i /\ i <= final /\ (Len(front) # 0 => a + 1 <= i)
              /\ (Len(back) # 0 => i <= a + 1) /\ (Len(back) = 0 => i <= a + 1 + 1) /\ 1 <= i
          BY <3>1, <5>1
        <5> QED
          BY <3>1, <5>2
      <4> HIDE DEF first, final
      <4> QED
        BY <3>1, <4>1, <4>2, <4>3
    <3>4. first \in Nat /\ final \in Nat
      <4> HIDE DEF first, final
      <4> QED
        BY <2>6, <2>7, <3>1
    <3>5. gap(text) = first .. final
      <4> HIDE DEF gap
      <4>1. \A i \in gap(text) : i \in first .. final
        <5> HIDE DEF first, final
        <5> QED
          BY <2>6, <2>7, <3>2, <3>4
      <4> HIDE DEF first, final
      <4> QED
        BY <3>3, <4>1
    <3>6. /\ Len(text) - (final - first + 1) < Groups
          /\ final - first = (IF first = 1 THEN 1 ELSE 0) + (IF final = Len(text) THEN 1 ELSE 0)
      <4>1. Len(front) \in Nat /\ Len(back) \in Nat /\ Len(front) + Len(back) < Groups
        BY <1>1, <2>1, <2>3, SMTT(30)
      <4>2. (Len(front) # 0 => a = Len(front)) /\ (Len(back) # 0 => c = Len(back))
        BY <2>4
      <4> HIDE DEF first, final, a, c
      <4> QED
        BY <1>1, <2>6, <2>7, <3>1, <4>1, <4>2
    <3> QED
      BY <3>2, <3>5, <3>6 DEF IsIPv6Text
  <2> QED
    BY <2>2, <2>5, <2>10, <2>11, <2>12
<1> QED
  BY <1>2, <1>3

-----------------------------------------------------------------------------
(* Hosts: what is gathered of the interfaces and kept of the answer *)

\* added has the addresses after each of the interfaces.
Gathers(host, added) ==
    /\ added[0] = <<>> /\ OfInterfaces(host) = added[Len(interfaces)]
    /\ \A i \in 1 .. Len(interfaces) :
          added[i] = AddInterface(host, added[i - 1], interfaces[i])

LEMMA OfInterfacesUnfolds ==
    ASSUME NEW host, Len(interfaces) \in Nat
    PROVE  \E added : Gathers(host, added)
<1> DEFINE n == Len(interfaces)
           Is(f, k) == f = [i \in 0 .. k |-> IF i = 0 THEN <<>> ELSE AddInterface(host, f[i - 1], interfaces[i])]
           Builds(k) == \E f : Is(f, k)
           There == {k \in Nat : Builds(k)}
<1>1. 0 \in There
  <2>1. Is([i \in 0 .. 0 |-> <<>>], 0)
    OBVIOUS
  <2> QED
    BY <2>1
<1>2. ASSUME NEW k \in 0 .. n - 1, Builds(k) PROVE Builds(k + 1)
  <2>1. PICK f : Is(f, k)
    BY <1>2
  <2> DEFINE g == [i \in 0 .. k + 1 |-> IF i = 0 THEN <<>> ELSE AddInterface(host, f[i - 1], interfaces[i])]
  <2>2. \A i \in 0 .. k : g[i] = f[i]
    BY <2>1
  <2>3. \A i \in 0 .. k + 1 : i # 0 => i - 1 \in 0 .. k
    OBVIOUS
  <2>4. g = [i \in 0 .. k + 1 |-> IF i = 0 THEN <<>> ELSE AddInterface(host, g[i - 1], interfaces[i])]
    BY <2>2, <2>3
  <2> HIDE DEF g
  <2> QED
    BY <2>4
<1> HIDE DEF Builds
<1>3. \A k \in 0 .. n : k \in There
  <2>1. \A k \in 0 .. n - 1 : k \in There => k + 1 \in There
    BY <1>2
  <2> HIDE DEF There
  <2> QED
    BY <1>1, <2>1, InductionUpTo
<1>4. Builds(n)
  BY <1>3
<1> HIDE DEF Is
<1> DEFINE added == CHOOSE f : Is(f, n)
<1>5. Is(added, n)
  BY <1>4 DEF Builds
<1>6. OfInterfaces(host) = added[n]
  BY DEF OfInterfaces, Is
<1> HIDE DEF added
<1>7. added[0] = <<>> /\ \A i \in 1 .. n : added[i] = AddInterface(host, added[i - 1], interfaces[i])
  BY <1>5 DEF Is
<1> QED
  BY <1>6, <1>7 DEF Gathers

\* added has the addresses after each entry of the answer.
Keeps(added) ==
    /\ added[0] = <<>> /\ OfAnswer = added[Len(answer)]
    /\ \A i \in 1 .. Len(answer) :
          added[i] = AddAnswer(added[i - 1], answer[i])

LEMMA OfAnswerUnfolds ==
    ASSUME Len(answer) \in Nat
    PROVE  \E added : Keeps(added)
<1> DEFINE n == Len(answer)
           Is(f, k) == f = [i \in 0 .. k |-> IF i = 0 THEN <<>> ELSE AddAnswer(f[i - 1], answer[i])]
           Builds(k) == \E f : Is(f, k)
           There == {k \in Nat : Builds(k)}
<1>1. 0 \in There
  <2>1. Is([i \in 0 .. 0 |-> <<>>], 0)
    OBVIOUS
  <2> QED
    BY <2>1
<1>2. ASSUME NEW k \in 0 .. n - 1, Builds(k) PROVE Builds(k + 1)
  <2>1. PICK f : Is(f, k)
    BY <1>2
  <2> DEFINE g == [i \in 0 .. k + 1 |-> IF i = 0 THEN <<>> ELSE AddAnswer(f[i - 1], answer[i])]
  <2>2. \A i \in 0 .. k : g[i] = f[i]
    BY <2>1
  <2>3. \A i \in 0 .. k + 1 : i # 0 => i - 1 \in 0 .. k
    OBVIOUS
  <2>4. g = [i \in 0 .. k + 1 |-> IF i = 0 THEN <<>> ELSE AddAnswer(g[i - 1], answer[i])]
    BY <2>2, <2>3
  <2> HIDE DEF g
  <2> QED
    BY <2>4
<1> HIDE DEF Builds
<1>3. \A k \in 0 .. n : k \in There
  <2>1. \A k \in 0 .. n - 1 : k \in There => k + 1 \in There
    BY <1>2
  <2> HIDE DEF There
  <2> QED
    BY <1>1, <2>1, InductionUpTo
<1>4. Builds(n)
  BY <1>3
<1> HIDE DEF Is
<1> DEFINE added == CHOOSE f : Is(f, n)
<1>5. Is(added, n)
  BY <1>4 DEF Builds
<1>6. OfAnswer = added[n]
  BY DEF OfAnswer, Is
<1> HIDE DEF added
<1>7. added[0] = <<>> /\ \A i \in 1 .. n : added[i] = AddAnswer(added[i - 1], answer[i])
  BY <1>5 DEF Is
<1> QED
  BY <1>6, <1>7 DEF Keeps

LEMMA EqualAddresses ==
    ASSUME AddressAssumption, NEW a \in IPv4 \cup IPv6, NEW b \in IPv4 \cup IPv6
    PROVE  IsEqual(a, b) <=> a = b
<1>1. CASE a \in IPv4
  <2>1. CASE b \in IPv4
    BY <1>1, <2>1 DEF IPv4, IsEqual, Family, Text, Port
  <2>2. CASE b \in IPv6
    BY <1>1, <2>2 DEF IPv4, IPv6, IsEqual, Family
  <2> QED
    BY <2>1, <2>2
<1>2. CASE a \in IPv6
  <2>1. CASE b \in IPv4
    BY <1>2, <2>1 DEF IPv4, IPv6, IsEqual, Family
  <2>2. CASE b \in IPv6
    <3>1. /\ a.bytes \in [1 .. Groups -> GroupValues] /\ Text(a) = Compressed(a.bytes)
          /\ b.bytes \in [1 .. Groups -> GroupValues] /\ Text(b) = Compressed(b.bytes)
      BY <1>2, <2>2 DEF IPv6, Text
    <3>2. Text(a) = Text(b) => a.bytes = b.bytes
      BY <3>1, CompressedIsRead
    <3> QED
      BY <1>2, <2>2, <3>1, <3>2 DEF IPv6, IsEqual, Port, Family
  <2> QED
    BY <2>1, <2>2
<1> QED
  BY <1>1, <1>2

LEMMA KnownAddresses ==
    ASSUME HostAssumption, NEW a \in ListedAddresses
    PROVE  /\ IsKnown(a) <=> a \in Listable
           /\ a \in Listable <=> a # NoAddress
           /\ a \in Listable => a \in IPv4 \cup IPv6
<1>1. \A b \in IPv4 \cup IPv6 : IsKnown(b)
  BY DEF IPv4, IPv6, IsKnown
<1>2. ~ IsKnown(NoAddress)
  BY DEF IsKnown, NoAddress
<1> QED
  BY <1>1, <1>2 DEF HostAssumption, ListedAddresses

LEMMA AppendAdds ==
    ASSUME NEW S, NEW s \in Seq(S), NEW x \in S
    PROVE  /\ Append(s, x) \in Seq(S) /\ Len(Append(s, x)) = Len(s) + 1
           /\ Range(Append(s, x)) = Range(s) \cup {x}
           /\ \A i \in 1 .. Len(s) : Append(s, x)[i] = s[i]
           /\ Append(s, x)[Len(s) + 1] = x
<1> DEFINE w == Append(s, x)
<1>1. /\ Len(s) \in Nat /\ DOMAIN s = 1 .. Len(s)
      /\ w \in Seq(S) /\ Len(w) = Len(s) + 1 /\ DOMAIN w = 1 .. Len(s) + 1
      /\ \A i \in 1 .. Len(s) : w[i] = s[i]
      /\ w[Len(s) + 1] = x
  OBVIOUS
<1> HIDE DEF w
<1>2. \A i \in 1 .. Len(s) + 1 : i \in 1 .. Len(s) \/ i = Len(s) + 1
  BY <1>1
<1>3. Range(w) = Range(s) \cup {x}
  BY <1>1, <1>2 DEF Range
<1> QED
  BY <1>1, <1>3 DEF w

LEMMA InterfacesAreGathered ==
    ASSUME HostAssumption, interfaces \in Seq(Interfaces), NEW host
    PROVE  OfInterfaces(host) \in Seq(Listable) /\ Range(OfInterfaces(host)) = Up(host)
<1>0. Len(interfaces) \in Nat /\ DOMAIN interfaces = 1 .. Len(interfaces)
      /\ \A i \in 1 .. Len(interfaces) : interfaces[i] \in Interfaces
  OBVIOUS
<1>1. PICK added : Gathers(host, added)
  BY <1>0, OfInterfacesUnfolds
<1> DEFINE adds(i) == interfaces[i].sa # NoAddress /\ interfaces[i].up /\ host \in {AnyHost, interfaces[i].name}
           UpTo(n) == {interfaces[i].sa : i \in {j \in 1 .. n : adds(j)}}
           Good(n) == added[n] \in Seq(Listable) /\ Range(added[n]) = UpTo(n)
           There == {n \in 0 .. Len(interfaces) : Good(n)}
<1>2. Good(0)
  <2>1. added[0] = <<>> /\ UpTo(0) = {}
    BY <1>1 DEF Gathers
  <2>2. <<>> \in Seq(Listable) /\ Range(<<>>) = {}
    BY DEF Range
  <2> HIDE DEF UpTo
  <2> QED
    BY <1>0, <2>1, <2>2
<1>3. ASSUME NEW n \in 0 .. Len(interfaces) - 1, Good(n) PROVE Good(n + 1)
  <2> DEFINE m == n + 1
  <2>1. m \in 1 .. Len(interfaces) /\ m \in 0 .. Len(interfaces) /\ m - 1 = n
        /\ (\A i \in 1 .. m : i \in 1 .. n \/ i = m)
        /\ \A i \in 1 .. n : i \in 1 .. m
        /\ m \in 1 .. m
    BY <1>0
  <2> HIDE DEF m
  <2>2. interfaces[m].sa \in ListedAddresses
    BY <1>0, <2>1 DEF Interfaces
  <2>3. added[m] = AddInterface(host, added[n], interfaces[m])
    BY <1>1, <2>1 DEF Gathers
  <2>4. IsKnown(interfaces[m].sa) <=> interfaces[m].sa # NoAddress
    BY <2>2, KnownAddresses
  <2>5. CASE adds(m)
    <3>1. added[m] = Append(added[n], interfaces[m].sa)
      BY <2>3, <2>4, <2>5 DEF AddInterface
    <3>2. UpTo(m) = UpTo(n) \cup {interfaces[m].sa}
      BY <2>1, <2>5
    <3>3. interfaces[m].sa \in Listable
      BY <2>2, <2>5, KnownAddresses
    <3> HIDE DEF UpTo
    <3>4. Good(m)
      BY <1>3, <3>1, <3>2, <3>3, AppendAdds
    <3> QED
      BY <3>4 DEF m
  <2>6. CASE ~ adds(m)
    <3>1. added[m] = added[n]
      BY <2>3, <2>4, <2>6 DEF AddInterface
    <3>2. UpTo(m) = UpTo(n)
      BY <2>1, <2>6
    <3> HIDE DEF UpTo
    <3>3. Good(m)
      BY <1>3, <3>1, <3>2
    <3> QED
      BY <3>3 DEF m
  <2> QED
    BY <2>5, <2>6
<1> HIDE DEF Good
<1>4. Good(Len(interfaces))
  <2>1. 0 \in There /\ \A n \in 0 .. Len(interfaces) - 1 : n \in There => n + 1 \in There
    BY <1>0, <1>2, <1>3
  <2> HIDE DEF There
  <2>2. \A n \in 0 .. Len(interfaces) : n \in There
    BY <1>0, <2>1, InductionUpTo
  <2> QED
    BY <1>0, <2>2 DEF There
<1>5. OfInterfaces(host) = added[Len(interfaces)]
  BY <1>1 DEF Gathers
<1>6. UpTo(Len(interfaces)) = Up(host)
  BY <1>0 DEF Up, Range
<1> QED
  BY <1>4, <1>5, <1>6 DEF Good

\* No two places of s have the same.
Once(s) == \A i, j \in 1 .. Len(s) : s[i] = s[j] => i = j

LEMMA AnswerIsKept ==
    ASSUME HostAssumption, answer \in Seq(Answers)
    PROVE  OfAnswer \in Seq(Listable) /\ Once(OfAnswer) /\ Range(OfAnswer) = Resolved
<1>0. Len(answer) \in Nat /\ DOMAIN answer = 1 .. Len(answer)
      /\ \A i \in 1 .. Len(answer) : answer[i] \in Answers
  OBVIOUS
<1>1. PICK added : Keeps(added)
  BY <1>0, OfAnswerUnfolds
<1> DEFINE adds(i) == answer[i].sa # NoAddress /\ answer[i].tcp
           UpTo(n) == {answer[i].sa : i \in {j \in 1 .. n : adds(j)}}
           Good(n) == added[n] \in Seq(Listable) /\ Once(added[n]) /\ Range(added[n]) = UpTo(n)
           There == {n \in 0 .. Len(answer) : Good(n)}
<1>2. Good(0)
  <2>1. added[0] = <<>> /\ UpTo(0) = {}
    BY <1>1 DEF Keeps
  <2>2. <<>> \in Seq(Listable) /\ Range(<<>>) = {} /\ Once(<<>>)
    BY DEF Range, Once
  <2> HIDE DEF UpTo
  <2> QED
    BY <1>0, <2>1, <2>2
<1>3. ASSUME NEW n \in 0 .. Len(answer) - 1, Good(n) PROVE Good(n + 1)
  <2> DEFINE m == n + 1
             s == added[n]
             x == answer[m].sa
  <2>1. m \in 1 .. Len(answer) /\ m \in 0 .. Len(answer) /\ m - 1 = n
        /\ (\A i \in 1 .. m : i \in 1 .. n \/ i = m)
        /\ \A i \in 1 .. n : i \in 1 .. m
        /\ m \in 1 .. m
    BY <1>0
  <2>2. x \in ListedAddresses
    BY <1>0, <2>1 DEF Answers
  <2>3. added[m] = AddAnswer(s, answer[m])
    BY <1>1, <2>1 DEF Keeps
  <2>4. (IsKnown(x) <=> x # NoAddress) /\ (x # NoAddress <=> x \in Listable)
    BY <2>2, KnownAddresses
  <2>5. s \in Seq(Listable) /\ Once(s) /\ Range(s) = UpTo(n)
    BY <1>3
  <2>6. x \in Listable => (ContainsData(s, x) <=> x \in Range(s))
    <3> HAVE x \in Listable
    <3>1. x \in IPv4 \cup IPv6 /\ AddressAssumption
      BY <2>2, KnownAddresses DEF HostAssumption
    <3>2. \A i \in DOMAIN s : s[i] \in IPv4 \cup IPv6
      BY <2>5 DEF HostAssumption
    <3>3. \A i \in DOMAIN s : IsEqual(s[i], x) <=> s[i] = x
      BY <3>1, <3>2, EqualAddresses
    <3> QED
      BY <3>3 DEF ContainsData, Range
  <2>7. adds(m) => UpTo(m) = UpTo(n) \cup {x}
    BY <2>1
  <2>8. ~ adds(m) => UpTo(m) = UpTo(n)
    BY <2>1
  <2>9. adds(m) <=> x # NoAddress /\ answer[m].tcp
    OBVIOUS
  <2> HIDE DEF UpTo, adds, m, s, x
  <2>10. Good(m)
    <3>1. CASE adds(m) /\ x \notin Range(s)
      <4>1. added[m] = Append(s, x) /\ x \in Listable
        BY <2>3, <2>4, <2>6, <2>9, <3>1 DEF AddAnswer, x
      <4>2. Once(Append(s, x))
        <5>1. /\ Len(Append(s, x)) = Len(s) + 1 /\ Len(s) \in Nat
              /\ \A i \in 1 .. Len(s) : Append(s, x)[i] = s[i]
              /\ Append(s, x)[Len(s) + 1] = x
          BY <2>5, <4>1, AppendAdds
        <5>2. \A i \in 1 .. Len(s) : s[i] # x
          BY <2>5, <3>1 DEF Range
        <5>3. \A i \in 1 .. Len(s) + 1 : i \in 1 .. Len(s) \/ i = Len(s) + 1
          BY <5>1
        <5> QED
          BY <2>5, <5>1, <5>2, <5>3 DEF Once
      <4>3. Append(s, x) \in Seq(Listable) /\ Range(Append(s, x)) = Range(s) \cup {x}
        BY <2>5, <4>1, AppendAdds
      <4> QED
        BY <2>5, <2>7, <3>1, <4>1, <4>2, <4>3
    <3>2. CASE adds(m) /\ x \in Range(s)
      <4>1. added[m] = s
        BY <2>3, <2>4, <2>6, <2>9, <3>2 DEF AddAnswer, x
      <4> QED
        BY <2>5, <2>7, <3>2, <4>1
    <3>3. CASE ~ adds(m)
      <4>1. added[m] = s
        BY <2>3, <2>4, <2>9, <3>3 DEF AddAnswer, x
      <4> QED
        BY <2>5, <2>8, <3>3, <4>1
    <3> QED
      BY <3>1, <3>2, <3>3
  <2> QED
    BY <2>10 DEF m
<1> HIDE DEF Good
<1>4. Good(Len(answer))
  <2>1. 0 \in There /\ \A n \in 0 .. Len(answer) - 1 : n \in There => n + 1 \in There
    BY <1>0, <1>2, <1>3
  <2> HIDE DEF There
  <2>2. \A n \in 0 .. Len(answer) : n \in There
    BY <1>0, <2>1, InductionUpTo
  <2> QED
    BY <1>0, <2>2 DEF There
<1>5. OfAnswer = added[Len(answer)]
  BY <1>1 DEF Keeps
<1>6. UpTo(Len(answer)) = Resolved
  BY <1>0 DEF Resolved, Range
<1> QED
  BY <1>4, <1>5, <1>6 DEF Good

LEMMA OnceCardinality ==
    ASSUME NEW S, NEW s \in Seq(S)
    PROVE  IsFiniteSet(Range(s)) /\ (Once(s) => Cardinality(Range(s)) = Len(s))
<1>1. Len(s) \in Nat /\ DOMAIN s = 1 .. Len(s) /\ s \in [1 .. Len(s) -> Range(s)]
  BY DEF Range
<1>2. IsFiniteSet(1 .. Len(s)) /\ Cardinality(1 .. Len(s)) = Len(s)
  <2>1. 1 \in Int /\ Len(s) \in Int
    BY <1>1
  <2>2. IsFiniteSet(1 .. Len(s)) /\ Cardinality(1 .. Len(s)) = IF 1 > Len(s) THEN 0 ELSE Len(s) - 1 + 1
    BY <2>1, FS_Interval
  <2> QED
    BY <1>1, <2>2
<1>3. \A y \in Range(s) : \E i \in 1 .. Len(s) : s[i] = y
  BY <1>1 DEF Range
<1>4. s \in Surjection(1 .. Len(s), Range(s))
  BY <1>1, <1>3 DEF Surjection
<1>5. IsFiniteSet(Range(s))
  BY <1>2, <1>4, FS_Surjection DEF ExistsSurjection
<1>6. ASSUME Once(s) PROVE Cardinality(Range(s)) = Len(s)
  <2>1. s \in Bijection(1 .. Len(s), Range(s))
    BY <1>1, <1>3, <1>6 DEF Once, Bijection, Injection, Surjection, IsInjective
  <2>2. ExistsBijection(1 .. Len(s), Range(s))
    BY <2>1 DEF ExistsBijection
  <2> QED
    BY <1>2, <2>2, FS_Bijection
<1> QED
  BY <1>5, <1>6

-----------------------------------------------------------------------------
(* Hosts: what qsort leaves *)

LEMMA SortsKeep ==
    ASSUME NEW S, NEW s \in Seq(S), NEW u \in SortsByFamily(s)
    PROVE  /\ u \in Seq(S) /\ Len(u) = Len(s) /\ DOMAIN u = 1 .. Len(s) /\ Range(u) = Range(s)
           /\ \A i, j \in DOMAIN u : i < j => CompareFamily(u[i], u[j]) <= 0
           /\ Once(s) => Once(u)
<1>1. Len(s) \in Nat /\ DOMAIN s = 1 .. Len(s) /\ \A i \in 1 .. Len(s) : s[i] \in S
  OBVIOUS
<1>2. PICK p \in Bijection(DOMAIN s, DOMAIN s) : u = [i \in DOMAIN s |-> s[p[i]]]
  BY DEF SortsByFamily
<1>3. /\ p \in [1 .. Len(s) -> 1 .. Len(s)]
      /\ \A i, j \in 1 .. Len(s) : p[i] = p[j] => i = j
      /\ \A j \in 1 .. Len(s) : \E i \in 1 .. Len(s) : p[i] = j
  BY <1>1, <1>2 DEF Bijection, Injection, Surjection, IsInjective
<1>3a. \A i \in 1 .. Len(s) : p[i] \in 1 .. Len(s)
  BY <1>3
<1>4. u \in Seq(S) /\ Len(u) = Len(s) /\ DOMAIN u = 1 .. Len(s) /\ \A i \in 1 .. Len(s) : u[i] = s[p[i]]
  BY <1>1, <1>2, <1>3
<1>5. Range(u) = Range(s)
  <2>1. ASSUME NEW i \in 1 .. Len(s) PROVE u[i] \in Range(s)
    BY <1>1, <1>3a, <1>4 DEF Range
  <2>2. ASSUME NEW j \in 1 .. Len(s) PROVE s[j] \in Range(u)
    <3>1. PICK i \in 1 .. Len(s) : p[i] = j
      BY <1>3
    <3> QED
      BY <1>4, <3>1 DEF Range
  <2>3. Range(u) \subseteq Range(s)
    BY <1>4, <2>1 DEF Range
  <2>4. Range(s) \subseteq Range(u)
    BY <1>1, <2>2 DEF Range
  <2> QED
    BY <2>3, <2>4
<1>6. \A i, j \in DOMAIN u : i < j => CompareFamily(u[i], u[j]) <= 0
  BY <1>1, <1>4 DEF SortsByFamily
<1>7. ASSUME Once(s) PROVE Once(u)
  <2> SUFFICES ASSUME NEW i \in 1 .. Len(s), NEW j \in 1 .. Len(s), u[i] = u[j] PROVE i = j
    BY <1>4 DEF Once
  <2>1. s[p[i]] = s[p[j]]
    BY <1>4
  <2>2. p[i] = p[j]
    BY <1>3a, <1>7, <2>1 DEF Once
  <2> QED
    BY <1>3, <2>2
<1> QED
  BY <1>4, <1>5, <1>6, <1>7

LEMMA ResultsAre ==
    ASSUME NEW s \in Seq(Listable), NEW e, NEW r \in Results(s, e)
    PROVE  /\ r.addresses \in Seq(Listable) /\ Range(r.addresses) = Range(s)
           /\ \A i, j \in DOMAIN r.addresses :
                 i < j => CompareFamily(r.addresses[i], r.addresses[j]) <= 0
           /\ Once(s) => Once(r.addresses)
           /\ r.addresses = <<>> => r.error = SetLibwiredError("no available addresses")
<1>1. CASE s = <<>>
  <2> DEFINE x == SetLibwiredError("no available addresses")
  <2>1. r \in {[addresses |-> <<>>, error |-> x]}
    BY <1>1 DEF Results
  <2> HIDE DEF x
  <2>2. r.addresses = <<>> /\ r.error = x
    BY <2>1
  <2>3. DOMAIN <<>> = {}
    BY DEF Range
  <2>4. \A i, j \in DOMAIN r.addresses : CompareFamily(r.addresses[i], r.addresses[j]) <= 0
    BY <2>2, <2>3
  <2> QED
    BY <1>1, <2>2, <2>4 DEF x
<1>2. CASE s # <<>>
  <2>1. PICK u \in SortsByFamily(s) : r.addresses = u
    BY <1>2 DEF Results
  <2>2. /\ u \in Seq(Listable) /\ Len(u) = Len(s) /\ Range(u) = Range(s)
        /\ \A i, j \in DOMAIN u : i < j => CompareFamily(u[i], u[j]) <= 0
        /\ Once(s) => Once(u)
    BY SortsKeep
  <2>3. u # <<>>
    BY <1>2, <2>2
  <2> QED
    BY <2>1, <2>2, <2>3
<1> QED
  BY <1>1, <1>2

-----------------------------------------------------------------------------
(* Hosts: the invariant *)

\* What a list of the addresses of a host should be
Sound(host, r) ==
    /\ r.addresses \in Seq(Listable) /\ Range(r.addresses) = Expected(host)
    /\ \A i, j \in DOMAIN r.addresses : i < j => CompareFamily(r.addresses[i], r.addresses[j]) <= 0
    /\ ~ ByInterface(host) => Once(r.addresses)
    /\ r.addresses = <<>> => r.error.code = IF ByInterface(host) /\ interfaces = Failed
                                            THEN "getifaddrs" ELSE "no available addresses"

\* What the system lists
ListsAreRight ==
    /\ interfaces \in Seq(Interfaces) \cup {Failed}
    /\ answer \in Seq(Answers) \cup {Failed}

LEMMA NoneSuch == SetLibwiredError("no available addresses").code = "no available addresses"
                  /\ SetLibwiredError("no available addresses").domain = "libwired"
                  /\ SetErrno("getifaddrs").code = "getifaddrs"
                  /\ SetError("gai", "no name").domain = "gai"
  BY DEF SetLibwiredError, SetErrno, SetError

LEMMA ForInterfaceIsSound ==
    ASSUME HostAssumption, ListsAreRight, NEW host, ByInterface(host), NEW e, NEW r \in ForInterface(host, e)
    PROVE  Sound(host, r)
<1>1. CASE interfaces = Failed
  <2>1. r.addresses = <<>> /\ r.error = SetErrno("getifaddrs") /\ Expected(host) = {}
    BY <1>1 DEF ForInterface, Expected
  <2>2. <<>> \in Seq(Listable) /\ Range(<<>>) = {} /\ DOMAIN <<>> = {}
    BY DEF Range
  <2> QED
    BY <1>1, <2>1, <2>2, NoneSuch DEF Sound
<1>2. CASE interfaces # Failed
  <2>1. interfaces \in Seq(Interfaces) /\ r \in Results(OfInterfaces(host), e) /\ Expected(host) = Up(host)
    BY <1>2 DEF ListsAreRight, ForInterface, Expected
  <2>2. OfInterfaces(host) \in Seq(Listable) /\ Range(OfInterfaces(host)) = Up(host)
    BY <2>1, InterfacesAreGathered
  <2>3. /\ r.addresses \in Seq(Listable) /\ Range(r.addresses) = Up(host)
        /\ \A i, j \in DOMAIN r.addresses : i < j => CompareFamily(r.addresses[i], r.addresses[j]) <= 0
        /\ r.addresses = <<>> => r.error = SetLibwiredError("no available addresses")
    BY <2>1, <2>2, ResultsAre
  <2> QED
    BY <1>2, <2>1, <2>3, NoneSuch DEF Sound
<1> QED
  BY <1>1, <1>2

LEMMA FoundIsSound ==
    ASSUME HostAssumption, ListsAreRight, NEW host, NEW e, NEW r \in AddressesOf(host, e)
    PROVE  Sound(host, r)
<1>1. CASE host = AnyHost
  <2>1. r \in ForInterface(host, e) /\ ByInterface(host)
    BY <1>1 DEF AddressesOf, ByInterface
  <2> QED
    BY <2>1, ForInterfaceIsSound
<1>2. CASE host # AnyHost
  <2>1. PICK found \in ForHost(e) : r \in IF found.addresses = <<>> /\ found.error.domain = "gai"
                                         THEN ForInterface(host, found.error) ELSE {found}
    BY <1>2 DEF AddressesOf
  <2>2. CASE answer = Failed
    <3> DEFINE x == SetError("gai", "no name")
    <3>0. found \in {[addresses |-> <<>>, error |-> x]}
      BY <2>2 DEF ForHost
    <3> HIDE DEF x
    <3>1a. found.addresses = <<>> /\ found.error = x
      BY <3>0
    <3>1. found.addresses = <<>> /\ found.error = SetError("gai", "no name")
      BY <3>1a DEF x
    <3>2. r \in ForInterface(host, found.error) /\ ByInterface(host)
      BY <2>1, <2>2, <3>1, NoneSuch DEF ByInterface
    <3> QED
      BY <3>2, ForInterfaceIsSound
  <2>3. CASE answer # Failed
    <3>1. answer \in Seq(Answers) /\ found \in Results(OfAnswer, e)
          /\ ~ ByInterface(host) /\ Expected(host) = Resolved
      BY <1>2, <2>3 DEF ListsAreRight, ForHost, ByInterface, Expected
    <3>2. OfAnswer \in Seq(Listable) /\ Once(OfAnswer) /\ Range(OfAnswer) = Resolved
      BY <3>1, AnswerIsKept
    <3>3. /\ found.addresses \in Seq(Listable) /\ Range(found.addresses) = Resolved
          /\ \A i, j \in DOMAIN found.addresses :
                i < j => CompareFamily(found.addresses[i], found.addresses[j]) <= 0
          /\ Once(found.addresses)
          /\ found.addresses = <<>> => found.error = SetLibwiredError("no available addresses")
      BY <3>1, <3>2, ResultsAre
    <3>4. r = found
      BY <2>1, <3>3, NoneSuch
    <3> QED
      BY <3>1, <3>3, <3>4, NoneSuch DEF Sound
  <2> QED
    BY <2>2, <2>3
<1> QED
  BY <1>1, <1>2

LEMMA SoundFirst ==
    ASSUME NEW host, NEW r, Sound(host, r)
    PROVE  IF Expected(host) = {} THEN FirstOf(r) = NoAddress
           ELSE /\ FirstOf(r) \in Expected(host)
                /\ \A a \in Expected(host) : CompareFamily(FirstOf(r), a) <= 0
<1> DEFINE s == r.addresses
<1>1. /\ s \in Seq(Listable) /\ Range(s) = Expected(host)
      /\ \A i, j \in DOMAIN s : i < j => CompareFamily(s[i], s[j]) <= 0
  BY DEF Sound
<1> HIDE DEF s
<1>2. Len(s) \in Nat /\ DOMAIN s = 1 .. Len(s) /\ (s # <<>> => 1 \in 1 .. Len(s) /\ Head(s) = s[1])
  BY <1>1
<1>3. CASE s = <<>>
  <2>1. Expected(host) = {}
    BY <1>1, <1>3 DEF Range
  <2> QED
    BY <1>3, <2>1 DEF FirstOf, s
<1>4. CASE s # <<>>
  <2>1. FirstOf(r) = s[1] /\ s[1] \in Expected(host)
    BY <1>1, <1>2, <1>4 DEF FirstOf, s, Range
  <2>2. ASSUME NEW a \in Expected(host) PROVE CompareFamily(s[1], a) <= 0
    <3>1. PICK j \in 1 .. Len(s) : s[j] = a
      BY <1>1, <1>2 DEF Range
    <3>2. CASE j = 1
      <4>1. CompareFamily(a, a) = 0
        BY DEF CompareFamily
      <4> QED
        BY <3>1, <3>2, <4>1
    <3>3. CASE j # 1
      BY <1>1, <1>2, <1>4, <3>1, <3>3
    <3> QED
      BY <3>2, <3>3
  <2> QED
    BY <2>1, <2>2
<1> QED
  BY <1>3, <1>4

LEMMA SoundEqual ==
    ASSUME HostAssumption, NEW h1, NEW h2, NEW r1, NEW r2, Sound(h1, r1), Sound(h2, r2),
           Len(r1.addresses) = Cardinality(Range(r1.addresses)),
           Len(r2.addresses) = Cardinality(Range(r2.addresses))
    PROVE  EqualLists(r1.addresses, r2.addresses) <=> Expected(h1) = Expected(h2)
<1> DEFINE s == r1.addresses
           u == r2.addresses
<1>1. s \in Seq(Listable) /\ Range(s) = Expected(h1) /\ u \in Seq(Listable) /\ Range(u) = Expected(h2)
  BY DEF Sound
<1>2. Len(s) = Cardinality(Range(s)) /\ Len(u) = Cardinality(Range(u))
  OBVIOUS
<1> HIDE DEF s, u
<1>3. \A i \in DOMAIN s : ContainsData(u, s[i]) <=> s[i] \in Range(u)
  <2> SUFFICES ASSUME NEW i \in DOMAIN s PROVE ContainsData(u, s[i]) <=> s[i] \in Range(u)
    OBVIOUS
  <2>1. s[i] \in IPv4 \cup IPv6 /\ AddressAssumption /\ \A j \in DOMAIN u : u[j] \in IPv4 \cup IPv6
    BY <1>1 DEF HostAssumption
  <2>2. \A j \in DOMAIN u : IsEqual(u[j], s[i]) <=> u[j] = s[i]
    BY <2>1, EqualAddresses
  <2> QED
    BY <2>2 DEF ContainsData, Range
<1>4. EqualLists(s, u) <=> Len(s) = Len(u) /\ Range(s) \subseteq Range(u)
  BY <1>3 DEF EqualLists, Range
<1>5. IsFiniteSet(Range(u))
  BY <1>1, OnceCardinality
<1>6. Len(s) = Len(u) /\ Range(s) \subseteq Range(u) <=> Range(s) = Range(u)
  <2>1. ASSUME Len(s) = Len(u), Range(s) \subseteq Range(u) PROVE Range(s) = Range(u)
    BY <1>2, <1>5, <2>1, FS_Subset
  <2> QED
    BY <1>2, <2>1
<1> QED
  BY <1>1, <1>4, <1>6 DEF s, u

LEMMA HostsAreRight ==
    ASSUME HostAssumption, ListsAreRight
    PROVE  HostsResolve
<1>1. ASSUME NEW host \in Hosts \cup {AnyHost}, NEW r \in AddressesOf(host, error)
      PROVE  LET s == r.addresses
             IN  /\ Range(s) = Expected(host)
                 /\ \A i, j \in DOMAIN s : i < j => CompareFamily(s[i], s[j]) <= 0
                 /\ ~ByInterface(host) => Len(s) = Cardinality(Range(s))
                 /\ s = <<>> => r.error.code = IF ByInterface(host) /\ interfaces = Failed
                                               THEN "getifaddrs" ELSE "no available addresses"
                 /\ IF Expected(host) = {} THEN FirstOf(r) = NoAddress
                    ELSE /\ FirstOf(r) \in Expected(host)
                         /\ \A a \in Expected(host) : CompareFamily(FirstOf(r), a) <= 0
  <2>1. Sound(host, r)
    BY FoundIsSound
  <2>2. ~ByInterface(host) => Len(r.addresses) = Cardinality(Range(r.addresses))
    BY <2>1, OnceCardinality DEF Sound
  <2>3. IF Expected(host) = {} THEN FirstOf(r) = NoAddress
        ELSE /\ FirstOf(r) \in Expected(host)
             /\ \A a \in Expected(host) : CompareFamily(FirstOf(r), a) <= 0
    BY <2>1, SoundFirst
  <2> QED
    BY <2>1, <2>2, <2>3 DEF Sound
<1>2. ASSUME NEW h1 \in Hosts \cup {AnyHost}, NEW h2 \in Hosts \cup {AnyHost},
             NEW r1 \in AddressesOf(h1, error), NEW r2 \in AddressesOf(h2, error),
             \A r \in {r1, r2} : Len(r.addresses) = Cardinality(Range(r.addresses))
      PROVE  EqualLists(r1.addresses, r2.addresses) <=> Expected(h1) = Expected(h2)
  <2>1. Sound(h1, r1) /\ Sound(h2, r2)
    BY FoundIsSound
  <2> QED
    BY <1>2, <2>1, SoundEqual
<1> QED
  BY <1>1, <1>2 DEF HostsResolve

\* However networks change, a host has exactly the addresses that the resolver, or the
\* interfaces that are up, have for it, IPv6 first; wi_host_address gives one of those, or NULL
\* if there is none; and hosts are equal if their addresses are, for lists of any length.
THEOREM HostsAlwaysResolve ==
    ASSUME HostAssumption
    PROVE  HostSpec => []HostsResolve
<1>1. HostInit => ListsAreRight
  BY DEF HostInit, ListsAreRight
<1>2. ListsAreRight /\ [HostNext]_hostVars => ListsAreRight'
  <2> SUFFICES ASSUME ListsAreRight, [HostNext]_hostVars PROVE ListsAreRight'
    OBVIOUS
  <2>1. CASE InterfacesChange
    <3>1. answer' = answer
      BY <2>1 DEF InterfacesChange
    <3>2. CASE interfaces' \in {<<>>, Failed}
      <4>1. <<>> \in Seq(Interfaces)
        OBVIOUS
      <4> QED
        BY <3>1, <3>2, <4>1 DEF ListsAreRight
    <3>3. CASE interfaces # Failed /\ \E i \in Interfaces : interfaces' = Append(interfaces, i)
      <4>1. PICK i \in Interfaces : interfaces' = Append(interfaces, i)
        BY <3>3
      <4>2. interfaces \in Seq(Interfaces)
        BY <3>3 DEF ListsAreRight
      <4>3. interfaces' \in Seq(Interfaces)
        BY <4>1, <4>2, AppendProperties
      <4> QED
        BY <3>1, <4>3 DEF ListsAreRight
    <3> QED
      BY <2>1, <3>2, <3>3 DEF InterfacesChange
  <2>2. CASE AnswerChanges
    <3>1. interfaces' = interfaces
      BY <2>2 DEF AnswerChanges
    <3>2. CASE answer' \in {<<>>, Failed}
      <4>1. <<>> \in Seq(Answers)
        OBVIOUS
      <4> QED
        BY <3>1, <3>2, <4>1 DEF ListsAreRight
    <3>3. CASE answer # Failed /\ \E x \in Answers : answer' = Append(answer, x)
      <4>1. PICK x \in Answers : answer' = Append(answer, x)
        BY <3>3
      <4>2. answer \in Seq(Answers)
        BY <3>3 DEF ListsAreRight
      <4>3. answer' \in Seq(Answers)
        BY <4>1, <4>2, AppendProperties
      <4> QED
        BY <3>1, <4>3 DEF ListsAreRight
    <3> QED
      BY <2>2, <3>2, <3>3 DEF AnswerChanges
  <2>3. CASE AskAddresses
    BY <2>3 DEF AskAddresses, ListsAreRight
  <2>4. CASE AskError
    BY <2>4 DEF AskError, ListsAreRight
  <2>5. CASE UNCHANGED hostVars
    BY <2>5 DEF hostVars, ListsAreRight
  <2> QED
    BY <2>1, <2>2, <2>3, <2>4, <2>5 DEF HostNext
<1>3. ListsAreRight => HostsResolve
  BY HostsAreRight
<1> QED
  BY <1>1, <1>2, <1>3, PTL DEF HostSpec

-----------------------------------------------------------------------------
(* Addresses: powers of 2, and the bits of a number *)

LEMMA Exp2Unfolds ==
    ASSUME NEW n \in Nat
    PROVE  \E exp : /\ exp[0] = 1 /\ Exp2(n) = exp[n]
                    /\ \A i \in 1 .. n : exp[i] = 2 * exp[i - 1]
<1> DEFINE Is(f, k) == f = [m \in 0 .. k |-> IF m = 0 THEN 1 ELSE 2 * f[m - 1]]
           Has(k) == \E f : Is(f, k)
           There == {k \in Nat : Has(k)}
<1>1. 0 \in There
  <2>1. Is([m \in 0 .. 0 |-> 1], 0)
    OBVIOUS
  <2> QED
    BY <2>1
<1>2. ASSUME NEW k \in 0 .. n - 1, Has(k) PROVE Has(k + 1)
  <2>1. PICK f : Is(f, k)
    BY <1>2
  <2> DEFINE g == [m \in 0 .. k + 1 |-> IF m = 0 THEN 1 ELSE 2 * f[m - 1]]
  <2>2. \A m \in 0 .. k : g[m] = f[m]
    BY <2>1
  <2>3. \A m \in 0 .. k + 1 : m # 0 => m - 1 \in 0 .. k
    OBVIOUS
  <2>4. g = [m \in 0 .. k + 1 |-> IF m = 0 THEN 1 ELSE 2 * g[m - 1]]
    BY <2>2, <2>3
  <2> HIDE DEF g
  <2> QED
    BY <2>4
<1> HIDE DEF Has
<1>3. \A k \in 0 .. n : k \in There
  <2>1. \A k \in 0 .. n - 1 : k \in There => k + 1 \in There
    BY <1>2
  <2> HIDE DEF There
  <2> QED
    BY <1>1, <2>1, InductionUpTo
<1>4. Has(n)
  BY <1>3
<1> HIDE DEF Is
<1> DEFINE exp == CHOOSE f : Is(f, n)
<1>5. Is(exp, n)
  BY <1>4 DEF Has
<1>6. Exp2(n) = exp[n]
  BY DEF Exp2, Is
<1> HIDE DEF exp
<1>7. exp[0] = 1 /\ \A i \in 1 .. n : exp[i] = 2 * exp[i - 1]
  BY <1>5 DEF Is
<1> QED
  BY <1>6, <1>7

LEMMA Exp2IsPositive ==
    ASSUME NEW n \in Nat
    PROVE  Exp2(n) \in Nat \ {0}
<1>1. PICK exp : /\ exp[0] = 1 /\ Exp2(n) = exp[n]
                 /\ \A i \in 1 .. n : exp[i] = 2 * exp[i - 1]
  BY Exp2Unfolds
<1> DEFINE Positive == {k \in 0 .. n : exp[k] \in Nat \ {0}}
<1>2. 0 \in Positive
  BY <1>1
<1>3. ASSUME NEW k \in 0 .. n - 1, k \in Positive PROVE k + 1 \in Positive
  <2>1. k + 1 \in 1 .. n /\ k + 1 - 1 = k
    OBVIOUS
  <2>2. exp[k + 1] = 2 * exp[k]
    BY <1>1, <2>1
  <2> QED
    BY <1>3, <2>1, <2>2
<1> HIDE DEF Positive
<1>4. \A k \in 0 .. n : k \in Positive
  BY <1>2, <1>3, InductionUpTo
<1> QED
  BY <1>1, <1>4 DEF Positive

LEMMA Exp2Doubles ==
    ASSUME NEW n \in Nat
    PROVE  Exp2(0) = 1 /\ Exp2(n + 1) = 2 * Exp2(n)
<1>0. n + 1 \in Nat /\ n + 1 \in 1 .. n + 1 /\ n + 1 - 1 = n
  OBVIOUS
<1>1. PICK f : /\ f[0] = 1 /\ Exp2(n) = f[n]
               /\ \A i \in 1 .. n : f[i] = 2 * f[i - 1]
  BY Exp2Unfolds
<1>2. PICK g : /\ g[0] = 1 /\ Exp2(n + 1) = g[n + 1]
               /\ \A i \in 1 .. n + 1 : g[i] = 2 * g[i - 1]
  BY <1>0, Exp2Unfolds
<1> DEFINE Alike == {k \in 0 .. n : g[k] = f[k]}
<1>3. 0 \in Alike
  BY <1>1, <1>2
<1>4. ASSUME NEW k \in 0 .. n - 1, k \in Alike PROVE k + 1 \in Alike
  <2>1. k + 1 \in 1 .. n /\ k + 1 \in 1 .. n + 1 /\ k + 1 - 1 = k
    OBVIOUS
  <2>2. f[k + 1] = 2 * f[k] /\ g[k + 1] = 2 * g[k]
    BY <1>1, <1>2, <2>1
  <2> QED
    BY <1>4, <2>1, <2>2
<1> HIDE DEF Alike
<1>5. \A k \in 0 .. n : k \in Alike
  BY <1>3, <1>4, InductionUpTo
<1>6. g[n] = f[n]
  BY <1>5 DEF Alike
<1>7. g[n + 1] = 2 * g[n]
  BY <1>0, <1>2
<1>8. Exp2(0) = 1
  <2>1. \E exp : exp[0] = 1 /\ Exp2(0) = exp[0]
    BY Exp2Unfolds
  <2> QED
    BY <2>1
<1> QED
  BY <1>1, <1>2, <1>6, <1>7, <1>8

LEMMA Exp2Adds ==
    ASSUME NEW m \in Nat, NEW n \in Nat
    PROVE  Exp2(m + n) = Exp2(m) * Exp2(n)
<1> DEFINE Adds == {k \in 0 .. n : Exp2(m + k) = Exp2(m) * Exp2(k)}
<1>1. 0 \in Adds
  <2>1. m + 0 = m /\ Exp2(0) = 1 /\ Exp2(m) \in Nat
    BY Exp2Doubles, Exp2IsPositive
  <2>2. Exp2(m + 0) = Exp2(m) * Exp2(0)
    BY <2>1
  <2> QED
    BY <2>2
<1>2. ASSUME NEW k \in 0 .. n - 1, k \in Adds PROVE k + 1 \in Adds
  <2>1. k \in Nat /\ m + k \in Nat /\ k + 1 \in 0 .. n /\ m + (k + 1) = m + k + 1
    OBVIOUS
  <2> DEFINE a == Exp2(m)
             c == Exp2(k)
  <2>2. a \in Nat /\ c \in Nat /\ Exp2(m + k) = a * c
    BY <1>2, <2>1, Exp2IsPositive
  <2>3. Exp2(m + k + 1) = 2 * Exp2(m + k) /\ Exp2(k + 1) = 2 * c
    BY <2>1, Exp2Doubles
  <2> HIDE DEF a, c
  <2>4. 2 * (a * c) = a * (2 * c)
    BY <2>2
  <2>5. Exp2(m + (k + 1)) = Exp2(m) * Exp2(k + 1)
    BY <2>1, <2>2, <2>3, <2>4 DEF a
  <2> QED
    BY <2>1, <2>5
<1> HIDE DEF Adds
<1>3. \A k \in 0 .. n : k \in Adds
  BY <1>1, <1>2, InductionUpTo
<1> QED
  BY <1>3 DEF Adds

LEMMA Quotient ==
    ASSUME NEW d \in Nat \ {0}, NEW q \in Nat, NEW l \in 0 .. d - 1
    PROVE  (q * d + l) \div d = q
  OBVIOUS

LEMMA Modulo ==
    ASSUME NEW d \in Nat \ {0}, NEW l \in 0 .. d - 1
    PROVE  l % d = l
  OBVIOUS

LEMMA BitIs ==
    ASSUME NEW x \in Nat, NEW j \in Nat, NEW h \in Nat, NEW b \in {0, 1}, NEW l \in 0 .. Exp2(j) - 1,
           x = (2 * h + b) * Exp2(j) + l
    PROVE  Bit(x, j) = b
<1>1. Exp2(j) \in Nat \ {0} /\ 2 * h + b \in Nat
  BY Exp2IsPositive
<1>2. x \div Exp2(j) = 2 * h + b
  BY <1>1, Quotient
<1>3. (2 * h + b) % 2 = b
  OBVIOUS
<1> QED
  BY <1>2, <1>3 DEF Bit

LEMMA HasBits ==
    ASSUME NEW x \in Nat, NEW j \in Nat
    PROVE  \E h \in Nat, l \in 0 .. Exp2(j) - 1 :
              /\ x = (2 * h + Bit(x, j)) * Exp2(j) + l
              /\ Bit(x, j) \in {0, 1}
<1> DEFINE d == Exp2(j)
           q == x \div d
           h == q \div 2
           l == x - q * d
<1>1. d \in Nat \ {0}
  BY Exp2IsPositive
<1> HIDE DEF d
<1>2. q \in Nat /\ l \in 0 .. d - 1
  BY <1>1
<1> HIDE DEF q
<1>3. h \in Nat /\ q = 2 * h + (q % 2) /\ q % 2 \in {0, 1}
  BY <1>2
<1>4. Bit(x, j) = q % 2
  BY DEF Bit, q, d
<1> HIDE DEF h
<1>5. x = (2 * h + Bit(x, j)) * d + l
  <2>1. x = q * d + l /\ q = 2 * h + Bit(x, j)
    BY <1>1, <1>2, <1>3, <1>4
  <2> QED
    BY <2>1
<1> QED
  BY <1>2, <1>3, <1>4, <1>5 DEF d

\* shifted has the number after each of the octets.
Shifts(text, shifted) ==
    /\ shifted[0] = 0
    /\ Uint32(text) = IF Len(text) < Octets THEN 0 ELSE shifted[Octets] % Exp2(Width)
    /\ \A i \in 1 .. Len(text) : shifted[i] = shifted[i - 1] * Exp2(Bits) + text[i]

LEMMA Uint32Unfolds ==
    ASSUME NEW text, Len(text) \in Nat
    PROVE  \E shifted : Shifts(text, shifted)
<1> DEFINE n == Len(text)
           Is(f, k) == f = [i \in 0 .. k |-> IF i = 0 THEN 0 ELSE f[i - 1] * Exp2(Bits) + text[i]]
           Builds(k) == \E f : Is(f, k)
           There == {k \in Nat : Builds(k)}
<1>1. 0 \in There
  <2>1. Is([i \in 0 .. 0 |-> 0], 0)
    OBVIOUS
  <2> QED
    BY <2>1
<1>2. ASSUME NEW k \in 0 .. n - 1, Builds(k) PROVE Builds(k + 1)
  <2>1. PICK f : Is(f, k)
    BY <1>2
  <2> DEFINE g == [i \in 0 .. k + 1 |-> IF i = 0 THEN 0 ELSE f[i - 1] * Exp2(Bits) + text[i]]
  <2>2. \A i \in 0 .. k : g[i] = f[i]
    BY <2>1
  <2>3. \A i \in 0 .. k + 1 : i # 0 => i - 1 \in 0 .. k
    OBVIOUS
  <2>4. g = [i \in 0 .. k + 1 |-> IF i = 0 THEN 0 ELSE g[i - 1] * Exp2(Bits) + text[i]]
    BY <2>2, <2>3
  <2> HIDE DEF g
  <2> QED
    BY <2>4
<1> HIDE DEF Builds
<1>3. \A k \in 0 .. n : k \in There
  <2>1. \A k \in 0 .. n - 1 : k \in There => k + 1 \in There
    BY <1>2
  <2> HIDE DEF There
  <2> QED
    BY <1>1, <2>1, InductionUpTo
<1>4. Builds(n)
  BY <1>3
<1> HIDE DEF Is
<1> DEFINE shifted == CHOOSE f : Is(f, n)
<1>5. Is(shifted, n)
  BY <1>4 DEF Builds
<1>6. Uint32(text) = IF Len(text) < Octets THEN 0 ELSE shifted[Octets] % Exp2(Width)
  BY DEF Uint32, Is
<1> HIDE DEF shifted
<1>7. shifted[0] = 0 /\ \A i \in 1 .. n : shifted[i] = shifted[i - 1] * Exp2(Bits) + text[i]
  BY <1>5 DEF Is
<1> QED
  BY <1>6, <1>7 DEF Shifts

\* A low bit of x * 2^n + y is that of y.
LEMMA LowBit ==
    ASSUME NEW x \in Nat, NEW n \in Nat, NEW y \in Nat, NEW j \in 0 .. n - 1
    PROVE  Bit(x * Exp2(n) + y, j) = Bit(y, j)
<1> DEFINE k == n - j - 1
           c == Exp2(k)
           d == Exp2(j)
<1>1. j \in Nat /\ k \in Nat /\ n = (k + 1) + j /\ k + 1 \in Nat
  OBVIOUS
<1>2. c \in Nat \ {0} /\ d \in Nat \ {0} /\ Exp2(k + 1) = 2 * c
  BY <1>1, Exp2IsPositive, Exp2Doubles
<1> HIDE DEF k
<1>3. Exp2(n) = (2 * c) * d
  BY <1>1, <1>2, Exp2Adds
<1>4. PICK h \in Nat, l \in 0 .. Exp2(j) - 1 :
         y = (2 * h + Bit(y, j)) * Exp2(j) + l /\ Bit(y, j) \in {0, 1}
  BY <1>1, HasBits
<1> DEFINE b == Bit(y, j)
           g == x * c + h
<1>5. b \in {0, 1} /\ l \in 0 .. d - 1 /\ y = (2 * h + b) * d + l
  BY <1>4
<1> HIDE DEF b, c, d
<1>6. g \in Nat /\ x * ((2 * c) * d) + y = (2 * g + b) * d + l
  <2>1. g \in Nat /\ x * c \in Nat
    BY <1>2
  <2>2. x * ((2 * c) * d) = (2 * (x * c)) * d
    BY <1>2
  <2>3. (2 * (x * c)) * d + (2 * h + b) * d = (2 * (x * c) + (2 * h + b)) * d
    BY <1>2, <1>5, <2>1
  <2> QED
    BY <1>2, <1>5, <2>1, <2>2, <2>3
<1> HIDE DEF g
<1>7. x * Exp2(n) + y = (2 * g + b) * Exp2(j) + l /\ x * Exp2(n) + y \in Nat
  <2>1. x * Exp2(n) \in Nat
    BY Exp2IsPositive
  <2> QED
    BY <1>3, <1>6, <2>1 DEF d
<1>8. Bit(x * Exp2(n) + y, j) = b
  BY <1>1, <1>5, <1>6, <1>7, BitIs DEF d
<1> QED
  BY <1>8 DEF b

\* A bit further up is one of x.
LEMMA HighBit ==
    ASSUME NEW x \in Nat, NEW n \in Nat, NEW y \in 0 .. Exp2(n) - 1, NEW j \in Nat
    PROVE  Bit(x * Exp2(n) + y, j + n) = Bit(x, j)
<1> DEFINE c == Exp2(n)
           d == Exp2(j)
           b == Bit(x, j)
<1>0. Exp2(n) \in Nat \ {0} /\ Exp2(j) \in Nat \ {0}
  BY Exp2IsPositive
<1>1. c \in Nat \ {0} /\ d \in Nat \ {0} /\ Exp2(j + n) = d * c /\ y \in Nat /\ j + n \in Nat
  BY <1>0, Exp2Adds
<1>2. PICK h \in Nat, l \in 0 .. d - 1 : x = (2 * h + b) * d + l /\ b \in {0, 1}
  BY HasBits
<1> DEFINE m == l * c + y
<1>3. y <= c - 1
  OBVIOUS
<1> HIDE DEF b, c, d
<1>4. m \in 0 .. d * c - 1
  <2>1. l * c <= (d - 1) * c /\ l * c \in Nat
    BY <1>1, <1>2
  <2>2. (d - 1) * c = d * c - c
    BY <1>1
  <2> QED
    BY <1>1, <1>3, <2>1, <2>2
<1>5. x * c + y = (2 * h + b) * (d * c) + m
  <2> DEFINE q == 2 * h + b
  <2>1. q \in Nat /\ x = q * d + l
    BY <1>1, <1>2
  <2> HIDE DEF q
  <2>2. (q * d + l) * c = (q * d) * c + l * c /\ (q * d) * c = q * (d * c)
    BY <1>1, <1>2, <2>1
  <2>3. x * c + y = q * (d * c) + (l * c + y)
    BY <1>1, <1>2, <2>1, <2>2
  <2> QED
    BY <2>3 DEF q
<1> HIDE DEF m
<1>6. x * c + y \in Nat
  BY <1>1
<1>7. Bit(x * c + y, j + n) = b
  <2>1. x * c + y = (2 * h + b) * Exp2(j + n) + m /\ m \in 0 .. Exp2(j + n) - 1
    BY <1>1, <1>4, <1>5
  <2> QED
    BY <1>1, <1>2, <1>6, <2>1, BitIs, ZenonT(40)
<1> QED
  BY <1>7 DEF b, c

LEMMA Below ==
    ASSUME NEW a \in Nat, NEW b \in Nat, NEW c \in Nat, NEW x \in 0 .. a - 1, NEW y \in 0 .. c - 1
    PROVE  x * c + y \in 0 .. a * c - 1
<1>1. x * c <= (a - 1) * c /\ x * c \in Nat /\ (a - 1) * c = a * c - c
  OBVIOUS
<1> QED
  BY <1>1

\* The bits of the number of an IPv4 address are those of its octets.
LEMMA Uint32Bits ==
    ASSUME Octets \in Nat, Bits \in Nat, NEW text \in Seq(Nat), IsIPv4Text(text)
    PROVE  /\ Uint32(text) \in Nat
           /\ \A q \in 1 .. Octets, r \in 0 .. Bits - 1 :
                 Bit(Uint32(text), r + (Octets - q) * Bits) = Bit(text[q], r)
<1>1. Len(text) = Octets /\ \A i \in 1 .. Octets : text[i] \in 0 .. Exp2(Bits) - 1
  BY DEF IsIPv4Text, Octet
<1>2. PICK shifted : Shifts(text, shifted)
  BY <1>1, Uint32Unfolds
<1>3. /\ shifted[0] = 0 /\ Uint32(text) = shifted[Octets] % Exp2(Width)
      /\ \A i \in 1 .. Octets : shifted[i] = shifted[i - 1] * Exp2(Bits) + text[i]
  BY <1>1, <1>2 DEF Shifts
<1> DEFINE Right(k) == /\ shifted[k] \in 0 .. Exp2(k * Bits) - 1
                       /\ \A q \in 1 .. k, r \in 0 .. Bits - 1 :
                             Bit(shifted[k], r + (k - q) * Bits) = Bit(text[q], r)
           There == {k \in 0 .. Octets : Right(k)}
<1>4. 0 \in There
  <2>1. 0 * Bits = 0 /\ Exp2(0) = 1
    BY Exp2Doubles
  <2> QED
    BY <1>3, <2>1
<1>5. ASSUME NEW k \in 0 .. Octets - 1, k \in There PROVE k + 1 \in There
  <2> DEFINE m == k + 1
             x == shifted[k]
             y == text[m]
  <2>1. /\ k \in Nat /\ m \in Nat /\ m \in 1 .. Octets /\ m \in 0 .. Octets /\ m - 1 = k
        /\ k * Bits \in Nat /\ m * Bits = k * Bits + Bits
        /\ \A q \in 1 .. m : q \in 1 .. k \/ q = m
    OBVIOUS
  <2> HIDE DEF m
  <2>2. shifted[m] = x * Exp2(Bits) + y /\ y \in 0 .. Exp2(Bits) - 1
    BY <1>1, <1>3, <2>1
  <2>3. x \in 0 .. Exp2(k * Bits) - 1
    BY <1>5
  <2>4. Exp2(m * Bits) = Exp2(k * Bits) * Exp2(Bits)
    BY <2>1, Exp2Adds
  <2>5. Exp2(Bits) \in Nat /\ Exp2(k * Bits) \in Nat /\ x \in Nat /\ y \in Nat
    BY <2>1, <2>2, <2>3, Exp2IsPositive
  <2>6. \A q \in 1 .. k, r \in 0 .. Bits - 1 : Bit(x, r + (k - q) * Bits) = Bit(text[q], r)
    BY <1>5
  <2> HIDE DEF x, y
  <2>7. shifted[m] \in 0 .. Exp2(m * Bits) - 1
    BY <2>2, <2>3, <2>4, <2>5, Below
  <2>8. ASSUME NEW q \in 1 .. m, NEW r \in 0 .. Bits - 1
        PROVE  Bit(shifted[m], r + (m - q) * Bits) = Bit(text[q], r)
    <3>1. CASE q = m
      <4>1. r + (m - q) * Bits = r
        BY <2>1, <3>1
      <4>2. Bit(x * Exp2(Bits) + y, r) = Bit(y, r)
        BY <2>5, LowBit
      <4> QED
        BY <2>2, <3>1, <4>1, <4>2 DEF y
    <3>2. CASE q \in 1 .. k
      <4> DEFINE j == r + (k - q) * Bits
      <4>1. j \in Nat /\ r + (m - q) * Bits = j + Bits
        <5>1. (k - q) * Bits \in Nat /\ (m - q) * Bits = (k - q) * Bits + Bits
          BY <2>1, <3>2
        <5> QED
          BY <5>1
      <4>2. Bit(x, j) = Bit(text[q], r)
        BY <2>6, <3>2
      <4> HIDE DEF j
      <4>3. Bit(x * Exp2(Bits) + y, j + Bits) = Bit(x, j)
        BY <2>2, <2>5, <4>1, HighBit
      <4> QED
        BY <2>2, <4>1, <4>2, <4>3
    <3> QED
      BY <2>1, <3>1, <3>2
  <2>9. Right(m)
    BY <2>7, <2>8
  <2> QED
    BY <2>1, <2>9 DEF m
<1> HIDE DEF There
<1>6. Octets \in There
  BY <1>4, <1>5, InductionUpTo, SMTT(30)
<1>7. Right(Octets)
  BY <1>6 DEF There
<1>8. Uint32(text) = shifted[Octets]
  <2>1. shifted[Octets] \in 0 .. Exp2(Width) - 1 /\ Width \in Nat
    BY <1>7 DEF Width
  <2>2. Exp2(Width) \in Nat \ {0}
    BY <2>1, Exp2IsPositive
  <2> QED
    BY <1>3, <2>1, <2>2, Modulo
<1> QED
  BY <1>7, <1>8

\* The bits of a prefix mask are the first of the width.
LEMMA PrefixMaskBits ==
    ASSUME Width \in Nat, NEW n \in Nat, NEW j \in 0 .. Width - 1
    PROVE  Bit(PrefixMask(n), j) = IF j >= Width - n THEN 1 ELSE 0
<1> DEFINE k == IF n > Width THEN 0 ELSE Width - n
<1>1. k \in 0 .. Width /\ (j >= Width - n <=> j >= k) /\ j \in Nat
  OBVIOUS
<1>2. PrefixMask(n) = Exp2(Width) - Exp2(k)
  BY Exp2Doubles DEF PrefixMask
<1> HIDE DEF k
<1> DEFINE x == Exp2(Width) - Exp2(k)
           d == Exp2(j)
<1>3. d \in Nat \ {0}
  BY <1>1, Exp2IsPositive
<1>4. CASE j >= k
  <2> DEFINE u == Width - j - 1
             c == Exp2(u)
             e == Exp2(k)
             v == j - k
             f == Exp2(v)
  <2>1. u \in Nat /\ u + 1 \in Nat /\ (u + 1) + j = Width /\ v \in Nat /\ v + k = j /\ k \in Nat
    BY <1>1, <1>4
  <2>2. c \in Nat \ {0} /\ e \in Nat \ {0} /\ f \in Nat \ {0} /\ Exp2(u + 1) = 2 * c
    BY <2>1, Exp2IsPositive, Exp2Doubles
  <2> HIDE DEF u, v
  <2>3a. Exp2((u + 1) + j) = Exp2(u + 1) * Exp2(j)
    BY <1>1, <2>1, Exp2Adds
  <2>3b. Exp2(v + k) = f * e
    BY <2>1, Exp2Adds
  <2>3. Exp2(Width) = (2 * c) * d /\ d = f * e
    BY <2>1, <2>2, <2>3a, <2>3b
  <2> HIDE DEF c, d, e, f
  <2>4. d >= e
    BY <2>2, <2>3
  <2>5. x = (2 * (c - 1) + 1) * d + (d - e) /\ x \in Nat /\ c - 1 \in Nat /\ d - e \in 0 .. d - 1
    <3>1. (2 * c) * d = (2 * (c - 1) + 1) * d + d /\ (2 * (c - 1) + 1) * d \in Nat
      BY <1>3, <2>2
    <3> QED
      BY <1>3, <2>2, <2>3, <2>4, <3>1 DEF e
  <2> HIDE DEF x
  <2>6. Bit(x, j) = 1
    BY <1>1, <2>5, BitIs DEF d
  <2> QED
    BY <1>1, <1>2, <1>4, <2>6 DEF x
<1>5. CASE ~ j >= k
  <2> DEFINE u == k - j - 1
             c == Exp2(u)
             v == Width - k
             f == Exp2(v)
  <2>1. u \in Nat /\ u + 1 \in Nat /\ (u + 1) + j = k /\ v \in Nat /\ v + k = Width /\ k \in Nat
    BY <1>1, <1>5
  <2>2. c \in Nat \ {0} /\ f \in Nat \ {0} /\ Exp2(u + 1) = 2 * c
    BY <2>1, Exp2IsPositive, Exp2Doubles
  <2> HIDE DEF u, v
  <2>3a. Exp2((u + 1) + j) = Exp2(u + 1) * Exp2(j)
    BY <1>1, <2>1, Exp2Adds
  <2>3b. Exp2(v + k) = f * Exp2(k)
    BY <2>1, Exp2Adds
  <2>3. Exp2(k) = (2 * c) * d /\ Exp2(Width) = f * Exp2(k)
    BY <2>1, <2>2, <2>3a, <2>3b
  <2> HIDE DEF c, d, f
  <2>4. c * (f - 1) \in Nat /\ x = (2 * (c * (f - 1)) + 0) * d + 0 /\ x \in Nat
    <3>1. c * (f - 1) \in Nat
      BY <2>2
    <3>2. f * ((2 * c) * d) - (2 * c) * d = (2 * (c * (f - 1))) * d
      BY <1>3, <2>2
    <3> QED
      BY <1>3, <2>3, <3>1, <3>2
  <2> HIDE DEF x
  <2>5. Bit(x, j) = 0
    BY <1>1, <1>3, <2>4, BitIs DEF d
  <2> QED
    BY <1>1, <1>2, <1>5, <2>5 DEF x
<1> QED
  BY <1>4, <1>5

-----------------------------------------------------------------------------
(* Addresses: wildcards and netmasks *)

LEMMA Sizes ==
    ASSUME AddressAssumption
    PROVE  /\ Octets \in Nat \ {0} /\ Bits \in Nat \ {0} /\ Groups \in Nat /\ Groups > 2 /\ Width \in Nat
           /\ 0 \in GroupValues /\ Empty \notin GroupValues /\ Ports \subseteq Nat
           /\ Exp2(Bits) \in Nat \ {0} /\ Exp2(PortBits) \in Nat \ {0}
<1>1. Octets \in Nat \ {0} /\ Bits \in Nat \ {0} /\ PortBits \in Nat
  BY DEF AddressAssumption
<1>2. Exp2(Bits) \in Nat \ {0} /\ Exp2(PortBits) \in Nat \ {0}
  BY <1>1, Exp2IsPositive
<1>3. Width \in Nat
  BY <1>1 DEF Width
<1> QED
  BY <1>1, <1>2, <1>3 DEF AddressAssumption

\* The place of bit i among the octets, and in the number they make.
LEMMA PlaceOfBit ==
    ASSUME Octets \in Nat \ {0}, Bits \in Nat \ {0}, NEW i \in 1 .. Width
    PROVE  LET q == (i - 1) \div Bits + 1
               r == Bits - 1 - ((i - 1) % Bits)
           IN  q \in 1 .. Octets /\ r \in 0 .. Bits - 1 /\ Width - i = r + (Octets - q) * Bits
<1> DEFINE d == (i - 1) \div Bits
           m == (i - 1) % Bits
<1>1. Width = Octets * Bits /\ Width \in Nat
  BY DEF Width
<1>2. i - 1 \in 0 .. Width - 1
  BY <1>1
<1>3. d \in Nat /\ m \in 0 .. Bits - 1 /\ i - 1 = d * Bits + m
  BY <1>2
<1> HIDE DEF d, m
<1>4. d < Octets
  <2> SUFFICES ASSUME d >= Octets PROVE FALSE
    BY <1>3
  <2>1. d * Bits >= Octets * Bits
    BY <1>3
  <2> QED
    BY <1>1, <1>2, <1>3, <2>1
<1>5. (Octets - (d + 1)) * Bits = Octets * Bits - d * Bits - Bits
  BY <1>3
<1>6. d + 1 \in 1 .. Octets /\ Bits - 1 - m \in 0 .. Bits - 1
      /\ Width - i = (Bits - 1 - m) + (Octets - (d + 1)) * Bits
  BY <1>1, <1>3, <1>4, <1>5
<1> QED
  BY <1>6 DEF d, m

\* The number that is compared has the bits of the text, the first one at the top.
LEMMA BitsOfText ==
    ASSUME AddressAssumption, NEW text \in Seq(Nat), IsIPv4Text(text), NEW i \in 1 .. Width
    PROVE  BitsOf(text)[i] = Bit(Uint32(text), Width - i)
<1> DEFINE q == (i - 1) \div Bits + 1
           r == Bits - 1 - ((i - 1) % Bits)
<1>1. Octets \in Nat \ {0} /\ Bits \in Nat \ {0}
  BY Sizes
<1>2. q \in 1 .. Octets /\ r \in 0 .. Bits - 1 /\ Width - i = r + (Octets - q) * Bits
  BY <1>1, PlaceOfBit
<1>3. BitsOf(text)[i] = Bit(text[q], r)
  BY DEF BitsOf
<1> HIDE DEF q, r
<1>4. Bit(Uint32(text), r + (Octets - q) * Bits) = Bit(text[q], r)
  BY <1>1, <1>2, Uint32Bits
<1> QED
  BY <1>2, <1>3, <1>4

LEMMA TextOfIPv4 ==
    ASSUME AddressAssumption, NEW a \in IPv4
    PROVE  /\ a.family = "ipv4" /\ Text(a) = a.bytes /\ Text(a) \in Seq(Nat) /\ Len(Text(a)) = Octets
           /\ IsIPv4Text(Text(a))
<1>1. Octets \in Nat /\ Exp2(Bits) \in Nat
  BY Sizes
<1>2. a.family = "ipv4" /\ a.bytes \in [1 .. Octets -> Octet]
  BY DEF IPv4
<1>3. Octet \subseteq Nat
  BY <1>1 DEF Octet
<1>4. a.bytes \in Seq(Nat) /\ Len(a.bytes) = Octets
  BY <1>1, <1>2, <1>3
<1> QED
  BY <1>2, <1>4 DEF Text, IsIPv4Text

LEMMA NetmaskDenotes ==
    ASSUME AddressAssumption, NEW a \in IPv4, NEW p \in Patterns, p.kind = "netmask", CanRead(p)
    PROVE  MatchesNetmask(a, p) <=> Denotes(p, a)
<1> DEFINE ip == Uint32(Text(a))
           other == Uint32(p.text)
           mask == Netmask(p.mask)
           Selects(i) == IF p.mask.dotted THEN BitsOf(p.mask.text)[i] = 1 ELSE i <= p.mask.cidr
<1>1. Width \in Nat
  BY Sizes
<1>2. /\ p.text \in Seq(Nat) /\ IsIPv4Text(p.text)
      /\ \/ p.mask.dotted = TRUE /\ p.mask.text \in Seq(Nat) /\ IsIPv4Text(p.mask.text)
         \/ p.mask.dotted = FALSE /\ p.mask.cidr \in Nat
  <2>1. 0 .. Significand \subseteq Nat
    BY DEF Significand
  <2> QED
    BY <2>1 DEF AddressAssumption, CanRead
<1>3. a.family = "ipv4" /\ Text(a) = a.bytes /\ Text(a) \in Seq(Nat) /\ IsIPv4Text(Text(a))
  BY TextOfIPv4
<1>4. \A i \in 1 .. Width : BitsOf(a.bytes)[i] = Bit(ip, Width - i)
                            /\ BitsOf(p.text)[i] = Bit(other, Width - i)
  BY <1>2, <1>3, BitsOfText
<1>5. \A i \in 1 .. Width : Bit(mask, Width - i) = 1 <=> Selects(i)
  <2> SUFFICES ASSUME NEW i \in 1 .. Width PROVE Bit(mask, Width - i) = 1 <=> Selects(i)
    OBVIOUS
  <2>1. CASE p.mask.dotted = TRUE
    <3>1. mask = Uint32(p.mask.text) /\ IsIPv4Text(p.mask.text) /\ p.mask.text \in Seq(Nat)
      BY <1>2, <2>1 DEF Netmask
    <3>2. BitsOf(p.mask.text)[i] = Bit(Uint32(p.mask.text), Width - i)
      BY <3>1, BitsOfText
    <3> QED
      BY <2>1, <3>1, <3>2
  <2>2. CASE p.mask.dotted = FALSE
    <3> DEFINE n == p.mask.cidr
               j == Width - i
    <3>1. mask = PrefixMask(n) /\ n \in Nat /\ j \in 0 .. Width - 1
      BY <1>1, <1>2, <2>2 DEF Netmask
    <3>2. Bit(PrefixMask(n), j) = IF j >= Width - n THEN 1 ELSE 0
      BY <1>1, <3>1, PrefixMaskBits
    <3>3. j >= Width - n <=> i <= n
      BY <1>1, <3>1
    <3> HIDE DEF j, n, mask
    <3>4. Bit(mask, j) = 1 <=> i <= n
      BY <3>1, <3>2, <3>3
    <3> QED
      BY <2>2, <3>4 DEF j, n
  <2> QED
    BY <1>2, <2>1, <2>2
<1> HIDE DEF ip, other, mask
<1>6. /\ \A i \in 1 .. Width : Width - i \in 0 .. Width - 1
      /\ \A j \in 0 .. Width - 1 : Width - j \in 1 .. Width /\ Width - (Width - j) = j
  BY <1>1
<1>7. MatchesNetmask(a, p) <=> \A j \in 0 .. Width - 1 : Bit(mask, j) = 1 => Bit(ip, j) = Bit(other, j)
  BY DEF MatchesNetmask, ip, other, mask
<1>8. Denotes(p, a) <=> \A i \in 1 .. Width : Selects(i) => BitsOf(a.bytes)[i] = BitsOf(p.text)[i]
  BY <1>3 DEF Denotes
<1> HIDE DEF Selects
<1>9. (\A j \in 0 .. Width - 1 : Bit(mask, j) = 1 => Bit(ip, j) = Bit(other, j))
      <=> \A i \in 1 .. Width : Bit(mask, Width - i) = 1 => Bit(ip, Width - i) = Bit(other, Width - i)
  BY <1>6
<1>10. (\A i \in 1 .. Width : Bit(mask, Width - i) = 1 => Bit(ip, Width - i) = Bit(other, Width - i))
       <=> \A i \in 1 .. Width : Selects(i) => BitsOf(a.bytes)[i] = BitsOf(p.text)[i]
  BY <1>4, <1>5
<1> QED
  BY <1>7, <1>8, <1>9, <1>10

LEMMA WildcardDenotes ==
    ASSUME AddressAssumption, NEW a \in IPv4, NEW p, p.kind = "wildcard", CanRead(p)
    PROVE  MatchesWildcard(a, p) <=> Denotes(p, a)
<1>1. a.family = "ipv4" /\ Text(a) = a.bytes /\ Len(Text(a)) = Octets
  BY TextOfIPv4
<1>2. Len(p.text) = Octets
  BY DEF CanRead
<1> QED
  BY <1>1, <1>2 DEF MatchesWildcard, Denotes

-----------------------------------------------------------------------------
(* Addresses: the texts of IPv6 *)

LEMMA EmptyBefore ==
    ASSUME NEW V, NEW s \in Seq(V)
    PROVE  <<>> \o s = s
  BY ConcatEmptySeq

LEMMA EmptyBehind ==
    ASSUME NEW V, NEW s \in Seq(V)
    PROVE  s \o <<>> = s
  BY ConcatEmptySeq

LEMMA SeqRetyped ==
    ASSUME NEW V, NEW W, NEW s \in Seq(V), \A i \in 1 .. Len(s) : s[i] \in W
    PROVE  s \in Seq(W)
<1>1. s = [i \in 1 .. Len(s) |-> s[i]] /\ Len(s) \in Nat
  OBVIOUS
<1> QED
  BY <1>1

LEMMA SeqIsFunction ==
    ASSUME NEW V, NEW s \in Seq(V)
    PROVE  s \in [1 .. Len(s) -> V]
  OBVIOUS

LEMMA GreatestNumber ==
    ASSUME NEW n \in Nat, NEW S \in SUBSET (0 .. n), S # {}
    PROVE  Max(S) \in S /\ \A i \in S : i <= Max(S)
<1> DEFINE T == {j \in 0 .. n : n - j \in S}
           m == n - Min(T)
<1>1. T \in SUBSET Nat /\ T # {}
  <2>1. PICK i \in 0 .. n : i \in S
    OBVIOUS
  <2>2. n - i \in 0 .. n /\ n - (n - i) = i
    OBVIOUS
  <2>3. n - i \in T
    BY <2>1, <2>2
  <2>4. \A j \in T : j \in Nat
    OBVIOUS
  <2> HIDE DEF T
  <2> QED
    BY <2>3, <2>4
<1>2. Min(T) \in T /\ \A j \in T : Min(T) <= j
  <2> HIDE DEF T
  <2> QED
    BY <1>1, LeastNumber
<1>3. m \in S
  BY <1>2
<1>4. ASSUME NEW i \in S PROVE i <= m
  <2>1. n - i \in T /\ Min(T) \in 0 .. n /\ i \in 0 .. n
    BY <1>2
  <2>2. Min(T) <= n - i
    BY <1>2, <2>1
  <2> HIDE DEF T
  <2> QED
    BY <2>1, <2>2
<1> HIDE DEF m
<1>5. \A x \in S : x \in Int
  OBVIOUS
<1> QED
  BY <1>3, <1>4, <1>5 DEF Max

\* zeros, and the groups that a text has
ZerosBefore(s) == [i \in 1 .. Groups - Len(s) |-> 0] \o s

LEMMA ZerosAreGroups ==
    ASSUME NEW n \in Nat, 0 \in GroupValues
    PROVE  /\ [i \in 1 .. n |-> 0] \in Seq(GroupValues) /\ Len([i \in 1 .. n |-> 0]) = n
           /\ [i \in 1 .. 0 |-> 0] = <<>>
  OBVIOUS

\* The numbers of a text are as many as an address has.
LEMMA DenotedIs ==
    ASSUME AddressAssumption, NEW text \in Seq(GroupValues \cup {Empty}), IsIPv6Text(text)
    PROVE  Denoted(text) \in [1 .. Groups -> GroupValues]
<1> DEFINE V == GroupValues \cup {Empty}
           gap == {i \in 1 .. Len(text) : text[i] = Empty}
           first == Min(gap)
           final == Max(gap)
<1>1. /\ Groups \in Nat /\ 0 \in GroupValues /\ Empty \notin GroupValues
      /\ Len(text) \in Nat /\ \A i \in 1 .. Len(text) : text[i] \in V
  BY Sizes
<1>2. CASE gap = {}
  <2>1. Denoted(text) = text /\ Len(text) = Groups
    BY <1>2 DEF Denoted, IsIPv6Text
  <2>2. \A i \in 1 .. Len(text) : text[i] \in GroupValues
    BY <1>1, <1>2
  <2>3. text = [i \in 1 .. Len(text) |-> text[i]]
    OBVIOUS
  <2> QED
    BY <2>1, <2>2, <2>3
<1>3. CASE gap # {}
  <2>1. gap = first .. final /\ Len(text) - (final - first + 1) < Groups
    <3> HIDE DEF first, final
    <3> QED
      BY <1>3 DEF IsIPv6Text, first, final
  <2>2. gap \in SUBSET Nat
    BY <1>1
  <2>3. first \in gap
    <3> HIDE DEF gap
    <3> QED
      BY <1>3, <2>2, LeastNumber
  <2>4. first \in 1 .. Len(text) /\ \A i \in 1 .. Len(text) : i \in first .. final <=> text[i] = Empty
    BY <2>1, <2>3
  <2>4a. final \in gap
    <3>1. gap \in SUBSET (0 .. Len(text))
      BY <1>1
    <3> HIDE DEF gap
    <3> QED
      BY <1>1, <1>3, <3>1, GreatestNumber
  <2>5. final \in 1 .. Len(text) /\ first <= final
    BY <2>1, <2>4a
  <2> DEFINE front == SubSeq(text, 1, first - 1)
             back == SubSeq(text, final + 1, Len(text))
             n == Groups - Len(front) - Len(back)
  <2>6. Denoted(text) = front \o [i \in 1 .. n |-> 0] \o back
    BY <1>3 DEF Denoted
  <2> HIDE DEF first, final
  <2>7. front \in Seq(GroupValues) /\ Len(front) = first - 1
    <3>1. first - 1 \in 0 .. Len(text) /\ \A i \in 1 .. first - 1 : text[i] \in GroupValues
      BY <1>1, <2>4, <2>5
    <3>2. front \in Seq(V) /\ Len(front) = first - 1 /\ \A i \in 1 .. first - 1 : front[i] = text[i]
      BY <3>1, FrontIs
    <3> HIDE DEF front
    <3> QED
      BY <3>1, <3>2, SeqRetyped
  <2>8. back \in Seq(GroupValues) /\ Len(back) = Len(text) - final
    <3>1. final \in 0 .. Len(text) /\ \A i \in 1 .. Len(text) - final : text[final + i] \in GroupValues
      BY <1>1, <2>4, <2>5
    <3>2. back \in Seq(V) /\ Len(back) = Len(text) - final
          /\ \A i \in 1 .. Len(text) - final : back[i] = text[final + i]
      BY <3>1, BackIs
    <3> HIDE DEF back
    <3> QED
      BY <3>1, <3>2, SeqRetyped
  <2>9. n \in Nat /\ Len(front) + n + Len(back) = Groups
    BY <1>1, <2>1, <2>4, <2>5, <2>7, <2>8
  <2> HIDE DEF n, front, back
  <2>10. [i \in 1 .. n |-> 0] \in Seq(GroupValues) /\ Len([i \in 1 .. n |-> 0]) = n
    BY <1>1, <2>9, ZerosAreGroups
  <2>11. Denoted(text) \in Seq(GroupValues) /\ Len(Denoted(text)) = Groups
    <3> DEFINE z == [i \in 1 .. n |-> 0]
    <3>1. z \in Seq(GroupValues) /\ Len(z) = n /\ Denoted(text) = front \o z \o back
      BY <2>6, <2>10
    <3> HIDE DEF z
    <3>2. front \o z \in Seq(GroupValues) /\ Len(front \o z) = Len(front) + n
      BY <2>7, <3>1, ConcatProperties
    <3>3. front \o z \o back \in Seq(GroupValues) /\ Len(front \o z \o back) = Len(front) + n + Len(back)
      BY <2>8, <3>2, ConcatProperties
    <3> QED
      BY <2>9, <3>1, <3>3
  <2> QED
    BY <2>11, SeqIsFunction
<1> QED
  BY <1>2, <1>3

\* What the code expands a text to, if groups are left out at its front only, is what it denotes.
LEMMA ExpandedIs ==
    ASSUME AddressAssumption, NEW text \in Seq(GroupValues \cup {Empty}), IsIPv6Text(text), FrontOnly(text)
    PROVE  Expanded(text) = Denoted(text)
<1> DEFINE V == GroupValues \cup {Empty}
           gap == {i \in 1 .. Len(text) : text[i] = Empty}
           full == {i \in 1 .. Len(text) : text[i] # Empty}
           groups == WithoutEmptyFront(text)
           first == Min(gap)
           final == Max(gap)
<1>1. /\ Groups \in Nat /\ Groups > 2 /\ 0 \in V /\ Empty \notin GroupValues
      /\ Len(text) \in Nat /\ \A i \in 1 .. Len(text) : text[i] \in V
  BY Sizes
<1>2. \A s \in Seq(V) : Len(text) >= 3 /\ groups = s /\ (\A i \in 1 .. Len(s) : s[i] # Empty)
                        => Expanded(text) = ZerosBefore(s)
  <2> SUFFICES ASSUME NEW s \in Seq(V), Len(text) >= 3, groups = s, \A i \in 1 .. Len(s) : s[i] # Empty
               PROVE  Expanded(text) = ZerosBefore(s)
    OBVIOUS
  <2>1. [i \in 1 .. Len(s) |-> IF s[i] = Empty THEN 0 ELSE s[i]] = s
    <3>1. \A i \in 1 .. Len(s) : (IF s[i] = Empty THEN 0 ELSE s[i]) = s[i]
      OBVIOUS
    <3>2. s = [i \in 1 .. Len(s) |-> s[i]]
      OBVIOUS
    <3> QED
      BY <3>1, <3>2
  <2>2. Expanded(text) = [i \in 1 .. Groups - Len(s) |-> 0]
                         \o [i \in 1 .. Len(s) |-> IF s[i] = Empty THEN 0 ELSE s[i]]
    <3> DEFINE WithFront(g) == [i \in 1 .. Groups - Len(g) |-> 0]
                            \o [i \in 1 .. Len(g) |-> IF g[i] = Empty THEN 0 ELSE g[i]]
    <3>1. ~ Len(text) < 3
      BY <1>1
    <3>2. Expanded(text) = WithFront(groups)
      BY <3>1 DEF Expanded
    <3> HIDE DEF WithFront, groups
    <3>3. WithFront(groups) = WithFront(s)
      OBVIOUS
    <3> QED
      BY <3>2, <3>3 DEF WithFront
  <2> QED
    BY <2>1, <2>2 DEF ZerosBefore
<1>3. CASE gap = {}
  <2>1. Len(text) = Groups /\ Denoted(text) = text
    BY <1>3 DEF IsIPv6Text, Denoted
  <2>2. full = 1 .. Len(text)
    BY <1>3
  <2>3. Min(full) = 1 /\ full # {}
    <3>1. 1 \in full /\ full \in SUBSET Nat /\ \A i \in full : 1 <= i
      BY <1>1, <2>1, <2>2
    <3> HIDE DEF full
    <3>2. Min(full) \in full /\ \A i \in full : Min(full) <= i
      BY <3>1, LeastNumber
    <3>3. Min(full) \in Nat /\ 1 <= Min(full) /\ Min(full) <= 1
      BY <3>1, <3>2
    <3> HIDE DEF full
    <3> QED
      BY <3>1, <3>3
  <2>4. groups = text
    BY <2>3, SubSeqFull DEF WithoutEmptyFront
  <2>5. \A i \in 1 .. Len(text) : text[i] # Empty
    BY <1>3
  <2>6. Expanded(text) = ZerosBefore(text)
    BY <1>1, <1>2, <2>1, <2>4, <2>5
  <2>7. ZerosBefore(text) = <<>> \o text
    BY <1>1, <2>1, ZerosAreGroups, Sizes DEF ZerosBefore
  <2> QED
    BY <2>1, <2>6, <2>7, EmptyBefore
<1>4. CASE gap # {}
  <2>1. /\ gap = first .. final
        /\ Len(text) - (final - first + 1) < Groups
        /\ final - first = (IF first = 1 THEN 1 ELSE 0) + (IF final = Len(text) THEN 1 ELSE 0)
    <3> HIDE DEF first, final
    <3> QED
      BY <1>4 DEF IsIPv6Text, first, final
  <2>2. first \in gap /\ final \in gap /\ \A i \in gap : first <= i
    <3>1. gap \in SUBSET Nat /\ gap \in SUBSET (0 .. Len(text))
      BY <1>1
    <3> HIDE DEF gap
    <3> QED
      BY <1>1, <1>4, <3>1, LeastNumber, GreatestNumber
  <2>3. first \in 1 .. Len(text) /\ final \in 1 .. Len(text) /\ text[first] = Empty
        /\ \A i \in 1 .. Len(text) : text[i] = Empty => first <= i
    BY <2>2
  <2>4. \A i \in 1 .. Len(text) : i \in first .. final <=> text[i] = Empty
    BY <2>1
  <2> HIDE DEF first, final, gap
  <2>5. first = 1
    <3>1. text[1] = Empty /\ 1 \in 1 .. Len(text)
      BY <1>1, <2>3 DEF FrontOnly
    <3> QED
      BY <2>3, <3>1
  <2>6. Len(text) >= 3 /\ final \in 1 .. Len(text)
    <3>1. CASE final = Len(text)
      <4>1. final - first = 2
        BY <2>1, <2>5, <3>1
      <4> HIDE DEF groups, full, V
      <4> QED
        BY <1>1, <2>3, <2>5, <3>1, <4>1
    <3>2. CASE final # Len(text)
      <4>1. (IF final = Len(text) THEN 1 ELSE 0) = 0 /\ (IF first = 1 THEN 1 ELSE 0) = 1
        BY <2>5, <3>2
      <4>2. final - 1 = 1 + 0
        BY <2>1, <2>5, <4>1
      <4>3. final \in Nat /\ final <= Len(text) /\ Len(text) \in Nat
        BY <1>1, <2>3
      <4> HIDE DEF groups, full, V
      <4>4. final = 2
        BY <4>2, <4>3
      <4>5. \A n \in Nat : 2 <= n /\ n # 2 => n >= 3 /\ 2 \in 1 .. n
        OBVIOUS
      <4>6. 2 <= Len(text) /\ Len(text) # 2
        BY <3>2, <4>3, <4>4
      <4> QED
        BY <4>3, <4>4, <4>5, <4>6
    <3> QED
      BY <3>1, <3>2
  <2> DEFINE back == SubSeq(text, final + 1, Len(text))
  <2>7. back \in Seq(V) /\ Len(back) = Len(text) - final
        /\ \A i \in 1 .. Len(text) - final : back[i] = text[final + i]
    <3>1. final \in 0 .. Len(text)
      BY <2>6
    <3> HIDE DEF V
    <3> QED
      BY <3>1, BackIs DEF V
  <2>8. \A i \in 1 .. Len(back) : back[i] # Empty
    BY <2>4, <2>6, <2>7
  <2>9. groups = back
    <3>1. CASE final = Len(text)
      <4>1. full = {}
        BY <2>4, <2>5, <3>1
      <4>2. back = <<>>
        BY <1>1, <3>1, SubSeqEmpty
      <4> QED
        BY <4>1, <4>2 DEF WithoutEmptyFront
    <3>2. CASE final # Len(text)
      <4>1. final + 1 \in full /\ \A i \in full : final + 1 <= i
        BY <2>4, <2>5, <2>6, <3>2
      <4>2. full \in SUBSET Nat
        OBVIOUS
      <4> HIDE DEF full
      <4>3. Min(full) \in full /\ \A i \in full : Min(full) <= i
        BY <4>1, <4>2, LeastNumber
      <4>4. Min(full) = final + 1 /\ full # {}
        <5>1. Min(full) \in Nat /\ final + 1 \in Nat /\ final + 1 <= Min(full) /\ Min(full) <= final + 1
          BY <4>1, <4>2, <4>3
        <5> QED
          BY <4>1, <5>1
      <4> QED
        BY <4>4 DEF WithoutEmptyFront, full
    <3> QED
      BY <3>1, <3>2
  <2>10. Expanded(text) = ZerosBefore(back)
    <3> HIDE DEF back, groups
    <3> QED
      BY <1>2, <2>6, <2>7, <2>8, <2>9
  <2>11. Denoted(text) = ZerosBefore(back)
    <3> DEFINE n == Groups - Len(back)
    <3>1. SubSeq(text, 1, first - 1) = <<>> /\ Len(<<>>) = 0
      BY <2>5, SubSeqEmpty
    <3>2. n \in Nat /\ Groups - 0 - Len(back) = n
      BY <1>1, <2>1, <2>5, <2>6, <2>7
    <3>3. Denoted(text) = <<>> \o [i \in 1 .. Groups - 0 - Len(back) |-> 0] \o back
      BY <1>4, <3>1 DEF Denoted, gap, first, final
    <3> HIDE DEF n
    <3>4. <<>> \o [i \in 1 .. n |-> 0] = [i \in 1 .. n |-> 0]
      BY <3>2, ZerosAreGroups, EmptyBefore, Sizes
    <3> HIDE DEF back
    <3> QED
      BY <3>2, <3>3, <3>4 DEF ZerosBefore, n
  <2> QED
    BY <2>10, <2>11
<1> QED
  BY <1>3, <1>4

LEMMA IPv6Denotes ==
    ASSUME AddressAssumption, NEW a \in IPv6, NEW p \in Patterns, CanRead(p), FrontOnly(Text(a))
    PROVE  MatchesIPv6(a, p) <=> Denotes(p, a)
<1>1. a.family = "ipv6" /\ a.bytes \in [1 .. Groups -> GroupValues] /\ Text(a) = Compressed(a.bytes)
  BY DEF IPv6, Text
<1>2. CASE p.kind = "ipv6"
  <2>1. p.text \in Seq(GroupValues \cup {Empty}) /\ IsIPv6Text(p.text) /\ FrontOnly(p.text)
    BY <1>2 DEF AddressAssumption, CanRead
  <2>2. Expanded(p.text) = Denoted(p.text) /\ Denoted(p.text) \in [1 .. Groups -> GroupValues]
    BY <2>1, ExpandedIs, DenotedIs
  <2>3. /\ Text(a) \in Seq(GroupValues \cup {Empty}) /\ IsIPv6Text(Text(a)) /\ Denoted(Text(a)) = a.bytes
    BY <1>1, CompressedIsRead
  <2>4. Expanded(Text(a)) = a.bytes
    BY <2>3, ExpandedIs
  <2>5. \A s \in [1 .. Groups -> GroupValues] : s # <<>>
    BY Sizes
  <2>6. a.bytes # <<>> /\ Expanded(p.text) # <<>>
    BY <1>1, <2>2, <2>5
  <2>7. MatchesIPv6(a, p) <=> a.bytes = Denoted(p.text)
    BY <1>2, <2>2, <2>4, <2>6 DEF MatchesIPv6
  <2> QED
    BY <1>1, <1>2, <2>7 DEF Denotes
<1>3. CASE p.kind # "ipv6"
  <2>1. p.kind \in {"ipv4", "wildcard", "netmask"}
    BY <1>3 DEF AddressAssumption
  <2>2. ~ MatchesIPv6(a, p)
    BY <1>3 DEF MatchesIPv6
  <2>3. ~ Denotes(p, a)
    BY <1>1, <2>1 DEF Denotes
  <2> QED
    BY <2>2, <2>3
<1> QED
  BY <1>2, <1>3

LEMMA PatternsDenote ==
    ASSUME AddressAssumption, NEW a \in IPv4 \cup IPv6, NEW p \in Patterns, CanRead(p),
           a.family = "ipv6" => FrontOnly(Text(a))
    PROVE  MatchesPattern(a, p) <=> Denotes(p, a)
<1>0. p.kind \in {"ipv4", "ipv6", "wildcard", "netmask"}
  BY DEF AddressAssumption
<1>1. CASE a \in IPv6
  <2>1. a.family = "ipv6"
    BY <1>1 DEF IPv6
  <2>2. MatchesPattern(a, p) <=> MatchesIPv6(a, p)
    BY <2>1 DEF MatchesPattern
  <2> QED
    BY <1>1, <2>1, <2>2, IPv6Denotes
<1>2. CASE a \in IPv4
  <2>1. a.family = "ipv4" /\ Text(a) = a.bytes
    BY <1>2, TextOfIPv4
  <2>2. CASE p.kind = "wildcard"
    BY <1>2, <2>1, <2>2, WildcardDenotes DEF MatchesPattern
  <2>3. CASE p.kind = "netmask"
    BY <1>2, <2>1, <2>3, NetmaskDenotes DEF MatchesPattern
  <2>4. CASE p.kind \in {"ipv4", "ipv6"}
    BY <2>1, <2>4 DEF MatchesPattern, MatchesLiteral, Denotes
  <2> QED
    BY <1>0, <2>2, <2>3, <2>4
<1> QED
  BY <1>1, <1>2

-----------------------------------------------------------------------------
(* Addresses: the invariant *)

\* The address has the bytes and the port of its family, whatever it was made of.
AddressIsRight == address \in IPv4 \cup IPv6 /\ pattern \in Patterns \cup {NoPattern}

LEMMA AddressStarts ==
    ASSUME AddressAssumption, AddressInit
    PROVE  AddressIsRight
<1> DEFINE bytes == [i \in 1 .. Octets |-> 0]
<1>1. 0 \in Octet /\ 0 \in 0 .. Exp2(PortBits) - 1
  BY Sizes DEF Octet
<1>2. bytes \in [1 .. Octets -> Octet]
  BY <1>1
<1>3. Wildcard("ipv4") = [family |-> "ipv4", port |-> 0, bytes |-> bytes]
  BY DEF Wildcard, WithSa, IsKnown
<1> HIDE DEF bytes
<1>4. Wildcard("ipv4") \in IPv4
  BY <1>1, <1>2, <1>3 DEF IPv4
<1> QED
  BY <1>4 DEF AddressInit, AddressIsRight

LEMMA AddressSteps ==
    ASSUME AddressAssumption, AddressIsRight, [AddressNext]_<<address, pattern>>
    PROVE  AddressIsRight'
<1>1. CASE ChangeSa
  BY <1>1 DEF ChangeSa, SetSa, IsKnown, NoAddress, AddressIsRight
<1>2. CASE ChangePort
  <2>1. PICK port \in Ports : address' = SetPort(address, port)
    BY <1>2 DEF ChangePort
  <2> DEFINE n == port % Exp2(PortBits)
  <2>2. n \in 0 .. Exp2(PortBits) - 1
    BY Sizes
  <2> HIDE DEF n
  <2>3. address' = [address EXCEPT !.port = n]
    BY <2>1 DEF SetPort, n
  <2>4. address \in IPv4 => address' \in IPv4
    BY <2>2, <2>3 DEF IPv4
  <2>5. address \in IPv6 => address' \in IPv6
    BY <2>2, <2>3 DEF IPv6
  <2> QED
    BY <1>2, <2>4, <2>5 DEF ChangePort, AddressIsRight
<1>3. CASE Parse
  <2>1. PICK p \in Patterns : /\ p.kind \in {"ipv4", "ipv6"}
                              /\ LET a == WithString(p.kind, p.text) IN
                                 address' = IF a = NoAddress THEN address ELSE Copy(a)
    BY <1>3 DEF Parse
  <2>2. 0 \in 0 .. Exp2(PortBits) - 1
    BY Sizes
  <2>3. CASE p.kind = "ipv4" /\ IsIPv4Text(p.text)
    <3>1. p.text \in Seq(Nat) /\ Len(p.text) = Octets /\ \A i \in 1 .. Octets : p.text[i] \in Octet
      BY <2>3 DEF AddressAssumption, IsIPv4Text
    <3>2. p.text \in [1 .. Octets -> Octet]
      BY <3>1
    <3> DEFINE a == [family |-> "ipv4", bytes |-> p.text, port |-> 0]
    <3>3. a \in IPv4 /\ WithString(p.kind, p.text) = a
      BY <2>2, <2>3, <3>2 DEF IPv4, WithString
    <3>4. Copy(a) = a
      BY DEF Copy, WithSa, IsKnown
    <3> QED
      BY <1>3, <2>1, <3>3, <3>4 DEF Parse, AddressIsRight
  <2>4. CASE p.kind = "ipv6" /\ IsIPv6Text(p.text)
    <3>1. p.text \in Seq(GroupValues \cup {Empty})
      BY <2>4 DEF AddressAssumption
    <3>2. Denoted(p.text) \in [1 .. Groups -> GroupValues]
      BY <2>4, <3>1, DenotedIs
    <3> DEFINE a == [family |-> "ipv6", bytes |-> Denoted(p.text), port |-> 0]
    <3>3. a \in IPv6 /\ WithString(p.kind, p.text) = a
      BY <2>2, <2>4, <3>2 DEF IPv6, WithString
    <3>4. Copy(a) = a
      BY DEF Copy, WithSa, IsKnown
    <3> QED
      BY <1>3, <2>1, <3>3, <3>4 DEF Parse, AddressIsRight
  <2>5. CASE ~ (p.kind = "ipv4" /\ IsIPv4Text(p.text)) /\ ~ (p.kind = "ipv6" /\ IsIPv6Text(p.text))
    <3>1. WithString(p.kind, p.text) = NoAddress
      BY <2>5 DEF WithString
    <3> QED
      BY <1>3, <2>1, <3>1 DEF Parse, AddressIsRight
  <2> QED
    BY <2>3, <2>4, <2>5
<1>4. CASE Ask
  BY <1>4 DEF Ask, AddressIsRight
<1>5. CASE Asked
  BY <1>5 DEF Asked, AddressIsRight
<1>6. CASE UNCHANGED <<address, pattern>>
  BY <1>6 DEF AddressIsRight
<1> QED
  BY <1>1, <1>2, <1>3, <1>4, <1>5, <1>6 DEF AddressNext

-----------------------------------------------------------------------------
\* Theorem, over every address that is set, given a port or read, and every pattern that is
\* then asked for: an address of IPv4 matches a literal, a wildcard or a netmask, and one of
\* IPv6 a text, exactly when it is one of those the pattern denotes; of IPv6, for texts that
\* leave out groups at their front only (wi_address_matches_pattern).
THEOREM PatternsAlwaysMatch ==
    ASSUME AddressAssumption
    PROVE  AddressSpec => []PatternsMatch
<1>1. AddressInit => AddressIsRight
  BY AddressStarts
<1>2. AddressIsRight /\ [AddressNext]_<<address, pattern>> => AddressIsRight'
  BY AddressSteps
<1>3. AddressIsRight => PatternsMatch
  <2> SUFFICES ASSUME AddressIsRight PROVE PatternsMatch
    OBVIOUS
  <2>1. address \in IPv4 \cup IPv6 /\ (pattern # NoPattern => pattern \in Patterns)
    BY DEF AddressIsRight
  <2>2. ASSUME pattern # NoPattern, CanRead(pattern), address.family = "ipv6" => FrontOnly(Text(address))
        PROVE  MatchesPattern(address, pattern) <=> Denotes(pattern, address)
    BY <2>1, <2>2, PatternsDenote
  <2> QED
    BY <2>1, <2>2 DEF PatternsMatch
<1> QED
  BY <1>1, <1>2, <1>3, PTL DEF AddressSpec
=============================================================================
