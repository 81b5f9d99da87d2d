---------------------------- MODULE FilesystemEvents ----------------------------
(***************************************************************************)
(* file/wi-filesystem-events.c as built with inotify: instances that watch *)
(* paths, the list of them that the events thread goes through with the    *)
(* lock of the list held, and the thread.  The lock of an instance is held *)
(* for as long as a call works on it, so a call is one step.               *)
(***************************************************************************)
EXTENDS Integers, SequencesExt, FiniteSets

CONSTANTS Instances, Paths,      \* of directories, a directory each
          MaxWatches,            \* bound: watches an instance has had
          MaxEvents,             \* bound: events the kernel keeps
          Room                   \* events that the buffer of 1024 bytes holds

VARIABLES instances, list,
          holder,                \* of the lock of the list
          thread,                \* where the events thread is
          present                \* the paths that are there

eventsVars == <<instances, list, holder, thread, present>>

Dead == [is |-> "dead"]
Rest == [at |-> "rest", index |-> 1, buffer |-> <<>>]

EventsInit ==
    /\ instances = [i \in Instances |-> Dead] /\ list = <<>> /\ holder = "none"
    /\ thread = Rest /\ present = Paths

Live(i) == instances[i].is = "live"

\* The events thread has the lock of the instance that it works on.
Worked == IF thread.at \in {"select", "dispatch", "callback"} THEN {list[thread.index]} ELSE {}

\* The program, or a callback: the lock of the instance is recursive.
Caller(i) == Live(i) /\ (i \notin Worked \/ thread.at = "callback")

Assigned(f, x, y) == [z \in DOMAIN f \cup {x} |-> IF z = x THEN y ELSE f[z]]

-----------------------------------------------------------------------------
(* The kernel: `kernel' are the watches, `queue' the events to be read. *)

Queue(i, wd, kind) ==
    IF Len(i.queue) < MaxEvents THEN [i EXCEPT !.queue = Append(@, [wd |-> wd, kind |-> kind])] ELSE i

Watched(i) == {i.kernel[wd] : wd \in DOMAIN i.kernel}

\* inotify_rm_watch, which fails for a watch that is gone; else it tells of it.
Unwatch(i, wd) ==
    IF wd \notin DOMAIN i.kernel THEN i
    ELSE Queue([i EXCEPT !.kernel = [w \in DOMAIN @ \ {wd} |-> @[w]]], wd, "ignored")

\* One after the other, in the order of their numbers.
UnwatchAll(i, wds) ==
    LET gone == DOMAIN i.kernel \cap wds
        told == [k \in 1 .. Min({Cardinality(gone), MaxEvents - Len(i.queue)}) |->
                    [wd |-> SetToSortSeq(gone, <)[k], kind |-> "ignored"]]
    IN  [i EXCEPT !.kernel = [w \in DOMAIN @ \ gone |-> @[w]], !.queue = @ \o told]

\* Something happens in a directory, or it is removed: its watches go with it.
Happens == \E p \in present, i \in Instances :
    /\ Live(i) /\ p \in Watched(instances[i]) /\ Len(instances[i].queue) < MaxEvents
    /\ LET wd == CHOOSE w \in DOMAIN instances[i].kernel : instances[i].kernel[w] = p IN
       instances' = [instances EXCEPT ![i] = Queue(@, wd, "created")]
    /\ UNCHANGED <<list, holder, thread, present>>

Vanishes == \E p \in present :
    /\ present' = present \ {p}
    /\ instances' = [i \in Instances |->
           IF ~Live(i) THEN instances[i]
           ELSE UnwatchAll(instances[i], {w \in DOMAIN instances[i].kernel : instances[i].kernel[w] = p})]
    /\ UNCHANGED <<list, holder, thread>>

Appears == \E p \in Paths \ present :
    present' = present \cup {p} /\ UNCHANGED <<instances, list, holder, thread>>

-----------------------------------------------------------------------------
(* The calls of the program *)

Condition == list # <<>>          \* WI_FILESYSTEM_EVENTS_HAVE_DATA

\* Rule: inotify_init does not fail (the deallocation would lock a lock that is not there).
InitEvents == \E i \in Instances :
    /\ instances[i] = Dead /\ holder = "none"
    /\ instances' = [instances EXCEPT ![i] =
           [is |-> "live", callbacks |-> {}, fds |-> <<>>, paths |-> <<>>, kernel |-> <<>>,
            queue |-> <<>>, next |-> 1]]
    /\ list' = Append(list, i)
    /\ UNCHANGED <<holder, thread, present>>

Added(n, p, wd) ==
    [n EXCEPT !.fds = Assigned(@, p, wd), !.paths = Assigned(@, wd, p),
              !.kernel = Assigned(@, wd, p), !.callbacks = @ \cup {p}, !.next = @ + 1]

\* A path that has a callback is watched already, the code takes it.
AddPathWithCallback == \E i \in Instances, p \in Paths :
    /\ Caller(i) /\ p \notin instances[i].callbacks /\ p \in present
    /\ LET wd == instances[i].next IN
       /\ wd <= MaxWatches
       /\ instances' = [instances EXCEPT ![i] = Added(@, p, wd)]
    /\ UNCHANGED <<list, holder, thread, present>>

\* A bug: the watch stays.
KeepWatch(i, p) == [i EXCEPT !.callbacks = @ \ {p}, !.fds = [q \in DOMAIN @ \ {p} |-> @[q]]]

\* paths_for_fds keeps the path.
Forget(i, p) ==
    LET u == IF p \in i.callbacks THEN Unwatch(i, i.fds[p]) ELSE i IN
    [u EXCEPT !.callbacks = @ \ {p}, !.fds = [q \in DOMAIN @ \ {p} |-> @[q]]]

RemovePath == \E i \in Instances, p \in Paths :
    /\ Caller(i) /\ p \in instances[i].callbacks
    /\ instances' = [instances EXCEPT ![i] = Forget(@, p)]
    /\ UNCHANGED <<list, holder, thread, present>>

ForgetAll(i) ==
    [UnwatchAll(i, Range(i.fds)) EXCEPT !.callbacks = {}, !.fds = <<>>, !.paths = <<>>]

RemoveAllPaths == \E i \in Instances :
    /\ Caller(i) /\ instances' = [instances EXCEPT ![i] = ForgetAll(@)]
    /\ UNCHANGED <<list, holder, thread, present>>

\* The deallocation removes all paths, closes the descriptor, frees the dictionaries...
\* Rule: not in a callback, which has the lock of the list, and with no event to come: the
\* thread would use the dictionaries.
StartDealloc == \E i \in Instances :
    /\ Live(i) /\ i \notin Worked /\ DOMAIN instances[i].kernel = {} /\ instances[i].queue = <<>>
    /\ thread.at # "callback"
    /\ instances' = [instances EXCEPT ![i] = [ForgetAll(@) EXCEPT !.is = "freed"]]
    /\ UNCHANGED <<list, holder, thread, present>>

\* ... and leaves the list.
FinishDealloc == \E i \in Instances :
    /\ instances[i].is = "freed" /\ holder = "none"
    /\ list' = RemoveFirst(list, i)
    /\ instances' = [instances EXCEPT ![i] = Dead]
    /\ UNCHANGED <<holder, thread, present>>

-----------------------------------------------------------------------------
(* The events thread *)

\* It waits for HAVE_DATA, and goes through the list.
TakeList ==
    /\ thread.at = "rest" /\ Condition /\ holder = "none"
    /\ holder' = "thread" /\ thread' = [Rest EXCEPT !.at = "each"]
    /\ UNCHANGED <<instances, list, present>>

EachInstance ==
    /\ thread.at = "each"
    /\ IF thread.index > Len(list) THEN thread' = Rest /\ holder' = "none"
       ELSE thread' = [thread EXCEPT !.at = "select"] /\ UNCHANGED holder
    /\ UNCHANGED <<instances, list, present>>

\* select, for a tenth of a second, and read; the descriptor of a freed instance is closed.
SelectEvents ==
    /\ thread.at = "select"
    /\ LET i == list[thread.index]
           n == IF Live(i) THEN Min({Room, Len(instances[i].queue)}) ELSE 0
       IN  \/ /\ n > 0
              /\ thread' = [thread EXCEPT !.at = "dispatch", !.buffer = SubSeq(instances[i].queue, 1, n)]
              /\ instances' = [instances EXCEPT ![i].queue = SubSeq(@, n + 1, Len(@))]
           \/ /\ n = 0 /\ UNCHANGED instances
              /\ thread' = [thread EXCEPT !.at = "each", !.index = @ + 1]
    /\ UNCHANGED <<list, holder, present>>

\* Events of what has no path, or a path without a callback, are dropped.
Dispatch ==
    /\ thread.at = "dispatch"
    /\ LET i == instances[list[thread.index]] IN
       IF thread.buffer = <<>> THEN thread' = [thread EXCEPT !.at = "each", !.index = @ + 1]
       ELSE LET e == Head(thread.buffer) IN
            IF e.kind # "ignored" /\ e.wd \in DOMAIN i.paths /\ i.paths[e.wd] \in i.callbacks
            THEN thread' = [thread EXCEPT !.at = "callback", !.buffer = Tail(@)]
            ELSE thread' = [thread EXCEPT !.buffer = Tail(@)]
    /\ UNCHANGED <<instances, list, holder, present>>

CallbackReturns ==
    /\ thread.at = "callback" /\ thread' = [thread EXCEPT !.at = "dispatch"]
    /\ UNCHANGED <<instances, list, holder, present>>

EventsNext ==
    \/ Happens \/ Vanishes \/ Appears
    \/ InitEvents \/ AddPathWithCallback \/ RemovePath \/ RemoveAllPaths \/ StartDealloc \/ FinishDealloc
    \/ TakeList \/ EachInstance \/ SelectEvents \/ Dispatch \/ CallbackReturns

EventsSpec == EventsInit /\ [][EventsNext]_eventsVars

-----------------------------------------------------------------------------

\* What an instance believes is what the kernel does: the paths with a callback are those with
\* a watch, but for paths whose directory has been removed, each event of a watch finds its
\* path, and nothing is watched that has no callback.  An instance is on the list, once, from
\* its making to the end of its deallocation, and the thread that holds the list has its place
\* on it; what it dispatches is for an instance that is whole.
WatchesAgree ==
    /\ \A i \in Instances : Live(i) =>
           LET n == instances[i] IN
           /\ DOMAIN n.fds = n.callbacks
           /\ \A p \in n.callbacks : n.paths[n.fds[p]] = p
           /\ \A wd \in DOMAIN n.kernel : n.kernel[wd] \in n.callbacks /\ n.fds[n.kernel[wd]] = wd
           /\ n.kernel = [wd \in {n.fds[p] : p \in n.callbacks} \cap DOMAIN n.kernel |-> n.paths[wd]]
    /\ \A i \in Instances :
           Cardinality({k \in DOMAIN list : list[k] = i}) = (IF instances[i] = Dead THEN 0 ELSE 1)
    /\ (holder = "thread") = (thread.at # "rest")
    /\ thread.at \in {"select", "dispatch", "callback"} => thread.index <= Len(list)
    /\ thread.at \in {"dispatch", "callback"} => Live(list[thread.index])

=============================================================================
