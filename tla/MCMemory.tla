------------------------------ MODULE MCMemory ------------------------------
(* A wi_filesystem_events_t, the dictionary it holds, and the enumerator its  *)
(* dealloc makes of the dictionary.                                           *)
EXTENDS Memory

CONSTANTS main, worker, var1, var2, dictionary, events, enumerator

MCThreads == {main, worker}
MCSlots == {var1}
MCInstances == {dictionary, events, enumerator}
MCMayHold == {<<events, dictionary>>}
MCEnumerator == [i \in {events} |-> enumerator]
MCMaxPools == [t \in MCThreads |-> IF t = main THEN 2 ELSE 1]

\* One thread that autoreleases the instance, as wi_filesystem_events does.
DrainThreads == {main}
DrainSlots == {var1, var2}
DrainMaxPools == [t \in DrainThreads |-> 1]
=============================================================================
