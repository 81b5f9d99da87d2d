-------------------------------- MODULE Array --------------------------------
(***************************************************************************)
(* collections/wi-array.c: a mutable array, down to its items.  `items' is *)
(* the vector of pointers, of which the first dataCount are in use; the    *)
(* items themselves are cut from chunks and recycled through a free list.  *)
(* Indexes are the code's plus one.                                        *)
(*                                                                         *)
(* The array belongs to one thread.  Functions that work on another array  *)
(* or an index set loop over single edits; `call' is the loop that is      *)
(* running, one edit per step.  The other array is read only, or the array *)
(* itself (`self').  Data are instances, with the default callbacks: the   *)
(* array retains them, and compares them by value.                         *)
(***************************************************************************)
EXTENDS Integers, FiniteSets, SequencesExt

CONSTANTS Data, Value,     \* instances; what wi_is_equal and comparisons see, a number
          Nil,             \* NULL, and memory that was never written
          ItemsPerPage,    \* _wi_array_items_per_page
          Capacity,        \* WI_MAX(wi_exp2m1(wi_log2(n) + 1), _WI_ARRAY_MIN_COUNT)
          MaxCount,        \* _WI_ARRAY_MAX_COUNT
          MaxLength,       \* bound: the longest array a program builds
          Others,          \* the arrays that are passed as arguments
          IndexSets,       \* the index sets that are passed as arguments
          Anywhere         \* whether callers replace at any index set

ASSUME DataAssumption == Nil \notin Data /\ Value \in [Data -> Int]

ASSUME SizeAssumption ==
    /\ ItemsPerPage \in Nat \ {0} /\ MaxCount \in Nat \ {0} /\ MaxLength \in Nat
    /\ DOMAIN Capacity = 0 .. MaxLength
    /\ \A n \in 0 .. MaxLength : Capacity[n] \in Nat \ {0} /\ Capacity[n] >= n

ASSUME ArgumentAssumption ==
    /\ Others \subseteq Seq(Data) /\ Anywhere \in BOOLEAN
    /\ IndexSets \subseteq Seq(Nat \ {0})
    /\ \A s \in IndexSets : \A i, j \in DOMAIN s : i < j => s[i] < s[j]

VARIABLES items, dataCount, minCount,  \* the vector, its used length, its least length
          data,                        \* the datum of each item that was ever cut
          chunks, offset, free,        \* item_chunks_count, item_chunks_offset, item_free_list
          count,                       \* the retain count of each datum
          call,                        \* the function that loops, or NoCall
          aborted                      \* whether an assertion has failed

store == <<items, dataCount, minCount, data, chunks, offset, free>>
vars == <<store, count, call, aborted>>

\* What a caller sees.
Contents == [i \in 1 .. dataCount |-> data[items[i]]]

Occurrences(s, d) == Cardinality({i \in DOMAIN s : s[i] = d})

Call(op, self, other, indexes, n) ==
    [op |-> op, self |-> self, other |-> other, indexes |-> indexes, at |-> 1,
     count |-> n, before |-> Contents, seen |-> <<>>]

Operations == {"none", "add", "insert", "replace", "removeIndexes", "removeRange", "removeIn",
               "enumerate", "reverse", "set", "select"}

NoCall == [op |-> "none", self |-> FALSE, other |-> <<>>, indexes |-> <<>>, at |-> 1,
           count |-> 0, before |-> <<>>, seen |-> <<>>]

\* A new array with room for n data, as wi_array_init_with_capacity leaves it.
NewArray(n) ==
    [items |-> [i \in 1 .. Capacity[n] |-> Nil], minCount |-> Capacity[n],
     data |-> <<>>, chunks |-> 0, offset |-> ItemsPerPage, free |-> <<>>]

Init ==
    /\ items = NewArray(0).items /\ minCount = NewArray(0).minCount
    /\ data = NewArray(0).data /\ chunks = 0 /\ offset = ItemsPerPage /\ free = <<>>
    /\ dataCount = 0
    /\ count = [d \in Data |-> 0]
    /\ call = NoCall
    /\ aborted = FALSE

-----------------------------------------------------------------------------
(* Items *)

\* The item that _wi_array_create_item returns: a recycled one, or the next of
\* the last chunk, or the first of a new chunk.
NewItem ==
    IF free # <<>> THEN Head(free)
    ELSE IF offset = ItemsPerPage THEN <<chunks + 1, 0>> ELSE <<chunks, offset>>

\* A bug: the item that is handed out stays on the free list.
KeptOnFreeList ==
    IF free # <<>> THEN [free |-> free, chunks |-> chunks, offset |-> offset]
    ELSE IF offset = ItemsPerPage THEN [free |-> <<>>, chunks |-> chunks + 1, offset |-> 1]
    ELSE [free |-> <<>>, chunks |-> chunks, offset |-> offset + 1]

\* What _wi_array_create_item leaves behind.
Rest ==
    IF free # <<>> THEN [free |-> Tail(free), chunks |-> chunks, offset |-> offset]
    ELSE IF offset = ItemsPerPage THEN [free |-> <<>>, chunks |-> chunks + 1, offset |-> 1]
    ELSE [free |-> <<>>, chunks |-> chunks, offset |-> offset + 1]

CreateItem == free' = Rest.free /\ chunks' = Rest.chunks /\ offset' = Rest.offset

Assigned(x, d) == [y \in DOMAIN data \cup {x} |-> IF y = x THEN d ELSE data[y]]

Resized(s, n) == [i \in 1 .. n |-> IF i <= Len(s) THEN s[i] ELSE Nil]

\* _wi_array_grow(array, index) for a vector that is full
Grown(index) ==
    IF dataCount >= Len(items) THEN Resized(items, ((index + 1) * 3) \div 2) ELSE items

\* _WI_ARRAY_CHECK_OPTIMIZE for a vector s of which n elements are in use
Optimized(s, n) ==
    IF \/ Len(s) >= 3 * n /\ Len(s) > minCount
       \/ n >= 3 * Len(s) /\ Len(s) < MaxCount
    THEN Resized(s, IF n > MaxCount THEN MaxCount ELSE IF n < minCount THEN minCount ELSE n)
    ELSE s

-----------------------------------------------------------------------------
(* The single edits *)

Retain(d) == count' = [count EXCEPT ![d] = @ + 1]
Release(d) == count' = [count EXCEPT ![d] = @ - 1]

AddData(d) ==
    /\ CreateItem
    /\ data' = Assigned(NewItem, d)
    /\ Retain(d)
    /\ items' = [Grown(dataCount) EXCEPT ![dataCount + 1] = NewItem]
    /\ dataCount' = dataCount + 1
    /\ UNCHANGED minCount

InsertItem(d, i) ==
    /\ CreateItem
    /\ data' = Assigned(NewItem, d)
    /\ Retain(d)
    /\ items' = LET room == Grown(dataCount + 1) IN
                [j \in DOMAIN room |->
                    IF j = i THEN NewItem
                    ELSE IF j > i /\ j <= dataCount + 1 THEN room[j - 1] ELSE room[j]]
    /\ dataCount' = dataCount + 1
    /\ UNCHANGED minCount

\* wi_mutable_array_insert_data_at_index, past its assertion
InsertData(d, i) == IF dataCount = 0 /\ i = 1 THEN AddData(d) ELSE InsertItem(d, i)

MayInsertAt(i) == i <= dataCount \/ (dataCount = 0 /\ i = 1)

\* A bug: data goes before its equals.
AddBeforeEquals(d) ==
    \E i \in 1 .. dataCount + 1 :
        /\ \A j \in 1 .. i - 1 : Value[Contents[j]] < Value[d]
        /\ i <= dataCount => Value[d] <= Value[Contents[i]]
        /\ IF i <= dataCount THEN InsertItem(d, i) ELSE AddData(d)

\* _wi_array_add_item_sorted: before the first that is greater
AddSorted(d) ==
    \E i \in 1 .. dataCount + 1 :
        /\ \A j \in 1 .. i - 1 : Value[Contents[j]] <= Value[d]
        /\ i <= dataCount => Value[d] < Value[Contents[i]]
        /\ IF i <= dataCount THEN InsertItem(d, i) ELSE AddData(d)

\* A bug: the old item is not recycled.
ReplaceAndForget(d, i) ==
    /\ CreateItem
    /\ data' = [Assigned(NewItem, d) EXCEPT ![items[i]] = Nil]
    /\ count' = [[count EXCEPT ![d] = @ + 1] EXCEPT ![data[items[i]]] = @ - 1]
    /\ items' = [items EXCEPT ![i] = NewItem]
    /\ UNCHANGED <<dataCount, minCount>>

\* The new item is there before the old one goes.
ReplaceData(d, i) ==
    /\ chunks' = Rest.chunks /\ offset' = Rest.offset
    /\ free' = <<items[i]>> \o Rest.free
    /\ data' = [Assigned(NewItem, d) EXCEPT ![items[i]] = Nil]
    /\ count' = [[count EXCEPT ![d] = @ + 1] EXCEPT ![data[items[i]]] = @ - 1]
    /\ items' = [items EXCEPT ![i] = NewItem]
    /\ UNCHANGED <<dataCount, minCount>>

\* wi_mutable_array_remove_data_at_index, past its assertion
RemoveData(i) ==
    /\ data' = [data EXCEPT ![items[i]] = Nil]
    /\ Release(data[items[i]])
    /\ free' = <<items[i]>> \o free
    /\ items' = Optimized([j \in DOMAIN items |->
                              IF j < i \/ j > dataCount THEN items[j]
                              ELSE IF j < dataCount THEN items[j + 1] ELSE Nil],
                          dataCount - 1)
    /\ dataCount' = dataCount - 1
    /\ UNCHANGED <<minCount, chunks, offset>>

\* _wi_array_remove_all_data, except for the counts.  The vector keeps its pointers.
Emptied ==
    /\ data' = [x \in DOMAIN data |->
                   IF \E i \in 1 .. dataCount : items[i] = x THEN Nil ELSE data[x]]
    /\ free' = [i \in 1 .. dataCount |-> items[dataCount + 1 - i]] \o free
    /\ items' = Optimized(items, 0)
    /\ dataCount' = 0
    /\ UNCHANGED <<minCount, chunks, offset>>

\* wi_array_index_of_data finds i: the first that is equal.
Finds(d, i) ==
    /\ Value[Contents[i]] = Value[d]
    /\ \A j \in 1 .. i - 1 : Value[Contents[j]] # Value[d]

-----------------------------------------------------------------------------
(* What callers do between the loops.  A datum nobody retains is created by *)
(* the caller, who releases it when the array has it.                       *)

Ready == call = NoCall /\ ~aborted
Fits(n) == dataCount + n <= MaxLength

ClientAdd(d) == Ready /\ Fits(1) /\ AddData(d) /\ UNCHANGED <<call, aborted>>

ClientAddSorted(d) == Ready /\ Fits(1) /\ AddSorted(d) /\ UNCHANGED <<call, aborted>>

ClientInsert(d, i) ==
    Ready /\ Fits(1) /\ MayInsertAt(i) /\ InsertData(d, i) /\ UNCHANGED <<call, aborted>>

ClientReplace(d, i) ==
    Ready /\ i <= dataCount /\ ReplaceData(d, i) /\ UNCHANGED <<call, aborted>>

ClientRemoveAt(i) ==
    Ready /\ i <= dataCount /\ RemoveData(i) /\ UNCHANGED <<call, aborted>>

ClientRemove(d) ==
    /\ Ready
    /\ \E i \in 1 .. dataCount : Finds(d, i) /\ RemoveData(i)
    /\ UNCHANGED <<call, aborted>>

ClientRemoveLast ==
    Ready /\ dataCount > 0 /\ RemoveData(dataCount) /\ UNCHANGED <<call, aborted>>

ClientRemoveAll ==
    /\ Ready /\ Emptied
    /\ count' = [d \in Data |-> count[d] - Occurrences(Contents, d)]
    /\ UNCHANGED <<call, aborted>>

Orders(n) == {p \in [1 .. n -> 1 .. n] : \A i, j \in 1 .. n : p[i] = p[j] => i = j}

\* A bug: the sorted data overwrite the array before all are read.
SortInPlace ==
    /\ Ready /\ dataCount > 0
    /\ data' = [x \in DOMAIN data |->
                   IF \E i \in 1 .. dataCount : items[i] = x /\ Value[data[x]] > Value[data[items[1]]]
                   THEN data[items[1]] ELSE data[x]]
    /\ UNCHANGED <<items, dataCount, minCount, chunks, offset, free, count, call, aborted>>

\* qsort leaves equals in any order; the data move, the items stay.
ClientSort ==
    /\ Ready /\ dataCount > 0
    /\ \E p \in Orders(dataCount) :
          /\ \A i, j \in 1 .. dataCount :
                i < j => Value[Contents[p[i]]] <= Value[Contents[p[j]]]
          /\ data' = [x \in DOMAIN data |->
                         IF \E i \in 1 .. dataCount : items[i] = x
                         THEN Contents[p[CHOOSE i \in 1 .. dataCount : items[i] = x]]
                         ELSE data[x]]
    /\ UNCHANGED <<items, dataCount, minCount, chunks, offset, free, count, call, aborted>>

ClientReverse ==
    /\ Ready
    /\ items' = [i \in DOMAIN items |->
                    IF i <= dataCount THEN items[dataCount + 1 - i] ELSE items[i]]
    /\ UNCHANGED <<dataCount, minCount, data, chunks, offset, free, count, call, aborted>>

Client ==
    \/ \E d \in Data : ClientAdd(d) \/ ClientAddSorted(d) \/ ClientRemove(d)
    \/ \E d \in Data, i \in 1 .. MaxLength : ClientInsert(d, i) \/ ClientReplace(d, i)
    \/ \E i \in 1 .. MaxLength : ClientRemoveAt(i)
    \/ ClientRemoveLast \/ ClientRemoveAll \/ ClientSort \/ ClientReverse

-----------------------------------------------------------------------------
(* The loops begin.  The other array holds its data as long as they run. *)

Held(s) == [d \in Data |-> count[d] + Occurrences(s, d)]

Begin(c) ==
    /\ call' = c
    /\ count' = IF c.self THEN count ELSE Held(c.other)
    /\ UNCHANGED <<store, aborted>>

\* wi_mutable_array_add_data_from_array, also of an array to itself
BeginAdd ==
    \E self \in BOOLEAN, other \in Others :
        LET n == IF self THEN dataCount ELSE Len(other) IN
        /\ Fits(n)
        /\ Begin(Call("add", self, IF self THEN <<>> ELSE other, <<>>, n))

BeginInsert ==
    \E other \in Others, indexes \in IndexSets :
        /\ Len(other) = Len(indexes) /\ Fits(Len(other))
        /\ \/ \A k \in DOMAIN indexes : indexes[k] <= dataCount + k - 1
           \/ dataCount = 0 /\ indexes = <<1>>
        /\ Begin(Call("insert", FALSE, other, indexes, Len(indexes)))

BeginReplace ==
    \E self \in BOOLEAN, other \in Others, indexes \in IndexSets :
        /\ Len(indexes) = IF self THEN dataCount ELSE Len(other)
        /\ \A k \in DOMAIN indexes : indexes[k] <= dataCount /\ (Anywhere \/ indexes[k] = k)
        /\ Begin(Call("replace", self, IF self THEN <<>> ELSE other, indexes, Len(indexes)))

BeginRemoveIndexes ==
    \E indexes \in IndexSets :
        /\ \A k \in DOMAIN indexes : indexes[k] <= dataCount
        /\ Begin(Call("removeIndexes", FALSE, <<>>, indexes, Len(indexes)))

BeginRemoveRange ==
    \E location \in 1 .. MaxLength, n \in 0 .. MaxLength :
        /\ location + n - 1 <= dataCount
        /\ Begin(Call("removeRange", FALSE, <<>>, <<location>>, n))

BeginRemoveIn ==
    \E other \in Others : Begin(Call("removeIn", FALSE, other, <<>>, Len(other)))

\* An enumerator of the array, forward or backward
BeginEnumeration ==
    \E op \in {"enumerate", "reverse"} : Begin(Call(op, FALSE, <<>>, <<>>, dataCount))

\* wi_mutable_array_set_array: the array is emptied before the other is added.
BeginSet ==
    \E other \in Others :
        /\ Len(other) <= MaxLength
        /\ Emptied
        /\ count' = [d \in Data |-> Held(other)[d] - Occurrences(Contents, d)]
        /\ call' = Call("set", FALSE, other, <<>>, Len(other))
        /\ UNCHANGED aborted

\* wi_copy, wi_array_subarray_with_range, wi_array_data_at_indexes: a new array
\* takes the place of the old one, which the caller releases in the end.
BeginSelect ==
    \E indexes \in IndexSets \cup {[k \in 1 .. dataCount |-> k]} :
        LET new == NewArray(Len(indexes)) IN
        /\ Len(indexes) <= MaxLength /\ \A k \in DOMAIN indexes : indexes[k] <= dataCount
        /\ items' = new.items /\ minCount' = new.minCount /\ dataCount' = 0
        /\ data' = new.data /\ chunks' = new.chunks /\ offset' = new.offset
        /\ free' = new.free
        /\ call' = Call("select", FALSE, Contents, indexes, Len(indexes))
        /\ UNCHANGED <<count, aborted>>

BeginCall ==
    /\ Ready
    /\ \/ BeginAdd \/ BeginInsert \/ BeginReplace
       \/ BeginRemoveIndexes \/ BeginRemoveRange \/ BeginRemoveIn
       \/ BeginEnumeration \/ BeginSet \/ BeginSelect

-----------------------------------------------------------------------------
(* The loops *)

Enumerating == call.op \in {"enumerate", "reverse"}

Finished == IF Enumerating THEN call.at = dataCount + 1 ELSE call.at > call.count

Running(ops) == call.op \in ops /\ ~Finished /\ ~aborted

\* WI_ARRAY(otherarray, k - 1), which asserts that k is in range
Other == IF call.self THEN Contents ELSE call.other

Abort == aborted' = TRUE /\ UNCHANGED <<store, count, call>>

Go == call' = [call EXCEPT !.at = @ + 1] /\ UNCHANGED aborted

StepAdd ==
    /\ Running({"add", "set"})
    /\ IF call.at \in DOMAIN Other THEN AddData(Other[call.at]) /\ Go ELSE Abort

StepSelect ==
    /\ Running({"select"})
    /\ AddData(Other[call.indexes[call.at]]) /\ Go

\* A bug: all data go to the first index.
InsertAtFirst ==
    /\ Running({"insert"})
    /\ LET i == call.indexes[1] IN
       IF MayInsertAt(i) THEN InsertData(Other[call.at], i) /\ Go ELSE Abort

StepInsert ==
    /\ Running({"insert"})
    /\ LET i == call.indexes[call.at] IN
       IF MayInsertAt(i) THEN InsertData(Other[call.at], i) /\ Go ELSE Abort

\* The other array is read at the index that is replaced.
StepReplace ==
    /\ Running({"replace"})
    /\ LET i == call.indexes[call.at] IN
       IF i \in DOMAIN Other /\ i <= dataCount THEN ReplaceData(Other[i], i) /\ Go ELSE Abort

\* A bug: the indexes are not moved by what is gone.
RemoveIndexAsGiven ==
    /\ Running({"removeIndexes"})
    /\ LET i == call.indexes[call.at] IN
       IF i \in 1 .. dataCount THEN RemoveData(i) /\ Go ELSE Abort

StepRemoveIndex ==
    /\ Running({"removeIndexes"})
    /\ LET i == call.indexes[call.at] - (call.at - 1) IN
       IF i \in 1 .. dataCount THEN RemoveData(i) /\ Go ELSE Abort

StepRemoveRange ==
    /\ Running({"removeRange"})
    /\ LET i == call.indexes[1] IN
       IF i <= dataCount THEN RemoveData(i) /\ Go ELSE Abort

\* A bug: the loop does not go on where there is nothing to remove.
RemoveInWhatIsThere ==
    /\ Running({"removeIn"})
    /\ \E i \in 1 .. dataCount : Finds(Other[call.at], i) /\ RemoveData(i)
    /\ Go

StepRemoveIn ==
    /\ Running({"removeIn"})
    /\ LET d == Other[call.at] IN
       \/ \E i \in 1 .. dataCount : Finds(d, i) /\ RemoveData(i)
       \/ ~ (\E i \in 1 .. dataCount : Finds(d, i)) /\ UNCHANGED <<store, count>>
    /\ Go

\* wi_enumerator_next_data, and the body of the loop, which may add to an array
\* that is enumerated forward.
StepEnumerate ==
    /\ Running({"enumerate", "reverse"})
    /\ LET i == IF call.op = "enumerate" THEN call.at ELSE dataCount - call.at + 1 IN
       IF i \in 1 .. dataCount
       THEN /\ call' = [call EXCEPT !.at = @ + 1, !.seen = Append(@, Contents[i])]
            /\ UNCHANGED aborted
            /\ \/ UNCHANGED <<store, count>>
               \/ call.op = "enumerate" /\ Fits(1) /\ \E d \in Data : AddData(d)
       ELSE Abort

\* A bug: the caller's other array is not released.
ReturnHolding ==
    /\ call # NoCall /\ Finished /\ ~aborted
    /\ call' = NoCall
    /\ UNCHANGED <<store, count, aborted>>

Return ==
    /\ call # NoCall /\ Finished /\ ~aborted
    /\ call' = NoCall
    /\ count' = [d \in Data |-> count[d] - Occurrences(call.other, d)]
    /\ UNCHANGED <<store, aborted>>

Step ==
    \/ StepAdd \/ StepSelect \/ StepInsert \/ StepReplace
    \/ StepRemoveIndex \/ StepRemoveRange \/ StepRemoveIn
    \/ StepEnumerate \/ Return

Next == Client \/ BeginCall \/ Step

Spec == Init /\ [][Next]_vars

\* A loop that has begun goes on.
FairSpec == Spec /\ WF_vars(Step)

-----------------------------------------------------------------------------
(* Properties *)

Used == {items[i] : i \in 1 .. dataCount}

\* The vector and its items keep their types; the data in use are data.
StoreTypeOK ==
    /\ dataCount \in Nat /\ minCount \in Nat \ {0} /\ chunks \in Nat
    /\ offset \in 1 .. ItemsPerPage
    /\ items \in Seq((Nat \X Nat) \cup {Nil}) /\ free \in Seq(Nat \X Nat)
    /\ \A x \in DOMAIN data : x \in Nat \X Nat /\ data[x] \in Data \cup {Nil}
    /\ \A x \in Used : x \in DOMAIN data => data[x] \in Data

\* Every variable keeps its type.
TypeOK ==
    /\ StoreTypeOK
    /\ count \in [Data -> Int]
    /\ call \in [op : Operations, self : BOOLEAN, other : Seq(Data),
                 indexes : Seq(Nat \ {0}), at : Nat \ {0}, count : Nat,
                 before : Seq(Data), seen : Seq(Data)]
    /\ aborted \in BOOLEAN

\* However the vector grows, shrinks and moves, it is long enough for the data in
\* use, no two places share an item, and every item that was ever cut from a
\* chunk is either in use or on the free list, once.
ItemsInPlace ==
    /\ dataCount <= Len(items)
    /\ \A i, j \in 1 .. dataCount : items[i] = items[j] => i = j
    /\ \A i, j \in DOMAIN free : free[i] = free[j] => i = j
    /\ Used \cap Range(free) = {}
    /\ Used \cup Range(free) = DOMAIN data

\* A datum is retained once for each place it has in the array and in the other
\* array of the call that runs, through every edit and permutation.
CountsMembers ==
    \A d \in Data : count[d] = Occurrences(Contents, d) + Occurrences(call.other, d)

\* t is s without the places of S; p says where in s each of t was.
Keeps(p, t, s, S) ==
    /\ p \in [DOMAIN t -> DOMAIN s \ S]
    /\ \A i, j \in DOMAIN t : i < j => p[i] < p[j]
    /\ \A j \in DOMAIN s \ S : \E i \in DOMAIN t : p[i] = j
    /\ \A i \in DOMAIN t : t[i] = s[p[i]]

IsWithout(t, s, S) == \E p \in [DOMAIN t -> DOMAIN s \ S] : Keeps(p, t, s, S)

\* The places of the array a that wi_mutable_array_remove_data_in_array(a, b) is
\* about: of each value as many as b has, the first ones.
Matched(a, b) ==
    {i \in DOMAIN a : Cardinality({j \in 1 .. i : Value[a[j]] = Value[a[i]]})
                      <= Cardinality({k \in DOMAIN b : Value[b[k]] = Value[a[i]]})}

\* No assertion on an index fails half-way through a loop.
NoAbort == ~aborted

\* A function that loops over edits has, when the loop ends, done what its name
\* says to what the array was when it was called: indexes into the array mean
\* what they meant then, and an array can be added to itself; and no assertion
\* on an index fails half-way through the loop.
CallsDoAsTheySay ==
    LET c == call
        argument == IF c.self THEN c.before ELSE c.other
    IN
    /\ NoAbort
    /\ Finished =>
        /\ c.op = "add" => Contents = c.before \o argument
        /\ c.op = "set" => Contents = argument
        /\ c.op = "select" => Contents = [k \in DOMAIN c.indexes |-> c.before[c.indexes[k]]]
        /\ c.op = "insert" =>
              /\ \A k \in DOMAIN c.indexes : Contents[c.indexes[k]] = argument[k]
              /\ IsWithout(c.before, Contents, Range(c.indexes))
        /\ c.op = "replace" =>
              /\ \A k \in DOMAIN c.indexes : Contents[c.indexes[k]] = argument[k]
              /\ \A i \in DOMAIN c.before \ Range(c.indexes) : Contents[i] = c.before[i]
              /\ Len(Contents) = Len(c.before)
        /\ c.op = "removeIndexes" => IsWithout(Contents, c.before, Range(c.indexes))
        /\ c.op = "removeRange" =>
              IsWithout(Contents, c.before, c.indexes[1] .. c.indexes[1] + c.count - 1)
        /\ c.op = "removeIn" => IsWithout(Contents, c.before, Matched(c.before, argument))
        /\ c.op = "enumerate" => c.seen = Contents
        /\ c.op = "reverse" => c.seen = Reverse(Contents)

\* Every loop ends, also that of an array that is added to itself.  (A loop over an
\* enumerator that adds to the array ends because the program stops adding, here at
\* MaxLength.)
CallsReturn == call # NoCall ~> call = NoCall

Sorted(s) == \A i, j \in DOMAIN s : i < j => Value[s[i]] <= Value[s[j]]

\* wi_mutable_array_add_data_sorted keeps a sorted array sorted, as the timers and
\* the index sets rely on, and leaves the order of equals as they came.
SortedStaysSorted ==
    [][\A d \in Data : ClientAddSorted(d) /\ Sorted(Contents) =>
          /\ Sorted(Contents')
          /\ \E i \in DOMAIN Contents' :
                /\ Contents'[i] = d
                /\ \A j \in DOMAIN Contents' : Value[Contents'[j]] = Value[d] => j <= i]_vars

\* The data that the places lead to, over items and free list, are a sequence that
\* each step edits at one place, empties or permutes.
Sequence == INSTANCE AbstractArray WITH contents <- Contents
Implements == Sequence!Spec

=============================================================================
