------------------------------- MODULE IndexSet ------------------------------
(***************************************************************************)
(* collections/wi-indexset.c: a set of indexes is a sorted array of        *)
(* integers without callbacks, here the sequence that AbstractArray        *)
(* promises; and wi-enumerator.c over it.  An index that is added twice is *)
(* there twice.                                                            *)
(***************************************************************************)
EXTENDS Integers, FiniteSets, SequencesExt

CONSTANTS MaxIndex, MaxLength    \* bounds: the largest index, the longest array

ASSUME IndexAssumption == MaxIndex \in Nat /\ MaxLength \in Nat

VARIABLE indexes

Indexes == 0 .. MaxIndex

\* The ranges of indexes that are passed, as sequences.
InRange(location, length) == [i \in 1 .. length |-> location + i - 1]

Ranges == {InRange(l, n) : l \in Indexes, n \in 0 .. 2}

Includes(s, x) == x \in Range(s)

\* A bug: the comparison goes the other way, so a new index goes before the smaller ones.
AddAmongGreater(s, x) ==
    LET n == Cardinality({i \in DOMAIN s : s[i] >= x}) IN InsertAt(s, n + 1, x)

\* wi_mutable_array_add_data_sorted with _wi_index_compare
AddIndex(s, x) ==
    LET n == Cardinality({i \in DOMAIN s : s[i] <= x}) IN InsertAt(s, n + 1, x)

\* wi_mutable_array_remove_data: the first that is equal
RemoveIndex(s, x) == IF x \in Range(s) THEN RemoveFirst(s, x) ELSE s

AddEach(s, r) ==
    LET made[n \in 0 .. Len(r)] == IF n = 0 THEN s ELSE AddIndex(made[n - 1], r[n])
    IN  made[Len(r)]

RemoveEach(s, r) ==
    LET left[n \in 0 .. Len(r)] == IF n = 0 THEN s ELSE RemoveIndex(left[n - 1], r[n])
    IN  left[Len(r)]

\* The body removes from the array that its enumerator walks by position, when a set is
\* removed from itself: it then sees every other index.
EveryOther(s) == [i \in 1 .. (Len(s) + 1) \div 2 |-> s[2 * i - 1]]

InitIndexes == indexes = <<>> \/ \E r \in Ranges : indexes = r

Room(n) == Len(indexes) + n <= MaxLength

AddIndexes == \E r \in Ranges : Room(Len(r)) /\ indexes' = AddEach(indexes, r)

\* A set that is set to itself is emptied before it is read.
SetIndexes == \E r \in Ranges : indexes' = r

RemoveIndexes ==
    \E r \in Ranges \cup {EveryOther(indexes)} : indexes' = RemoveEach(indexes, r)

NextIndexes == AddIndexes \/ SetIndexes \/ RemoveIndexes

-----------------------------------------------------------------------------

FirstIndex(s) == IF s = <<>> THEN 0 ELSE s[1]
LastIndex(s) == IF s = <<>> THEN 0 ELSE s[Len(s)]

ContainsInRange(s, r) == \A i \in DOMAIN r : Includes(s, r[i])

\* wi_enumerator_all_data: the loop takes index 0 for the end.
AllData(s) ==
    LET zeros == {i \in DOMAIN s : s[i] = 0} IN
    IF zeros = {} THEN s ELSE SubSeq(s, 1, (CHOOSE i \in zeros : \A j \in zeros : i <= j) - 1)

\* However ranges were added and removed, with indexes twice or a set from itself, the
\* array stays sorted, so that the first and the last index are the least and the
\* greatest, and an enumeration of a set without 0 gives all.
Sorted ==
    /\ \A i, j \in DOMAIN indexes : i < j => indexes[i] <= indexes[j]
    /\ \A x \in Range(indexes) : FirstIndex(indexes) <= x /\ x <= LastIndex(indexes)
    /\ 0 \notin Range(indexes) => AllData(indexes) = indexes
    /\ \A r \in Ranges : ContainsInRange(indexes, r) <=> Range(r) \subseteq Range(indexes)

=============================================================================
