---------------------------- MODULE AbstractArray ----------------------------
(***************************************************************************)
(* What a mutable array of collections/wi-array.c promises: a sequence of  *)
(* data that one step changes at one place, empties or permutes.  There    *)
(* are no items, chunks, free lists or capacities here.                    *)
(***************************************************************************)
EXTENDS Integers, Sequences

CONSTANT Data

VARIABLE contents

Init == contents = <<>>

\* d comes to place i; what was there and behind moves one place up.
Insert(d, i) ==
    /\ i \in 1 .. Len(contents) + 1
    /\ contents' = [j \in 1 .. Len(contents) + 1 |->
                       IF j < i THEN contents[j] ELSE IF j = i THEN d ELSE contents[j - 1]]

Replace(d, i) ==
    /\ i \in 1 .. Len(contents)
    /\ contents' = [contents EXCEPT ![i] = d]

\* Place i goes; what is behind moves one place down.
Delete(i) ==
    /\ i \in 1 .. Len(contents)
    /\ contents' = [j \in 1 .. Len(contents) - 1 |->
                       IF j < i THEN contents[j] ELSE contents[j + 1]]

Clear == contents' = <<>>

Permutations(n) == {p \in [1 .. n -> 1 .. n] : \A i, j \in 1 .. n : p[i] = p[j] => i = j}

Reorder == \E p \in Permutations(Len(contents)) :
               contents' = [j \in 1 .. Len(contents) |-> contents[p[j]]]

Next ==
    \/ \E d \in Data, i \in 1 .. Len(contents) + 1 : Insert(d, i) \/ Replace(d, i)
    \/ \E i \in 1 .. Len(contents) : Delete(i)
    \/ Clear \/ Reorder

Spec == Init /\ [][Next]_contents

=============================================================================
