----------------------------- MODULE Collections -----------------------------
(***************************************************************************)
(* The collections that wi-enumerator.c walks by a pointer or a position   *)
(* of its own: a table and an index set.  They have nothing in common, so  *)
(* one of them is used at a time.                                          *)
(***************************************************************************)
EXTENDS HashTable, IndexSet

CollectionsInit == Init /\ InitIndexes

CollectionsNext ==
    \/ indexes = <<>> /\ Next /\ UNCHANGED indexes
    \/ t = NewTable(0, t.refs) /\ e = Nil /\ NextIndexes /\ UNCHANGED vars

CollectionsSpec == CollectionsInit /\ [][CollectionsNext]_<<vars, indexes>>

-----------------------------------------------------------------------------

\* An enumeration of a table or of an index set gives all that is there, once; of an index
\* set in ascending order.
AllEnumerated == EnumeratesAll /\ Sorted

=============================================================================
