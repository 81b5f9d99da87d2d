---------------------------- MODULE AbstractTable ----------------------------
(***************************************************************************)
(* What a mutable dictionary, a set or a counted set promises: one value   *)
(* for each key, whatever the buckets, chains and resizes do.  The value   *)
(* of a member of a set is 1, of a counted set how often it was added.     *)
(***************************************************************************)
EXTENDS Integers, Sequences

CONSTANTS Keys, Absent    \* Absent: the value of a key that is not there

VARIABLES kind, contents, last    \* last: the call, [op, args]; args are pairs <<key, value>>

Empty == [k \in Keys |-> Absent]

Init == contents = Empty /\ last = [op |-> "none", args |-> <<>>]

\* What adding does to contents c.
Added(c, arg) ==
    LET k == arg[1] IN
    [c EXCEPT ![k] =
        IF kind = "dictionary" THEN arg[2]
        ELSE IF kind = "counted" /\ @ # Absent THEN @ + 1 ELSE 1]

AddedAll(c, args) ==
    LET made[i \in 0 .. Len(args)] == IF i = 0 THEN c ELSE Added(made[i - 1], args[i])
    IN  made[Len(args)]

Gone(c, k) ==
    [c EXCEPT ![k] = IF kind = "counted" /\ @ # Absent /\ @ > 1 THEN @ - 1 ELSE Absent]

\* One call that changes the contents as its arguments say, one that replaces the
\* contents, and one that leaves them alone.
Next ==
    /\ UNCHANGED kind
    /\ \/ last'.op = "add" /\ contents' = AddedAll(contents, last'.args)
       \/ last'.op = "remove" /\ contents' = Gone(contents, last'.args[1][1])
       \/ last'.op = "set" /\ contents' = AddedAll(Empty, last'.args)
       \/ last'.op \in {"none", "copy"} /\ UNCHANGED contents

Spec == Init /\ [][Next]_<<kind, contents, last>>

=============================================================================
