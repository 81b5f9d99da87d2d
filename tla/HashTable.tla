------------------------------ MODULE HashTable ------------------------------
(***************************************************************************)
(* collections/wi-dictionary.c and wi-set.c: a chained hash table, the     *)
(* same code twice.  A bucket is a cell with a key, a value and a pointer  *)
(* to the next of its chain; cells are cut from chunks and recycled        *)
(* through a free list.  The value of a set's bucket is its count.  `e' is *)
(* an enumerator, the pointer into a chain that lives across calls.        *)
(*                                                                         *)
(* Keys are what the is_equal callback tells apart; Hash is the hash       *)
(* callback.  refs counts the references to an instance: a dictionary      *)
(* copies its keys, which are then its own, and retains its values, a set  *)
(* retains its members.                                                    *)
(***************************************************************************)
EXTENDS Integers, FiniteSets, SequencesExt

CONSTANTS Keys, Vals, Hash,
          Nil,                   \* NULL
          MinCount, MaxCount,    \* _WI_DICTIONARY_MIN_COUNT and _MAX_COUNT
          Kinds,                 \* of "dictionary", "set", "counted"
          Others,                \* the tables that are passed, as sequences <<key, value>>
          MaxOccurrences         \* bound: how often one datum is added to a counted set

ASSUME KeyAssumption == Nil \notin Keys \cup Vals \cup Nat /\ Hash \in [Keys -> Nat]
ASSUME CountAssumption == MinCount \in Nat \ {0} /\ MaxCount \in Nat /\ MinCount <= MaxCount
ASSUME ArgumentAssumption == Others \subseteq Seq(Keys \X Vals)
ASSUME KindAssumption ==
    /\ Kinds \subseteq {"dictionary", "set", "counted"}
    /\ Keys \cap Vals = {}    \* a dictionary's key is a copy, and so no value

VARIABLES kind,    \* what the table is
          t,       \* the table
          e,       \* the enumerator, or Nil
          last     \* the last call, [op, args]

vars == <<kind, t, e, last>>

-----------------------------------------------------------------------------
(* Sizes *)

\* wi_log2
Log2(n) == LET log[m \in 0 .. n] == IF m < 2 THEN 0 ELSE log[m \div 2] + 1 IN log[n]

\* wi_exp2m1, 2^n - 1
Exp2m1(n) == LET exp[m \in 0 .. n] == IF m = 0 THEN 0 ELSE 2 * exp[m - 1] + 1 IN exp[n]

Larger(a, b) == IF a > b THEN a ELSE b
Clamp(x, low, high) == IF x > high THEN high ELSE IF x < low THEN low ELSE x

Capacity(n) == Exp2m1(Log2(n) + 1)

\* init_with_capacity_and_callbacks; heads[i] is the first cell of chain i.
NewTable(capacity, refs) ==
    LET n == Larger(Capacity(capacity), MinCount) IN
    [heads |-> [i \in 0 .. n - 1 |-> Nil], size |-> n, min |-> n, count |-> 0,
     cells |-> <<>>, free |-> <<>>, refs |-> refs]

-----------------------------------------------------------------------------
(* Buckets *)

Index(u, k) == Hash[k] % u.size

\* The cells from c on, at most as many as there are.
Chain(u, c) ==
    LET walk[n \in 0 .. Len(u.cells)] ==
            [d \in DOMAIN u.cells \cup {Nil} |->
                IF n = 0 \/ d = Nil THEN <<>> ELSE <<d>> \o walk[n - 1][u.cells[d].next]]
    IN  walk[Len(u.cells)][c]

\* The loops over all buckets: chain by chain.
Entries(u) ==
    LET upTo[i \in 0 .. u.size] == IF i = 0 THEN <<>> ELSE upTo[i - 1] \o Chain(u, u.heads[i - 1])
    IN  upTo[u.size]

\* bucket_for_key and bucket_for_data
BucketFor(u, k) ==
    LET chain == Chain(u, u.heads[Index(u, k)])
        equal == {i \in DOMAIN chain : u.cells[chain[i]].key = k}
    IN  IF equal = {} THEN Nil ELSE chain[Min(equal)]

\* An instance that nobody refers to is gone: retaining it is an error, Int < 0.
Retained(u, x) == [u EXCEPT !.refs[x] = IF @ = 0 THEN -1 ELSE @ + 1]
Released(u, x) == [u EXCEPT !.refs[x] = @ - 1]

\* A bug: the cell still points to the next of its old chain.
RelinkHeadOnly(u, c) == [u EXCEPT !.heads[Index(u, u.cells[c].key)] = c]

\* The cell goes to the head of its chain.
Relink(u, c) ==
    LET i == Index(u, u.cells[c].key) IN [u EXCEPT !.cells[c].next = u.heads[i], !.heads[i] = c]

RelinkAll(u, cells) ==
    LET made[i \in 0 .. Len(cells)] == IF i = 0 THEN u ELSE Relink(made[i - 1], cells[i])
    IN  made[Len(cells)]

\* _wi_dictionary_optimize
Optimize(u) ==
    LET n == Clamp(Capacity(u.count), u.min, MaxCount) IN
    RelinkAll([u EXCEPT !.heads = [i \in 0 .. n - 1 |-> Nil], !.size = n], Entries(u))

CheckOptimize(u) ==
    IF \/ u.size >= 3 * u.count /\ u.size > u.min
       \/ u.count >= 3 * u.size /\ u.size < MaxCount
    THEN Optimize(u) ELSE u

\* bucket_create, and the new bucket at the head of its chain
Insert(u, k, v) ==
    LET c == IF u.free = <<>> THEN Len(u.cells) + 1 ELSE Head(u.free)
        i == Index(u, k)
        cell == [key |-> k, val |-> v, next |-> u.heads[i]]
    IN  [u EXCEPT !.cells = IF u.free = <<>> THEN Append(@, cell) ELSE [@ EXCEPT ![c] = cell],
                  !.free = IF @ = <<>> THEN @ ELSE Tail(@),
                  !.heads[i] = c, !.count = @ + 1]

Unused == [key |-> Nil, val |-> Nil, next |-> Nil]

\* bucket_remove.  What the cell still holds is not read again.
BucketRemove(u, c) ==
    LET cell == u.cells[c]
        v == IF kind = "dictionary" THEN Released(u, cell.val) ELSE u
    IN  [Released(v, cell.key) EXCEPT !.cells[c] = Unused, !.free = <<c>> \o @, !.count = @ - 1]

BucketRemoveAll(u, cells) ==
    LET left[i \in 0 .. Len(cells)] == IF i = 0 THEN u ELSE BucketRemove(left[i - 1], cells[i])
    IN  left[Len(cells)]

-----------------------------------------------------------------------------
(* The single edits.  A dictionary's key is copied: a fresh instance. *)

CopyKey(u, k) == [u EXCEPT !.refs[k] = @ + 1]

\* A bug: the old value goes before the new one is retained.
SetReleasingFirst(u, k, v) ==
    LET c == BucketFor(u, k) IN
    CheckOptimize(
        IF c # Nil
        THEN [Retained(Released(u, u.cells[c].val), v) EXCEPT !.cells[c].val = v]
        ELSE Insert(CopyKey(Retained(u, v), k), k, v))

\* _wi_dictionary_set_data_for_key
SetDataForKey(u, k, v) ==
    LET r == Retained(CopyKey(u, k), v)
        c == BucketFor(u, k)
    IN  CheckOptimize(
            IF c # Nil
            THEN [Released(Released(r, k), u.cells[c].val) EXCEPT !.cells[c].val = v]
            ELSE Insert(r, k, v))

\* _wi_set_add_data
AddData(u, k) ==
    LET c == BucketFor(u, k) IN
    CheckOptimize(IF c # Nil THEN [u EXCEPT !.cells[c].val = @ + 1]
                  ELSE Insert(Retained(u, k), k, 1))

Add(u, arg) == IF kind = "dictionary" THEN SetDataForKey(u, arg[1], arg[2]) ELSE AddData(u, arg[1])

AddAll(u, args) ==
    LET made[i \in 0 .. Len(args)] == IF i = 0 THEN u ELSE Add(made[i - 1], args[i])
    IN  made[Len(args)]

\* A bug: the cell before stays linked to the one that goes.
UnlinkHeadOnly(u, c) ==
    LET i == Index(u, u.cells[c].key) IN
    BucketRemove([u EXCEPT !.heads[i] = IF @ = c THEN u.cells[c].next ELSE @], c)

\* The bucket c leaves its chain and goes to the free list.
Unlink(u, c) ==
    LET i == Index(u, u.cells[c].key)
        next == u.cells[c].next
        chain == Chain(u, u.heads[i])
        at == Min({n \in DOMAIN chain : chain[n] = c})
    IN  BucketRemove(IF at = 1 THEN [u EXCEPT !.heads[i] = next]
                     ELSE [u EXCEPT !.cells[chain[at - 1]].next = next], c)

\* _wi_dictionary_remove_data_for_key, wi_mutable_set_remove_data
RemoveData(u, k) ==
    LET c == BucketFor(u, k) IN
    CheckOptimize(
        IF c = Nil THEN u
        ELSE IF kind = "counted" /\ u.cells[c].val > 1 THEN [u EXCEPT !.cells[c].val = @ - 1]
        ELSE Unlink(u, c))

\* remove_all_data
RemoveAllData(u) ==
    CheckOptimize([BucketRemoveAll(u, Entries(u)) EXCEPT !.heads = [i \in DOMAIN u.heads |-> Nil]])

\* The references that are left when the table is deallocated.
Dealloc(u) == BucketRemoveAll(u, Entries(u)).refs

\* The entries as arguments: what the loops over another table pass on.
Arguments(u) ==
    LET entries == Entries(u) IN
    [i \in DOMAIN entries |-> <<u.cells[entries[i]].key, u.cells[entries[i]].val>>]

\* wi_copy adds a datum of a set as often as it counts, set_set once.
AddTimes(u, arg, times) ==
    LET made[i \in 0 .. times] == IF i = 0 THEN u ELSE Add(made[i - 1], arg)
    IN  made[times]

Copied(u, args) ==
    LET made[i \in 0 .. Len(args)] ==
            IF i = 0 THEN u
            ELSE AddTimes(made[i - 1], args[i], IF kind = "dictionary" THEN 1 ELSE args[i][2])
    IN  made[Len(args)]

-----------------------------------------------------------------------------
(* Calls.  The caller creates what it passes when nobody refers to it, and    *)
(* releases it afterwards; a table that is passed holds its entries.          *)

Passed(args) == IF kind = "dictionary" THEN {args[i][2] : i \in DOMAIN args}
                ELSE {args[i][1] : i \in DOMAIN args}

\* refs while the caller holds what S names
Holding(refs, S) == [x \in DOMAIN refs |-> IF x \in S THEN refs[x] + 1 ELSE refs[x]]
Taken(u, S) == [u EXCEPT !.refs = Holding(@, S)]
LettingGo(u, S) == [u EXCEPT !.refs = [x \in DOMAIN @ |-> IF x \in S THEN @[x] - 1 ELSE @[x]]]

\* The call op with the arguments args, while the caller holds what `held' names, leaves the
\* table `after'.  The program gives an enumerator up when it adds or removes a key, not when
\* it replaces a value or counts a datum again.
Call(op, args, held, after) ==
    /\ t' = LettingGo(after, held)
    /\ last' = [op |-> op, args |-> args]
    /\ e' = IF op = "add" /\ \A i \in DOMAIN args : BucketFor(t, args[i][1]) # Nil THEN e ELSE Nil
    /\ UNCHANGED kind

Occurrences(u, k) == IF BucketFor(u, k) = Nil THEN 0 ELSE u.cells[BucketFor(u, k)].val

Fits(args) ==
    kind # "dictionary" =>
        \A i \in DOMAIN args : Occurrences(t, args[i][1]) + Len(args) <= MaxOccurrences

\* wi_mutable_dictionary_set_data_for_key, wi_mutable_set_add_data.  What is already in
\* the table may be passed without a reference of the caller's own.
ClientAdd(k, v) ==
    LET held == {x \in Passed(<<<<k, v>>>>) : t.refs[x] = 0} IN
    /\ Fits(<<<<k, v>>>>)
    /\ Call("add", <<<<k, v>>>>, held, Add(Taken(t, held), <<k, v>>))

\* wi_mutable_dictionary_add_entries_from_dictionary, wi_mutable_set_add_data_from_array
ClientAddAll ==
    \E args \in Others \cup {Arguments(t)} :
        /\ Fits(args)
        /\ Call("add", args, Passed(args), AddAll(Taken(t, Passed(args)), args))

ClientRemove(k) == Call("remove", <<<<k, Nil>>>>, {}, RemoveData(t, k))

\* remove_all_data, and wi_mutable_dictionary_set_dictionary, wi_mutable_set_set_set: a
\* table that is set to itself is emptied before it is read.
ClientSet ==
    \E args \in Others \cup {<<>>} :
        Call("set", args, Passed(args), AddAll(RemoveAllData(Taken(t, Passed(args))), args))

\* The constructors with data and keys or from an array: a new table that is filled.
ClientCreate ==
    \E args \in Others, capacity \in {0, 2} :
        Call("set", args, Passed(args),
             AddAll(NewTable(capacity, Dealloc(Taken(t, Passed(args)))), args))

\* wi_copy takes the place of the table, which is deallocated after.
ClientCopy ==
    LET copy == Copied(NewTable(t.count, t.refs), Arguments(t)) IN
    /\ Call("copy", <<>>, {}, [copy EXCEPT !.refs = Dealloc([t EXCEPT !.refs = copy.refs])])
    /\ e = Nil

-----------------------------------------------------------------------------
(* The enumerator *)

BeginEnumeration ==
    /\ e' = [index |-> 0, bucket |-> Nil, seen |-> <<>>, done |-> FALSE]
    /\ last' = [op |-> "none", args |-> <<>>]
    /\ UNCHANGED <<kind, t>>

\* _wi_enumerator_dictionary_enumerator from the context c: where it goes, Nil at the end.
\* The search of a non-empty chain starts at index i.
FromIndex(i) ==
    LET full == {j \in i .. t.size - 1 : t.heads[j] # Nil} IN
    IF full = {} THEN [index |-> Larger(i, t.size), bucket |-> Nil]
    ELSE LET j == CHOOSE j \in full : \A l \in full : j <= l IN
         [index |-> j, bucket |-> t.heads[j]]

\* A bug: at the end of a chain the next one is skipped.
AdvanceTwo ==
    IF e.bucket = Nil THEN FromIndex(e.index)
    ELSE IF t.cells[e.bucket].next # Nil
    THEN [index |-> e.index, bucket |-> t.cells[e.bucket].next]
    ELSE FromIndex(e.index + 2)

Advance ==
    IF e.bucket = Nil THEN FromIndex(e.index)
    ELSE IF t.cells[e.bucket].next # Nil
    THEN [index |-> e.index, bucket |-> t.cells[e.bucket].next]
    ELSE FromIndex(e.index + 1)

\* wi_enumerator_next_data
EnumerateNext ==
    /\ e # Nil /\ ~e.done
    /\ LET to == Advance IN
       e' = [e EXCEPT !.index = to.index, !.bucket = to.bucket, !.done = to.bucket = Nil,
                      !.seen = IF to.bucket = Nil THEN @ ELSE Append(@, t.cells[to.bucket].key)]
    /\ last' = [op |-> "none", args |-> <<>>]
    /\ UNCHANGED <<kind, t>>

EndEnumeration ==
    /\ e # Nil /\ e.done
    /\ e' = Nil
    /\ last' = [op |-> "none", args |-> <<>>]
    /\ UNCHANGED <<kind, t>>

-----------------------------------------------------------------------------

Init ==
    /\ kind \in Kinds
    /\ t = NewTable(0, [x \in Keys \cup Vals |-> 0])
    /\ e = Nil
    /\ last = [op |-> "none", args |-> <<>>]

Next ==
    \/ \E k \in Keys : ClientRemove(k) \/ \E v \in Vals : ClientAdd(k, v)
    \/ ClientAddAll \/ ClientSet \/ ClientCreate \/ ClientCopy
    \/ (e = Nil /\ BeginEnumeration) \/ EnumerateNext \/ EndEnumeration

Spec == Init /\ [][Next]_vars

-----------------------------------------------------------------------------
(* Queries *)

Contents(u) ==
    [k \in Keys |-> LET c == BucketFor(u, k) IN
                    IF c = Nil THEN Nil ELSE IF kind = "set" THEN 1 ELSE u.cells[c].val]

\* wi_dictionary_data_for_key
DataForKey(u, k) == IF BucketFor(u, k) = Nil THEN Nil ELSE u.cells[BucketFor(u, k)].val

AllKeys(u) == [i \in DOMAIN Entries(u) |-> u.cells[Entries(u)[i]].key]

\* A bug: keys that only the other one has are not seen.
IsEqualOneWay(u, v) ==
    \A c \in Range(Entries(u)) :
        IF kind = "dictionary" THEN DataForKey(v, u.cells[c].key) = u.cells[c].val
        ELSE BucketFor(v, u.cells[c].key) # Nil

\* _wi_dictionary_is_equal and _wi_set_is_equal, which does not look at counts
IsEqual(u, v) ==
    /\ u.count = v.count
    /\ \A c \in Range(Entries(u)) :
          IF kind = "dictionary" THEN DataForKey(v, u.cells[c].key) = u.cells[c].val
          ELSE BucketFor(v, u.cells[c].key) # Nil

-----------------------------------------------------------------------------
(* Properties *)

\* The variables keep their types; every cell that was ever cut is in one chain, the
\* one of its key, or on the free list, once; no key is there twice; the count is
\* right.
TypeOK ==
    /\ kind \in Kinds
    /\ t.size = Cardinality(DOMAIN t.heads) /\ t.count = Len(Entries(t))
    /\ \A c \in DOMAIN t.cells :
          t.cells[c].key \in Keys \cup {Nil} /\ t.cells[c].next \in DOMAIN t.cells \cup {Nil}
    /\ Cardinality(Range(Entries(t) \o t.free)) = Len(Entries(t) \o t.free)
    /\ Range(Entries(t) \o t.free) = DOMAIN t.cells
    /\ \A i \in DOMAIN t.heads : \A c \in Range(Chain(t, t.heads[i])) :
          Index(t, t.cells[c].key) = i
    /\ \A c, d \in Range(Entries(t)) : t.cells[c].key = t.cells[d].key => c = d

\* An enumerator hands out every key that is there once, also when values are
\* replaced while it runs: replacing neither moves a bucket nor resizes the table.
EnumeratesAll ==
    e # Nil /\ e.done =>
        Len(e.seen) = t.count /\ Range(e.seen) = Range(AllKeys(t))

\* Through retains, copies and releases in whatever order the calls make them, an
\* entry holds exactly one reference to its key and, in a dictionary, its value, and
\* nothing is retained that was already gone.
HoldsReferences ==
    \A x \in Keys \cup Vals :
        t.refs[x] = Cardinality({c \in Range(Entries(t)) :
                            t.cells[c].key = x \/ (kind = "dictionary" /\ t.cells[c].val = x)})

\* A table that was filled from args
Filled(args) == AddAll(NewTable(0, [x \in Keys \cup Vals |-> 1]), args)

\* wi_is_equal tells tables apart by what is in them, not by how they came to be:
\* their sizes and the order of their chains do not matter.  Counts do not either.
EqualByContents ==
    \A args \in Others :
        LET u == Filled(args) IN
        IsEqual(t, u) <=>
            \A k \in Keys : IF kind = "dictionary" THEN Contents(t)[k] = Contents(u)[k]
                            ELSE Contents(t)[k] = Nil <=> Contents(u)[k] = Nil

\* Lookups, over hashes, chains, resizes and recycled cells, are a map that every call
\* changes as its arguments say.
Map == INSTANCE AbstractTable WITH contents <- Contents(t), Absent <- Nil
Implements == Map!Spec

=============================================================================
