--------------------------------- MODULE MCSystem ---------------------------------
(***************************************************************************)
(* One program per behaviour: one that walks trees, one that uses files,   *)
(* pipes and a task, one that watches directories, one that logs, one that *)
(* calls on values, and one whose threads make UUIDs.                      *)
(***************************************************************************)
EXTENDS Filesystem, Files, FilesystemEvents, Log, Values

VARIABLE program

\* Trees: every way to have files, links and directories at these paths, without links to links.
Kinds == {Directory(TRUE), Directory(FALSE), File(<<1, 2>>), Link(<<>>), Link(<<"a">>), Link(<<"h">>)}

Places == {<<"a">>, <<"h">>, <<"a", "a">>, <<"a", "h">>, <<"h", "a">>}

IsTree(t) == \A p \in DOMAIN t :
    /\ Len(p) > 0 => Front(p) \in DOMAIN t /\ t[Front(p)] = Directory(TRUE)
    /\ t[p].kind = "link" => t[p].to \notin DOMAIN t \/ t[t[p].to].kind # "link"
    /\ t[p] = Link(<<>>) => Len(p) = 2

MCTrees ==
    {t \in {(<<>> :> Directory(TRUE)) @@ s : s \in UNION {[D -> Kinds] : D \in SUBSET Places}} : IsTree(t)}

MCTargets == {<<"a">>, <<"h">>, <<"a", "h">>}
MCWritten == {<<7, 8>>}

\* Values: short texts over a few characters, and numbers on both sides of the widths.
Over(chars, n) == UNION {[1 .. m -> chars] : m \in 0 .. n}

MCTextCalls == [text : Over({"a", "B", "b", " "}, 3),
                find : {<<"a">>, <<"B">>, <<" ">>, <<"a", "b">>, <<"b", "b">>}, other : {<<>>, <<"a", "b">>},
                options : SUBSET {"insensitive", "backwards", "smart"}]

MCPathCalls == [path : Over({"a", "/", ".", "~"}, 4), component : {<<"b">>}]

MCNumberCalls == [type : {"int8", "short", "bool", "double", "float", "long"}, value : {-3, -2, 0, 1, 2, 4, 17},
                  otherType : {"int8", "double"}, other : {-2, 0, 1, 4}]

MCDateCalls == [seconds : {0, 59, 3600, 90061},
                zone : [sign : {"+", "-"}, hours : {0, 1, 8, 10, 11}, minutes : {0, 30}]]

Scalars == {NullInstance, Instance("bool", TRUE), Instance("integer", 7), Instance("integer", -1)}
           \cup {Instance("string", t) : t \in {<<>>, <<" ">>, <<"&", "<">>, <<"\\", "\"">>}}

Nested == Scalars \cup {Instance("array", v) : v \in Over(Scalars, 2)}
         \cup {Instance("dictionary", v) :
                   v \in UNION {[K -> Scalars] : K \in {{}, {<<"k">>}, {<<"k">>, <<"x">>}}}}

\* What follows a collection shows whether it was closed.
MCDocumentCalls ==
    Nested \cup {Instance("dictionary", (<<"a">> :> v) @@ (<<"b">> :> w)) :
                    v \in Nested, w \in {Instance("integer", 1), Instance("array", <<Instance("string", <<"x">>)>>)}}
          \cup {Instance("dictionary", <<"a">> :> Instance("date", 5)),
                Instance("dictionary", <<"b">> :> Instance("data", <<1, 255>>))}

MCDataCalls == Over({0, 1, 77, 255}, 3)
MCUuidBytes == {[i \in 1 .. 16 |-> 0], [i \in 1 .. 16 |-> i % 7], [i \in 1 .. 16 |-> 15]}

MCUrlParts == [scheme |-> {Null, <<"a">>}, user |-> {Null, <<"u">>, <<>>}, password |-> {Null, <<":", "p">>},
               host |-> {Null, <<"h">>, <<"a", ":", "b">>, <<"a", ":", ":", "b">>}, port |-> {0, 7, 42},
               path |-> {Null, Root, <<"/", "p">>, <<"/", "@", "p">>}]

MCHomes == (<<>> :> <<"/", "b">>) @@ (<<"a">> :> <<"/", "a", "a">>)
MCBits == [int8 |-> 4, int16 |-> 5, int32 |-> 6, int64 |-> 7]

allVars == <<fsVars, filesVars, eventsVars, logVars, uuidVars, valuesVars, program>>

FirstTree == CHOOSE t \in MCTrees : DOMAIN t = {<<>>}

Init ==
    /\ program \in {"trees", "files", "events", "log", "values", "uuid"}
    /\ IF program = "trees" THEN FsInit ELSE files = FirstTree /\ job = NoJob /\ disturbed = 0
    /\ FilesInit /\ EventsInit /\ LogInit /\ UuidInit
    /\ IF program = "values" THEN ValuesInit ELSE call = [family |-> "none", of |-> Null] /\ answer = Null

NextTrees ==
    program = "trees" /\ FsNext /\ UNCHANGED <<filesVars, eventsVars, logVars, uuidVars, valuesVars, program>>
NextFiles ==
    program = "files" /\ FilesNext /\ UNCHANGED <<fsVars, eventsVars, logVars, uuidVars, valuesVars, program>>
NextEvents ==
    program = "events" /\ EventsNext /\ UNCHANGED <<fsVars, filesVars, logVars, uuidVars, valuesVars, program>>
NextLog ==
    program = "log" /\ LogNext /\ UNCHANGED <<fsVars, filesVars, eventsVars, uuidVars, valuesVars, program>>
NextValues ==
    program = "values" /\ ValuesNext /\ UNCHANGED <<fsVars, filesVars, eventsVars, logVars, uuidVars, program>>
NextUuid ==
    program = "uuid" /\ UuidNext /\ UNCHANGED <<fsVars, filesVars, eventsVars, logVars, valuesVars, program>>

Next == NextTrees \/ NextFiles \/ NextEvents \/ NextLog \/ NextValues \/ NextUuid

Spec == Init /\ [][Next]_allVars /\ FilesFairness

=============================================================================
