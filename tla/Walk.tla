---------------------------------- MODULE Walk ----------------------------------
(***************************************************************************)
(* compat/wi-fts.c: the walk of a tree of files, as libwired asks for it:  *)
(* logical (links are followed), one root, no sorting, no stat results.    *)
(*                                                                         *)
(* `files' is what is on the disk: a path, that is a sequence of names, to *)
(* a directory, a file with its blocks, or a symbolic link.  A walk is its *)
(* current entry, the entries still to visit at each level, and the        *)
(* directories it is in, the innermost first.                              *)
(***************************************************************************)
EXTENDS Integers, SequencesExt, FiniteSets

CONSTANTS Names, MaxPath       \* MAXPATHLEN, in names

VARIABLE files

-----------------------------------------------------------------------------
(* The kernel.  A link leads to a path without links. *)

None == [kind |-> "none"]
Directory(readable) == [kind |-> "directory", readable |-> readable]
File(blocks) == [kind |-> "file", blocks |-> blocks]
Link(to) == [kind |-> "link", to |-> to]

Node(f, p) == IF p \in DOMAIN f THEN f[p] ELSE None

\* The path itself, and with its last name not followed.
Real(f, path) ==
    FoldLeft(LAMBDA at, name : LET n == Node(f, Append(at, name)) IN
                               IF n.kind = "link" THEN n.to ELSE Append(at, name), <<>>, path)

Self(f, path) == IF path = <<>> THEN <<>> ELSE Append(Real(f, Front(path)), Last(path))

\* A path that is too long is none.
Stat(f, path) == LET n == Node(f, Real(f, path)) IN
                 IF Len(path) > MaxPath \/ n.kind = "link" THEN None ELSE n

Lstat(f, path) == IF Len(path) > MaxPath THEN None ELSE Node(f, Self(f, path))

NamesIn(f, path) == {name \in Names : Append(Real(f, path), name) \in DOMAIN f}

-----------------------------------------------------------------------------

\* wi_fts_stat: a directory that the walk is in already is a cycle.
Info(f, path, above) ==
    CASE Stat(f, path).kind = "directory" ->
             IF \E e \in Range(above) : e.id = Real(f, path) THEN "DC" ELSE "D"
      [] Stat(f, path).kind = "file" -> "F"
      [] OTHER -> IF Lstat(f, path) = None THEN "NS" ELSE "SLNONE"

\* wi_fts_alloc
Entry(f, path, above) ==
    [path |-> path, level |-> Len(above), info |-> Info(f, path, above), id |-> Real(f, path),
     skip |-> FALSE]

\* A dummy that says that the walk is just before the root.
OpenWalk(f, path) ==
    [end |-> FALSE, cur |-> [Entry(f, path, <<>>) EXCEPT !.info = "INIT"],
     next |-> <<{Entry(f, path, <<>>)}>>, up |-> <<>>]

SetSkip(w) == [w EXCEPT !.cur.skip = TRUE]

\* wi_fts_build: the entries of the directory, all looked at before the first is visited.
Entries(f, w) ==
    LET above == <<w.cur>> \o w.up IN
    {Entry(f, Append(w.cur.path, name), above) : name \in NamesIn(f, w.cur.path)}

\* To the next entry of the level, or back to the directory.
Onwards(w) ==
    IF w.next[1] # {}
    THEN {[w EXCEPT !.cur = e, !.next[1] = @ \ {e}] : e \in w.next[1]}
    ELSE IF w.up = <<>> THEN {[w EXCEPT !.end = TRUE]}
    ELSE {[w EXCEPT !.cur = [w.up[1] EXCEPT !.info = "DP"], !.next = Tail(@), !.up = Tail(@)]}

\* A bug: what is skipped is visited all the same.
IgnoreSkip(f, w) ==
    IF w.cur.info = "D" /\ Entries(f, w) # {}
    THEN {[w EXCEPT !.cur = e, !.next = <<Entries(f, w) \ {e}>> \o @, !.up = <<w.cur>> \o @] :
              e \in Entries(f, w)}
    ELSE IF w.cur.info = "D" THEN {[w EXCEPT !.cur.info = "DP"]}
    ELSE Onwards(w)

\* wi_fts_read: a directory is visited before what is in it and after; one that cannot be
\* read is visited again for that, one that is empty or skipped at once as left.
ReadWalk(f, w) ==
    IF w.end THEN {w}
    ELSE IF w.cur.info # "D" THEN Onwards(w)
    ELSE IF w.cur.skip \/ (Stat(f, w.cur.path) = Directory(TRUE) /\ Entries(f, w) = {})
    THEN {[w EXCEPT !.cur.info = "DP", !.cur.skip = FALSE]}
    ELSE IF Stat(f, w.cur.path) # Directory(TRUE) THEN {[w EXCEPT !.cur.info = "DNR"]}
    ELSE {[w EXCEPT !.cur = e, !.next = <<Entries(f, w) \ {e}>> \o @, !.up = <<w.cur>> \o @] :
              e \in Entries(f, w)}

=============================================================================
