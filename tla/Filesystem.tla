------------------------------- MODULE Filesystem -------------------------------
(***************************************************************************)
(* file/wi-filesystem.c and file/wi-directory-enumerator.c: trees copied,  *)
(* deleted and enumerated by one thread, a walk entry at a time, while     *)
(* other processes change the disk.                                        *)
(***************************************************************************)
EXTENDS Walk

CONSTANTS Hidden,         \* names that begin with a dot
          Trees,          \* bound: the disks to start from
          Targets,        \* the paths that calls are about
          MaxDisturbed    \* bound: changes by other processes

VARIABLES job,            \* the call in progress, or the enumerator in use
          disturbed

fsVars == <<files, job, disturbed>>

NoJob == [op |-> "none"]

FsInit == files \in Trees /\ job = NoJob /\ disturbed = 0

-----------------------------------------------------------------------------
(* One system call each *)

Parent(f, path) == Stat(f, Front(path)) = Directory(TRUE)

CanMake(f, path) == Len(path) <= MaxPath /\ Parent(f, path) /\ Self(f, path) \notin DOMAIN f

Put(f, path, node) == (Self(f, path) :> node) @@ f

Without(f, path) == [p \in DOMAIN f \ {path} |-> f[p]]

\* unlink and rmdir do not follow the last name.
Unlink(f, path) == IF Lstat(f, path).kind \in {"file", "link"} THEN Without(f, Self(f, path)) ELSE f

Rmdir(f, path) ==
    IF Lstat(f, path).kind = "directory" /\ NamesIn(f, path) = {} THEN Without(f, Self(f, path)) ELSE f

\* Other processes make files, and remove files and links.
Disturbs == \E p \in Targets :
    /\ disturbed < MaxDisturbed /\ job # NoJob /\ job.at # "return"
    /\ disturbed' = disturbed + 1
    /\ \E change \in {Unlink(files, p)} \cup
                     (IF CanMake(files, p) THEN {Put(files, p, File(<<9>>))} ELSE {}) :
           /\ change # files
           /\ files' = change
           /\ job' = [job EXCEPT !.before = change]

-----------------------------------------------------------------------------

\* wi_filesystem_get_file_stats_for_path: the type, of a link itself.
FileStats(f, path) == Lstat(f, path)

FileExists(f, path) == FileStats(f, path) # None

Job(op, from, to) ==
    [op |-> op, at |-> op, from |-> from, to |-> to, walk |-> OpenWalk(files, from),
     result |-> TRUE, skipped |-> {}, seen |-> <<>>, error |-> FALSE, broken |-> FALSE,
     before |-> files]

Return(j, result) == job' = [j EXCEPT !.at = "return", !.result = result]

\* A call begins with what is at its path; EEXIST when there is something at the other one.
CopyPath == \E from, to \in Targets :
    /\ job = NoJob /\ from # to
    /\ LET j == Job("copy", from, to) IN
       IF ~FileExists(files, from) \/ FileExists(files, to) THEN Return([j EXCEPT !.op = "refused"], FALSE)
       ELSE IF FileStats(files, from).kind = "directory" THEN job' = j
       ELSE job' = [j EXCEPT !.at = "file"]
    /\ UNCHANGED <<files, disturbed>>

DeletePath == \E path \in Targets :
    /\ job = NoJob /\ UNCHANGED disturbed
    /\ LET j == Job("delete", path, path) IN
       CASE ~FileExists(files, path) ->
                UNCHANGED files /\ Return([j EXCEPT !.op = "refused"], FALSE)
         [] FileExists(files, path) /\ FileStats(files, path).kind = "directory" -> job' = j /\ UNCHANGED files
         [] OTHER -> files' = Unlink(files, path) /\ Return(j, TRUE)

\* wi_directory_enumerator_init_with_path
Enumerate == \E path \in Targets :
    /\ job = NoJob
    /\ LET j == Job("enumerate", path, path) IN
       IF Lstat(files, path) = None THEN Return([j EXCEPT !.op = "refused"], FALSE)
       ELSE job' = j
    /\ UNCHANGED <<files, disturbed>>

\* create_directory, create_symbolic_link and rename_path
Change == \E path, other \in Targets :
    /\ job = NoJob /\ UNCHANGED disturbed
    /\ Return(Job("change", path, other), TRUE)
    /\ \/ CanMake(files, path) /\ files' = Put(files, path, Directory(TRUE))
       \/ CanMake(files, path) /\ files' = Put(files, path, Link(Real(files, other)))
       \/ /\ Lstat(files, path).kind \in {"file", "link"} /\ CanMake(files, other)
          /\ files' = Put(Without(files, Self(files, path)), other, Lstat(files, path))

-----------------------------------------------------------------------------
(* Copying *)

\* Each state of the disk in which a copy of a file may end, and what the function says: what is
\* there, behind a link even, may not be open to it; the last block may not fit; and a read that fails, as that of a directory does, ends the file
\* like its end.
CopiesOfFile(f, from, to) ==
    LET source == Stat(f, from)
        blocks == IF source.kind = "file" THEN source.blocks ELSE <<>>
        can == CanMake(f, to) \/ Stat(f, to).kind = "file"
        made(n) == IF CanMake(f, to) THEN Put(f, to, File(SubSeq(blocks, 1, n)))
                   ELSE Put(f, Real(f, to), File(SubSeq(blocks, 1, n)))
    IN  IF source \in {None, Directory(FALSE)} \/ ~can THEN {[f |-> f, result |-> FALSE, broken |-> FALSE]}
        ELSE {[f |-> made(Len(blocks)), result |-> TRUE, broken |-> source.kind # "file"]}
             \cup {[f |-> made(n), result |-> r, broken |-> r] :
                       n \in 0 .. Len(blocks) - 1, r \in BOOLEAN}

\* A copy that fails is deleted.
Give(j) == IF j.result THEN Return(j, TRUE)
           ELSE IF FileStats(files', j.to).kind = "directory"
           THEN job' = [j EXCEPT !.at = "undo", !.walk = OpenWalk(files', j.to)]
           ELSE job' = [j EXCEPT !.at = "unlink"]

CopyFile ==
    /\ job.at = "file" /\ UNCHANGED disturbed
    /\ \E c \in CopiesOfFile(files, job.from, job.to) :
           files' = c.f /\ Give([job EXCEPT !.result = c.result, !.broken = c.broken])

\* The path in the copy.
NewPath(j, path) == j.to \o SubSeq(path, Len(j.from) + 1, Len(path))

\* _wi_filesystem_copy_directory: cycles are left out; all else goes on after a failure.
CopyEntry ==
    /\ job.at = "copy" /\ UNCHANGED disturbed
    /\ \E w \in ReadWalk(files, job.walk) :
          LET j == [job EXCEPT !.walk = w]
              to == NewPath(job, w.cur.path)
          IN  CASE w.end -> UNCHANGED files /\ Give(job)
                [] ~w.end /\ w.cur.info \in {"NS", "DNR"} ->
                       UNCHANGED files /\ job' = [j EXCEPT !.result = FALSE]
                [] ~w.end /\ w.cur.info \in {"DC", "DP"} -> UNCHANGED files /\ job' = j
                [] ~w.end /\ w.cur.info = "D" ->
                       IF CanMake(files, to) THEN files' = Put(files, to, Directory(TRUE)) /\ job' = j
                       ELSE UNCHANGED files /\ job' = [j EXCEPT !.result = FALSE]
                [] OTHER ->
                       \E c \in CopiesOfFile(files, w.cur.path, to) :
                           /\ files' = c.f
                           /\ job' = [j EXCEPT !.result = @ /\ c.result, !.broken = @ \/ c.broken]

-----------------------------------------------------------------------------
(* Deleting *)

\* A bug: what links lead to counts as deleted.
Removed(f, path) == IF Stat(f, path) = None THEN f ELSE Rmdir(f, Real(f, path))

\* rmdir, which fails for a link, after what is in the directory.
RemoveDirectory(f, path) == Rmdir(f, path)

DeleteEntry ==
    /\ job.at \in {"delete", "undo"} /\ UNCHANGED disturbed
    /\ \E w \in ReadWalk(files, job.walk) :
          LET after == IF w.cur.info = "DP" THEN RemoveDirectory(files, w.cur.path)
                       ELSE Unlink(files, w.cur.path)
              j == [job EXCEPT !.walk = w]
          IN  CASE w.end -> UNCHANGED files /\ Return(job, job.result)
                [] ~w.end /\ w.cur.info \in {"NS", "DNR", "DC"} ->
                       UNCHANGED files /\ job' = [j EXCEPT !.result = FALSE]
                [] ~w.end /\ w.cur.info = "D" -> UNCHANGED files /\ job' = j
                [] OTHER -> /\ files' = after
                            /\ job' = [j EXCEPT !.result = @ /\ after # files]

\* Of a copy that is no directory, if it is there at all.
Unmake ==
    /\ job.at = "unlink" /\ files' = Unlink(files, job.to)
    /\ Return(job, FALSE) /\ UNCHANGED disturbed

-----------------------------------------------------------------------------
(* Enumerating *)

\* A round of the loop of wi_directory_enumerator_get_next_path, and its return.
NextPath ==
    /\ job.at = "enumerate" /\ UNCHANGED <<files, disturbed>>
    /\ \E w \in ReadWalk(files, job.walk) :
          LET j == [job EXCEPT !.walk = w] IN
          CASE w.end -> Return(job, TRUE)
            [] ~w.end /\ w.cur.level > 0 /\ Last(w.cur.path) \in Hidden ->
                   job' = [j EXCEPT !.walk = SetSkip(w)]
            [] ~w.end /\ w.cur.level > 0 /\ w.cur.info \in {"DC", "DNR"} ->
                   job' = [j EXCEPT !.error = TRUE]
            [] ~w.end /\ (w.cur.level = 0 \/ w.cur.info = "DP") -> job' = j
            [] OTHER -> job' = [j EXCEPT !.seen = Append(@, w.cur.path)]

SkipDescendents ==
    /\ job.at = "enumerate" /\ job.walk.cur.info \notin {"INIT", "DP"} /\ ~job.walk.cur.skip
    /\ job.walk.cur.level > 0
    /\ job' = [job EXCEPT !.walk = SetSkip(@), !.skipped = @ \cup {job.walk.cur.path}]
    /\ UNCHANGED <<files, disturbed>>

\* The program looks at the result, and is done.
FsNext ==
    \/ CopyPath \/ DeletePath \/ Enumerate \/ Change
    \/ /\ job # NoJob
       /\ \/ CopyFile \/ CopyEntry \/ DeleteEntry \/ Unmake \/ NextPath \/ SkipDescendents
          \/ Disturbs

-----------------------------------------------------------------------------

Under(path, p) == IsPrefix(path, p)

\* The tails of the paths below `path' when links are followed, each directory once on its way.
Below(f, path) ==
    LET tails == UNION {[1 .. n -> Names] : n \in 0 .. MaxPath - Len(path)}
        way(t) == {path \o SubSeq(t, 1, i) : i \in 0 .. Len(t)}
    IN  {t \in tails : /\ Lstat(f, path \o t) # None
                       /\ \A p \in way(t), q \in way(t) :
                              p # q /\ Stat(f, q).kind = "directory" => Real(f, p) # Real(f, q)}

\* A tree that is copied has, where it was to go, what the other one had with its links
\* followed, and one that could not be copied has left nothing there; a tree that is deleted
\* is gone; and nothing else has changed on the disk but what others changed.  An enumerator
\* has told each path below its own once, without hidden files, what is in hidden
\* directories and what the program skipped.  (What others change meanwhile may be in the
\* result or not, a read that fails ends a file that is copied, and deleting a tree that
\* has links to directories fails, after what is in those directories has been deleted.)
TreesAreTrue == job # NoJob /\ job.at = "return" =>
    LET j == job IN
    /\ j.op = "copy" =>
           \A p \in DOMAIN files \cup DOMAIN j.before :
               ~Under(Self(j.before, j.to), p) /\ ~Under(Real(j.before, j.to), p) =>
                   Node(files, p) = Node(j.before, p)
    /\ disturbed = 0 =>
       CASE j.op = "copy" /\ ~j.result -> Lstat(files, j.to) = None
         [] j.op = "copy" /\ j.result /\ ~j.broken ->
                /\ Below(files, j.to) = Below(j.before, j.from)
                /\ \A t \in Below(files, j.to) :
                       Lstat(files, j.to \o t) = IF Stat(j.before, j.from \o t).kind = "directory"
                                                 THEN Directory(TRUE) ELSE Stat(j.before, j.from \o t)
         [] j.op = "delete" /\ j.result ->
                files = [p \in {q \in DOMAIN j.before : ~Under(Self(j.before, j.from), q)} |-> j.before[p]]
         [] j.op = "delete" /\ ~j.result ->
                \A p \in DOMAIN j.before \ DOMAIN files :
                    \E t \in Below(j.before, j.from) : p = Self(j.before, j.from \o t)
         [] j.op = "enumerate" ->
                /\ Len(j.seen) = Cardinality(Range(j.seen))
                /\ ~j.error =>
                   {SubSeq(p, Len(j.from) + 1, Len(p)) : p \in {q \in Range(j.seen) : Len(q) <= MaxPath}} =
                   {t \in Below(j.before, j.from) \ {<<>>} :
                        /\ Range(t) \cap Hidden = {}
                        /\ \A i \in 0 .. Len(t) - 1 : j.from \o SubSeq(t, 1, i) \notin j.skipped}
         [] OTHER -> TRUE

=============================================================================
