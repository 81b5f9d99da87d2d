---------------------------------- MODULE Files ----------------------------------
(***************************************************************************)
(* file/wi-file.c, system/wi-pipe.c and system/wi-task.c: a file, a pipe   *)
(* and a task of one program, the table of descriptors that their numbers  *)
(* lead into, and the process that the task starts.                        *)
(***************************************************************************)
EXTENDS Integers, SequencesExt, FiniteSets

CONSTANTS Numbers,        \* of descriptors: 0 and some
          BufferSize,     \* WI_FILE_BUFFER_SIZE and WI_PIPE_BUFFER_SIZE
          Lengths,        \* that reads ask for
          Written,        \* what is written: sequences of bytes
          PipeSize,       \* bytes that a pipe holds
          MaxSize,        \* bound: bytes of a file
          MaxOutput,      \* bound: bytes that a child writes
          MaxCalls,       \* bound: of files and pipes made, and calls that use them
          MaxFailures     \* bound: calls to the kernel that fail

ASSUME FilesAssumption ==
    /\ 0 \in Numbers /\ Numbers \subseteq Nat /\ IsFiniteSet(Numbers)
    /\ BufferSize \in Nat \ {0} /\ Lengths \subseteq Nat /\ Written \subseteq Seq(Nat) /\ PipeSize \in Nat

VARIABLES table,          \* number -> what is open there
          contents,       \* of the file on the disk, the temporary file and the pipe
          file, pipe,     \* the objects
          task, child,
          transfer,       \* the call that reads or writes
          calls, failures

filesVars == <<table, contents, file, pipe, task, child, transfer, calls, failures>>

-----------------------------------------------------------------------------
(* The kernel *)

Closed == [to |-> "nothing"]
StandardInput == [to |-> "terminal"]
Opened(to, at, append) == [to |-> to, at |-> at, append |-> append]

NoNumber == -1

Free(t) == {n \in Numbers : t[n] = Closed}
Least(S) == CHOOSE n \in S : \A m \in S : n <= m

Shut(t, n) == IF n \in Numbers THEN [t EXCEPT ![n] = Closed] ELSE t

NoFile == [file |-> "none"]
NoPipe == [pipe |-> "none"]
Idle == [op |-> "none"]
NoTask == [task |-> "none"]
NoChild == [is |-> "none", in |-> Closed, out |-> Closed, wrote |-> 0]

HasFile == file # NoFile
HasPipe == pipe # NoPipe
HasTask == task # NoTask

FilesInit ==
    /\ table = [n \in Numbers |-> IF n = 0 THEN StandardInput ELSE Closed]
    /\ contents = [disk |-> <<1, 2, 3>>, temporary |-> <<>>, pipe |-> <<>>]
    /\ file = NoFile /\ pipe = NoPipe /\ task = NoTask /\ child = NoChild
    /\ transfer = Idle /\ calls = 0 /\ failures = 0

\* The numbers that objects keep and that are open no more: those given to the child.
Stale == {n \in (IF HasFile THEN {file.fd} ELSE {}) \cup (IF HasPipe THEN {pipe.rd, pipe.wd} ELSE {}) :
             n \in Numbers /\ table[n] = Closed}

Calls == transfer.op = "none" /\ calls < MaxCalls /\ calls' = calls + 1

\* Rule: the program opens nothing while it has objects with such numbers.
Opens == Calls /\ Stale = {}

Fails == failures < MaxFailures /\ failures' = failures + 1

-----------------------------------------------------------------------------
(* Opening and closing *)

\* Modes: to read, to write (which empties the file), and to update.
InitWithPath == \E mode \in {"reading", "writing", "updating"} :
    /\ Opens /\ ~HasFile
    /\ \/ /\ Free(table) # {}
          /\ LET fd == Least(Free(table)) IN
             /\ table' = [table EXCEPT ![fd] = Opened("disk", 0, mode = "updating")]
             /\ file' = [fd |-> fd, of |-> "disk", offset |-> 0, mode |-> mode]
          /\ contents' = IF mode = "writing" THEN [contents EXCEPT !.disk = <<>>] ELSE contents
          /\ UNCHANGED failures
       \* the instance is released with the -1 that open returned
       \/ Fails /\ UNCHANGED <<table, contents, file>>
    /\ UNCHANGED <<pipe, task, child, transfer>>

\* A failure releases the instance with its zeros: its deallocation closes descriptor 0.
\* Rule: a program goes on with its standard input only once after such a failure.
InitTemporaryFile ==
    /\ Opens /\ ~HasFile
    /\ \/ /\ Free(table) # {}
          /\ LET fd == Least(Free(table)) IN
             /\ table' = [table EXCEPT ![fd] = Opened("temporary", 0, FALSE)]
             /\ file' = [fd |-> fd, of |-> "temporary", offset |-> 0, mode |-> "updating"]
          /\ contents' = [contents EXCEPT !.temporary = <<>>]
          /\ UNCHANGED failures
       \/ /\ Fails /\ table[0] = StandardInput /\ table' = Shut(table, 0)
          /\ UNCHANGED <<file, contents>>
    /\ UNCHANGED <<pipe, task, child, transfer>>

InitPipe ==
    /\ Opens /\ ~HasPipe
    /\ \/ /\ Cardinality(Free(table)) >= 2
          /\ LET rd == Least(Free(table))
                 wd == Least(Free(table) \ {rd})
             IN  /\ table' = [table EXCEPT ![rd] = Opened("reading", 0, FALSE),
                                           ![wd] = Opened("writing", 0, FALSE)]
                 /\ pipe' = [rd |-> rd, wd |-> wd]
          /\ contents' = [contents EXCEPT !.pipe = <<>>]
          /\ UNCHANGED failures
       \/ /\ Fails /\ table[0] = StandardInput /\ table' = Shut(table, 0)
          /\ UNCHANGED <<pipe, contents>>
    /\ UNCHANGED <<file, task, child, transfer>>

\* Bugs: the number is kept.
ForgetfulClose(f) == f
CloseFile(f) == [f EXCEPT !.fd = NoNumber]
ClosePipe(p) == [p EXCEPT !.rd = NoNumber, !.wd = NoNumber]

\* wi_file_close, wi_pipe_close, and the deallocation of either, which closes it.
Close ==
    /\ transfer.op = "none"
    /\ \/ /\ HasFile /\ table' = Shut(table, file.fd) /\ UNCHANGED pipe
          /\ file' \in {CloseFile(file)} \cup (IF HasTask /\ "file" \in {task.in, task.out} THEN {} ELSE {NoFile})
       \/ /\ HasPipe /\ table' = Shut(Shut(table, pipe.rd), pipe.wd) /\ UNCHANGED file
          /\ pipe' \in {ClosePipe(pipe)} \cup (IF HasTask /\ "pipe" \in {task.in, task.out} THEN {} ELSE {NoPipe})
    /\ UNCHANGED <<contents, task, child, transfer, calls, failures>>

Seek == \E offset \in {0, 1, IF HasFile THEN Len(contents[file.of]) ELSE 0} :
    /\ Calls /\ HasFile /\ file.fd # NoNumber
    /\ IF table[file.fd] = Closed THEN UNCHANGED <<table, file>>
       ELSE /\ table' = [table EXCEPT ![file.fd].at = offset]
            /\ file' = [file EXCEPT !.offset = offset]
    /\ UNCHANGED <<contents, pipe, task, child, transfer, failures>>

\* ftruncate fails for a file that is open to be read only.
Truncate == \E length \in {0, 1} :
    /\ Calls /\ HasFile /\ file.fd \in Numbers /\ table[file.fd] # Closed
    /\ file.mode # "reading" /\ length <= Len(contents[file.of])
    /\ contents' = [contents EXCEPT ![file.of] = SubSeq(@, 1, length)]
    /\ UNCHANGED <<table, file, pipe, task, child, transfer, failures>>

-----------------------------------------------------------------------------
(* Reading and writing *)

\* What a call has read or has still to write; `left' is -1 for a call without a length, `part'
\* what the innermost function has moved and `size' what it is to.
Transfer(op, of, left, data) ==
    [op |-> op, of |-> of, left |-> left, want |-> left, data |-> data, part |-> <<>>, at |-> "call",
     size |-> IF op = "read" /\ left # -1 /\ left < BufferSize THEN left
              ELSE IF op = "read" THEN BufferSize ELSE left,
     start |-> IF of = "file" THEN file.offset ELSE 0, moved |-> <<>>, result |-> "none"]

OpenFile == HasFile /\ file.fd # NoNumber
OpenPipe == HasPipe /\ pipe.rd # NoNumber /\ pipe.wd # NoNumber

\* Rule: a pipe is read to its end only when a child has its other end.
StartRead == \E of \in {"file", "pipe"}, op \in {"read", "read_bytes"}, length \in Lengths \cup {-1} :
    /\ Calls /\ (IF of = "file" THEN OpenFile /\ file.mode # "writing" ELSE OpenPipe)
    /\ of = "pipe" => HasTask /\ task.launched /\ task.out = "pipe"
    /\ length = -1 => op = "read"
    /\ transfer' = Transfer(op, of, length, <<>>)
    /\ UNCHANGED <<table, contents, file, pipe, task, child, failures>>

\* Rule: what is written to a pipe is for a child.
StartWrite == \E of \in {"file", "pipe"}, data \in Written :
    /\ Calls /\ (IF of = "file" THEN OpenFile /\ file.mode # "reading" ELSE OpenPipe)
    /\ of = "file" => Len(contents[file.of]) + Len(data) <= MaxSize
    /\ of = "pipe" => HasTask /\ task.in = "pipe" /\ child.is # "none"
    /\ transfer' = Transfer("write", of, Len(data), data)
    /\ UNCHANGED <<table, contents, file, pipe, task, child, failures>>

Number(t) == IF t.of = "file" THEN file.fd ELSE IF t.op = "write" THEN pipe.wd ELSE pipe.rd

\* Has someone the end of the pipe open?
Held(end) == end \in {table[n].to : n \in Numbers} \cup {child.in.to, child.out.to}

\* The bytes that a read or a write may move.
Available(t) ==
    IF t.op = "write"
    THEN IF t.of = "file" THEN SubSeq(t.data, Len(t.moved) + 1, Len(t.data))
         ELSE SubSeq(t.data, Len(t.moved) + 1,
                     Len(t.moved) + Least({Len(t.data) - Len(t.moved), PipeSize - Len(contents.pipe)}))
    ELSE LET bytes == IF t.of = "pipe" THEN contents.pipe
                      ELSE SubSeq(contents[file.of], table[file.fd].at + 1, Len(contents[file.of]))
         IN  SubSeq(bytes, 1, Least({Len(bytes), t.size - Len(t.part)}))

Returns(t, result) == transfer' = [t EXCEPT !.at = "return", !.result = result]

\* A bug: what was read before the end is left out.
DropPart(t) ==
    IF Len(t.part) < t.size THEN Returns(t, "data")
    ELSE transfer' = [t EXCEPT !.data = @ \o t.part, !.part = <<>>,
                               !.left = IF @ = -1 THEN @ ELSE @ - Len(t.part)]

\* The innermost function has returned what it read: nothing, a part or all.  wi_file_read of
\* no bytes at all returns NULL without an error.
Inner(t) ==
    LET data == t.data \o t.part
        left == IF t.left = -1 THEN -1 ELSE t.left - Len(t.part)
    IN  CASE t.op = "read_bytes" -> Returns([t EXCEPT !.data = data], "data")
          [] t.op = "read" /\ (t.part = <<>> \/ left = 0) -> Returns([t EXCEPT !.data = data], "data")
          [] OTHER -> transfer' = [t EXCEPT !.data = data, !.left = left, !.part = <<>>,
                                            !.size = IF left = -1 THEN BufferSize
                                                     ELSE Least({left, BufferSize})]

\* The file at `at' has the bytes.
Overwritten(bytes, at, data) ==
    SubSeq(bytes, 1, Least({at, Len(bytes)})) \o [i \in 1 .. at - Len(bytes) |-> 0] \o data
    \o SubSeq(bytes, at + Len(data) + 1, Len(bytes))

\* One read or write that moves bytes: any number of those that it may.
Moves ==
    /\ transfer.op # "none" /\ transfer.at = "call" /\ Number(transfer) \in Numbers
    /\ table[Number(transfer)] # Closed
    /\ \E n \in 1 .. Len(Available(transfer)) :
          LET bytes == SubSeq(Available(transfer), 1, n)
              t == [transfer EXCEPT !.moved = @ \o bytes,
                                    !.part = IF transfer.op = "write" THEN @ ELSE @ \o bytes]
              d == Number(t)
              at == IF table[d].append /\ t.op = "write" THEN Len(contents[file.of]) ELSE table[d].at
          IN  /\ IF t.of = "pipe"
                 THEN /\ contents' = [contents EXCEPT !.pipe = IF t.op = "write" THEN @ \o bytes
                                                               ELSE SubSeq(@, n + 1, Len(@))]
                      /\ UNCHANGED <<table, file>>
                 ELSE /\ contents' = IF t.op = "write"
                                     THEN [contents EXCEPT ![file.of] = Overwritten(@, at, bytes)]
                                     ELSE contents
                      /\ table' = [table EXCEPT ![d].at = at + n]
                      /\ file' = [file EXCEPT !.offset = @ + n]
              /\ IF t.op = "write" /\ Len(t.moved) = Len(t.data) THEN Returns(t, "data")
                 ELSE IF t.op # "write" /\ Len(t.part) = t.size THEN Inner(t)
                 ELSE transfer' = t
    /\ UNCHANGED <<pipe, task, child, calls, failures>>

\* The end: of the file, or of a pipe that none can write to.
Ends ==
    /\ transfer.op \in {"read", "read_bytes"} /\ transfer.at = "call"
    /\ table[Number(transfer)] # Closed /\ Available(transfer) = <<>>
    /\ IF transfer.size = 0
       THEN Returns(transfer, IF transfer.op = "read" THEN "NULL" ELSE "data")
       ELSE /\ transfer.of = "pipe" => ~Held("writing")
            /\ Inner(transfer)
    /\ UNCHANGED <<table, contents, file, pipe, task, child, calls, failures>>

\* An error, which what has been moved before is lost in; EPIPE when the child is gone, and
\* EBADF when the descriptor was given to it.  (A signal has the call made again.)
Breaks ==
    /\ transfer.op # "none" /\ transfer.at = "call"
    /\ \/ table[Number(transfer)] = Closed /\ UNCHANGED failures
       \/ transfer.op = "write" /\ transfer.of = "pipe" /\ ~Held("reading") /\ UNCHANGED failures
       \/ Fails
    /\ Returns(transfer, "error")
    /\ UNCHANGED <<table, contents, file, pipe, task, child, calls>>

Done ==
    /\ transfer.op # "none" /\ transfer.at = "return" /\ transfer' = Idle
    /\ UNCHANGED <<table, contents, file, pipe, task, child, calls, failures>>

-----------------------------------------------------------------------------
(* Tasks *)

\* wi_task_init and wi_task_set_standard_input or _output, which retain the object for good.
InitTask ==
    \E in \in {"none", "pipe"}, out \in {"none", "pipe", "file"} :
    /\ transfer.op = "none" /\ ~HasTask /\ child = NoChild
    /\ "pipe" \in {in, out} => OpenPipe
    /\ "file" = out => OpenFile
    /\ in = "none" \/ out # in
    /\ task' = [in |-> in, out |-> out, running |-> FALSE, launched |-> FALSE, status |-> "none",
              freed |-> FALSE]
    /\ UNCHANGED <<table, contents, file, pipe, child, transfer, calls, failures>>

InputNumber == IF task.in = "pipe" THEN pipe.rd ELSE NoNumber
OutputNumber ==
    CASE task.out = "pipe" -> pipe.wd [] task.out = "file" -> file.fd [] OTHER -> NoNumber

\* A bug: the end that the child writes to stays open here too.
KeepOutput(t) == Shut(t, InputNumber)
GiveAway(t) == Shut(Shut(t, InputNumber), OutputNumber)

\* The child has only what it is given; this process closes it by its number.
Launch ==
    /\ transfer.op = "none" /\ HasTask /\ ~task.launched /\ ~task.freed
    /\ \/ task.in = "none"  \/ InputNumber # NoNumber
    /\ \/ task.out = "none" \/ OutputNumber # NoNumber
    /\ \/ /\ child' = [is |-> "running",
                       in |-> IF InputNumber = NoNumber THEN Closed ELSE table[InputNumber],
                       out |-> IF OutputNumber = NoNumber THEN Closed ELSE table[OutputNumber],
                       wrote |-> 0]
          /\ table' = GiveAway(table)
          /\ task' = [task EXCEPT !.running = TRUE, !.launched = TRUE]
          /\ UNCHANGED failures
       \/ Fails /\ UNCHANGED <<table, child, task>>
    /\ UNCHANGED <<contents, file, pipe, transfer, calls>>

\* The child reads from its input and writes to its output, and is over at any time.
ChildReads ==
    /\ child.is = "running" /\ child.in.to = "reading" /\ contents.pipe # <<>>
    /\ contents' = [contents EXCEPT !.pipe = Tail(@)]
    /\ UNCHANGED <<table, file, pipe, task, child, transfer, calls, failures>>

ChildWrites ==
    /\ child.is = "running" /\ child.out.to = "writing" /\ Len(contents.pipe) < PipeSize
    /\ child.wrote < MaxOutput /\ child' = [child EXCEPT !.wrote = @ + 1]
    /\ contents' = [contents EXCEPT !.pipe = Append(@, child.wrote)]
    /\ UNCHANGED <<table, file, pipe, task, transfer, calls, failures>>

ChildExits ==
    /\ child.is = "running"
    /\ child' = [child EXCEPT !.is = "zombie", !.in = Closed, !.out = Closed]
    /\ UNCHANGED <<table, contents, file, pipe, task, transfer, calls, failures>>

\* It blocks as long as the child runs; when there is none that is not waited for, it fails.
WaitUntilExit ==
    /\ transfer.op = "none" /\ HasTask /\ task.launched /\ ~task.freed
    /\ child.is # "running"
    /\ IF child.is = "zombie"
       THEN child' = [child EXCEPT !.is = "gone"] /\ task' = [task EXCEPT !.running = FALSE, !.status = "exited"]
       ELSE task' = [task EXCEPT !.status = "error"] /\ UNCHANGED child
    /\ UNCHANGED <<table, contents, file, pipe, transfer, calls, failures>>

\* Waits for the child without blocking.  What the task was given is not released.
DeallocTask ==
    /\ transfer.op = "none" /\ HasTask /\ ~task.freed
    /\ child' = IF task.running /\ child.is = "zombie" THEN [child EXCEPT !.is = "gone"] ELSE child
    /\ task' = [task EXCEPT !.freed = TRUE]
    /\ UNCHANGED <<table, contents, file, pipe, transfer, calls, failures>>

FilesNext ==
    \/ InitWithPath \/ InitTemporaryFile \/ InitPipe \/ Close \/ Seek \/ Truncate
    \/ StartRead \/ StartWrite \/ Moves \/ Ends \/ Breaks \/ Done
    \/ InitTask \/ Launch \/ ChildReads \/ ChildWrites \/ ChildExits \/ WaitUntilExit \/ DeallocTask

\* The threads of a program go on, a call that can end does, and the child is over one day.
FilesFairness == WF_filesVars(Moves) /\ WF_filesVars(Ends) /\ WF_filesVars(ChildExits)

-----------------------------------------------------------------------------

Kept(to, n) ==
    \/ to \in {"disk", "temporary"} /\ HasFile /\ file.fd = n /\ file.of = to
    \/ to = "reading" /\ HasPipe /\ pipe.rd = n
    \/ to = "writing" /\ HasPipe /\ pipe.wd = n

\* No descriptor is lost, and none is closed through the number of another object: what is
\* open is what the one object with that number has opened, and what an object has a number
\* of is that, or was given to the child.
DescriptorsAreOwned ==
    /\ \A n \in Numbers : table[n] \notin {Closed, StandardInput} => Kept(table[n].to, n)
    /\ \A n \in (IF HasFile THEN {file.fd} ELSE {}) \ {NoNumber} :
           table[n].to = file.of \/ (HasTask /\ task.launched /\ task.out = "file" /\ table[n] = Closed)
    /\ HasPipe /\ pipe.rd # NoNumber =>
           \/ table[pipe.rd].to = "reading"
           \/ HasTask /\ task.launched /\ task.in = "pipe" /\ table[pipe.rd] = Closed
    /\ HasPipe /\ pipe.wd # NoNumber =>
           \/ table[pipe.wd].to = "writing"
           \/ HasTask /\ task.launched /\ task.out = "pipe" /\ table[pipe.wd] = Closed

\* What a read returns is what the file has there, all that was asked for unless the file ends;
\* what a write says it has written is in the file, at the offset or, of a file for updating,
\* at its end; and the offset of the object is that of the kernel, but for a file for updating.
TransfersAreWhole ==
    /\ OpenFile /\ table[file.fd] # Closed /\ ~table[file.fd].append => table[file.fd].at = file.offset
    /\ transfer.op # "none" /\ transfer.at = "return" /\ transfer.result = "data" =>
       LET t == transfer IN
       /\ t.data = t.moved
       /\ t.of = "file" /\ t.op # "write" /\ ~table[file.fd].append =>
              LET rest == SubSeq(contents[file.of], t.start + 1, Len(contents[file.of])) IN
              t.data = IF t.want = -1 THEN rest ELSE SubSeq(rest, 1, Least({t.want, Len(rest)}))
       /\ t.of = "file" /\ t.op = "write" =>
              LET bytes == contents[file.of] IN
              SubSeq(bytes, table[file.fd].at - Len(t.data) + 1, table[file.fd].at) = t.data
       /\ t.of = "pipe" /\ t.op # "write" /\ (t.want = -1 \/ Len(t.data) < t.want) => ~Held("writing")

\* A program that reads what its child writes to the end comes to it, once the child is over.
ReadsEnd == (transfer.op = "read" /\ transfer.of = "pipe") ~> (transfer.op = "none" \/ transfer.at = "return")

=============================================================================
