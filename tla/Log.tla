----------------------------------- MODULE Log -----------------------------------
(***************************************************************************)
(* system/wi-log.c: threads that log to a file, which is cut when it has a *)
(* part more lines than its limit, and to a callback, which may log too.   *)
(* The process may end at any time and start again; the file stays.  Lines *)
(* are numbers, in the order in which they are printed.                    *)
(***************************************************************************)
EXTENDS Integers, SequencesExt, FiniteSets

CONSTANTS Threads, Limits,
          Part,                     \* the file may have one part in Part more lines; 10 in the code
          OldLines,                 \* how many lines a file may have that is logged to
          MaxMessages, MaxFaults    \* bounds: messages and changes, system calls that fail

ASSUME LogAssumption ==
    "none" \notin Threads /\ Limits \subseteq Nat /\ OldLines \subseteq Nat /\ Part \in Nat \ {0}

VARIABLES level, loggers,    \* the level, and which of the loggers there are
          limit, path,       \* of the file logger; path: the lines of its file
          lines,             \* _wi_log_file_lines
          inCallback, owner, \* the flag; the thread with the lock of the file
          stack,             \* of each thread: where its calls are, the innermost first
          last, faults,      \* how many messages and changes, and failures, there have been
          written,           \* what the file began with, and the lines printed to it since
          spare              \* of the lines of the file, how many are not in the count

logVars == <<level, loggers, limit, path, lines, inCallback, owner, stack, last, faults, written, spare>>

Levels == [fatal |-> 0, error |-> 1, warn |-> 2, info |-> 3, debug |-> 4]

LogInit ==
    /\ level = "info" /\ loggers = {} /\ limit = 0 /\ path = <<>> /\ lines = 0
    /\ inCallback = FALSE /\ owner = "none" /\ stack = [t \in Threads |-> <<>>]
    /\ last = 0 /\ faults = 0 /\ written = <<>> /\ spare = 0

Quiet == \A t \in Threads : stack[t] = <<>>
Count == last < MaxMessages /\ last' = last + 1

\* The file, as it is now, is what there is to begin with.
BeginsWith(file) == path' = file /\ written' = file /\ spare' = Len(file)

\* The loggers are set up, once each, or removed while no thread logs (rule).  The file is the
\* one there was, or another; the count is of the lines that this process has printed to any.
AddFileLogger ==
    /\ Quiet /\ Count /\ "file" \notin loggers /\ loggers' = loggers \cup {"file"}
    /\ limit' \in Limits
    /\ BeginsWith(path) \/ \E n \in OldLines : BeginsWith([i \in 1 .. n |-> 0])
    /\ UNCHANGED <<level, lines, inCallback, owner, stack, faults>>

ChangeLoggers ==
    /\ Quiet /\ Count /\ level' \in {"info", "debug"}
    /\ \/ loggers' = loggers \cup {"callback"}
       \/ \E l \in loggers : loggers' = loggers \ {l}
    /\ UNCHANGED <<limit, path, lines, inCallback, owner, stack, faults, written, spare>>

-----------------------------------------------------------------------------

Goto(t, at) == stack' = [stack EXCEPT ![t] = <<at>> \o Tail(@)]
Leave(t) == stack' = [stack EXCEPT ![t] = Tail(@)]
At(t, at) == stack[t] # <<>> /\ stack[t][1] = at

\* wi_log_debug, _info, _warn and _error: only up to the level.  A call in a callback is one on
\* top of the callback's.
Message(t) == \E l \in {"error", "debug"} :
    /\ stack[t] = <<>> \/ (At(t, "callback") /\ Len(stack[t]) < 3)
    /\ Count
    /\ stack' = IF Levels[level] >= Levels[l] THEN [stack EXCEPT ![t] = <<"vlog">> \o @] ELSE stack
    /\ UNCHANGED <<level, loggers, limit, path, lines, inCallback, owner, faults, written, spare>>

\* While a callback runs, what any thread logs is dropped.
Vlog(t) ==
    /\ At(t, "vlog")
    /\ IF inCallback THEN Leave(t) ELSE Goto(t, IF "file" \in loggers THEN "lock" ELSE "call")
    /\ UNCHANGED <<level, loggers, limit, path, lines, inCallback, owner, last, faults, written, spare>>

LockFile(t) ==
    /\ At(t, "lock") /\ owner = "none" /\ owner' = t /\ Goto(t, "print")
    /\ UNCHANGED <<level, loggers, limit, path, lines, inCallback, last, faults, written, spare>>

\* A part more than the limit, in whole lines.
Threshold == (limit * (Part + 1)) \div Part

Fault == faults < MaxFaults /\ faults' = faults + 1

\* The line is added to whatever the file has, and counted.  fopen may fail; then the line goes
\* to the standard error, and is not counted.  fprintf may fail; then it is counted.
WriteLine(t) ==
    LET line == IF written = <<>> THEN 1 ELSE written[Len(written)] + 1 IN
    /\ At(t, "print") /\ UNCHANGED <<level, loggers, limit, inCallback, last, spare>>
    /\ \/ /\ \/ path' = Append(path, line) /\ written' = Append(written, line) /\ UNCHANGED faults
             \/ Fault /\ UNCHANGED <<path, written>>
          /\ IF lines > 0 /\ limit > 0 /\ lines >= Threshold
             THEN Goto(t, "truncate") /\ UNCHANGED <<owner, lines>>
             ELSE Goto(t, "call") /\ lines' = lines + 1 /\ owner' = "none"
       \/ /\ Fault /\ Goto(t, "call") /\ owner' = "none" /\ UNCHANGED <<path, lines, written>>

\* A bug: the search for the last lines begins at the end of the file, with the last newline.
OneLess(file) == SubSeq(file, Max({1, Len(file) - limit + 2}), Len(file))

\* The last lines of the file, or all when it has fewer.
LastLines(file) == SubSeq(file, Max({1, Len(file) - limit + 1}), Len(file))

\* The lines are copied to a temporary file and back.  A file that cannot be opened stays as it
\* is; one that cannot be filled again keeps what it has; the lines are counted as if it had
\* been cut.
TruncateFile(t) ==
    /\ At(t, "truncate") /\ Goto(t, "call") /\ owner' = "none"
    /\ \/ path' = LastLines(path) /\ spare' = 0 /\ UNCHANGED <<faults, written>>
       \/ Fault /\ spare' = spare + Max({1, Threshold - limit}) /\ UNCHANGED <<path, written>>
       \/ Fault /\ path' \in Prefixes(LastLines(path)) /\ written' = path' /\ spare' = 0
    /\ lines' = limit + 1
    /\ UNCHANGED <<level, loggers, limit, inCallback, last>>

CallBack(t) ==
    /\ At(t, "call")
    /\ IF "callback" \in loggers THEN inCallback' = TRUE /\ Goto(t, "callback")
       ELSE Leave(t) /\ UNCHANGED inCallback
    /\ UNCHANGED <<level, loggers, limit, path, lines, owner, last, faults, written, spare>>

CallBackReturns(t) ==
    /\ At(t, "callback") /\ inCallback' = FALSE /\ Leave(t)
    /\ UNCHANGED <<level, loggers, limit, path, lines, owner, last, faults, written, spare>>

\* The process ends, at any time (wi_log_fatal ends it), and starts again.  A file that is being
\* cut is whole, or empty, or has the first of the lines that are copied back.
Restart ==
    /\ Count
    /\ \/ BeginsWith(path)
       \/ /\ \E t \in Threads : At(t, "truncate")
          /\ \E file \in Prefixes(LastLines(path)) : BeginsWith(file)
    /\ level' = "info" /\ loggers' = {} /\ limit' = 0 /\ lines' = 0
    /\ inCallback' = FALSE /\ owner' = "none" /\ stack' = [t \in Threads |-> <<>>]
    /\ UNCHANGED faults

LogNext ==
    \/ AddFileLogger \/ ChangeLoggers \/ Restart
    \/ \E t \in Threads : \/ Message(t) \/ Vlog(t) \/ LockFile(t) \/ WriteLine(t) \/ TruncateFile(t)
                          \/ CallBack(t) \/ CallBackReturns(t)

LogSpec == LogInit /\ [][LogNext]_logVars

-----------------------------------------------------------------------------

\* Whatever file is logged to, by any process, and with threads that log: the file has the
\* latest of what it began with and of the lines printed since, each whole and in order, and at
\* least as many as the limit when there were so many.  It is a part over the limit at most,
\* but for the lines that the count does not know: those the file began with, until it is cut
\* for the first time, and one line or the part for each time it could not be cut, until it
\* can.  No thread that is out of the logger keeps its lock.
LogKeepsLatest ==
    /\ IsSuffix(path, written)
    /\ Len(path) >= Min({limit, Len(written)})
    /\ owner = "none" /\ limit > 0 => Len(path) <= Threshold + spare
    /\ \A t \in Threads : (owner = t) = (At(t, "print") \/ At(t, "truncate"))

=============================================================================
