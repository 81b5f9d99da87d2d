# A verification project for libwired

libwired is a C class library on top of pthreads: reference-counted instances,
autorelease pools, collections, locks, timers, sockets, files, tasks and values.
This directory holds TLA+ modules that model it, TLC configurations that check
them, and proofs for the TLA+ proof system. Paths below are relative
to the repository; `wi-x.c:n` is line n of a file under `libwired/`.

    tlc -config MCConditionLock.cfg MCConditionLock    # a run
    tlapm ArrayProofs.tla                              # proofs

## 1. Inventory

| Component | State | Operations | What makes it correct | Modules |
|---|---|---|---|---|
| Condition lock (`thread/wi-condition-lock.c`) | error-checking mutex, condition variable, int condition | lock, lock when condition (with or without time limit), try both, unlock, unlock with condition | mutual exclusion; conditional entry only under the condition; no lost wake-up; timed calls return | `AbstractConditionLock`, `ConditionLock`, `ConditionLockProofs` |
| Timers (`thread/wi-timer.c`) | sorted array of timers, `scheduled` and `incallback` flags, one thread | schedule, reschedule, invalidate, fire | array sorted and in step with the flags; nothing fires early, twice or never; lock and unlock pair up | `Timer`, `TimerProofs` |
| Runtime (`base/wi-runtime.c`) | magic, 16-bit retain count and options of each instance | create, retain, release, copy, compare | the count is the number of references; deallocation exactly once | `Memory`, `MemoryProofs` |
| Pools (`base/wi-pool.c`) | per-thread stack of pools, each a chain of blocks | init, autorelease, drain, release | each autorelease is followed by one release | `Memory`, `MemoryProofs` |
| Threads (`thread/wi-thread.c`) | thread-local thread instance and dictionary | create, enter, exit | the argument lives as long as the thread; failure gives it back | `Memory`, `MemoryProofs` |
| Arrays (`collections/wi-array.c`) | vector of pointers to items, chunks of items, free list, count | add, insert, replace, remove, sort, reverse, enumerate, copy, select; loops over another array or an index set | the abstract sequence survives growth and shrinking; items are neither shared nor lost; loops do what they say to the array they were called on | `AbstractArray`, `Array`, `ArrayProofs` |
| Dictionaries, sets (`collections/wi-dictionary.c`, `wi-set.c`, `wi-enumerator.c`) | hash table of chained buckets, free list, enumerators that point into it | add, set, remove, enumerate, copy, compare | the abstract map, set or bag survives resizing; every entry is enumerated once; each entry holds one reference | `AbstractTable`, `HashTable`, `HashTableProofs` |
| Index sets (`collections/wi-indexset.c`) | sorted array of integers | add, remove, contain, enumerate | ascending, as a set | `IndexSet`, `Collections` |
| Other locks (`thread/wi-lock.c`, ...) | one pthread object | one call each | the pthread contract | atomic sections of the other modules |
| Sockets (`net/wi-socket.c`) | descriptor, blocking mode, TLS objects, direction | listen, accept, connect, handshake, send, receive, read, write, wait, close | time limits hold, as far as the blocking mode lets them; what a call returns is true; descriptors and TLS objects are given back once, by their owner | `Socket`, `SocketProofs`, `Error` |
| Addresses, hosts (`net/wi-address.c`, `wi-host.c`) | bytes and port; a name that is resolved anew each time | make, print, compare, match a pattern, list addresses | a pattern matches what it denotes; a host has each address once | `Address`, `Host` |
| Errors (`misc/wi-error.c`) | domain, code and string of each thread | set, ask | the string is that of the code | `Error` |
| Files, pipes, tasks (`file/wi-file.c`, `system/wi-pipe.c`, `system/wi-task.c`) | descriptors, offset, child process | open, read, write, seek, truncate, launch, wait, close | each descriptor closed once; transfers lose no bytes; readers come to the end | `Files`, `SystemProofs` |
| Filesystem (`file/wi-filesystem.c`, `wi-directory-enumerator.c`, `compat/wi-fts.c`) | none of its own; a walk that is under way | copy, delete, enumerate, rename, link | a tree is copied or nothing is left; deletion stays in the tree; each path enumerated once | `Walk`, `Filesystem` |
| Filesystem events (`file/wi-filesystem-events.c`) | list of instances, a thread, three dictionaries, the kernel's watches | add and remove a path, deliver | watches and dictionaries agree; nothing is dispatched to an instance that is gone | `FilesystemEvents`, `SystemProofs`, dealloc in `Memory` |
| Log (`system/wi-log.c`) | level, loggers, callback flag, line counter, and a file that outlives the process | log, cut | the file keeps the latest lines, whole and in order, and comes back to its limit | `Log`, `SystemProofs` |
| Strings (`data/wi-string.c`, `compat/wi-compat.c`), regular expressions (`misc/wi-regexp.c`) | text | search, replace, split, format, paths, bounded copies | calls on one text agree with each other | `Strings`, `Regexp` |
| Numbers, dates (`data/wi-number.c`, `wi-date.c`) | value and storage type; an interval | read, write, compare, hash | order and hash agree; texts are read back | `Numbers` |
| URLs, UUIDs, base 64 (`data/wi-url.c`, `wi-uuid.c`, `crypto/wi-base64.c`) | parts and a text; fields, and the clock of the class; none | set, print, parse, make from the time | texts are read back; UUIDs differ | `Url`, `Uuid`, `SystemProofs`, `Base64` |
| JSON, property lists (`parsers/`) | position, containers and key of a reader | write, read | documents are read back | `Documents` |
| Data, processes, system, random numbers, encodings, ciphers, digests, the rest of the compatibility code | little or none | wrappers and rounds on words | | not modelled: see section 7 |

How they interact. Everything is an instance, so everything calls `wi_retain`,
`wi_release` and `wi_autorelease`; a release may call the dealloc of any class,
which may release and autorelease in turn, on the thread that happens to hold
the last reference. Collections retain their members. The timer thread and the
events thread sleep on a condition lock and call back into client code. Threads
are started with one retained argument and have their own pool stack. Sockets,
tasks and files share descriptors by number. Copies and deletions of trees walk with
`wi-fts.c`, hosts hand out addresses, dates, URLs and the parsers are written with the
calls of strings, and every failure leaves an error with its thread.

What is hard: interleavings of the timer thread with callers and its own
callbacks, wake-ups against time-outs, last releases on several threads,
deallocation in the middle of a drain, ownership across thread start and exit,
enumerators that outlive changes, peers and kernels that fail between two calls of
one operation, trees that change under a walk, and readers that must undo what a
writer did.
`PROJECT.json` lists these as hazards with the lines they bite at.

## 2. Plan

In order of importance. Steps 1 to 8 are done as models; what is to be proved next
is said with each.

1. `AbstractConditionLock`, `ConditionLock`, `ConditionLockProofs`: proved.
2. `Timer`, on top of `AbstractConditionLock`, and `TimerProofs`: proved, but for
   liveness.
3. `Memory`, `MemoryProofs`: its invariants are proved. To do: an abstract specification
   `Ownership` (a set of references per instance, an instance that goes when it is empty)
   that `Memory` implements.
4. `AbstractArray`, `Array`, `ArrayProofs`: proved, but for liveness.
5. `AbstractTable`, `HashTable`, `IndexSet`, `Collections`, `HashTableProofs`: proved.
6. `Error`, `Address`, `Host`, `Socket`, `SocketProofs`: the invariants of `Socket`,
   `HostsResolve` and `PatternsMatch` are proved.
7. `Walk`, `Filesystem`, `Files`, `FilesystemEvents`, `Log`. Proved:
   `DescriptorsAreOwned`, `TransfersAreWhole`, `WatchesAgree` and `LogKeepsLatest`.
8. `Strings`, `Numbers`, `Regexp`, `Url`, `Uuid`, `Base64`, `Documents`, `Values`.
   `UuidsDiffer` is proved; the rest is recursion over data, which stays with TLC.

## 3. The modules

**`AbstractConditionLock`** says what a condition lock promises: a monitor with
one thread inside, a condition only the one inside changes, and conditional
entry. It has no mutex and no wake-ups.

**`ConditionLock`** is `wi-condition-lock.c`, one step per pthread call.
`owner` is the mutex, `condition` the integer, and `pc[t]` the place of thread t:
`lock` and `lockwhen` before the mutex is granted, `test` and `retest` at the
condition in the `while` of lines 159-181, `wait` inside
`pthread_cond_wait`/`pthread_cond_timedwait`, `woken` while that call is getting
the mutex back, `held`, `broadcast` and `unlock`. `expired` is `ETIMEDOUT`. A
spurious wake-up (`SpuriousWake`) and a time-out at any moment of a timed wait
(`Expire`) are steps. `Implements` maps `pc` to the phases of the abstract lock:
a thread leaves when its unlock call starts, since from there on nobody but
itself can take the mutex away.

**`Timer`** is `wi-timer.c`, with `_wi_timer_lock` as an instance of
`AbstractConditionLock`. `timers` is the array; `_wi_timers_lock` is held around
single array operations only, so each of those is one step. A call of
`wi_timer_schedule`, `wi_timer_reschedule` or `wi_timer_invalidate` is a record
`call[a]` that walks through `check` (the `scheduled` flag), `guard` (the first
read of `incallback`), `enter`, `set`, `insert`, `mark` or `remove`, `unmark`,
and `unguard` (the second read of `incallback`): one step for each access that
another thread can see. The thread's loop is `loop` with its locals `timer`,
`firing` and `deadline`. Time is an integer, the minimum interval of 0.001 s
being 1; it passes between any two steps (`Tick`), so a timer may be due and fired before the
call that put it into the array has marked it (`wi-timer.c:260`) and given the lock back
(line 287). `overtaken` remembers for which timers that happened.

**`Memory`** is `wi-runtime.c`, `wi-pool.c` and the part of `wi-thread.c` that
handles references. `own[t][v]` are the pointer variables of client code,
`contents` what an instance retains, `pools[t]` a stack of pools, each a chain of
blocks (the head block, `pool->array`, last). `work[t]` is the call stack of
unfinished calls: a `dealloc`, a `drain`, the `dispose` of a pool that is
released, or the `create` of a thread. A release that reaches zero pushes a
dealloc; a dealloc releases the members one by one and may enumerate a
collection, which retains the collection and autoreleases the enumerator as
`_wi_filesystem_events_dealloc` does. Failed assertions set `aborted`; a use of a
freed block or of a freed thread instance sets `wild`.

**`AbstractArray`** says what an array promises: a sequence that one step changes
at one place, empties or permutes.

**`Array`** is `wi-array.c`. `items` is the vector of pointers with `dataCount`
places in use, and an item is a pair of chunk and offset: `chunks`, `offset` and
`free` are `item_chunks_count`, `item_chunks_offset` and `item_free_list`, and
`data` maps every item that was ever cut to its datum. `Grown`, `Optimized` and
`Resized` are the reallocations, with the code's arithmetic. The single edits
(`AddData`, `InsertItem`, `ReplaceData`, `RemoveData`, `Emptied`, sorting and
reversing) are one step each. A function that loops over another array, an index
set, a range or the array itself is a record `call`, one edit per step, with the
array as it was before for `CallsDoAsTheySay` to compare with; so is an
enumeration, in whose body the client may add. `wi_copy`, subarrays and
`wi_array_data_at_indexes` build a new array, which takes the place of the old one.
`count` has the retain counts, and the other array of a call holds its data until
the call returns. An index assertion that fails sets `aborted`. `Implements` maps
the chain of pointers, `[i |-> data[items[i]]]`, to the sequence.

**`AbstractTable`** says what a dictionary, a set and a counted set promise: one
value for each key, changed by each call as its arguments say. The value of a member
of a counted set is its count.

**`HashTable`** is `wi-dictionary.c` and `wi-set.c`, the same code twice, and the
enumerators of `wi-enumerator.c` over them. `t` is the table: `heads` the chains,
`cells` the buckets with key, value and next, `free` the free list, `refs` the retain
counts of what the table may hold. `Optimize` is the resize with the code's sizes;
it runs at the end of each edit that adds or removes, as in the code. `e` is an
enumerator, the chain number and the bucket it points to, across calls. A call is one
step that makes all its edits (`Call`), for no other thread may use a table
meanwhile. `Implements` maps the chains to a function from keys to values.

**`IndexSet`** is `wi-indexset.c` over the sequence of `AbstractArray`, with the
comparison of the code; adding and removing ranges and sets are loops of the single
edits, also on the set itself. **`Collections`** puts a table and an index set, the
collections whose enumeration is checked, side by side; a behaviour uses one at a time.

**`Error`** is the error of a thread: its domain, code and string, and
the table of strings. **`Address`** has the forms an address comes in (a kernel's
structure, a text, a wildcard), ports of limited width, and the four kinds of patterns
`wi_address_matches` compares (an address, IPv6 with groups left out, wildcards,
netmasks), translated with the code's expansion of texts. **`Host`** is a name over
interfaces and a resolver that change between calls, with the removal of addresses
that a resolver repeats. `qsort` may leave addresses of one family in any order, so what a
host has (`Results`, `AddressesOf`) is a set of lists, and properties speak of each of them.

**`Socket`** is `wi-socket.c`. `kernel` is the table of descriptors with what a
kernel knows of each (state, blocking mode, bytes arrived and taken, end, room);
the peer and the network (`World`) change it between any two system calls. `call` is
the call in progress, one step for each `select` or system call it waits in, with the
time that is left; `refs` and `owned` count the references to TLS objects. In blocking mode,
which is the default, a read of plain bytes returns what is there, but `write`, `SSL_write` and
`SSL_read` (with `SSL_MODE_AUTO_RETRY`) go on behind the `select` until all is written
or a record is complete: the call is then at `writing` or `reading`, is held up (`HeldUp`) while
the peer does nothing, and only a signal (`Interrupted`) or the peer ends that. Without
blocking they return what they have, or go back to the `select`, however often. `held` are the bytes of a
record that is not complete.

**`Walk`** is `wi-fts.c`: links followed, cycles found, unreadable directories, entries
read when a directory is entered. **`Filesystem`** copies, deletes and enumerates with
it, an entry at a time (`job`), while other processes make and remove files; a copy
that fails goes on to delete what it made (`undo`).

**`Files`** is `wi-file.c`, `wi-pipe.c` and `wi-task.c` over one table from numbers to
open descriptions. `transfer` is a read or a write in progress, in blocks of the
buffer's size; `child` is the launched process, with its own ends of the pipe.
**`FilesystemEvents`** has for each instance its three dictionaries and the kernel's
watches and queue; the thread holds the list (`holder`) while it goes through the
instances, reads events into its buffer and runs callbacks. **`Log`** has the
call stack of each thread, since a callback may log; the file is a sequence of lines,
numbered as they were printed. `AddFileLogger` takes a file that is there, with any number of lines,
while the counter of lines keeps what this process has counted (`wi-log.c:78,127-133`); `Restart`
ends the process at any step, in the middle of a cut too, and starts it with a counter of 0.
`written` is what the file began with and the lines since, `spare` how many of its lines the
counter does not know.

**`Strings`**, **`Numbers`**, **`Regexp`**, **`Url`**, **`Base64`** and
**`Documents`** translate calls without state as operators, named as in C without the
prefix `wi_`: texts are sequences of characters, `strtol` reads base 0, the readers
of JSON and property lists go through the text with the reader's own variables.
**`Uuid`** is both the state machine of `_wi_uuid_get_clock`, whose static variables
are read without the lock at the end, and UUIDs as fields, bytes and texts. **`Values`**
is a program that makes one call with arguments from small sets.

`MC*` modules name the model values and small functions of each run; `MCNet` and
`MCSystem` put modules that share no state, but for the error of the thread, side by side,
and a behaviour uses one of them (`program`).

## 4. The runs

| Run | Instance | Result |
|---|---|---|
| `condition_lock` | 3 threads, 2 conditions | passes, 20,560 states |
| `timer` | 2 user threads, 2 timers of 2 and 3 units, one scheduled by one thread and one by either, then moved by callbacks; 3 units of time | passes, 134,990 states |
| `timer_test` | the program of `wi_test_timer_scheduling` | `KeepsFiring` violated |
| `memory` | 2 threads, 3 instances, blocks of 2, 2 pools on one thread and 1 on the other | passes, 131,034 states |
| `pool_drain` | 1 thread, the same instances, one of them autoreleased | `NothingLeaks` violated |
| `array` | 3 data of 2 values, up to 3 places, pages of 2 items, 4 other arrays, 4 index sets | passes, 317,300 states |
| `array_replace` | the same, replacing at any index set | `NoAbort` violated |
| `collections` | 3 keys and 2 values, two keys in one chain at two sizes, 2 tables that are passed; index sets of up to 4 indexes | passes, 46,947 states |
| `net` | 2 sockets, 2 descriptors, 1 TLS object, time-outs of 0 and 2 s; IPv4 addresses of 2 octets of 2 bits, IPv6 addresses of 4 groups; the system lists two IPv6 addresses and an IPv4 address | passes, 462,711 states |
| `error_strings` | the same | `StringsNameErrors` violated |
| `system` | the programs below | passes, 812,946 states |
| `date_zones` | the same, dates in zones of 0, 1, 8, 10 and 11 hours | `ZonesAreRead` violated |

Three threads are what a lost wake-up takes: one sleeper too many for a signal,
and one thread that unlocks. Two timers are enough for one to overtake, move or
remove another, and three units of time for a timer to be fired before its call is over, to be
scheduled again and to move another. Two
references and a pool entry per instance, and blocks of two, are enough for last
releases on either thread, for a second block, and for an instance that is
appended behind the captured length. `Modulus` is 5 with at most 4 references, so
that the retain count does not wrap, as it does in C after 65,535.

Three places, with capacities of 1, 3 and 7 (the code's formula, whose least
capacity is lowered from 10 to 1) and pages of two items, are enough for the vector
to grow, to shrink, and to be cut back to its least size, for a second chunk and for
a free list out of order. Two equal data tell equality from identity and show the
order of equals. The other arrays have none, one and two data, with and without a
repetition; the index sets are empty, single, adjacent and with a gap.

Three keys, one of which leaves its chain when the table grows from one bucket to
three, and two that stay together, are enough for chains of two, for a removal in the
middle, and for a resize that moves one of two neighbours; two occurrences are what
tells a counted set from a set. Two sockets are a listener and its connection; three
bytes that arrive and a length of two make reads that need several parts and leave
something; a time-out of two slices can run out in either. Two octets of two bits, with
masks of 0 to 5 bits, have every length of prefix and one too many; four groups are
enough to leave out the first two, all, and some in the middle.

The programs of `system`: all trees of five places with files, unreadable directories
and links (to the root, a sibling and upwards), one change by another process, paths of
four names; three calls on a file, a pipe and a task, with a buffer of two bytes and
files of up to four, so that a transfer takes several blocks, and one failure; two
instances with two watches and two events; two threads and nine messages, changes of loggers and
ends of the process, files of none and five lines to begin with, no limit and one of two lines with
`Part` = 1, so that the file is cut at four (10 in the code, a tenth over), and one failure: a
file that fills up, one that is too long to begin with, and two cuts are in it; texts of up to three of four
characters and paths of up to four, with five texts to find and every set of options;
numbers on both sides of widths of 4 to 7 bits; documents with two levels of
collections, and something behind each, to see whether it was closed; and two threads
that make three UUIDs in three ticks of a clock that goes back twice, with
`PerTick` = `MaxAdjustment` = 2, so that the last adjustment meets the next tick as it
does in C with 10. Widths, page and buffer sizes are constants: the code's arithmetic is
kept, with smaller numbers.

`CHECK_DEADLOCK FALSE` is set where a program really stops: the timer runs, whose clock
stops at `MaxTime`, and `system` and `date_zones`, whose programs end. The other passing
runs are checked for deadlock.

What they show:

* `NoLostWakeup`, `ServedWhenStable`, `TimedCallReturns`: nobody sleeps through
  its condition; a time limit holds whatever others do; a condition that stays
  true is noticed.
* `Implements`: the lock is the monitor that `Timer` is built on.
* `ArrayAgrees`, `NeverEarly`, `EventuallyFires`: a disciplined program's timers are
  sorted, scheduled once, fired when due and not before, and kept while they repeat; no
  assertion of the lock fails. The exception is what the code does to a timer that is fired before
  the call which scheduled it is over (`overtaken`): its flag may be set too late (line 260), and
  that call may find itself in the callback and keep the lock (line 286), so that the timer
  thread waits for ever or an assertion fails later. `ArrayAgrees` says that nothing else leads there.
* `CountsReferences`, `NothingLeaks`, `NoAbort`, `CallsReturn`: a program that keeps the ownership rules frees every instance
  exactly once, when the last reference goes.
* `ItemsInPlace`, `CountsMembers`, `Implements`: an array is a sequence, whatever
  becomes of its vector and its items, and retains each member once per place.
* `CallsDoAsTheySay`, `CallsReturn`, `SortedStaysSorted`: a function that
  makes many edits has the effect its name says on the array it was called on, also
  on the array itself, and the sorted insertion that timers and index sets rely on
  keeps the order of equals.
* `TypeOK`, `AllEnumerated`, `HoldsReferences`, `EqualByContents`, `Implements` of
  `collections`: each bucket is in the chain of its key or free; an enumeration gives
  each key once, also while values are replaced; an entry holds one reference to its
  key and value; equality is that of contents, whatever the tables went through; and
  the table is a map, a set or a bag.
* `OwnsWhatItHolds`, `ResultsAreTrue`, `TimedCallsReturn`: an open descriptor has one
  owner and is closed once, TLS objects are alive while a socket has them; a call that
  succeeds has done what it says, with the bytes in order and the mode put back, and one
  that fails names something that happened; a call with a time limit returns, unless it is held up
  for ever in a read or a write of a socket in blocking mode, behind the `select`
  (`wi-socket.c:1295,1328,1399`): the time limit is that of each `select` and does not end those.
* `PatternsMatch`, `HostsResolve`: a pattern the code can read matches exactly the
  addresses it denotes; a host has exactly its addresses, in the order of families, or an error,
  and hosts are equal if their addresses are.
* `TreesAreTrue`: a copy has what was copied or leaves nothing, a deletion takes the
  tree and nothing else, an enumeration tells each path once.
* `DescriptorsAreOwned`, `TransfersAreWhole`, `ReadsEnd`: no descriptor is lost or closed
  through a stale number; transfers neither lose nor repeat bytes; the reader of a child's
  output comes to its end.
* `WatchesAgree`, `LogKeepsLatest`: what the dictionaries say is what the kernel
  watches, and the thread's place on the list stays good; the file has the latest
  lines, at least its limit of them, and a part more at most once it was cut: before that it has
  also those it began with, for the counter does not know them, and a cut that fails leaves a part.
* `CallsAgree`: a search, a regular expression, an edit, a split and a join of one text
  fit together; a path taken apart and put together is the same; numbers that are equal
  have equal hashes.
* `WrittenIsRead`: dates, base 64, UUIDs, URLs, JSON and property lists come back as
  they were written. `UuidsDiffer`: two UUIDs made from the time are not the same, but for the
  two exceptions below.

### Rules of the passing runs

The C code is only correct for callers that keep some rules no document states.
They are guards of the models, so that what holds under them is visible:

* Timers (`Disciplined`, operator `MayCall`): user threads only schedule, each
  timer once, and then leave it to callbacks, which move other timers once the calls that
  scheduled them have returned; a callback of a repeating timer does
  not schedule it again, though it may ask to invalidate it (which has no effect,
  for it is not scheduled just then); timers all repeat or none does. These are rules about calls
  and not about their timing: any step may be late. Outside them a user thread may
  take out the timer that is waited for, so that the next one fires early (line 164), or
  change `fire` of a timer in the array while the timer thread reads it (line 297); the loop
  may read the `repeats` of another timer (line 176); and a timer can be twice in the array
  (line 177).
* Memory: what is in the README's MEMORY MANAGEMENT section (release what you
  own, have a pool), pools released by their own thread in reverse order and before
  the thread's function returns, collections changed by a thread that alone
  references them, no cycles of collections (`MayHold`), and (`Careful`, operator
  `DiesInPeace`) instances whose dealloc autoreleases are released directly, never
  by a pool, a collection or the end of a thread.
* Arrays: indexes given to a call are in the array; index sets are increasing
  sequences without repetition; data are replaced at a prefix only (`Anywhere`
  lifts this); the other array is the array itself only when it is added or replaces;
  a loop over an enumerator only adds, and only forward; and arrays stay below
  `_WI_ARRAY_MAX_COUNT`.
* Collections: an enumerator is given up when a key is added or removed, for then it may
  point to a bucket that was moved; dictionaries have values; an index set is not added
  to itself; an enumeration to the end is only asked of index sets without 0, which
  `wi_enumerator_all_data` takes for the end.
* Sockets: one connection at a time in a behaviour; one handshake per connection, of a socket
  that owns its descriptor; the
  ciphers that are set are held by the program, since the setter releases before it
  retains; only open sockets are used; the error is looked at before the next call. Reads and
  writes are of at least one byte. `wi_socket_accept` does not look at its time limit
  (`wi-socket.c:812-833`), so `TimedCallsReturn` is not about it. Records without data,
  which make a read go back to its wait, are as many as `MaxBytes`.
* Addresses: IPv6 texts leave out groups at their front only, in patterns as in
  addresses: the code puts them back there wherever they were. A prefix is at most 53 bits
  long (`Significand`): those beyond 32 still select all bits, and those beyond 53 make a double
  that no `uint32_t` holds (`wi-address.c:446`).
* Files: nothing is opened while an object has the number of a descriptor that was
  given to a child and closed; standard input is lost at most once to the deallocation
  of a pipe or temporary file that could not be made, which closes descriptor 0
  (their numbers are zero until they are set); a pipe is read to its end only when a
  child has the other end.
* Filesystem events: `inotify_init` succeeds (otherwise the deallocation uses locks and
  dictionaries that are not there); two paths are two directories; callbacks neither make
  nor give up instances; an instance is given up when it has no watch and no event to
  come. A directory that is removed and made again is not watched again.
* Log: loggers are set up and removed while no thread logs. While a callback runs,
  what any thread logs is dropped. A message is one line, printed whole or not at all, and no
  other process writes to the file.
* Values: arguments are in range, and what is searched for is not empty. Number texts are
  decimal or octal, as `strtol` reads them. Normal paths that begin with a tilde are
  excepted from `CallsAgree` (`./~` becomes `~`, another path, `wi-string.c:1667`), and
  so are hashes of negative numbers, whose conversion C leaves undefined.
  `WrittenIsRead` excepts zones of hours or minutes 08 and 09; JSON that is not a
  dictionary with plain keys, non-negative numbers, and one more level of collections
  that are empty or end with a text: the reader passes over the character behind a
  number, a boolean or null, also if it is the bracket that closes the collection
  (`wi-json.c:206,248`), knows no minus sign and no escapes in keys, and remembers one
  outer container, at which it stays however many brackets close; and property lists with null
  or with blank texts. `UuidsDiffer`
  excepts a call that found an adjustment or a sequence which is not its own, because another
  call set it between the unlock and the end (`wi-uuid.c:519,525`), and a call that used the last
  adjustment, which is the first time of the next microsecond (line 504): its UUID can be that of
  another. Calls that interleave and find their own values are not excepted.

### Findings

* `timer_test`: `scheduled = true` comes too late (`wi-timer.c:260`). A timer of
  the minimum interval is due as soon as it is in the array, so the timer thread
  can take it out, clear the flag and fire it first; the flag then says it is
  scheduled when it is not, and the callback's `wi_timer_schedule` does nothing.
  The test program then waits in vain for its fifth hit.
* `pool_drain`: what a dealloc autoreleases while the current pool is drained is
  appended to the block being drained, behind the captured length
  (`wi-pool.c:217`), and freed with the block. `wi_filesystem_events()` returns an
  instance with such a dealloc, so its enumerator and dictionary leak.
* `array_replace`: `wi_mutable_array_replace_data_from_array_at_indexes` reads the
  other array at the index in this one (`wi-array.c:934`). The asserted
  precondition is only that there are as many indexes as data, so with the indexes
  1 and 3, say, the call aborts. Inserting has a separate offset (line 897).
* `error_strings`: the enumeration of `wi-error.h` has a code for an address that is not
  valid, the table of strings of `wi-error.c` has none, so every string from there on
  belongs to the code before. `wi_error_string` indexes the table by the code
  (`wi-error.c:486`): the last code reads behind it.
* `date_zones`: a zone's hours and minutes are read with `wi_string_uinteger`, which is
  `strtoul` with base 0 (`wi-date.c:265`, `wi-string.c:1381`). "08" and "09" are not octal,
  the conversion stops behind the zero, and the result is 0: dates in `+08:00`, `-09:30`
  and the like are read hours off.

Smaller matters that the models have as the code does, and that no run is about: a
directory copy that fails may report error 0, since `errno` is read after the walk is
closed (`wi-filesystem.c:170`); a read that fails in a copy of a file ends the copy as if
the file had ended; deletion walks with links followed, so what is in a linked directory
is deleted before the tree; a task keeps what it was given as standard input and output
for good; a failed timed connect leaves the socket non-blocking; replacing backwards
replaces one match; `wi_string_components_separated_by_string` takes the separator as a
set of characters.

## 5. Fairness

`ConditionLock`: weak fairness on what a thread can do alone, which assumes that
threads are scheduled and that whoever holds the lock leaves it; strong
fairness on taking the mutex, since POSIX gives no order but a scheduler does not
pass over one thread for ever; strong fairness on `Expire`, because the deadline
is absolute and computed once per call (line 161), so that a wait that is
interrupted again and again still meets it. No call has to be
made. `Timer`: time passes, the thread's loop and begun calls go on, with strong
fairness on the steps that need the lock. A lock that a thread keeps after its call is never free, so
`EventuallyFires` excepts that. `Memory` and `Array`: begun calls go on
(they never wait). `Socket`: a step of a call that has begun is taken (`Steps`), since
`select` and the handshakes return when their time is up; the peer need not do
anything, and no signal need come, so only calls with a time limit are promised to return, and not
those that a blocking read or write holds up. `Files`: a
transfer goes on while bytes or room are there (`Moves`), ends when it can (`Ends`), and
a child is over one day (`ChildExits`); it need not write or read. The other parts of
`system`, and `collections`, have no liveness property: their calls do not wait.

## 6. Proofs

`ConditionLockProofs` proves, for any sets of threads and conditions, assuming
only that `NoThread` is no thread and `Initial` is a condition:

* `TypeCorrect`: `TypeOK`, whose last conjunct says that the mutex belongs to
  exactly the thread that is between a take and the release. It is inductive;
  mutual exclusion follows, since `owner` has one value.
* `WakeupsAreNotLost`: `NoLostWakeup`. It needs `TypeOK`: a thread goes to sleep
  as the owner, so nobody else is between setting the condition and the
  broadcast, and the condition was tested false in the same critical section;
  and whoever sets the condition goes to `broadcast` in the same step.
* `ImplementsMonitor`: `Implements`. The strengthening is `Expiry`: only a timed
  call has `expired` set. It is what makes a `GiveUp` of the code a `GiveUp` of the
  monitor. One step per action maps it to a step of the monitor or to a stutter.

`ArrayProofs` proves, for any data, comparison, page size, capacity function,
arguments and lengths, assuming that `MaxLength <= MaxCount` (without it
`_wi_array_optimize` cuts off items in use, `wi-array.c:687`) and the named assumptions of `Array`:

* `TypeCorrect`, `ItemsStayInPlace`: `TypeOK` and `ItemsInPlace`. Neither is inductive.
  A new item must not be one of the items in use, which takes `Cut` (every item of
  `data` lies before the next one of the last chunk); that the vector survives
  shrinking takes `dataCount <= MaxLength`, and for the loops that grow the array
  `CallFits`: there is room for the edits that are left, and the arguments that are
  still to be read are there. `IInv` is the conjunction.
* `ImplementsSequence`: `Implements`. One lemma per edit of the vector
  (`InsertionKeepsLayout`, `ReplaceDataReplaces`, `RemoveDataDeletes`,
  `EmptiedClears`, `SortReorders`, `ReverseReorders`, `NewArrayIsEmpty`) shows
  that it keeps the layout and is an edit of the sequence; `ClientStep`, `BeginStep`
  and `LoopStep` go through the actions. `JoinedRange` and `PushedRange` say what
  becomes of the free list.
* `CountsAlwaysAgree`: `CountsMembers`. Every edit is `Balanced`: it changes the count of a
  datum by as much as it changes its places. `PlaceGone`, `PlaceTaken` and `PlacesMoved`
  say what an insertion or removal, a replacement and a permutation do to the number of
  places, for any sequence, and `InsertBalances` and its neighbours what each edit of
  the code does; when a call begins or returns the other array comes or goes at once.
* `AddingKeepsOrder`: `SortedStaysSorted`, from the choice of the place in `AddedInOrder`.
* `CallsAlwaysDoAsTheySay`: `CallsDoAsTheySay`, for programs that replace at a prefix only
  (`~ Anywhere`: `array_replace` shows what happens otherwise). The invariant `Progress` has
  one part per loop: what the edits so far have made of the array as it was
  (`Adding`, `Inserting`, `RemovingIndexes` and so on), and that the indexes which are left
  are in bounds for the array as it is now. That each index set is in increasing
  order is what makes it hold: an insertion opens a place behind those that were filled
  (`OneComes`), and behind the last removed index each place has moved by the number of
  removals. For removals a witness goes along, the map `p` of `Keeps` from the places now to the
  places then (`OneGoes`). For `removeIn`, `NextIsMatched` says that the first
  equal datum which is still there is the next that `Matched` counts. Where an
  induction over places was needed it is an argument by the least or greatest place
  (`LeastNumber`, `GreatestPlace`), from the well-foundedness of the numbers.

`HashTableProofs` proves of `HashTable`, for any keys, values, hash function, tables that are
passed and least and greatest numbers of chains (`KeyAssumption`, `CountAssumption`,
`ArgumentAssumption`, `KindAssumption`: among other things that `NULL` is no key, the least number
of chains is not 0, and the copies a dictionary makes of its keys are none of its values):

* `TypesAreKept`, `EntriesHoldReferences`, `TablesAreEqualByContents`: `TypeOK`, `HoldsReferences`
  and `EqualByContents`; `TableImplementsMap`: `Implements`. The inductive invariant is `TableIsRight`.
  Its first part, `Right`, speaks of the pool of cells (`Pool`: those in use and those on the free
  list are all, none is both, no key is in two, the count is right) and says that sequences of cells
  exist, one per chain, that the pointers follow (`Chained`). These sequences are a witness: a step
  that changes the pointers is shown to be right by giving the sequences after it, which are those
  before with a cell put in front (`Entered`), one taken out (`Shorter`, `Detached`), or all of
  them dealt out anew (`RelinkAllIs`, for a resize). Its second part, `Referred`, is `HoldsReferences`
  with an allowance for what the caller holds while a call runs: each edit keeps it
  (`AddIs`, `RemoveDataIs`, `RemoveAllDataIs`, `CopiedIs`), each call begins and ends with
  none. That a datum may be passed which only the table refers to is why the reference of the new
  value must be taken before that of the old one is given back.
  The functions of the model that loop over cells are recursive; what they compute is shown by
  induction on a set of numbers (`InductionUpTo` of `Lists`), after a lemma that the recursive
  function is there (`ChainUnfolds`, `EntriesUnfold`, `AddAllUnfolds` and so on). One lemma per action
  (`AddStep` to `NextStep`) puts the parts together and maps the step to one of the map.
* `EverythingIsEnumerated`: `AllEnumerated`, of `CollectionsSpec`. For the enumerator of a table
  `EnumeratorIsRight` says which cells it has passed (`Behind`: all of the chains before its own, and
  of its own chain those up to its bucket) and that it has handed out their keys, once each (`Listed`);
  one step more goes to a cell that it has not passed or, if there is none, to the end
  (`AdvanceReaches`). It lives across calls that replace values or count members again, and these
  must leave every bucket where it is, hence must not resize the table: so `TableIsRight` has a third
  part, `NotDue`, that the size is one which `_WI_DICTIONARY_CHECK_OPTIMIZE` leaves alone. Every call
  ends with such a size, which is arithmetic about the code's capacities (`CapacityBounds`, by
  induction over the logarithm, and `SizeNotDue`), and a call whose keys are all there never leaves it
  (`Linked`, `Lasts`). For the index set the invariant is that it ascends (`Ascending`): the indexes
  that are not greater than a new one are those before its place (`NotGreater`).

`TimerProofs` proves of `Timer`, for any threads, timers, intervals and clock:

* `TypeCorrect`: `TypeOK`, of any program. Each call must be at a step that its
  function has (`IsWhole`), since the step that ends one part of a call begins the next.
* `ArrayAlwaysAgrees`, of a program with `RulesAreKept`: `ArrayAgrees`. The rules are
  those of section 4, for any timing and any intervals, the minimum too, so that `timer_test` is about
  a program of this kind. The lock does not keep the timer thread out: a check of
  `scheduled`, an insertion and a flag are steps of their own, and what keeps them
  together is who works on a timer. So the invariant says that no two users work on one timer, and
  the timer thread on that of a user only when it has overtaken the call behind the insertion
  (`CallsAreApart`), where the loop is when the timer thread is in a call
  (`LoopIsPlaced`), that the lock is held from the first read of `incallback` to the
  second, of users as long as nothing was overtaken (`LockIsTaken`), what a call at each of its steps has
  made of the array and the flag (`MembersAgree`), that a timer that is fired is out of the array until it is
  scheduled again (`FiredIsOut`, `StaysInside`), and that the timer slept for is still
  in the array with the date slept for (`TimesAgree`).
* `NeverFiresEarly`: `NeverEarly`, from the same invariant: after a time-out the thread
  fires its timer without a look at the date, so the date must not have moved.

`MemoryProofs` proves of `Memory`, for any threads, variables, instances, block size and
pools, of a program that is `Careful` (without that, `pool_drain` shows what happens) and
has fewer references to an instance than its count can hold:

* `CountsAlwaysAgree`, `NothingEverLeaks`: `CountsReferences` and `NothingLeaks`. A reference is
  an element of one of four sets (`OwnedAt`, `HeldBy`, `GivenTo`, `PooledAt`), and each step
  that counts gains or loses one element of one of them (`Gained`, `Lost`); the lemmas
  `RetainCounts` and `ReleaseCounts` say what that makes of the counts and the
  deallocations (`CountsAgree`, `DeallocsAgree`). The hard part is the drain, which changes
  what it goes through while releases it makes run deallocations on top of it:
  `CallsArePlaced` says what a drain has passed (pointers that stay behind in its
  block, freed blocks after it), `PoolsAreWhole` that nothing else of any pool is
  like that. An enumerator made by a dealloc must not go to a pool that is being
  drained, so `NoisyAreOwned` says that only variables refer to an instance with such a
  dealloc, and that it is then the outermost call; each makes its enumerator once, which
  bounds the counts. `ThreadsArePlaced` is what thread creation and exit need of the argument.
* `TypeCorrect`, `NeverAborts`: `TypeOK` and `NoAbort`, from the same invariant.

The bound `MaxReferences` is on what callers retain; the retain count is 16 bits and does wrap
in the model, so it is an assumption about programs, as in the code, that it does not.

`SocketProofs` proves of `Socket`, for any sockets, descriptors, objects, time-outs, lengths and
bounds, and any kernel and peers:

* `SocketsAlwaysOwn`: `OwnsWhatItHolds`. Of sockets and descriptors the invariant (`Core`) adds
  only what a kernel keeps (`Sound`: a free descriptor has no owner, nothing is taken that has
  not arrived, the stream of a new socket has not begun), and what it needs of each action is
  one of five lemmas: an edit of a descriptor that a socket has (`OwnEdit`), of one that no socket
  has (`StrangerEdit`), a socket that gets one (`NewSocket`), one that gives it back
  (`GivesBack`), and one that holds another object (`HoldingEdit`). The counts of objects are
  sums of three cardinalities; `Held` and `Recounted` say what a change of one socket makes of them,
  also when a certificate, a key and the ciphers are the same object.
* `ResultsAreAlwaysTrue`: `ResultsAreTrue`. `Progress` says how far a call has come, in the place
  where it waits: what it has read is the stream from where it began up to what the kernel has
  handed out, what it has written is the buffer up to `value`, a socket that is connecting is
  out of blocking mode and its call remembers the mode. A wait is no step of the call, so what
  `Progress` says must survive every step of the peer: `Later` is what a descriptor may have
  become meanwhile, and `ProgressStays` that this is harmless. `ErrorIsTold` is the part
  for calls that fail. `CallsAreSound` is the invariant of both.

`SystemProofs` has `WatchesAlwaysAgree`, `LogAlwaysKeepsLatest`, `DescriptorsAreAlwaysOwned`,
`TransfersAreAlwaysWhole`, `HostsAlwaysResolve`, `PatternsAlwaysMatch` and `UuidsAlwaysDiffer`.
`WatchesAlwaysAgree`: `WatchesAgree`, for any instances and
paths and any limits of queue and buffer. The invariant adds that descriptors are handed out in
increasing order (`Agrees`), so that a new watch is none that a dictionary still has;
and it puts for the cardinality of `WatchesAgree` that an instance has one place on the
list (`ListIsRight`).
`LogAlwaysKeepsLatest`: `LogKeepsLatest`, for any threads, limits and number of
messages. A callback may log, so a thread can have a call on top of another; only
callbacks are below the top (`OnlyCallbacksWait`), hence at most one call of a thread
has the lock. The process may end at any step, and the file be any. `FileIsBounded` relates the line
counter to the file, which differ by `spare`: the lines it began with, until they are cut, and
what could not be cut. The theorem does not bound `spare` by a constant: the code has no bound
for it either.
`DescriptorsAreAlwaysOwned`, `TransfersAreAlwaysWhole`: `DescriptorsAreOwned` and
`TransfersAreWhole`, for any table of descriptors with a number 0, any lengths, buffers, pipes
and data (`FilesAssumption`). The first needs of the rest that a task keeps the objects it was
given (`TaskHas`): a number that is closed here because the child got it belongs to
an object the task still has. That a new object gets none of those numbers is the rule by which
programs open (section 4). The second is about a call that is over, and the invariant says
what it has moved so far in terms of what the kernel has: of a file, from the offset at
the beginning on (`ReadIsThere`) or in front of the offset now (`WrittenIsThere`, where a
file for updating must end there); of a pipe, that a read which stopped early met an
end nobody can write to (`EndIsEnd`), which stays so, since only a launch hands the end on and none
runs during a call. `ReadingCounts` has the arithmetic of the loops: what the innermost
function was asked for, what it has, and what is left of the length. `MovedIs` says what one
system call makes of all that.

`HostsAlwaysResolve`: `HostsResolve`, for any hosts, any addresses of the two families the
system lists, lists of any length and any order that sorting leaves within a family. Of
constants `HostAssumption` asks that sizes are positive, 0 is a group of IPv6 and the empty
component between two colons is none (`AddressAssumption`), and that what is listed are addresses (the code passes
over other families before it looks at them). The invariant is only that the lists are lists
(`ListsAreRight`), for a host keeps no addresses; the work is in the functions. The loops over
what the system lists gather exactly the addresses of the set that is expected
(`InterfacesAreGathered`, `AnswerIsKept`, by induction over the list), and each order of them has
the same (`SortsKeep`). Addresses repeat or not by `_wi_address_is_equal`, which compares
their texts and ports: so `EqualAddresses` needs that different addresses have different
texts, which is that the text of an IPv6 address, with its longest run of zeros left out,
denotes the address and no other (`CompressedIsRead`).

`PatternsAlwaysMatch`: `PatternsMatch`, for any number and width of the octets, any groups, any
ports, and any patterns of the four forms, with masks that are texts or prefixes
(`AddressAssumption`). The invariant is only that the address is one of its family
(`AddressIsRight`), which needs that a text which is read denotes as many groups as an address
has (`DenotedIs`); the work is again in the functions. A netmask compares numbers, and what
it denotes is said of bits: `Uint32Bits` shows, by induction over the octets, that the number has
the bits of the text, and `PrefixMaskBits` that a difference of two powers of 2 has the first ones
set. For IPv6, `ExpandedIs` shows that the groups which the code puts in front are where the
"::" was, and `CompressedIsRead` that this is the address. A power is a recursive
function (`Exp2`), of which `Exp2Unfolds` gives the equations.

`UuidsAlwaysDiffer`: `UuidsDiffer`, for any threads, clock and number of
calls, as long as the clock went back less often than there are clock sequences
(`backs < Sequences`): the sequence is a number of 14 bits that each step back
increments, and once it has come round a UUID may come again. In the run it does
not come round. The invariant is about what each call has read under the lock and what it
makes of that: these readings are not later than the latest reading of the clock (`ReadingsArePast`) and
no two are the same (`ReadingsDiffer`), whether they are made into UUIDs already or still to
be; a UUID is the reading of its call unless it is one of the two exceptions, which the theorem
keeps, for the code makes equal UUIDs there.

`Lists` has the lemmas about `Min`, `Max`, `RemoveFirst` and `InsertAt` and about induction on
numbers that these proofs use.

Only model-checked are:

* liveness, of all components;
* regular expressions, the readers and writers of documents and what `Values` asks of them, which
  are recursive operators: what these compute takes an induction over data;
* `TreesAreTrue`: walks of trees are recursive operators.

## 7. Not modelled

Destructors of locks; naming, priorities and signals of threads; zombies, the
debugging dictionary and the context of pools; descriptions of instances; arrays
whose callbacks do not retain, comparators that sort or reach into the array, and callers
that edit an array while it is compared; line-wise reading of sockets and files; the
parameters and contents of certificates; the build of filesystem events for kqueue;
standard output and syslog of the log, messages of several lines and lines written in part; temporary paths, statistics and the current
directory.

Of values: the storage of strings (capacity and growth) and `wi-data.c`; reals with
fractions and their formats; dates but for RFC 3339; conversions of encodings; the
contents of regular expressions, for which two kinds stand; libxml2, which is external;
property list files; the characters of texts beyond a few that the code tells apart.

Ciphers, RSA and Diffie-Hellman wrap OpenSSL or CommonCrypto. Digests are rounds on words
of 32 and 64 bits: a model of them would be the code again, and TLC could check it on
nothing but known answers, as a test does. `wi-system.c`, `wi-process.c` and the locks but
the condition lock are one system call per function. Random numbers, byte orders,
assertions and most of `compat/` have no state and no choice to check. `PROJECT.json`
gives the reason for each component.
